---------------------------- MODULE RebuildProofs ----------------------------
(***************************************************************************)
(* Theorems about Rebuild, for any number of tables, any source and any    *)
(* failing calls: what a rebuild that succeeds holds.                      *)
(***************************************************************************)
EXTENDS Rebuild, FiniteSetTheorems, WellFoundedInduction, TLAPS

(* The tables that schema_objects lists, and the rows read of each table. *)
ListedTables == {t \in Tables : Listed(t)}
Kept(t) == IF Listed(t) THEN rows[t] ELSE {}

Phases == {"open", "tables", "rows", "insert", "sequence", "indexes", "triggers", "validate",
           "close", "done"}

TypeInv ==
  /\ pc \in Phases /\ outcome \in {"none", "ok", "failed"}
  /\ next \in Nat \ {0}
  /\ rows \in [Tables -> SUBSET Ids]
  /\ cursor \subseteq Ids
  /\ DOMAIN copied = Tables /\ copied = [t \in Tables |-> copied[t]]

(* Each phase leaves behind what the later ones rely on, as long as no     *)
(* call fails.                                                             *)
Reached(phases) == pc \in phases \/ outcome = "ok"
TablesInv ==
  /\ pc = "open" => created = {}
  /\ pc = "tables" => next <= Count + 1 /\ created = {t \in ListedTables : t < next}
  /\ Reached({"rows", "insert", "sequence", "indexes", "triggers", "validate"}) =>
       created = ListedTables

(* The rows of the tables before the one in work, and of that one those    *)
(* the cursor has passed.                                                  *)
RowsInv ==
  /\ pc \in {"open", "tables"} => \A t \in Tables : copied[t] = {}
  /\ pc \in {"rows", "insert"} => \A t \in Tables :
       /\ t < next => copied[t] = Kept(t)
       /\ t > next \/ (t = next /\ pc = "rows") => copied[t] = {}
  /\ pc = "rows" => next <= Count + 1
  /\ pc = "insert" => next <= Count /\ copied[next] \cup cursor = Kept(next)
  /\ Reached({"sequence", "indexes", "triggers", "validate"}) =>
       \A t \in Tables : copied[t] = Kept(t)

(* No trigger is there while rows are copied; indexes and triggers are     *)
(* created from lists of their own.                                        *)
ObjectsInv ==
  /\ pc \in {"open", "tables", "rows", "insert", "sequence", "indexes"} => triggers = {}
  /\ Reached({"triggers", "validate"}) => indexes = indexed
  /\ Reached({"validate"}) => triggers = Audited

(* Success is decided by the last phase. *)
EndInv == outcome = "ok" => pc \in {"close", "done"}

RebuildInv == TypeInv /\ TablesInv /\ RowsInv /\ ObjectsInv /\ EndInv

-----------------------------------------------------------------------------
(* The cursor gives a row it still has. *)
LEMMA LeastIsThere ==
  ASSUME NEW S \in SUBSET Nat, S # {}
  PROVE  Least(S) \in S
<1>1. PICK i \in S : \A j \in S : ~(<<j, i>> \in OpToRel(<, Nat))
  BY NatLessThanWellFounded, WFMin, Zenon
<1>2. \A j \in S : i <= j
  <2> SUFFICES ASSUME NEW j \in S, j < i PROVE FALSE
    OBVIOUS
  <2> QED
    BY <1>1 DEF OpToRel
<1> QED
  BY <1>2 DEF Least

LEMMA Numbering == Count \in Nat /\ Tables = 1 .. Count /\ Ids \subseteq Nat
BY FS_CardinalityType, TablesAssumption, BoundsAssumption DEF Count

LEMMA InitRebuild == Init => RebuildInv
<1> SUFFICES ASSUME Init PROVE RebuildInv
  OBVIOUS
<1> USE DEF Init
<1>1. TypeInv
  BY DEF TypeInv, Phases
<1>2. TablesInv /\ ObjectsInv /\ EndInv
  BY DEF TablesInv, ObjectsInv, EndInv, Reached
<1>3. RowsInv
  BY DEF RowsInv, Reached
<1> QED
  BY <1>1, <1>2, <1>3 DEF RebuildInv

(* An error ends the phases that build. *)
LEMMA StopEnds ==
  RebuildInv /\ Stop /\ UNCHANGED <<source, cursor>> /\ copied' = copied => RebuildInv'
<1> SUFFICES ASSUME RebuildInv, Stop, UNCHANGED <<source, cursor>>, copied' = copied
             PROVE  RebuildInv'
  OBVIOUS
<1> QED
  BY DEF RebuildInv, TypeInv, Phases, TablesInv, RowsInv, ObjectsInv, EndInv, Reached,
         Stop, source

LEMMA StepRebuild == RebuildInv /\ [Next]_vars => RebuildInv'
<1> SUFFICES ASSUME RebuildInv, [Next]_vars PROVE RebuildInv'
  OBVIOUS
<1> USE Numbering DEF RebuildInv, source, NoFault, Fault
<1>1. CASE Open
  <2>1. CASE Enter("tables")
    <3>1. TablesInv'
      BY <1>1, <2>1 DEF Open, Enter, TablesInv, ListedTables, Reached, EndInv, SetEnforcing
    <3>2. TypeInv' /\ RowsInv' /\ ObjectsInv' /\ EndInv'
      BY <1>1, <2>1 DEF Open, Enter, TypeInv, Phases, RowsInv, ObjectsInv, EndInv,
         Reached, Kept,
                        Listed, Audited
    <3> QED
      BY <3>1, <3>2
  <2>2. CASE Stop
    BY <1>1, <2>2, StopEnds DEF Open, Stop
  <2> QED
    BY <1>1, <2>1, <2>2 DEF Open
<1>2. CASE CreateTable
  <2>1. CASE Continue /\ created' = created \cup {t \in {next} : Listed(t)}
    <3>1. TablesInv'
      BY <1>2, <2>1 DEF CreateTable, Continue, TypeInv, TablesInv, ListedTables, Listed,
         Reached,
                        EndInv
    <3>2. TypeInv' /\ RowsInv' /\ ObjectsInv' /\ EndInv'
      BY <1>2, <2>1 DEF CreateTable, Continue, TypeInv, Phases, RowsInv, ObjectsInv, EndInv,
                        Reached, Kept, Listed, Audited
    <3> QED
      BY <3>1, <3>2
  <2>2. CASE Stop
    BY <1>2, <2>2, StopEnds DEF CreateTable, Stop
  <2> QED
    BY <1>2, <2>1, <2>2 DEF CreateTable
<1>3. CASE EndTables
  <2> USE <1>3 DEF EndTables, Enter, rebuilt
  <2>1. TablesInv'
    BY DEF TypeInv, TablesInv, ListedTables, Listed, Reached, EndInv
  <2>2. RowsInv'
    BY DEF TypeInv, RowsInv, Kept, Listed, Reached, EndInv
  <2>3. TypeInv' /\ ObjectsInv' /\ EndInv'
    BY DEF TypeInv, Phases, ObjectsInv, EndInv, Reached, Audited
  <2> QED
    BY <2>1, <2>2, <2>3
<1>4. CASE SelectRows
  <2>1. CASE pc' = "insert" /\ cursor' = IF Listed(next) THEN rows[next] ELSE {}
    <3> USE <1>4, <2>1 DEF SelectRows, rebuilt
    <3>1. RowsInv'
      BY DEF TypeInv, RowsInv, Kept, Listed, Reached, EndInv, Stop
    <3>2. TypeInv' /\ TablesInv' /\ ObjectsInv' /\ EndInv'
      BY DEF TypeInv, Phases, TablesInv, ListedTables, Listed, ObjectsInv, EndInv, Reached,
             Audited, Stop
    <3> QED
      BY <3>1, <3>2
  <2>2. CASE Stop
    BY <1>4, <2>2, StopEnds DEF SelectRows, Stop, rebuilt
  <2> QED
    BY <1>4, <2>1, <2>2 DEF SelectRows
<1>5. CASE CopyRow
  <2>1. CASE InsertRow(next, Least(cursor)) /\ cursor' = cursor \ {Least(cursor)}
    <3> USE <1>5, <2>1 DEF CopyRow
    <3>1. Least(cursor) \in cursor /\ next \in Tables
      BY LeastIsThere DEF TypeInv, RowsInv
    <3>2. pc = "insert" /\ pc' = "insert" /\ next' = next /\ outcome' = outcome
      BY <3>1 DEF Stop, FailsUnless
    <3>3. \A t \in Tables :
            copied'[t] = IF t = next THEN copied[t] \cup {Least(cursor)} ELSE copied[t]
      BY <3>2 DEF InsertRow, ObjectsInv
    <3>4. TypeInv'
      BY <3>2 DEF TypeInv, InsertRow
    <3>5. RowsInv'
      BY <3>1, <3>2, <3>3 DEF TypeInv, RowsInv, Kept, Listed, Reached, EndInv
    <3>6. TablesInv' /\ ObjectsInv' /\ EndInv'
      BY <3>2 DEF TablesInv, ListedTables, Listed, ObjectsInv, EndInv, Reached, Audited
    <3> QED
      BY <3>4, <3>5, <3>6
  <2>2. CASE Stop /\ copied' = copied
    BY <1>5, <2>2, StopEnds DEF CopyRow, Stop
  <2> QED
    BY <1>5, <2>1, <2>2 DEF CopyRow
<1>6. CASE EndRows
  <2>1. UNCHANGED <<source, rebuilt>>
    BY <1>6 DEF EndRows
  <2>2. CASE pc = "insert" /\ cursor = {} /\ pc' = "rows" /\ next' = next + 1
             /\ UNCHANGED <<cursor, outcome>>
    <3>1. \A t \in Tables : t < next' <=> t < next \/ t = next
      BY <2>2 DEF TypeInv
    <3>2. RowsInv'
      BY <2>1, <2>2, <3>1 DEF rebuilt, TypeInv, RowsInv, Kept, Listed, Reached, EndInv
    <3>3. TypeInv' /\ TablesInv' /\ ObjectsInv' /\ EndInv'
      BY <2>1, <2>2 DEF rebuilt, TypeInv, Phases, TablesInv, ListedTables, Listed, ObjectsInv,
                        EndInv, Reached, Audited
    <3> QED
      BY <3>2, <3>3
  <2>3. CASE pc = "rows" /\ next > Count /\ Enter("sequence")
    <3>1. \A t \in Tables : t < next
      BY <2>3 DEF TypeInv
    <3>2. RowsInv'
      BY <2>1, <2>3, <3>1 DEF Enter, rebuilt, RowsInv, Kept, Listed, Reached, EndInv
    <3>3. TypeInv' /\ TablesInv' /\ ObjectsInv' /\ EndInv'
      BY <2>1, <2>3 DEF Enter, rebuilt, TypeInv, Phases, TablesInv, ListedTables, Listed,
                        ObjectsInv, EndInv, Reached, Audited
    <3> QED
      BY <3>2, <3>3
  <2> QED
    BY <1>6, <2>2, <2>3 DEF EndRows
<1>7. CASE CopySequence
  <2>1. CASE Enter("indexes")
    BY <1>7, <2>1 DEF CopySequence, Enter, TypeInv, Phases, TablesInv, ListedTables, Listed,
                      RowsInv, Kept, ObjectsInv, EndInv, Reached, Audited
  <2>2. CASE Stop
    BY <1>7, <2>2, StopEnds DEF CopySequence, Stop
  <2> QED
    BY <1>7, <2>1, <2>2 DEF CopySequence
<1>8. CASE CreateIndex
  <2>1. CASE UNCHANGED <<pc, next, cursor, outcome>>
    BY <1>8, <2>1 DEF CreateIndex, TypeInv, TablesInv, ListedTables, Listed, Enter, Stop,
                      RowsInv, Kept, ObjectsInv, EndInv, Reached, Audited
  <2>2. CASE Enter("triggers") /\ indexed = indexes /\ indexes' = indexes
    BY <1>8, <2>2 DEF CreateIndex, Enter, TypeInv, Phases, TablesInv, ListedTables, Listed,
                      RowsInv, Kept, ObjectsInv, EndInv, Reached, Audited
  <2>3. CASE Stop
    BY <1>8, <2>3, StopEnds DEF CreateIndex, Stop
  <2> QED
    BY <1>8, <2>1, <2>2, <2>3 DEF CreateIndex
<1>9. CASE CreateTrigger
  <2>1. CASE UNCHANGED <<pc, next, cursor, outcome>>
    BY <1>9, <2>1 DEF CreateTrigger, TypeInv, TablesInv, ListedTables, Listed, Enter, Stop,
                      RowsInv, Kept, ObjectsInv, EndInv, Reached, Audited
  <2>2. CASE Enter("validate") /\ Audited = triggers /\ triggers' = triggers
    BY <1>9, <2>2 DEF CreateTrigger, Enter, TypeInv, Phases, TablesInv, ListedTables, Listed,
                      RowsInv, Kept, ObjectsInv, EndInv, Reached, Audited
  <2>3. CASE Stop
    BY <1>9, <2>3, StopEnds DEF CreateTrigger, Stop
  <2> QED
    BY <1>9, <2>1, <2>2, <2>3 DEF CreateTrigger
<1>10. CASE Validate
  <2>1. CASE outcome' = "ok"
    BY <1>10, <2>1 DEF Validate, rebuilt, TypeInv, Phases, TablesInv, ListedTables,
       Listed, Stop,
                       RowsInv, Kept, ObjectsInv, EndInv, Reached, Audited
  <2>2. CASE Stop
    BY <1>10, <2>2, StopEnds DEF Validate, Stop, rebuilt
  <2> QED
    BY <1>10, <2>1, <2>2 DEF Validate
<1>11. CASE Close
  BY <1>11 DEF Close, rebuilt, TypeInv, Phases, TablesInv, ListedTables, Listed,
               RowsInv, Kept, ObjectsInv, EndInv, Reached, Audited
<1>12. CASE UNCHANGED vars
  BY <1>12 DEF vars, rebuilt, TypeInv, TablesInv, ListedTables, Listed,
               RowsInv, Kept, ObjectsInv, EndInv, Reached, Audited
<1> QED
  BY <1>1, <1>2, <1>3, <1>4, <1>5, <1>6, <1>7, <1>8, <1>9, <1>10, <1>11, <1>12
     DEF Next, RebuildDatabase

LEMMA RebuildHolds == Spec => []RebuildInv
BY InitRebuild, StepRebuild, PTL DEF Spec

(* A rebuild that succeeds holds what schema_objects lists and nothing     *)
(* else: the listed tables with all of their rows, every index and every   *)
(* trigger of the source, for any tables, rows, foreign keys and triggers, *)
(* whichever names are passed over.                                        *)
CopyOfListed ==
  pc = "done" /\ outcome = "ok" =>
    /\ created = ListedTables /\ copied = [t \in Tables |-> Kept(t)]
    /\ indexes = indexed /\ triggers = Audited

THEOREM ListedIsCopied == Spec => []CopyOfListed
<1>1. RebuildInv => CopyOfListed
  BY DEF RebuildInv, CopyOfListed, TypeInv, TablesInv, RowsInv, ObjectsInv, Reached
<1> QED
  BY <1>1, RebuildHolds, PTL

(* So it is the source's copy if no table has a name that is passed over   *)
(* (run rebuild_names has one): no row is lost to a foreign key, none is   *)
(* added by a trigger, and no object is left out.                          *)
THEOREM RebuildIsFaithful ==
  ASSUME LooseNames = {}
  PROVE  Spec => []Faithful
<1>1. RebuildInv => Faithful
  <2> SUFFICES ASSUME RebuildInv, pc = "done", outcome = "ok"
               PROVE  /\ created = Tables /\ copied = rows
                      /\ indexes = indexed /\ triggers = Audited
    BY DEF Faithful
  <2>1. ListedTables = Tables /\ \A t \in Tables : Kept(t) = rows[t]
    BY DEF ListedTables, Kept, Listed
  <2> QED
    BY <2>1 DEF RebuildInv, TypeInv, TablesInv, RowsInv, ObjectsInv, Reached
<1> QED
  BY <1>1, RebuildHolds, PTL

-----------------------------------------------------------------------------
(* What a rebuild needs to go on: foreign keys are not enforced once it is *)
(* open, and what an index, a trigger or a counter names is there.         *)
SourceInv ==
  /\ indexed \subseteq Tables /\ ambiguous \subseteq indexed /\ Autoincrement \subseteq Tables
  /\ triggers \subseteq Audited /\ indexes \subseteq indexed /\ faults \in Nat
BlamelessInv ==
  faults = 0 /\ ambiguous = {} =>
    /\ outcome # "failed"
    /\ pc # "open" => ~enforcing
    /\ pc \in {"close", "done"} => outcome = "ok"
CauseInv == SourceInv /\ BlamelessInv

LEMMA NoEntries == Autoincrement = {} => SourceEntries = <<>>
<1> SUFFICES ASSUME Autoincrement = {} PROVE SourceEntries = <<>>
  OBVIOUS
<1>1. {[table |-> t, high |-> counter[t]] : t \in {u \in Autoincrement : counter[u] > 0}} = {}
  OBVIOUS
<1>2. SetToSeq({}) = <<>>
  BY FS_EmptySet DEF SetToSeq, IsInjective
<1> QED
  BY <1>1, <1>2 DEF SourceEntries

LEMMA StepCause ==
  ASSUME LooseNames = {}
  PROVE  RebuildInv /\ CauseInv /\ [Next]_vars => CauseInv'
<1> SUFFICES ASSUME RebuildInv, CauseInv, [Next]_vars PROVE CauseInv'
  OBVIOUS
<1>1. SourceInv'
  BY DEF CauseInv, SourceInv, Next, RebuildDatabase, Open, CreateTable, EndTables, SelectRows,
         CopyRow, EndRows, CopySequence, CreateIndex, CreateTrigger, Validate, Close, source,
         rebuilt, vars, Autoincrement, Audited, Fault, NoFault, FailsUnless
<1> SUFFICES ASSUME faults' = 0, ambiguous' = {}
             PROVE  /\ outcome' # "failed"
                    /\ pc' # "open" => ~enforcing'
                    /\ pc' \in {"close", "done"} => outcome' = "ok"
  BY <1>1 DEF CauseInv, BlamelessInv
<1>2. ambiguous = {}
  BY DEF Next, RebuildDatabase, Open, CreateTable, EndTables, SelectRows, CopyRow, EndRows,
         CopySequence, CreateIndex, CreateTrigger, Validate, Close, source, vars
<1>3. faults = 0 /\ ~Fault
  BY DEF CauseInv, SourceInv, Next, RebuildDatabase, Open, CreateTable, EndTables, SelectRows,
         CopyRow, EndRows, CopySequence, CreateIndex, CreateTrigger, Validate, Close, vars,
         Fault, NoFault, FailsUnless
<1>4. /\ outcome # "failed"
      /\ pc # "open" => ~enforcing
      /\ pc \in {"close", "done"} => outcome = "ok"
  BY <1>2, <1>3 DEF CauseInv, BlamelessInv
<1>5. ListedTables = Tables
  BY DEF ListedTables, Listed
<1>6. CASE Open \/ CreateTable \/ EndTables \/ SelectRows \/ EndRows \/ Close
  BY <1>3, <1>4, <1>6 DEF Open, SetEnforcing, Enter, CreateTable, Continue, EndTables,
     SelectRows,
                          EndRows, Close, rebuilt
<1>7. CASE CopyRow
  <2>1. Accepts(next, Least(cursor))
    BY <1>4, <1>7 DEF CopyRow, Accepts
  <2> QED
    BY <1>3, <1>4, <1>7, <2>1 DEF CopyRow, FailsUnless
<1>8. CASE CopySequence
  <2>1. HasSequence
    BY <1>5, <1>8, NoEntries
       DEF CopySequence, HasSequence, RebuildInv, TablesInv, Reached, CauseInv, SourceInv
  <2> QED
    BY <1>3, <1>4, <1>8, <2>1 DEF CopySequence, FailsUnless, Enter
<1>9. CASE CreateIndex
  <2>1. \A t \in indexed : Indexable(t)
    BY <1>2, <1>5, <1>9
       DEF CreateIndex, Indexable, RebuildInv, TablesInv, Reached, CauseInv, SourceInv
  <2> QED
    BY <1>3, <1>4, <1>9, <2>1 DEF CreateIndex, FailsUnless, Enter
<1>10. CASE CreateTrigger
  <2>1. \A t \in Audited : t \in created
    BY <1>5, <1>10 DEF CreateTrigger, Audited, RebuildInv, TablesInv, Reached
  <2> QED
    BY <1>3, <1>4, <1>10, <2>1 DEF CreateTrigger, FailsUnless, Enter
<1>11. CASE Validate
  BY <1>3, <1>4, <1>11 DEF Validate, rebuilt
<1>12. CASE UNCHANGED vars
  BY <1>4, <1>12 DEF vars, rebuilt
<1> QED
  BY <1>6, <1>7, <1>8, <1>9, <1>10, <1>11, <1>12 DEF Next, RebuildDatabase

(* Nothing in a source makes its rebuild fail but damage: if a rebuild     *)
(* fails, a call failed by itself or the rows violate a UNIQUE index,      *)
(* whatever the foreign keys, the triggers and the counters are (the order *)
(* of the phases, and PRAGMA foreign_keys = OFF).  That it ends at all is  *)
(* left to the run.                                                        *)
FailureHasCause == pc = "done" => outcome = "ok" \/ faults > 0 \/ ambiguous # {}
THEOREM FailureIsCaused ==
  ASSUME LooseNames = {}
  PROVE  Spec => []FailureHasCause
<1>1. Init => CauseInv
  BY DEF Init, CauseInv, SourceInv, BlamelessInv, Autoincrement, Audited
<1>2. CauseInv => FailureHasCause
  BY DEF CauseInv, SourceInv, BlamelessInv, FailureHasCause
<1> QED
  BY <1>1, <1>2, RebuildHolds, StepCause, PTL DEF Spec
=============================================================================
