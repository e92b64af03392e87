------------------------------ MODULE Rebuild ------------------------------
(***************************************************************************)
(* rebuild_database of adapter/sqlite/recovery.rs: what Recovery takes as  *)
(* one step.  The source is read under BEGIN EXCLUSIVE, so it does not     *)
(* change; an empty database is given its tables, their rows, the          *)
(* AUTOINCREMENT sequence, then indexes and triggers, and is validated.    *)
(*                                                                         *)
(* A table is a number (its rank in the ORDER BY name of the query), a row *)
(* is its integer key.  What SQLite does on an insert (triggers fire,      *)
(* foreign keys are enforced, the sequence advances) is modelled, because  *)
(* the order of the phases is what keeps it from happening.                *)
(***************************************************************************)
EXTENDS Integers, Sequences, FiniteSets, SequencesExt

CONSTANTS
  Tables,     \* the user's tables: 1 .. n in the order of their names
  Ids,        \* integer keys of rows, positive
  LooseNames, \* tables whose name is "sqlite", one more character, anything
  MaxFaults   \* bound: failing statements and calls

ASSUME TablesAssumption == IsFiniteSet(Tables) /\ Tables = 1 .. Cardinality(Tables)
ASSUME BoundsAssumption ==
  /\ Ids \subseteq Nat \ {0} /\ LooseNames \subseteq Tables /\ MaxFaults \in Nat

VARIABLES
  \* the source, fixed during the call
  rows,       \* keys of each table
  counter,    \* AUTOINCREMENT tables -> highest key ever given out
  indexed,    \* tables with an explicit index
  ambiguous,  \* indexed tables whose rows violate the UNIQUE index: its
              \* damage let duplicates in
  audits,     \* table -> other table that its insert trigger writes to, or none
  parent,     \* table -> other table its foreign key names, or none
  \* the rebuilt database
  pc, next, cursor,
  created, copied, sequence, indexes, triggers, enforcing,
  outcome, faults

source == <<rows, counter, indexed, ambiguous, audits, parent>>
rebuilt == <<created, copied, sequence, indexes, triggers, enforcing>>
vars == <<source, pc, next, cursor, rebuilt, outcome, faults>>

None == 0
AuditRow == 0   \* the row a trigger adds to the table it writes to
Count == Cardinality(Tables)
Autoincrement == DOMAIN counter
Others == {f \in [Tables -> Tables \cup {None}] : \A t \in Tables : f[t] # t}

(* A source whose AUTOINCREMENT counters are at least the keys in use. *)
Init ==
  /\ rows \in [Tables -> SUBSET Ids]
  /\ \E auto \in SUBSET Tables : counter \in [auto -> Ids \cup {0}]
  /\ \A t \in Autoincrement : \A k \in rows[t] : k <= counter[t]
  /\ indexed \in SUBSET Tables /\ ambiguous \in SUBSET indexed
  /\ audits \in Others /\ parent \in Others
  /\ pc = "open" /\ next = 1 /\ cursor = {}
  /\ created = {} /\ copied = [t \in Tables |-> {}] /\ sequence = <<>>
  /\ indexes = {} /\ triggers = {} /\ enforcing = TRUE
  /\ outcome = "none" /\ faults = 0

-----------------------------------------------------------------------------
Fault == faults < MaxFaults /\ faults' = faults + 1
NoFault == UNCHANGED faults
FailsUnless(condition) == Fault \/ (NoFault /\ ~condition)

(* An error ends the rebuild; the connection is closed all the same. *)
Stop == pc' = "close" /\ outcome' = "failed" /\ UNCHANGED <<next, cursor>>
Enter(phase) == pc' = phase /\ next' = 1 /\ UNCHANGED <<cursor, outcome>>
Continue == UNCHANGED <<pc, cursor, outcome>> /\ next' = next + 1

(* schema_objects: name NOT LIKE 'sqlite_%', where _ is any character. *)
Listed(t) == t \notin LooseNames

Least(S) == CHOOSE i \in S : \A j \in S : i <= j

(* What an insert does: it is refused while foreign keys are enforced and  *)
(* the parent row is missing; the AUTOINCREMENT entry of the table, the    *)
(* first one if there are several, is raised; the insert trigger writes.   *)
Accepts(t, id) ==
  enforcing /\ parent[t] # None => id \in copied[parent[t]]
Entries(t) == {i \in DOMAIN sequence : sequence[i].table = t}
Raise(t, id) ==
  IF t \notin Autoincrement THEN sequence
  ELSE IF Entries(t) = {} THEN Append(sequence, [table |-> t, high |-> id])
  ELSE [sequence EXCEPT ![Least(Entries(t))].high = IF @ < id THEN id ELSE @]
InsertRow(t, id) ==
  /\ copied' = [u \in Tables |->
       copied[u] \cup (IF u = t THEN {id} ELSE {})
                 \cup (IF t \in triggers /\ u = audits[t] THEN {AuditRow} ELSE {})]
  /\ sequence' = Raise(t, id)

EnforceWhileCopying == enforcing' = TRUE

(* configure_connection enforces foreign keys; PRAGMA foreign_keys = OFF. *)
SetEnforcing == enforcing' = FALSE

Open ==
  /\ pc = "open"
  /\ \/ NoFault /\ SetEnforcing /\ Enter("tables")
     \/ Fault /\ Stop /\ UNCHANGED enforcing
  /\ UNCHANGED <<source, created, copied, sequence, indexes, triggers>>

CreateTable ==
  /\ pc = "tables" /\ next <= Count
  /\ \/ NoFault /\ created' = created \cup {t \in {next} : Listed(t)} /\ Continue
     \/ Fault /\ Listed(next) /\ Stop /\ UNCHANGED created
  /\ UNCHANGED <<source, copied, sequence, indexes, triggers, enforcing>>

EndTablesWithTriggers ==
  /\ pc = "tables" /\ next > Count /\ NoFault /\ Enter("rows")
  /\ triggers' = {t \in Tables : audits[t] # None}
  /\ UNCHANGED <<source, created, copied, sequence, indexes, enforcing>>

EndTables ==
  /\ pc = "tables" /\ next > Count /\ NoFault /\ Enter("rows")
  /\ UNCHANGED <<source, rebuilt>>

(* copy_table_rows: SELECT ... FROM t NOT INDEXED, then an INSERT per row. *)
SelectRows ==
  /\ pc = "rows" /\ next <= Count
  /\ \/ /\ NoFault
        /\ cursor' = IF Listed(next) THEN rows[next] ELSE {}
        /\ pc' = "insert" /\ UNCHANGED <<next, outcome>>
     \/ Fault /\ Listed(next) /\ Stop
  /\ UNCHANGED <<source, rebuilt>>

(* A row is not copied when the insert is refused, or when a value has no  *)
(* parameter form (a non-finite REAL, text that is not UTF-8).             *)
CopyRow ==
  /\ pc = "insert" /\ cursor # {}
  /\ \/ /\ NoFault /\ Accepts(next, Least(cursor))
        /\ InsertRow(next, Least(cursor))
        /\ cursor' = cursor \ {Least(cursor)} /\ UNCHANGED <<pc, next, outcome>>
     \/ /\ FailsUnless(Accepts(next, Least(cursor)))
        /\ Stop /\ UNCHANGED <<copied, sequence>>
  /\ UNCHANGED <<source, created, indexes, triggers, enforcing>>

EndRows ==
  /\ \/ pc = "insert" /\ cursor = {}
        /\ pc' = "rows" /\ next' = next + 1 /\ UNCHANGED <<cursor, outcome>>
     \/ pc = "rows" /\ next > Count /\ Enter("sequence")
  /\ NoFault /\ UNCHANGED <<source, rebuilt>>

(* The rows of the source's sqlite_sequence are inserted like any others:  *)
(* refused when no created table gave the new database that table.         *)
SourceEntries ==
  SetToSeq({[table |-> t, high |-> counter[t]] : t \in {u \in Autoincrement : counter[u] > 0}})
HasSequence == Autoincrement \cap created # {} \/ SourceEntries = <<>>
CopySequence ==
  /\ pc = "sequence"
  /\ \/ NoFault /\ HasSequence /\ sequence' = sequence \o SourceEntries /\ Enter("indexes")
     \/ FailsUnless(HasSequence) /\ Stop /\ UNCHANGED sequence
  /\ UNCHANGED <<source, created, copied, indexes, triggers, enforcing>>

(* An index needs its table, and rows that satisfy it. *)
Indexable(t) == t \in created /\ t \notin ambiguous
CreateIndex ==
  /\ pc = "indexes"
  /\ \/ \E t \in indexed \ indexes :
          \/ NoFault /\ Indexable(t) /\ indexes' = indexes \cup {t}
             /\ UNCHANGED <<pc, next, cursor, outcome>>
          \/ FailsUnless(Indexable(t)) /\ Stop /\ UNCHANGED indexes
     \/ indexed = indexes /\ NoFault /\ Enter("triggers") /\ UNCHANGED indexes
  /\ UNCHANGED <<source, created, copied, sequence, triggers, enforcing>>

Audited == {t \in Tables : audits[t] # None}
CreateTrigger ==
  /\ pc = "triggers"
  /\ \/ \E t \in Audited \ triggers :
          \/ NoFault /\ t \in created /\ triggers' = triggers \cup {t}
             /\ UNCHANGED <<pc, next, cursor, outcome>>
          \/ FailsUnless(t \in created) /\ Stop /\ UNCHANGED triggers
     \/ Audited = triggers /\ NoFault /\ Enter("validate") /\ UNCHANGED triggers
  /\ UNCHANGED <<source, created, copied, sequence, indexes, enforcing>>

(* user_version, application_id, journal mode and integrity_check: none of *)
(* them compares the new database with the source.                         *)
Validate ==
  /\ pc = "validate"
  /\ \/ NoFault /\ pc' = "close" /\ outcome' = "ok" /\ UNCHANGED <<next, cursor>>
     \/ Fault /\ Stop
  /\ UNCHANGED <<source, rebuilt>>

(* destination.close(): its error is reported when there is no other. *)
Close ==
  /\ pc = "close" /\ pc' = "done"
  /\ \/ NoFault /\ UNCHANGED outcome
     \/ Fault /\ outcome' = "failed"
  /\ UNCHANGED <<source, rebuilt, next, cursor>>

RebuildDatabase ==
  \/ Open \/ CreateTable \/ EndTables \/ SelectRows \/ CopyRow \/ EndRows
  \/ CopySequence \/ CreateIndex \/ CreateTrigger \/ Validate \/ Close

Next == RebuildDatabase \/ (pc = "done" /\ UNCHANGED vars)
Spec == Init /\ [][Next]_vars /\ WF_vars(RebuildDatabase)

-----------------------------------------------------------------------------
(* A rebuild that succeeds holds exactly the source's tables, rows,        *)
(* indexes and triggers: no row is added by a trigger of the source, none  *)
(* is lost to a foreign key or an object left out (the phases of           *)
(* rebuild_database, and what schema_objects lists).                       *)
Faithful ==
  pc = "done" /\ outcome = "ok" =>
    /\ created = Tables /\ copied = rows
    /\ indexes = indexed /\ triggers = Audited

(* A source without duplicates under a UNIQUE index is rebuilt, whatever   *)
(* its triggers, foreign keys and counters, unless a call fails: recovery  *)
(* is there for databases with damaged indexes.                            *)
SoundSourceRebuilt ==
  <>(pc = "done" /\ (outcome = "ok" \/ faults > 0 \/ ambiguous # {}))

(* A rebuild that succeeds never gives a key out again: the next key of an *)
(* AUTOINCREMENT table is above every key the source ever gave out         *)
(* ("restores ... `sqlite_sequence`", README.md:139).  The run             *)
(* MCRebuildSequence shows it does not.                                    *)
Counted(t) ==
  IF Entries(t) = {} THEN 0 ELSE sequence[Least(Entries(t))].high
KeysNotReused ==
  pc = "done" /\ outcome = "ok" => \A t \in Autoincrement : Counted(t) >= counter[t]
=============================================================================
