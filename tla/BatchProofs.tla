----------------------------- MODULE BatchProofs -----------------------------
(***************************************************************************)
(* Theorems about Batch, for any connections, keys, verbs and bounds: no   *)
(* call leaves its transaction open, what a result says is about its       *)
(* statement, and the calls keep the promise of module Store.              *)
(***************************************************************************)
EXTENDS Batch, TLAPS

Phases == {"idle", "begin", "operate", "rollback"}

(* TypeOK, with the functions it leaves open. *)
Counted == results \in [Connections -> Nat]
Generated == rowid \in [Connections -> Keys \cup {0}] /\ changes \in [Connections -> {0, 1}]

(* A call that mutates has a transaction from its BEGIN until it returns   *)
(* or fails; no other call has one.                                        *)
Transacting ==
  /\ \A c \in Connections : pc[c] = "begin" => c \in mutates /\ c \notin txn
  /\ \A c \in Connections : pc[c] = "operate" /\ c \in mutates => c \in txn
  /\ NoTransactionLeft

BatchInv == TypeOK /\ Counted /\ Generated /\ Transacting

-----------------------------------------------------------------------------
(* What a statement does to the contents, the generated key and the number *)
(* of affected rows stays within their types.                              *)
LEMMA EffectType ==
  ASSUME NEW o \in Operations, NEW contents \in SUBSET Keys
  PROVE  Effect(o, contents) \in SUBSET Keys
BY DEF Effect, Operations

LEMMA ViewType == ASSUME TypeOK, NEW c \in Connections PROVE View(c) \in SUBSET Keys
BY DEF TypeOK, View

LEMMA HappensType ==
  ASSUME BatchInv, NEW c \in Connections, NEW o \in Operations, Happens(c, o)
  PROVE  /\ db' \in SUBSET Keys /\ working' \in [Connections -> SUBSET Keys]
         /\ Generated'
<1>1. Effect(o, db) \in SUBSET Keys /\ Effect(o, working[c]) \in SUBSET Keys
  BY EffectType DEF BatchInv, TypeOK
<1>2. /\ db' \in SUBSET Keys /\ working' \in [Connections -> SUBSET Keys]
  BY <1>1 DEF BatchInv, TypeOK, Happens
<1>3. RowidAfter(c, o) \in Keys \cup {0}
  BY DEF BatchInv, Generated, RowidAfter, Operations
<1>4. ChangesAfter(c, o) \in {0, 1}
  BY DEF BatchInv, Generated, ChangesAfter, RowsChanged
<1>5. Generated'
  BY <1>3, <1>4 DEF BatchInv, Generated, Happens
<1>6. QED
  BY <1>2, <1>5

LEMMA FailedType ==
  ASSUME BatchInv, NEW c \in Connections, Failed(c)
  PROVE  Generated'
BY DEF BatchInv, Generated, Failed

LEMMA InitBatch == Init => BatchInv
<1> SUFFICES ASSUME Init PROVE BatchInv
  OBVIOUS
<1> USE DEF Init
<1>1. Counted /\ Generated
  BY DEF Counted, Generated
<1>2. Transacting
  BY DEF Transacting, NoTransactionLeft
<1>3. TypeOK
  BY BatchAssumption DEF TypeOK
<1>4. QED
  BY <1>1, <1>2, <1>3 DEF BatchInv
-----------------------------------------------------------------------------
(* The steps of a call. *)
LEMMA SingleKeeps == ASSUME BatchInv, NEW c \in Connections, Single(c) PROVE BatchInv'
<1>1. /\ pc[c] = "idle" /\ c \notin txn
      /\ \E how \in {"ok", "failed", "unread"} : Return(c, how)
      /\ UNCHANGED <<readonly, txn>>
  BY DEF BatchInv, Transacting, NoTransactionLeft, Single, Errors, file
<1>2. db' \in SUBSET Keys /\ working' \in [Connections -> SUBSET Keys] /\ Generated'
  <2>1. ASSUME NEW o \in Operations, Happens(c, o)
        PROVE  db' \in SUBSET Keys /\ working' \in [Connections -> SUBSET Keys] /\ Generated'
    BY <2>1, HappensType
  <2>2. ASSUME Failed(c), UNCHANGED file
        PROVE  db' \in SUBSET Keys /\ working' \in [Connections -> SUBSET Keys] /\ Generated'
    BY <2>2, FailedType DEF BatchInv, TypeOK, file
  <2>3. QED
    BY <2>1, <2>2 DEF Single, Perform, PerformUnread
<1>3. faults' \in 0 .. MaxFaults
  BY BatchAssumption DEF BatchInv, TypeOK, Single, Fault, NoFault
<1>4. Counted' /\ results' = [results EXCEPT ![c] = 0]
  BY <1>1 DEF BatchInv, Counted, Return
<1>5. Transacting'
  BY <1>1 DEF BatchInv, TypeOK, Transacting, NoTransactionLeft, Return
<1>6. TypeOK'
  <2>1. \A d \in Connections :
          results'[d] <= MaxBatch /\ rowid'[d] \in Keys \cup {0} /\ changes'[d] \in {0, 1}
    BY <1>2, <1>4, BatchAssumption DEF BatchInv, TypeOK, Counted, Generated
  <2>2. /\ pc' \in [Connections -> Phases]
        /\ mutates' \subseteq mutates
        /\ outcome' \in Connections \X ({"ok"} \cup Errors)
    BY <1>1 DEF BatchInv, TypeOK, Return, Phases, Errors
  <2>3. QED
    BY <1>1, <1>2, <1>3, <2>1, <2>2 DEF BatchInv, TypeOK, Phases
<1>7. QED
  BY <1>2, <1>4, <1>5, <1>6 DEF BatchInv

(* The other steps change neither results of an operation nor contents of  *)
(* a type it could not be: what is left is the phase and the transaction.  *)
LEMMA StartBatchKeeps == ASSUME BatchInv, NEW c \in Connections, StartBatch(c) PROVE BatchInv'
<1> USE DEF BatchInv, NoResult, counters, file
<1>1. /\ pc[c] = "idle" /\ c \notin txn
      /\ UNCHANGED <<readonly, db, txn, working, faults, rowid, changes>>
  BY DEF Transacting, NoTransactionLeft, StartBatch
<1>2. CASE c \in readonly /\ Return(c, "failed")
  <2>1. Transacting' /\ Counted'
    BY <1>1, <1>2 DEF TypeOK, Counted, Transacting, NoTransactionLeft, Return
  <2>2. \A d \in Connections : results'[d] <= MaxBatch
    BY <1>1, <1>2, BatchAssumption DEF TypeOK, Counted, Return
  <2>3. /\ pc' \in [Connections -> Phases] /\ mutates' \subseteq mutates
        /\ outcome' \in Connections \X ({"ok"} \cup Errors)
    BY <1>2 DEF TypeOK, Return, Phases, Errors
  <2>4. QED
    BY <1>1, <2>1, <2>2, <2>3 DEF TypeOK, Generated, Phases
<1>3. CASE /\ mutates' \in {mutates, mutates \cup ({c} \ readonly)}
           /\ pc' = [pc EXCEPT ![c] = IF c \in mutates' THEN "begin" ELSE "operate"]
           /\ Continue /\ UNCHANGED results
  <2>1. Transacting' /\ Counted'
    BY <1>1, <1>3 DEF TypeOK, Counted, Transacting, NoTransactionLeft
  <2>2. /\ pc' \in [Connections -> Phases] /\ mutates' \subseteq Connections \ readonly
        /\ outcome' = <<>>
    BY <1>3 DEF TypeOK, Continue, Phases
  <2>3. QED
    BY <1>1, <1>3, <2>1, <2>2 DEF TypeOK, Generated, Phases
<1>4. QED
  BY <1>2, <1>3 DEF StartBatch

LEMMA BeginKeeps == ASSUME BatchInv, NEW c \in Connections, BeginImmediate(c) PROVE BatchInv'
<1> USE DEF BatchInv, NoResult, counters
<1>1. /\ pc[c] = "begin" /\ c \in mutates
      /\ UNCHANGED <<readonly, db, rowid, changes>>
  BY DEF Transacting, BeginImmediate
<1>2. faults' \in 0 .. MaxFaults
  BY BatchAssumption DEF TypeOK, BeginImmediate, Fault, NoFault
<1>3. CASE /\ Unlocked(c)
           /\ txn' = txn \cup {c} /\ working' = [working EXCEPT ![c] = db]
           /\ GoTo(c, "operate")
  <2>1. Transacting' /\ Counted'
    BY <1>1, <1>3 DEF TypeOK, Counted, Transacting, NoTransactionLeft, GoTo, Continue
  <2>2. txn' \subseteq Connections \ readonly /\ \A d, e \in txn' : d = e
    BY <1>1, <1>3 DEF TypeOK, Unlocked
  <2>3. /\ pc' \in [Connections -> Phases] /\ outcome' = <<>>
        /\ working' \in [Connections -> SUBSET Keys] /\ UNCHANGED <<mutates, results>>
    BY <1>3 DEF TypeOK, GoTo, Continue, Phases
  <2>4. QED
    BY <1>1, <1>2, <2>1, <2>2, <2>3 DEF TypeOK, Generated, Phases
<1>4. CASE Return(c, "failed") /\ UNCHANGED <<txn, working>>
  <2>1. Transacting' /\ Counted'
    BY <1>1, <1>4 DEF TypeOK, Counted, Transacting, NoTransactionLeft, Return
  <2>2. \A d \in Connections : results'[d] <= MaxBatch
    BY <1>1, <1>4, BatchAssumption DEF TypeOK, Counted, Return
  <2>3. /\ pc' \in [Connections -> Phases] /\ mutates' \subseteq mutates
        /\ outcome' \in Connections \X ({"ok"} \cup Errors)
    BY <1>4 DEF TypeOK, Return, Phases, Errors
  <2>4. QED
    BY <1>1, <1>2, <1>4, <2>1, <2>2, <2>3 DEF TypeOK, Generated, Phases
<1>5. QED
  BY <1>3, <1>4 DEF BeginImmediate
LEMMA RunOperationKeeps ==
  ASSUME BatchInv, NEW c \in Connections, RunOperation(c)
  PROVE  BatchInv'
<1>1. pc[c] = "operate" /\ results[c] < MaxBatch /\ results[c] \in Nat /\ UNCHANGED readonly
  BY DEF BatchInv, Counted, RunOperation, file
<1>2. faults' \in 0 .. MaxFaults
  BY BatchAssumption DEF BatchInv, TypeOK, RunOperation, Fault, NoFault
<1>3. ASSUME NEW o \in Runnable(c), Perform(c, o), UNCHANGED <<readonly, txn, pc, mutates>>,
             results' = [results EXCEPT ![c] = @ + 1], Continue
      PROVE  BatchInv'
  <2>1. db' \in SUBSET Keys /\ working' \in [Connections -> SUBSET Keys] /\ Generated'
    BY <1>3, HappensType DEF Runnable, Possible, Perform
  <2>2. Counted' /\ \A d \in Connections : results'[d] <= MaxBatch
    BY <1>1, <1>3, BatchAssumption DEF BatchInv, TypeOK, Counted
  <2>3. Transacting' /\ outcome' = <<>>
    BY <1>3 DEF BatchInv, Transacting, NoTransactionLeft, Continue
  <2>4. QED
    BY <1>2, <1>3, <2>1, <2>2, <2>3 DEF BatchInv, TypeOK, Generated
<1>4. ASSUME NEW how \in Errors, AfterFailure(c, how), Generated', db' \in SUBSET Keys,
             working' \in [Connections -> SUBSET Keys], txn' \in {txn, txn \ {c}}
      PROVE  BatchInv'
  <2>1. /\ c \in mutates => GoTo(c, "rollback")
        /\ c \notin mutates => Return(c, how) /\ c \notin txn /\ c \notin txn'
    BY <1>4 DEF AfterFailure, BatchInv, Transacting, NoTransactionLeft
  <2>2. /\ pc' \in [Connections -> Phases] /\ mutates' \subseteq mutates
        /\ outcome' \in {<<>>} \cup (Connections \X ({"ok"} \cup Errors))
    <3>1. CASE c \in mutates
      BY <2>1, <3>1 DEF BatchInv, TypeOK, Phases, GoTo, Continue
    <3>2. CASE c \notin mutates
      BY <2>1, <3>2 DEF BatchInv, TypeOK, Phases, Return
    <3>3. QED
      BY <3>1, <3>2
  <2>3. Counted' /\ \A d \in Connections : results'[d] <= MaxBatch
    <3>1. results' = results \/ results' = [results EXCEPT ![c] = 0]
      BY <2>1 DEF GoTo, Return
    <3>2. QED
      BY <3>1, BatchAssumption DEF BatchInv, TypeOK, Counted
  <2>4. Transacting'
    <3>1. CASE c \in mutates
      BY <1>4, <2>1, <3>1 DEF BatchInv, TypeOK, Transacting, NoTransactionLeft, GoTo
    <3>2. CASE c \notin mutates
      BY <1>4, <2>1, <3>2 DEF BatchInv, TypeOK, Transacting, NoTransactionLeft, Return
    <3>3. QED
      BY <3>1, <3>2
  <2>5. TypeOK'
    BY <1>1, <1>2, <1>4, <2>2, <2>3 DEF BatchInv, TypeOK, Generated, Phases
  <2>6. QED
    BY <1>4, <2>3, <2>4, <2>5 DEF BatchInv
<1>5. ASSUME NEW o \in Runnable(c), PerformUnread(c, o), AfterFailure(c, "unread"),
             UNCHANGED txn
      PROVE  BatchInv'
  <2>1. Generated' /\ db' \in SUBSET Keys /\ working' \in [Connections -> SUBSET Keys]
    BY <1>5, HappensType DEF Runnable, Possible, PerformUnread
  <2>2. QED
    BY <1>4, <1>5, <2>1 DEF Errors
<1>6. ASSUME NEW how \in Errors, AfterFailure(c, how), Failed(c), UNCHANGED db,
             EndTransaction(c) \/ UNCHANGED <<txn, working>>
      PROVE  BatchInv'
  <2>1. Generated'
    BY <1>6, FailedType
  <2>2. /\ txn' \in {txn, txn \ {c}} /\ working' \in [Connections -> SUBSET Keys]
        /\ db' \in SUBSET Keys
    BY <1>6 DEF BatchInv, TypeOK, EndTransaction
  <2>3. QED
    BY <1>4, <1>6, <2>1, <2>2
<1>7. QED
  BY <1>3, <1>5, <1>6 DEF RunOperation, Errors, file

LEMMA EndBatchKeeps == ASSUME BatchInv, NEW c \in Connections, EndBatch(c) PROVE BatchInv'
<1> USE DEF BatchInv, NoResult, counters
<1>1. pc[c] = "operate" /\ UNCHANGED <<readonly, rowid, changes>>
  BY DEF EndBatch
<1>2. faults' \in 0 .. MaxFaults
  BY BatchAssumption DEF TypeOK, EndBatch, Fault, NoFault
<1>3. CASE db' = View(c) /\ EndTransaction(c) /\ Return(c, "ok")
  <2>1. db' \in SUBSET Keys
    BY <1>3, ViewType
  <2>2. txn' = txn \ {c} /\ working' \in [Connections -> SUBSET Keys]
    BY <1>3 DEF TypeOK, EndTransaction
  <2>3. Transacting' /\ Counted'
    BY <1>1, <1>3, <2>2 DEF TypeOK, Counted, Transacting, NoTransactionLeft, Return
  <2>4. \A d \in Connections : results'[d] <= MaxBatch
    BY <1>1, <1>3, BatchAssumption DEF TypeOK, Counted, Return
  <2>5. /\ pc' \in [Connections -> Phases] /\ mutates' \subseteq mutates
        /\ outcome' \in Connections \X ({"ok"} \cup Errors)
    BY <1>3 DEF TypeOK, Return, Phases, Errors
  <2>6. QED
    BY <1>1, <1>2, <2>1, <2>2, <2>3, <2>4, <2>5 DEF TypeOK, Generated, Phases
<1>4. CASE GoTo(c, "rollback") /\ UNCHANGED <<db, txn, working>>
  <2>1. Transacting' /\ Counted'
    BY <1>1, <1>4 DEF TypeOK, Counted, Transacting, NoTransactionLeft, GoTo
  <2>2. pc' \in [Connections -> Phases] /\ outcome' = <<>> /\ UNCHANGED <<mutates, results>>
    BY <1>4 DEF TypeOK, GoTo, Continue, Phases
  <2>3. QED
    BY <1>1, <1>2, <1>4, <2>1, <2>2 DEF TypeOK, Generated, Phases
<1>5. QED
  BY <1>3, <1>4 DEF EndBatch

LEMMA RollbackKeeps == ASSUME BatchInv, NEW c \in Connections, Rollback(c) PROVE BatchInv'
<1> USE DEF BatchInv, NoResult, counters, Rollback
<1>1. pc[c] = "rollback" /\ UNCHANGED <<readonly, rowid, changes, db, faults>>
  OBVIOUS
<1>2. txn' = txn \ {c} /\ working' \in [Connections -> SUBSET Keys]
  BY DEF TypeOK, EndTransaction
<1>3. Transacting' /\ Counted'
  BY <1>1, <1>2 DEF TypeOK, Counted, Transacting, NoTransactionLeft, Return
<1>4. \A d \in Connections : results'[d] <= MaxBatch
  BY <1>1, BatchAssumption DEF TypeOK, Counted, Return
<1>5. /\ pc' \in [Connections -> Phases] /\ mutates' \subseteq mutates
      /\ outcome' \in Connections \X ({"ok"} \cup Errors)
  BY DEF TypeOK, Return, Phases, Errors
<1>6. QED
  BY <1>1, <1>2, <1>3, <1>4, <1>5 DEF TypeOK, Generated, Phases

-----------------------------------------------------------------------------
LEMMA StepBatch == BatchInv /\ [Next]_vars => BatchInv'
<1>1. ASSUME BatchInv, UNCHANGED vars PROVE BatchInv'
  BY <1>1 DEF vars, call, file, counters, BatchInv, TypeOK, Counted, Generated, Transacting,
              NoTransactionLeft
<1>2. ASSUME BatchInv, NEW c \in Connections, Single(c) \/ StartBatch(c) \/ Step(c)
      PROVE  BatchInv'
  BY <1>2, SingleKeeps, StartBatchKeeps, BeginKeeps, RunOperationKeeps, EndBatchKeeps,
     RollbackKeeps
  DEF Step
<1>3. QED
  BY <1>1, <1>2 DEF Next

LEMMA BatchInvHolds == Spec => []BatchInv
BY InitBatch, StepBatch, PTL DEF Spec

(* At most one connection is inside a write transaction, a writable one,   *)
(* for any number of connections that share the file.                      *)
THEOREM TypesHold == Spec => []TypeOK
<1>1. BatchInv => TypeOK
  BY DEF BatchInv
<1>2. QED
  BY <1>1, BatchInvHolds, PTL

(* No call returns with its transaction open, whichever of its operations, *)
(* its COMMIT or its ROLLBACK failed.                                      *)
THEOREM LockIsReturned == Spec => []NoTransactionLeft
<1>1. BatchInv => NoTransactionLeft
  BY DEF BatchInv, Transacting
<1>2. QED
  BY <1>1, BatchInvHolds, PTL
-----------------------------------------------------------------------------
(* The result of an operation that SQLite does not refuse.                 *)
LEMMA ResultOfTrue ==
  ASSUME NEW c \in Connections, NEW o \in Operations, ~Refused(c, o)
  PROVE  LET r == ResultOf(c, o)
         IN  /\ r.verb \notin {"query", "select", "create"} => r.affected = r.changed
             /\ r.verb # "with" /\ r.inserted => r.key = "own"
             /\ r.verb \in {"insert", "ignore"} /\ r.affected > 0 => r.key = "own"
<1> DEFINE r == ResultOf(c, o)
           said == IF o.kind = "read" THEN Write(0, 0) ELSE WriteResult(c, o)
<1>1. o.key # 0
  BY BatchAssumption DEF Operations
<1>2. /\ r.verb = (IF o.kind = "read" THEN "query" ELSE o.verb)
      /\ r.affected = said.affected
      /\ r.inserted = (o.kind # "read" /\ AddsRow(c, o))
      /\ r.key = (IF said.key = 0 THEN "none"
                  ELSE IF AddsRow(c, o) /\ said.key = o.key THEN "own" ELSE "stale")
      /\ r.changed = (IF o.kind # "read" /\ o.verb # "create" THEN RowsChanged(c, o) ELSE 0)
  BY <1>1 DEF ResultOf
<1>3. CASE o.kind = "read"
  BY <1>2, <1>3
<1>4. CASE o.kind # "read"
  <2>1. /\ said.key = (IF StartsWithInsert(o) THEN RowidAfter(c, o) ELSE 0)
        /\ said.affected = ChangesAfter(c, o)
    BY <1>4 DEF WriteResult, Write
  <2>2. AddsRow(c, o) => RowidAfter(c, o) = o.key
    BY DEF RowidAfter
  <2>3. r.verb \notin {"query", "select", "create"} => r.affected = r.changed
    BY <1>2, <1>4, <2>1 DEF ChangesAfter
  <2>4. AddsRow(c, o) /\ o.verb # "with" => r.key = "own"
    <3>1. AddsRow(c, o) /\ o.verb # "with" => StartsWithInsert(o)
      BY DEF AddsRow, StartsWithInsert
    <3>2. QED
      BY <1>1, <1>2, <2>1, <2>2, <3>1
  <2>5. ASSUME o.verb \in {"insert", "ignore"}, ChangesAfter(c, o) > 0 PROVE AddsRow(c, o)
    <3>1. Effect(o, View(c)) # View(c)
      BY <2>5 DEF ChangesAfter, RowsChanged
    <3>2. o.key \notin View(c)
      BY <2>5, <3>1 DEF Effect
    <3>3. QED
      BY <2>5, <3>2 DEF AddsRow
  <2>6. r.verb = o.verb /\ r.affected = ChangesAfter(c, o) /\ (r.inserted => AddsRow(c, o))
    BY <1>2, <1>4, <2>1
  <2>7. QED
    BY <2>3, <2>4, <2>5, <2>6
<1>5. QED
  BY <1>3, <1>4

(* A step makes the result of the operation it ran, or none. *)
LEMMA OnlyTheirResults ==
  ASSUME NEW c \in Connections, Single(c) \/ StartBatch(c) \/ Step(c)
  PROVE  \/ result' = <<>>
         \/ \E o \in Operations : ~Refused(c, o) /\ Perform(c, o) /\ result' = ResultOf(c, o)
<1>1. CASE Single(c)
  BY <1>1 DEF Single, Perform, PerformUnread, Failed
<1>2. CASE RunOperation(c)
  BY <1>2 DEF RunOperation, Perform, PerformUnread, Failed, Runnable, Possible
<1>3. CASE StartBatch(c) \/ BeginImmediate(c) \/ EndBatch(c) \/ Rollback(c)
  BY <1>3 DEF StartBatch, BeginImmediate, EndBatch, Rollback, NoResult
<1>4. QED
  BY <1>1, <1>2, <1>3 DEF Step

(* A result is about its own statement as far as ResultsTrue says: the     *)
(* count of affected rows is that of the rows it changed, and an INSERT of *)
(* a row with a rowid reports that rowid.  An INSERT that inserts no such  *)
(* row reports an earlier one (execute_write).                             *)
THEOREM ResultsAreTrue == Spec => []ResultsTrue
<1>1. Init => ResultsTrue
  BY DEF Init, ResultsTrue
<1>2. ASSUME ResultsTrue, [Next]_vars PROVE ResultsTrue'
  <2>1. ASSUME NEW c \in Connections, Single(c) \/ StartBatch(c) \/ Step(c) PROVE ResultsTrue'
    <3>1. CASE result' = <<>>
      BY <3>1 DEF ResultsTrue
    <3>2. ASSUME NEW o \in Operations, ~Refused(c, o), result' = ResultOf(c, o)
          PROVE  ResultsTrue'
      BY <3>2, ResultOfTrue DEF ResultsTrue
    <3>3. QED
      BY <2>1, <3>1, <3>2, OnlyTheirResults
  <2>2. CASE UNCHANGED vars
    BY <1>2, <2>2 DEF vars, ResultsTrue
  <2>3. QED
    BY <1>2, <2>1, <2>2 DEF Next
<1>3. QED
  BY <1>1, <1>2, PTL DEF Spec
-----------------------------------------------------------------------------
(* The promise of Store, step by step.  Only one connection has changes of *)
(* its own, and nobody commits while it has them.                          *)
Open == {c \in mutates : pc[c] # "idle"}
ChangeOf(c) == [add |-> View(c) \ db, remove |-> db \ View(c)]
Change == [c \in Connections |-> ChangeOf(c)]
Said == IF result # <<>> /\ result.connection \notin mutates
        THEN <<result.connection, "ok">> ELSE outcome

LEMMA ChangeType ==
  ASSUME TypeOK, NEW c \in Connections
  PROVE  ChangeOf(c) \in Promise!Changes
BY ViewType DEF ChangeOf, Promise!Changes, TypeOK

LEMMA NoChange == ASSUME NEW c, c \notin txn PROVE ChangeOf(c) = Promise!Unchanging
BY DEF ChangeOf, View, Promise!Unchanging

LEMMA Applied ==
  ASSUME TypeOK, NEW c \in Connections
  PROVE  (db \ ChangeOf(c).remove) \cup ChangeOf(c).add = View(c)
BY ViewType DEF ChangeOf, TypeOK

(* What changes for no connection but c. *)
LEMMA OthersUnchanged ==
  ASSUME BatchInv, NEW c \in Connections, Single(c) \/ StartBatch(c) \/ Step(c),
         NEW d \in Connections \ {c}
  PROVE  /\ ChangeOf(d)' = ChangeOf(d)
         /\ d \in Open' <=> d \in Open
<1>1. d \in Open' <=> d \in Open
  <2> USE DEF Open, Return, GoTo, BatchInv, TypeOK
  <2>1. CASE Single(c) \/ StartBatch(c)
    BY <2>1 DEF Single, StartBatch
  <2>2. CASE BeginImmediate(c) \/ RunOperation(c)
    BY <2>2 DEF BeginImmediate, RunOperation, AfterFailure
  <2>3. CASE EndBatch(c) \/ Rollback(c)
    BY <2>3 DEF EndBatch, Rollback
  <2>4. QED
    BY <2>1, <2>2, <2>3 DEF Step
<1>2. d \in txn' <=> d \in txn
  <2> USE DEF EndTransaction, file
  <2>1. CASE Single(c) \/ StartBatch(c)
    BY <2>1 DEF Single, StartBatch
  <2>2. CASE BeginImmediate(c) \/ RunOperation(c)
    BY <2>2 DEF BeginImmediate, RunOperation
  <2>3. CASE EndBatch(c) \/ Rollback(c)
    BY <2>3 DEF EndBatch, Rollback
  <2>4. QED
    BY <2>1, <2>2, <2>3 DEF Step
<1>3. ASSUME d \notin txn PROVE ChangeOf(d)' = ChangeOf(d)
  <2>1. View(d) = db /\ View(d)' = db'
    BY <1>2, <1>3 DEF View
  <2>2. db \ db = {} /\ db' \ db' = {}
    OBVIOUS
  <2>3. QED
    BY <2>1, <2>2 DEF ChangeOf
<1>4. ASSUME d \in txn PROVE ChangeOf(d)' = ChangeOf(d)
  <2>1. c \notin txn /\ ~Unlocked(c)
    BY <1>4 DEF BatchInv, TypeOK, Unlocked
  <2>2. ASSUME NEW o \in Operations, ~Refused(c, o), Happens(c, o)
        PROVE  UNCHANGED <<db, working>>
    <3>1. o.verb = "select"
      BY <2>1, <2>2 DEF Refused, Modifies
    <3>2. QED
      BY <2>1, <2>2, <3>1 DEF Happens, Effect
  <2>3. db' = db /\ working'[d] = working[d]
    <3> USE DEF EndTransaction, file, BatchInv, TypeOK
    <3>1. CASE Single(c)
      BY <2>2, <3>1 DEF Single, Perform, PerformUnread
    <3>2. CASE StartBatch(c)
      BY <3>2 DEF StartBatch
    <3>3. CASE BeginImmediate(c)
      BY <2>1, <3>3 DEF BeginImmediate
    <3>4. CASE RunOperation(c)
      BY <2>2, <3>4 DEF RunOperation, Runnable, Possible, Perform, PerformUnread
    <3>5. CASE EndBatch(c)
      BY <2>1, <3>5 DEF EndBatch, View
    <3>6. CASE Rollback(c)
      BY <3>6 DEF Rollback
    <3>7. QED
      BY <3>1, <3>2, <3>3, <3>4, <3>5, <3>6 DEF Step
  <2>4. QED
    <3>1. View(d)' = View(d)
      BY <1>2, <1>4, <2>3 DEF View
    <3>2. QED
      BY <2>3, <3>1 DEF ChangeOf
<1>5. QED
  BY <1>1, <1>3, <1>4

(* So that a step of c is described by what becomes of c. *)
LEMMA OnlyTheirChange ==
  ASSUME BatchInv, NEW c \in Connections, Single(c) \/ StartBatch(c) \/ Step(c)
  PROVE  /\ Change' = [Change EXCEPT ![c] = ChangeOf(c)']
         /\ c \in Open' => Open' = Open \cup {c}
         /\ c \notin Open' => Open' = Open \ {c}
<1>1. Change' = [Change EXCEPT ![c] = ChangeOf(c)']
  BY OthersUnchanged DEF Change
<1>2. Open \subseteq Connections /\ Open' \subseteq Connections
  <2>1. mutates \subseteq Connections /\ mutates' \subseteq Connections
    BY StepBatch DEF BatchInv, TypeOK, Next
  <2>2. QED
    BY <2>1 DEF Open
<1>3. QED
  BY <1>1, <1>2, OthersUnchanged
(* What the steps of Store are, read in Batch. *)
Finished(c, how) ==
  /\ Open' = Open \ {c} /\ Said' = <<c, how>>
  /\ Change' = [Change EXCEPT ![c] = Promise!Unchanging]

LEMMA PromiseOther ==
  ASSUME Said' = <<>>, UNCHANGED <<db, Open, Change>>
  PROVE  Promise!Next
<1>1. Promise!Other
  BY DEF Promise!Other, Said, Open, Change, ChangeOf
<1>2. QED
  BY <1>1 DEF Promise!Next

LEMMA PromiseBegin ==
  ASSUME NEW c \in Connections, c \notin Open, Open' = Open \cup {c}, Said' = <<>>,
         UNCHANGED <<db, Change>>
  PROVE  Promise!Next
<1>1. Promise!Begin(c)
  BY DEF Promise!Begin, Said, Open, Change, ChangeOf
<1>2. QED
  BY <1>1 DEF Promise!Next

LEMMA PromiseRevise ==
  ASSUME NEW c \in Connections, c \in Open, Said' = <<>>, UNCHANGED <<db, Open>>,
         NEW e \in Promise!Changes, Change' = [Change EXCEPT ![c] = e]
  PROVE  Promise!Next
<1>1. Promise!Revise(c)
  BY DEF Promise!Revise, Said, Open, Change, ChangeOf
<1>2. QED
  BY <1>1 DEF Promise!Next

LEMMA PromiseCommit ==
  ASSUME TypeOK, NEW c \in Connections, c \in Open, db' = View(c), Finished(c, "ok")
  PROVE  Promise!Next
<1>1. db' = (db \ Change[c].remove) \cup Change[c].add
  BY Applied DEF Change
<1>2. Promise!Finish(c, "ok")
  BY DEF Promise!Finish, Finished, Said, Open, Change, ChangeOf
<1>3. Promise!Commit(c)
  BY <1>1, <1>2 DEF Promise!Commit, Promise!Apply, Open, Change, ChangeOf
<1>4. QED
  BY <1>3 DEF Promise!Next

LEMMA PromiseAbort ==
  ASSUME NEW c \in Connections, c \in Open, UNCHANGED db, Finished(c, "failed")
  PROVE  Promise!Next
<1>1. Promise!Finish(c, "failed")
  BY DEF Promise!Finish, Finished, Said, Open, Change, ChangeOf
<1>2. Promise!Abort(c)
  BY <1>1 DEF Promise!Abort, Open
<1>3. QED
  BY <1>2 DEF Promise!Next

LEMMA PromiseSingle ==
  ASSUME TypeOK, NEW c \in Connections, c \notin Open, db' \in SUBSET Keys,
         \/ UNCHANGED db /\ Finished(c, "failed")
         \/ Finished(c, "ok") \/ Finished(c, "unread")
  PROVE  Promise!Next
<1>1. ASSUME NEW how, Finished(c, how) PROVE Promise!Finish(c, how)
  BY <1>1 DEF Promise!Finish, Finished, Said, Open, Change, ChangeOf
<1> DEFINE e == [add |-> db' \ db, remove |-> db \ db']
<1>2. e \in Promise!Changes /\ db' = (db \ e.remove) \cup e.add
  BY DEF TypeOK, Promise!Changes
<1>3. Promise!Single(c)
  BY <1>1, <1>2 DEF Promise!Single, Promise!Apply, Open
<1>4. QED
  BY <1>3 DEF Promise!Next

-----------------------------------------------------------------------------
(* What a step says, in the words of Store. *)
LEMMA SaysNothingElse ==
  /\ result' = <<>> => Said' = outcome'
  /\ \A c, o : result' = ResultOf(c, o) =>
       Said' = (IF c \notin mutates' THEN <<c, "ok">> ELSE outcome')
<1>1. result' = <<>> => Said' = outcome'
  BY DEF Said
<1>2. ASSUME NEW c, NEW o, result' = ResultOf(c, o)
      PROVE  Said' = (IF c \notin mutates' THEN <<c, "ok">> ELSE outcome')
  <2>1. result'.connection = c
    BY <1>2 DEF ResultOf
  <2>2. ResultOf(c, o) # <<>>
    <3>1. DOMAIN ResultOf(c, o) # {}
      BY DEF ResultOf
    <3>2. DOMAIN <<>> = {}
      OBVIOUS
    <3>3. QED
      BY <3>1, <3>2
  <2>3. QED
    BY <1>2, <2>1, <2>2 DEF Said
<1>3. QED
  BY <1>1, <1>2

(* A call returns: the connection is out of it and of its transaction. *)
LEMMA Returning ==
  ASSUME BatchInv, NEW c \in Connections, Single(c) \/ StartBatch(c) \/ Step(c),
         NEW how, Return(c, how), c \notin txn', Said' = <<c, how>>
  PROVE  Finished(c, how)
<1>1. c \notin Open'
  BY DEF Open, Return, BatchInv, TypeOK
<1>2. ChangeOf(c)' = Promise!Unchanging
  BY DEF ChangeOf, View, Promise!Unchanging
<1>3. QED
  BY <1>1, <1>2, OnlyTheirChange DEF Finished
-----------------------------------------------------------------------------
(* The steps.  A single statement happens at once or not at all. *)
LEMMA SinglePromised == ASSUME BatchInv, NEW c \in Connections, Single(c) PROVE Promise!Next
<1>1. pc[c] = "idle" /\ c \notin Open /\ c \notin txn'
  BY DEF Single, Open, file, BatchInv, Transacting, NoTransactionLeft
<1>2. TypeOK /\ db' \in SUBSET Keys
  BY SingleKeeps DEF BatchInv, TypeOK
<1>3. ASSUME NEW o \in Operations, Perform(c, o), Return(c, "ok") PROVE Promise!Next
  <2>1. Said' = <<c, "ok">>
    BY <1>3, SaysNothingElse DEF Perform, Return
  <2>2. Finished(c, "ok")
    BY <1>1, <1>3, <2>1, Returning
  <2>3. QED
    BY <1>1, <1>2, <2>2, PromiseSingle
<1>4. ASSUME result' = <<>>, Return(c, "unread") PROVE Promise!Next
  <2>1. Said' = <<c, "unread">>
    BY <1>4, SaysNothingElse DEF Return
  <2>2. Finished(c, "unread")
    BY <1>1, <1>4, <2>1, Returning
  <2>3. QED
    BY <1>1, <1>2, <2>2, PromiseSingle
<1>5. ASSUME Return(c, "failed"), Failed(c), UNCHANGED file PROVE Promise!Next
  <2>1. Said' = <<c, "failed">> /\ db' = db
    BY <1>5, SaysNothingElse DEF Failed, Return, file
  <2>2. Finished(c, "failed")
    BY <1>1, <1>5, <2>1, Returning
  <2>3. QED
    BY <1>1, <1>2, <2>1, <2>2, PromiseSingle
<1>6. QED
  BY <1>3, <1>4, <1>5 DEF Single, PerformUnread, Failed, Errors

(* A batch that mutates begins its call; one that does not is no call.     *)
LEMMA StartPromised == ASSUME BatchInv, NEW c \in Connections, StartBatch(c) PROVE Promise!Next
<1>1. /\ pc[c] = "idle" /\ c \notin Open /\ c \notin txn
      /\ UNCHANGED <<db, txn, working>> /\ result' = <<>>
  BY DEF StartBatch, Open, file, NoResult, BatchInv, Transacting, NoTransactionLeft
<1>2. ChangeOf(c)' = ChangeOf(c) /\ Change' = Change
  <2>1. ChangeOf(c)' = ChangeOf(c)
    BY <1>1 DEF ChangeOf, View
  <2>2. \A d \in Connections : ChangeOf(d)' = ChangeOf(d)
    BY <1>1 DEF ChangeOf, View
  <2>3. QED
    BY <2>1, <2>2 DEF Change
<1>3. CASE c \in readonly /\ Return(c, "failed")
  <2>1. Said' = <<c, "failed">>
    BY <1>1, <1>3, SaysNothingElse DEF Return
  <2>2. Finished(c, "failed")
    BY <1>1, <1>3, <2>1, Returning
  <2>3. QED
    BY <1>1, <2>2, PromiseSingle DEF BatchInv, TypeOK
<1>4. CASE /\ mutates' \in {mutates, mutates \cup ({c} \ readonly)}
           /\ pc' = [pc EXCEPT ![c] = IF c \in mutates' THEN "begin" ELSE "operate"]
           /\ Continue
  <2>1. Said' = <<>>
    BY <1>1, <1>4, SaysNothingElse DEF Continue
  <2>2. CASE c \in mutates'
    <3>1. pc'[c] = "begin"
      BY <1>4, <2>2 DEF BatchInv, TypeOK
    <3>2. c \in Open'
      BY <2>2, <3>1 DEF Open
    <3>3. Open' = Open \cup {c}
      BY <3>2, OnlyTheirChange
    <3>4. QED
      BY <1>1, <1>2, <2>1, <3>3, PromiseBegin
  <2>3. CASE c \notin mutates'
    <3>1. Open' = Open
      BY <1>1, <2>3, OnlyTheirChange DEF Open
    <3>2. QED
      BY <1>1, <1>2, <2>1, <3>1, PromiseOther
  <2>4. QED
    BY <2>2, <2>3
<1>5. QED
  BY <1>3, <1>4 DEF StartBatch

(* BEGIN IMMEDIATE shows the connection the contents as they are. *)
LEMMA BeginPromised ==
  ASSUME BatchInv, NEW c \in Connections, BeginImmediate(c)
  PROVE  Promise!Next
<1>1. /\ pc[c] = "begin" /\ c \in mutates /\ c \in Open /\ c \notin txn
      /\ db' = db /\ result' = <<>>
  BY DEF BeginImmediate, Open, NoResult, BatchInv, Transacting
<1>2. CASE working' = [working EXCEPT ![c] = db] /\ txn' = txn \cup {c} /\ GoTo(c, "operate")
  <2>1. Said' = <<>>
    BY <1>1, <1>2, SaysNothingElse DEF GoTo, Continue
  <2>2. Open' = Open
    <3>1. c \in Open'
      BY <1>1, <1>2 DEF Open, GoTo, BatchInv, TypeOK
    <3>2. QED
      BY <1>1, <3>1, OnlyTheirChange DEF Step
  <2>3. Change' = Change
    <3>1. View(c) = db /\ View(c)' = db'
      BY <1>1, <1>2 DEF View, BatchInv, TypeOK
    <3>2. ChangeOf(c)' = ChangeOf(c)
      BY <1>1, <3>1 DEF ChangeOf
    <3>3. QED
      BY <3>2, OnlyTheirChange DEF Change, Step
  <2>4. QED
    BY <1>1, <2>1, <2>2, <2>3, PromiseOther
<1>3. CASE Return(c, "failed") /\ UNCHANGED <<txn, working>>
  <2>1. Said' = <<c, "failed">>
    BY <1>1, <1>3, SaysNothingElse DEF Return
  <2>2. Finished(c, "failed")
    BY <1>1, <1>3, <2>1, Returning DEF Step
  <2>3. QED
    BY <1>1, <2>2, PromiseAbort
<1>4. QED
  BY <1>2, <1>3 DEF BeginImmediate
(* An operation of a batch revises what its call would change; a query of  *)
(* a batch of reads is a call of its own, also when it fails.              *)
LEMMA RunPromised == ASSUME BatchInv, NEW c \in Connections, RunOperation(c) PROVE Promise!Next
<1>1. pc[c] = "operate" /\ (c \in Open <=> c \in mutates) /\ (c \in mutates <=> c \in txn)
  BY DEF RunOperation, Open, BatchInv, Transacting, NoTransactionLeft
<1>2. TypeOK /\ TypeOK' /\ db' \in SUBSET Keys /\ ChangeOf(c)' \in Promise!Changes
  <2>1. TypeOK'
    BY RunOperationKeeps DEF BatchInv
  <2>2. ChangeOf(c)' \in Promise!Changes
    BY <2>1, ChangeType DEF ChangeOf, View, TypeOK, Promise!Changes
  <2>3. QED
    BY <2>1, <2>2 DEF BatchInv, TypeOK
<1>3. Change' = [Change EXCEPT ![c] = ChangeOf(c)']
  BY OnlyTheirChange DEF Step
<1>4. c \in mutates => UNCHANGED mutates /\ pc'[c] # "idle" /\ db' = db /\ Open' = Open
  <2>1. c \in mutates => UNCHANGED mutates /\ pc'[c] # "idle"
    BY <1>1 DEF RunOperation, AfterFailure, GoTo, BatchInv, TypeOK
  <2>2. c \in mutates => db' = db
    BY <1>1 DEF RunOperation, Perform, PerformUnread, Happens, file
  <2>3. c \in mutates => Open' = Open
    <3>1. c \in mutates => c \in Open'
      BY <2>1 DEF Open
    <3>2. QED
      BY <1>1, <3>1, OnlyTheirChange DEF Step
  <2>4. QED
    BY <2>1, <2>2, <2>3
<1>5. CASE c \in mutates
  <2>1. Said' = <<>>
    <3>1. outcome' = <<>>
      BY <1>5 DEF RunOperation, AfterFailure, GoTo, Continue
    <3>2. CASE result' = <<>>
      BY <3>1, <3>2, SaysNothingElse
    <3>3. ASSUME NEW o, result' = ResultOf(c, o) PROVE Said' = <<>>
      BY <1>4, <1>5, <3>1, <3>3, SaysNothingElse
    <3>4. QED
      BY <3>2, <3>3, OnlyTheirResults DEF Step
  <2>2. QED
    BY <1>1, <1>2, <1>3, <1>4, <1>5, <2>1, PromiseRevise
<1>6. CASE c \notin mutates
  <2>1. c \notin txn' /\ c \notin Open /\ c \notin mutates'
    BY <1>1, <1>6 DEF RunOperation, AfterFailure, Return, EndTransaction, file
  <2>2. ASSUME NEW o, Perform(c, o) PROVE Promise!Next
    <3>1. Said' = <<c, "ok">>
      BY <2>1, <2>2, SaysNothingElse DEF Perform
    <3>2. ChangeOf(c)' = Promise!Unchanging
      BY <2>1 DEF ChangeOf, View, Promise!Unchanging
    <3>3. c \notin Open'
      BY <2>1 DEF Open
    <3>4. Finished(c, "ok")
      BY <1>3, <3>1, <3>2, <3>3, OnlyTheirChange DEF Finished, Step
    <3>5. QED
      BY <1>2, <2>1, <3>4, PromiseSingle
  <2>3. ASSUME result' = <<>>, NEW how, Return(c, how),
               how = "unread" \/ (how = "failed" /\ UNCHANGED db)
        PROVE  Promise!Next
    <3>1. Said' = <<c, how>>
      BY <2>3, SaysNothingElse DEF Return
    <3>2. Finished(c, how)
      BY <2>1, <2>3, <3>1, Returning DEF Step
    <3>3. QED
      BY <1>2, <2>1, <2>3, <3>2, PromiseSingle
  <2>4. QED
    BY <1>6, <2>2, <2>3 DEF RunOperation, AfterFailure, PerformUnread, Failed, Errors, file
<1>7. QED
  BY <1>5, <1>6

(* COMMIT is where all of it happens. *)
LEMMA EndPromised == ASSUME BatchInv, NEW c \in Connections, EndBatch(c) PROVE Promise!Next
<1>1. /\ pc[c] = "operate" /\ (c \in Open <=> c \in mutates) /\ (c \in mutates <=> c \in txn)
      /\ result' = <<>>
  BY DEF EndBatch, Open, NoResult, BatchInv, Transacting, NoTransactionLeft
<1>2. CASE db' = View(c) /\ EndTransaction(c) /\ Return(c, "ok")
  <2>1. Said' = <<c, "ok">> /\ c \notin txn'
    BY <1>1, <1>2, SaysNothingElse DEF Return, EndTransaction
  <2>2. Finished(c, "ok")
    BY <1>2, <2>1, Returning DEF Step
  <2>3. CASE c \in Open
    BY <1>2, <2>2, <2>3, PromiseCommit DEF BatchInv
  <2>4. CASE c \notin Open
    BY <1>2, <2>2, <2>4, PromiseSingle, ViewType DEF BatchInv
  <2>5. QED
    BY <2>3, <2>4
<1>3. CASE c \in txn /\ GoTo(c, "rollback") /\ UNCHANGED <<db, txn, working>>
  <2>1. Said' = <<>>
    BY <1>1, <1>3, SaysNothingElse DEF GoTo, Continue
  <2>2. c \in Open' /\ ChangeOf(c)' = ChangeOf(c)
    BY <1>1, <1>3 DEF Open, GoTo, ChangeOf, View, BatchInv, TypeOK
  <2>3. Open' = Open /\ Change' = Change
    BY <1>1, <1>3, <2>2, OnlyTheirChange DEF Change, Step
  <2>4. QED
    BY <1>3, <2>1, <2>3, PromiseOther
<1>4. QED
  BY <1>2, <1>3 DEF EndBatch

LEMMA RollbackPromised == ASSUME BatchInv, NEW c \in Connections, Rollback(c) PROVE Promise!Next
<1>1. Return(c, "failed") /\ db' = db /\ c \notin txn' /\ Said' = <<c, "failed">>
  BY SaysNothingElse DEF Rollback, EndTransaction, NoResult, Return
<1>2. Finished(c, "failed")
  BY <1>1, Returning DEF Step
<1>3. CASE c \in Open
  BY <1>1, <1>2, <1>3, PromiseAbort
<1>4. CASE c \notin Open
  BY <1>1, <1>2, <1>4, PromiseSingle DEF BatchInv, TypeOK
<1>5. QED
  BY <1>3, <1>4

-----------------------------------------------------------------------------
LEMMA StutterPromised ==
  ASSUME UNCHANGED vars
  PROVE  UNCHANGED Promise!vars
BY DEF vars, call, file, counters, Promise!vars, View

(* atomic() and write() keep their promise for any number of connections:  *)
(* what a mutating call changes happens together, in one step, or not at   *)
(* all, as its outcome says; so it is with a single statement, except that *)
(* a query answered "unread" may or may not have taken effect.             *)
THEOREM PromiseKept == Spec => ImplementsStore
<1>1. Init => Promise!Init
  <2> SUFFICES ASSUME Init PROVE Promise!Init
    OBVIOUS
  <2>1. Open = {} /\ Said = <<>>
    BY DEF Init, Open, Said
  <2>2. Change = [c \in Connections |-> Promise!Unchanging]
    BY NoChange DEF Init, Change
  <2>3. QED
    BY <2>1, <2>2 DEF Init, Promise!Init, Open, Said, Change, ChangeOf
<1>2. BatchInv /\ [Next]_vars => [Promise!Next]_(Promise!vars)
  <2>1. ASSUME BatchInv, NEW c \in Connections, Single(c) \/ StartBatch(c) \/ Step(c)
        PROVE  Promise!Next
    BY <2>1, SinglePromised, StartPromised, BeginPromised, RunPromised, EndPromised,
       RollbackPromised
    DEF Step
  <2>2. QED
    BY <2>1, StutterPromised DEF Next
<1>3. QED
  BY <1>1, <1>2, BatchInvHolds, PTL DEF Spec, ImplementsStore, Promise!Spec
=============================================================================
