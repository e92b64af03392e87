------------------------------- MODULE Batch -------------------------------
(***************************************************************************)
(* Connection::atomic and Connection::write on a local database:           *)
(* adapter/sqlite/mod.rs.  Several connections, of this process or of      *)
(* others, have the same file open; each runs one call at a time (a        *)
(* Connection is not Send).                                                *)
(*                                                                         *)
(* The database is a set of keys.  A statement is a verb and a key; which  *)
(* verbs callers use is a constant.  "ignore" is INSERT OR IGNORE,         *)
(* "upsert" an INSERT ... ON CONFLICT DO UPDATE, "bare" an INSERT into a   *)
(* WITHOUT ROWID table, "with" a WITH ... INSERT, "create" a CREATE (a     *)
(* name taken like a key).  Each but CREATE may have a RETURNING clause.   *)
(* The result of a write is its generated key and number of affected rows. *)
(* A batch is chosen as it runs, one operation at a time, except for what  *)
(* atomic() looks at first: whether it has an operation that mutates.      *)
(***************************************************************************)
EXTENDS Integers

CONSTANTS
  Connections,
  Keys,        \* a set of positive integers
  Verbs,       \* subset of AllVerbs
  MaxBatch,    \* bound: operations of a batch
  MaxFaults    \* bound: calls that fail though nothing is in the way

AllVerbs == {"select", "insert", "ignore", "upsert", "bare", "delete", "create", "with"}

ASSUME BatchAssumption ==
  /\ Keys \subseteq Nat \ {0}
  /\ Verbs \subseteq AllVerbs
  /\ MaxBatch \in Nat /\ MaxFaults \in Nat

VARIABLES
  readonly, \* connections opened with AccessMode::ReadOnly
  db,       \* committed contents of the file
  pc,       \* where each connection's call is
  mutates,  \* connections whose batch has an operation that is not a read
  txn,      \* connections inside a BEGIN IMMEDIATE transaction
  working,  \* what a connection inside a transaction sees
  results,  \* number of results of each batch so far
  rowid,    \* last_insert_rowid of each connection
  changes,  \* changes64 of each connection
  result,   \* the result the last step made, if it did: whose and of what
  outcome,  \* the return the last step made, if it did: whose, and "ok", "failed" or, outside
            \* a transaction, "unread": a query's rows could not be converted (Value error)
  faults

call == <<pc, mutates, results, outcome>>
file == <<readonly, db, txn, working>>
counters == <<rowid, changes>>
vars == <<call, result, file, counters, faults>>

Kinds == {"read", "write", "schema"}
Operations == [kind : Kinds, verb : Verbs, key : Keys]

-----------------------------------------------------------------------------
(* SQLite *)

View(c) == IF c \in txn THEN working[c] ELSE db
Modifies(s) == s.verb # "select"

(* RESERVED lock: one writer at a time, readers unaffected. *)
Unlocked(c) == txn \subseteq {c}

(* A statement fails as a whole; the transaction it is in goes on. *)
Refused(c, s) ==
  \/ Modifies(s) /\ (c \in readonly \/ ~Unlocked(c))
  \/ s.verb \in {"insert", "bare", "create", "with"} /\ s.key \in View(c)

Effect(s, contents) ==
  CASE s.verb = "select" -> contents
    [] s.verb = "delete" -> contents \ {s.key}
    [] OTHER -> contents \cup {s.key}

(* last_insert_rowid belongs to the connection: it stays what it was until *)
(* the next row is inserted into a table that has rowids.                  *)
AddsRow(c, s) ==
  s.verb \in {"insert", "ignore", "upsert", "with"} /\ s.key \notin View(c)
RowidAfter(c, s) == IF AddsRow(c, s) THEN s.key ELSE rowid[c]

(* changes64 is that of the last statement that inserts, deletes or        *)
(* updates: a query and a CREATE leave it alone.  An upsert that finds its *)
(* key updates that row.                                                   *)
RowsChanged(c, s) == IF s.verb # "upsert" /\ Effect(s, View(c)) = View(c) THEN 0 ELSE 1
ChangesAfter(c, s) == IF s.verb \in {"select", "create"} THEN changes[c] ELSE RowsChanged(c, s)

(* WriteResult: generated key and number of affected rows. *)
Write(key, affected) == [key |-> key, affected |-> affected]

StartsWithInsert(o) == o.verb \in {"insert", "ignore", "upsert", "bare"}
WriteResultBefore(c, o) == Write(IF StartsWithInsert(o) THEN rowid[c] ELSE 0, changes[c])

(* execute_write: the connection's last rowid, when the SQL starts with    *)
(* INSERT, no key if that is 0; and its changes64.                         *)
WriteResult(c, o) ==
  Write(IF StartsWithInsert(o) THEN RowidAfter(c, o) ELSE 0, ChangesAfter(c, o))

(* A result: what it says, and of its key whether it is that of the row    *)
(* the statement inserted.                                                 *)
ResultOf(c, o) ==
  LET said == IF o.kind = "read" THEN Write(0, 0) ELSE WriteResult(c, o)
  IN [connection |-> c,
      verb |-> IF o.kind = "read" THEN "query" ELSE o.verb,
      key |-> CASE said.key = 0 -> "none"
                [] AddsRow(c, o) /\ said.key = o.key -> "own"
                [] OTHER -> "stale",
      inserted |-> o.kind # "read" /\ AddsRow(c, o),
      affected |-> said.affected,
      changed |-> IF o.kind # "read" /\ o.verb # "create" THEN RowsChanged(c, o) ELSE 0]

EndTransaction(c) == txn' = txn \ {c} /\ working' = [working EXCEPT ![c] = {}]

(* A statement takes effect in the transaction, or at once without one. *)
Happens(c, s) ==
  /\ IF c \in txn
     THEN working' = [working EXCEPT ![c] = Effect(s, @)] /\ UNCHANGED db
     ELSE db' = Effect(s, db) /\ UNCHANGED working
  /\ rowid' = [rowid EXCEPT ![c] = RowidAfter(c, s)]
  /\ changes' = [changes EXCEPT ![c] = ChangesAfter(c, s)]

Perform(c, s) == Happens(c, s) /\ result' = ResultOf(c, s)

(* query_rows() converts the cells of a row after the step that returned   *)
(* it, and a statement with RETURNING makes its changes in its first step. *)
(* A cell that does not convert (a non-finite REAL, text that is not       *)
(* UTF-8) is an error, and what the statement did stays.                   *)
PerformUnread(c, s) ==
  /\ s.kind = "read" /\ s.verb # "create"
  /\ Happens(c, s) /\ result' = <<>>

Errors == {"failed", "unread"}

(* A failed statement may have set changes64 to 0. *)
Failed(c) ==
  /\ changes' \in {changes, [changes EXCEPT ![c] = 0]}
  /\ result' = <<>> /\ UNCHANGED rowid
NoResult == result' = <<>> /\ UNCHANGED counters

Fault == faults < MaxFaults /\ faults' = faults + 1
NoFault == UNCHANGED faults

-----------------------------------------------------------------------------
Init ==
  /\ readonly \in SUBSET Connections
  /\ db \in SUBSET Keys
  /\ pc = [c \in Connections |-> "idle"]
  /\ mutates = {} /\ txn = {}
  /\ working = [c \in Connections |-> {}]
  /\ results = [c \in Connections |-> 0]
  /\ rowid = [c \in Connections |-> 0]
  /\ changes = [c \in Connections |-> 0]
  /\ result = <<>> /\ outcome = <<>>
  /\ faults = 0

Continue == outcome' = <<>>
GoTo(c, phase) == pc' = [pc EXCEPT ![c] = phase] /\ Continue /\ UNCHANGED <<mutates, results>>
Return(c, how) ==
  /\ pc' = [pc EXCEPT ![c] = "idle"]
  /\ outcome' = <<c, how>>
  /\ mutates' = mutates \ {c}
  /\ results' = [results EXCEPT ![c] = 0]

(* read() and write(): one statement outside a transaction.  Only write()  *)
(* looks at the access mode; SQLite refuses the rest.                      *)
Single(c) ==
  /\ pc[c] = "idle"
  /\ \/ \E o \in Operations :
          /\ o.kind = "read" \/ (o.kind = "write" /\ c \notin readonly)
          /\ ~Refused(c, o) /\ NoFault
          /\ \/ Perform(c, o) /\ Return(c, "ok")
             \/ PerformUnread(c, o) /\ Return(c, "unread")
          /\ UNCHANGED <<readonly, txn>>
     \/ /\ IF c \in readonly \/ \E o \in Operations : Refused(c, o) THEN NoFault ELSE Fault
        /\ \E how \in Errors : Return(c, how)
        /\ Failed(c) /\ UNCHANGED file

(* atomic(): a batch with an operation that is not a read needs a writable *)
(* connection, and a transaction.                                          *)
StartBatch(c) ==
  /\ pc[c] = "idle"
  /\ \/ c \in readonly /\ Return(c, "failed")
     \/ /\ mutates' \in {mutates, mutates \cup ({c} \ readonly)}
        /\ pc' = [pc EXCEPT ![c] = IF c \in mutates' THEN "begin" ELSE "operate"]
        /\ Continue /\ UNCHANGED results
  /\ NoResult /\ UNCHANGED <<file, faults>>

BeginWithoutTimeout(c) ==
  /\ pc[c] = "begin" /\ Unlocked(c) /\ NoFault
  /\ txn' = txn \cup {c} /\ working' = [working EXCEPT ![c] = db] /\ GoTo(c, "operate")
  /\ NoResult /\ UNCHANGED <<readonly, db>>

BeginDeferred(c) ==
  /\ pc[c] = "begin" /\ NoFault
  /\ txn' = txn \cup {c} /\ working' = [working EXCEPT ![c] = db] /\ GoTo(c, "operate")
  /\ NoResult /\ UNCHANGED <<readonly, db>>

(* BEGIN IMMEDIATE: fails when the busy timeout ends before the lock. *)
BeginImmediate(c) ==
  /\ pc[c] = "begin"
  /\ \/ /\ Unlocked(c) /\ NoFault
        /\ txn' = txn \cup {c} /\ working' = [working EXCEPT ![c] = db]
        /\ GoTo(c, "operate")
     \/ /\ IF Unlocked(c) THEN Fault ELSE NoFault
        /\ Return(c, "failed") /\ UNCHANGED <<txn, working>>
  /\ NoResult /\ UNCHANGED <<readonly, db>>

(* What execute_operation accepts before it runs anything: a read starts   *)
(* with the word of a query, a schema operation with CREATE.               *)
IsQuery(o) == o.verb \in {"select", "with"}
Accepted(o) ==
  CASE o.kind = "read" -> IsQuery(o)
    [] o.kind = "schema" -> o.verb = "create"
    [] o.kind = "write" -> TRUE

CommitOnFailure(c, how) ==
  CASE c \in txn -> GoTo(c, "operate")
    [] c \in mutates \ txn -> GoTo(c, "rollback")
    [] OTHER -> Return(c, how)

(* The first operation that fails ends the batch; one of reads, which has  *)
(* no transaction, returns at once.                                        *)
AfterFailure(c, how) == IF c \in mutates THEN GoTo(c, "rollback") ELSE Return(c, how)

(* A batch that mutates nothing has reads only. *)
Possible(c) == {o \in Operations : c \in mutates \/ o.kind = "read"}
Runnable(c) == {o \in Possible(c) : Accepted(o) /\ ~Refused(c, o)}

(* One operation of the batch; SQLite may end the transaction by itself on *)
(* an I/O error.                                                           *)
RunOperation(c) ==
  /\ pc[c] = "operate" /\ results[c] < MaxBatch
  /\ \/ /\ NoFault /\ Continue /\ UNCHANGED <<pc, mutates, readonly, txn>>
        /\ results' = [results EXCEPT ![c] = @ + 1]
        /\ \E o \in Runnable(c) : Perform(c, o)
     \/ /\ NoFault /\ AfterFailure(c, "unread") /\ UNCHANGED <<readonly, txn>>
        /\ \E o \in Runnable(c) : PerformUnread(c, o)
     \/ /\ Possible(c) # Runnable(c) /\ NoFault
        /\ AfterFailure(c, "failed") /\ Failed(c) /\ UNCHANGED file
     \/ /\ Runnable(c) # {} /\ Fault
        /\ \E how \in Errors : AfterFailure(c, how)
        /\ Failed(c) /\ UNCHANGED <<readonly, db>>
        /\ EndTransaction(c) \/ UNCHANGED <<txn, working>>

(* COMMIT; its failure is followed by a ROLLBACK. *)
EndBatch(c) ==
  /\ pc[c] = "operate" /\ results[c] > 0
  /\ \/ /\ NoFault
        /\ db' = View(c) /\ EndTransaction(c)
        /\ Return(c, "ok")
     \/ c \in txn /\ Fault /\ GoTo(c, "rollback") /\ UNCHANGED <<db, txn, working>>
  /\ NoResult /\ UNCHANGED readonly

RollbackForgotten(c) ==
  /\ pc[c] = "rollback" /\ Return(c, "failed")
  /\ NoResult /\ UNCHANGED <<file, faults>>

(* ROLLBACK, where there was a BEGIN; its own result is ignored. *)
Rollback(c) ==
  /\ pc[c] = "rollback"
  /\ EndTransaction(c) /\ Return(c, "failed")
  /\ NoResult /\ UNCHANGED <<readonly, db, faults>>

Step(c) == BeginImmediate(c) \/ RunOperation(c) \/ EndBatch(c) \/ Rollback(c)

Next == \E c \in Connections : Single(c) \/ StartBatch(c) \/ Step(c)

(* A call that was made keeps executing; nobody has to make one. *)
Fairness == \A c \in Connections : WF_vars(Step(c))

Spec == Init /\ [][Next]_vars /\ Fairness

-----------------------------------------------------------------------------
(* Type invariant: at most one connection is inside a write transaction,   *)
(* and it is a writable one (BEGIN IMMEDIATE).                             *)
TypeOK ==
  /\ readonly \subseteq Connections
  /\ db \in SUBSET Keys
  /\ pc \in [Connections -> {"idle", "begin", "operate", "rollback"}]
  /\ mutates \subseteq Connections \ readonly
  /\ txn \subseteq Connections \ readonly /\ \A c, d \in txn : c = d
  /\ working \in [Connections -> SUBSET Keys]
  /\ \A c \in Connections :
       results[c] <= MaxBatch /\ rowid[c] \in Keys \cup {0} /\ changes[c] \in {0, 1}
  /\ outcome \in {<<>>} \cup (Connections \X ({"ok"} \cup Errors))
  /\ faults \in 0 .. MaxFaults

(* No call returns with its transaction open: the next batch of any        *)
(* connection finds the lock free (every exit of atomic() after BEGIN).    *)
NoTransactionLeft == \A c \in txn : c \in mutates /\ pc[c] \in {"operate", "rollback"}

(* Every call made returns, by the busy timeout if the lock is not free.   *)
CallsReturn == \A c \in Connections : pc[c] # "idle" ~> pc[c] = "idle"

(* How far a result speaks of its own statement.  The number of affected   *)
(* rows is the number of rows the statement changed, unless it is a CREATE *)
(* or a query run by write(), for which changes64 is an earlier one's.     *)
(* SQL that starts with INSERT and inserts a row of a table with rowids    *)
(* reports the key of that row; an INSERT, or INSERT OR IGNORE, into such  *)
(* a table that affects a row has inserted it.  This is less than          *)
(* contract.rs:133 says ("A generated key explicitly returned by a write,  *)
(* never an ambient handle"): the key of an earlier statement is reported  *)
(* when INSERT OR IGNORE inserts nothing, when an upsert updates, and for  *)
(* a table WITHOUT ROWID, in the last two cases with an affected row; and  *)
(* WITH ... INSERT reports no key.  Each statement is about one row of a   *)
(* table without triggers (execute_write).                                 *)
ResultsTrue ==
  result # <<>> =>
    /\ result.verb \notin {"query", "select", "create"} => result.affected = result.changed
    /\ result.verb # "with" /\ result.inserted => result.key = "own"
    /\ result.verb \in {"insert", "ignore"} /\ result.affected > 0 => result.key = "own"

(* Every batch that is not all reads takes effect as a whole, in one step, *)
(* or, when it fails, not at all, whatever other connections do.  So does  *)
(* a single statement, except that the outcome "unread" leaves open        *)
(* whether what it changed is there: the rows of an INSERT ... RETURNING   *)
(* are converted after it inserted (query_rows).  A batch of reads is as   *)
(* many calls as it has statements: what a WITH ... INSERT among them      *)
(* inserted stays when the batch fails, against src/README.md:24 ("a       *)
(* failed batch persists nothing").                                        *)
Promise == INSTANCE Store WITH
  contents <- db,
  open <- {c \in mutates : pc[c] # "idle"},
  change <- [c \in Connections |-> [add |-> View(c) \ db, remove |-> db \ View(c)]],
  outcome <- IF result # <<>> /\ result.connection \notin mutates
             THEN <<result.connection, "ok">> ELSE outcome
ImplementsStore == Promise!Spec
=============================================================================
