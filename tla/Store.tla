------------------------------- MODULE Store -------------------------------
(***************************************************************************)
(* What atomic(), write() and read() promise of a local database shared by *)
(* several connections: a call's changes take effect together, in one      *)
(* step, or not at all.  "ok" says that they did and "failed" that they    *)
(* did not.  A query outside a transaction may also answer "unread": its   *)
(* rows could not be handed over, which leaves open whether it changed     *)
(* anything.  Module Batch implements this.                                *)
(***************************************************************************)

CONSTANTS Connections, Keys

VARIABLES
  contents,  \* keys of the rows in the database
  open,      \* connections inside a call
  change,    \* what each call would change so far: keys it adds and removes
  outcome    \* the return the last step made, if it did: whose, "ok", "failed" or "unread"

vars == <<contents, open, change, outcome>>

Unchanging == [add |-> {}, remove |-> {}]
Changes == [add : SUBSET Keys, remove : SUBSET Keys]
Apply(e) == (contents \ e.remove) \cup e.add

Init ==
  /\ contents \in SUBSET Keys
  /\ open = {}
  /\ change = [c \in Connections |-> Unchanging]
  /\ outcome = <<>>

Begin(c) ==
  /\ outcome' = <<>> /\ c \notin open
  /\ open' = open \cup {c} /\ UNCHANGED <<contents, change>>

Revise(c) ==
  /\ outcome' = <<>> /\ c \in open /\ UNCHANGED <<contents, open>>
  /\ \E e \in Changes : change' = [change EXCEPT ![c] = e]

Finish(c, result) ==
  /\ outcome' = <<c, result>>
  /\ open' = open \ {c}
  /\ change' = [change EXCEPT ![c] = Unchanging]

(* The call succeeds: all it did so far happens now. *)
Commit(c) ==
  /\ c \in open /\ Finish(c, "ok")
  /\ contents' = Apply(change[c])

(* The call fails: nothing of it happens. *)
Abort(c) ==
  /\ c \in open /\ Finish(c, "failed")
  /\ UNCHANGED contents

(* A call of one step: it happens, or it does not, or nobody is told. *)
Single(c) ==
  /\ c \notin open
  /\ \/ Finish(c, "failed") /\ UNCHANGED contents
     \/ \E how \in {"ok", "unread"} : Finish(c, how) /\ \E e \in Changes : contents' = Apply(e)

(* Anything else a connection does, which changes nothing. *)
Other == outcome' = <<>> /\ UNCHANGED <<contents, open, change>>

Next ==
  Other \/ \E c \in Connections : Begin(c) \/ Revise(c) \/ Commit(c) \/ Abort(c) \/ Single(c)

Spec == Init /\ [][Next]_vars
=============================================================================
