------------------------------ MODULE Delivery ------------------------------
(***************************************************************************)
(* What the outcome of a remote call promises: "done" and "refused" are    *)
(* final, "unknown" leaves open whether the work happens, now or later;    *)
(* and work happens at most once, as a whole.  Transport implements this.  *)
(***************************************************************************)
EXTENDS Naturals

CONSTANTS
  Attempts,  \* calls made for the same work
  Positions  \* positions of the operations of the work

VARIABLES
  work,    \* how often the work as a whole performs each operation
  stored,  \* how often each attempt has had each operation's changes stored
  told     \* what the caller of each attempt was told

vars == <<work, stored, told>>

Nothing == [i \in Positions |-> 0]

Init ==
  /\ work \in [Positions -> {0, 1}]
  /\ stored = [a \in Attempts |-> Nothing]
  /\ told = [a \in Attempts |-> "waiting"]

(* The work of an attempt happens, possibly long after its caller gave up. *)
Store(a) ==
  /\ told[a] \in {"waiting", "unknown"}
  /\ stored[a] = Nothing
  /\ stored' = [stored EXCEPT ![a] = work]
  /\ UNCHANGED <<work, told>>

Tell(a, result) ==
  /\ told[a] = "waiting"
  /\ result = "done" => stored[a] = work
  /\ result = "refused" => stored[a] = Nothing
  /\ told' = [told EXCEPT ![a] = result]
  /\ UNCHANGED <<work, stored>>

Next ==
  \E a \in Attempts : Store(a) \/ \E r \in {"done", "refused", "unknown"} : Tell(a, r)

Spec == Init /\ [][Next]_vars
=============================================================================
