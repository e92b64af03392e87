------------------------------ MODULE Custody ------------------------------
(***************************************************************************)
(* What dump-reload recovery promises about the original database, with    *)
(* no mention of staging, sidecars, renames or syncs: at each of the two   *)
(* public names (the active path and the archive path) there is at most    *)
(* one entry, the original is always at one of them, and each way the call *)
(* can return says where it is.  Module Recovery implements this.          *)
(***************************************************************************)

VARIABLES
  active,    \* what the active database path names
  archived,  \* what the caller's archive path names
  status     \* "running", how recover() returned, or "crashed"

vars == <<active, archived, status>>

Entries == {"original", "rebuilt", "intruder", "vacant"}
Statuses == {"running", "ok", "failed", "blocked", "crashed"}

(* The original can be read back under one of the two names.              *)
Held(a, b) == a = "original" \/ b = "original"

Init == active = "original" /\ archived = "vacant" /\ status = "running"

(* The original leaves the active name for the archive name, and back. *)
Archive ==
  /\ active = "original" /\ archived = "vacant"
  /\ active' = "vacant" /\ archived' = "original"
  /\ UNCHANGED status

Restore ==
  /\ active = "vacant" /\ archived = "original"
  /\ active' = "original" /\ archived' = "vacant"
  /\ UNCHANGED status

(* The replacement takes a vacant active name only once the original is    *)
(* archived, and gives it up again when it cannot be used.                 *)
Activate ==
  /\ active = "vacant" /\ archived = "original"
  /\ active' = "rebuilt"
  /\ UNCHANGED <<archived, status>>

Withdraw ==
  /\ active = "rebuilt"
  /\ active' = "vacant"
  /\ UNCHANGED <<archived, status>>

(* Another writer of the directory takes a vacant name; it keeps it. *)
Intrude ==
  /\ \/ active = "vacant" /\ active' = "intruder" /\ UNCHANGED archived
     \/ archived = "vacant" /\ archived' = "intruder" /\ UNCHANGED active
  /\ UNCHANGED status

(* recover() returns. *)
Return ==
  /\ \/ status' = "ok" /\ active = "rebuilt" /\ archived = "original"
     \/ status' = "failed" /\ active = "original"
     \/ status' = "blocked"
  /\ UNCHANGED <<active, archived>>

(* The process dies; the names survive, or after a power loss whatever the *)
(* file system had made durable, which never loses the original.           *)
Crash ==
  /\ status' = "crashed"
  /\ active' \in Entries /\ archived' \in Entries
  /\ Held(active', archived')

Next ==
  /\ status = "running"
  /\ Archive \/ Restore \/ Activate \/ Withdraw \/ Intrude \/ Return \/ Crash

Spec == Init /\ [][Next]_vars
=============================================================================
