---------------------------- MODULE OnlineBackup ----------------------------
(***************************************************************************)
(* SqliteAdapter::backup: adapter/sqlite/mod.rs, backup_database,          *)
(* perform_backup and publish_temp_file.  Each call copies the live source *)
(* into a temporary file beside its destination, verifies and syncs it,    *)
(* and renames it onto the destination.  Calls on different connections    *)
(* run side by side, in one process or in several; meanwhile the source is *)
(* written and locked by other connections.                                *)
(*                                                                         *)
(* The source is the number of its last commit: a commit may change every  *)
(* chunk (the 64 pages of a backup step), so a copy is a consistent        *)
(* snapshot exactly when all its chunks come from the same commit.         *)
(***************************************************************************)
EXTENDS Integers, Directory

CONSTANTS
  Calls,
  Destinations,  \* paths callers name, all in one directory
  Chunks,        \* number of backup steps a copy takes
  MaxCommits,    \* bound: commits to the source
  Leftovers,     \* bound: kinds of names that may be in use at the start
  MaxFaults      \* bound: system and SQLite calls that fail by themselves

ASSUME BoundsAssumption ==
  /\ Chunks \in Nat \ {0}
  /\ MaxCommits \in Nat /\ MaxFaults \in Nat
  /\ Leftovers \subseteq {"destination", "wal", "shm", "journal"}

VARIABLES
  commits,   \* number of the last commit of the source
  blocked,   \* another connection keeps readers of the source out
  target,    \* destination of each call
  pc,        \* where each call is
  since,     \* last commit when the call started
  copied,    \* commit each chunk of the copy comes from
  cursor,    \* next chunk
  durable,   \* calls whose copy has been synced
  outcome,   \* how the call returned
  dir,       \* directory: name -> file
  images,    \* directories a power loss may leave
  faults

source == <<commits, blocked>>
names == <<dir, images>>
progress == <<since, copied, cursor, durable>>
vars == <<source, target, pc, progress, outcome, names, faults>>

Destination(d) == <<"destination", d>>
Sidecar(d, suffix) == <<suffix, d>>
Temporary(c) == <<"temporary", c>>
Public == {Destination(d) : d \in Destinations}
            \cup {Sidecar(d, s) : d \in Destinations, s \in {"wal", "shm", "journal"}}
Names == Public \cup {Temporary(c) : c \in Calls}

Prior == <<"prior", 0>>      \* a file from before all calls
Copy(c) == <<"copy", c>>
Files == {Empty, Prior} \cup {Copy(c) : c \in Calls}

Fault == faults < MaxFaults /\ faults' = faults + 1
NoFault == UNCHANGED faults

(* As in Recovery: a change not yet synced is in some of the directories a *)
(* power loss may leave and not in others.                                 *)
BindName(name, file) ==
  dir' = Bind(dir, name, file) /\ images' = images \cup {Bind(d, name, file) : d \in images}
UnbindName(name) ==
  dir' = Unbind(dir, name) /\ images' = images \cup {Unbind(d, name) : d \in images}
MoveEntry(from, to) ==
  dir' = Rename(dir, from, to) /\ images' = images \cup {Rename(d, from, to) : d \in images}
SyncDirectory == images' = {dir} /\ UNCHANGED dir

Init ==
  /\ target \in [Calls -> Destinations]
  /\ \E used \in {{}} \cup {{n} : n \in Leftovers \X Destinations} :
       dir = [n \in Names |-> IF n \in used THEN Prior ELSE Empty]
  /\ images = {dir}
  /\ commits = 0 /\ blocked = FALSE
  /\ pc = [c \in Calls |-> "idle"]
  /\ since = [c \in Calls |-> 0]
  /\ copied = [c \in Calls |-> [i \in 1 .. Chunks |-> 0]]
  /\ cursor = [c \in Calls |-> 1]
  /\ durable = {}
  /\ outcome = [c \in Calls |-> "none"]
  /\ faults = 0

GoTo(c, phase) == pc' = [pc EXCEPT ![c] = phase] /\ UNCHANGED outcome
Return(c, result) ==
  pc' = [pc EXCEPT ![c] = "done"] /\ outcome' = [outcome EXCEPT ![c] = result]
(* An error: the temporary file is removed first. *)
Fail(c, result) ==
  pc' = [pc EXCEPT ![c] = "discard"] /\ outcome' = [outcome EXCEPT ![c] = result]

-----------------------------------------------------------------------------
Unchecked(c) == TRUE

(* ensure_absent, three times: the destination and two of its sidecars. *)
Absent(c) ==
  /\ dir[Destination(target[c])] = Empty
  /\ \A s \in {"wal", "shm"} : dir[Sidecar(target[c], s)] = Empty

CheckDestination(c) ==
  /\ pc[c] = "idle"
  /\ since' = [since EXCEPT ![c] = commits]
  /\ \/ Absent(c) /\ NoFault /\ GoTo(c, "create")
     \/ /\ IF Absent(c) THEN Fault ELSE NoFault
        /\ Return(c, "failed")
  /\ UNCHANGED <<copied, cursor, durable, names>>

(* temporary_path creates the file under a name nobody has; then it is     *)
(* opened and the backup initialised.                                      *)
CreateTemporary(c) ==
  /\ pc[c] = "create"
  /\ \/ BindName(Temporary(c), Copy(c)) /\ NoFault /\ GoTo(c, "copy")
     \/ BindName(Temporary(c), Copy(c)) /\ Fault /\ Fail(c, "failed")
     \/ UNCHANGED names /\ Fault /\ Return(c, "failed")
  /\ UNCHANGED progress

(* sqlite3_backup_step copies the next chunk, or starts over when the      *)
(* source was written since the last step.                                 *)
NextChunk(c) ==
  IF cursor[c] > 1 /\ copied[c][cursor[c] - 1] # commits THEN 1 ELSE cursor[c]

CopyChunk(c) ==
  /\ ~blocked
  /\ copied' = [copied EXCEPT ![c][NextChunk(c)] = commits]
  /\ cursor' = [cursor EXCEPT ![c] = NextChunk(c) + 1]
  /\ GoTo(c, IF NextChunk(c) = Chunks THEN "verify" ELSE "copy")

WaitForever(c) == FALSE
DeadlineIgnored(c) ==
  blocked /\ NoFault /\ GoTo(c, "verify") /\ UNCHANGED <<copied, cursor>>

(* BUSY or LOCKED is retried until the deadline. *)
DeadlinePassed(c) ==
  blocked /\ NoFault /\ Fail(c, "failed") /\ UNCHANGED <<copied, cursor>>

PerformBackup(c) ==
  /\ pc[c] = "copy"
  /\ \/ CopyChunk(c) /\ NoFault
     \/ DeadlinePassed(c)
     \/ Fault /\ Fail(c, "failed") /\ UNCHANGED <<copied, cursor>>
  /\ UNCHANGED <<since, durable, names>>

(* verify_integrity of the copy, then close. *)
Verify(c) ==
  /\ pc[c] = "verify"
  /\ \/ NoFault /\ GoTo(c, "sync")
     \/ Fault /\ Fail(c, "failed")
  /\ UNCHANGED <<progress, names>>

(* sync_database_files: the file, then its directory. *)
SyncTemporary(c) ==
  /\ pc[c] = "sync"
  /\ \/ NoFault /\ durable' = durable \cup {c} /\ SyncDirectory /\ GoTo(c, "publish")
     \/ Fault /\ durable' \in {durable, durable \cup {c}} /\ UNCHANGED names /\ Fail(c, "failed")
  /\ UNCHANGED <<since, copied, cursor>>

(* publish_temp_file: rename replaces whatever the destination names now. *)
Publish(c) ==
  /\ pc[c] = "publish"
  /\ \/ NoFault /\ MoveEntry(Temporary(c), Destination(target[c])) /\ GoTo(c, "settle")
     \/ Fault /\ UNCHANGED names /\ Fail(c, "failed")
  /\ UNCHANGED progress

SyncDestination(c) ==
  /\ pc[c] = "settle"
  /\ \/ NoFault /\ SyncDirectory /\ GoTo(c, "report")
     \/ Fault /\ UNCHANGED names /\ GoTo(c, "withdraw")
  /\ UNCHANGED progress

NeverWithdrawn(c) ==
  pc[c] = "withdraw" /\ NoFault /\ Fail(c, "failed") /\ UNCHANGED <<progress, names>>

(* Its sync failed: rename the destination, whatever it names now, back.   *)
Withdraw(c) ==
  /\ pc[c] = "withdraw"
  /\ \/ /\ dir[Destination(target[c])] # Empty /\ NoFault
        /\ MoveEntry(Destination(target[c]), Temporary(c))
        /\ Fail(c, "failed")
     \/ /\ IF dir[Destination(target[c])] # Empty THEN Fault ELSE NoFault
        /\ UNCHANGED names /\ Fail(c, "unwithdrawn")
  /\ UNCHANGED progress

(* The size of the published file and the journal mode of the source; an   *)
(* error here is returned although the backup is published.                *)
Report(c) ==
  /\ pc[c] = "report"
  /\ \/ dir[Destination(target[c])] # Empty /\ NoFault /\ Return(c, "ok")
     \/ /\ IF dir[Destination(target[c])] # Empty THEN Fault ELSE NoFault
        /\ Fail(c, "unreported")
  /\ UNCHANGED <<progress, names>>

(* remove_file_if_exists; its result is ignored. *)
Discard(c) ==
  /\ pc[c] = "discard"
  /\ \/ UnbindName(Temporary(c)) /\ NoFault
     \/ UNCHANGED names /\ Fault
  /\ GoTo(c, "done")
  /\ UNCHANGED progress

Backup(c) ==
  /\ \/ CheckDestination(c) \/ CreateTemporary(c) \/ PerformBackup(c) \/ Verify(c)
     \/ SyncTemporary(c) \/ Publish(c) \/ SyncDestination(c) \/ Withdraw(c)
     \/ Report(c) \/ Discard(c)
  /\ UNCHANGED <<source, target>>

-----------------------------------------------------------------------------
(* The surroundings *)

Commit ==
  /\ ~blocked /\ commits < MaxCommits
  /\ commits' = commits + 1
  /\ UNCHANGED <<blocked, target, pc, progress, outcome, names, faults>>

(* Another connection takes its exclusive lock, or gives it up. *)
Block ==
  /\ blocked' = ~blocked
  /\ UNCHANGED <<commits, target, pc, progress, outcome, names, faults>>

(* The process of a call dies; a power loss is in images. *)
Crash(c) ==
  /\ pc[c] \notin {"idle", "done", "crashed"}
  /\ GoTo(c, "crashed")
  /\ UNCHANGED <<source, target, progress, names, faults>>

Next == (\E c \in Calls : Backup(c) \/ Crash(c)) \/ Commit \/ Block

(* A call that has started keeps executing.  No lock need ever be given up *)
(* and nobody has to write.                                                *)
Fairness == \A c \in Calls : WF_vars(pc[c] # "idle" /\ Backup(c))

Spec == Init /\ [][Next]_vars /\ Fairness

-----------------------------------------------------------------------------
(* At every moment, and after a power loss at that moment, a destination   *)
(* that names a copy names a whole one: synced, all chunks from one commit *)
(* of the source, none older than the call (backup_database publishes only *)
(* after backup, verification and sync).                                   *)
Snapshot(c) ==
  /\ c \in durable
  /\ \E n \in since[c] .. commits : \A i \in 1 .. Chunks : copied[c][i] = n
PublishedWhole ==
  \A d \in images, t \in Destinations, c \in Calls :
    d[Destination(t)] = Copy(c) => Snapshot(c)

(* No call touches a file that was there before it, under any name: it is  *)
(* a conflict (ensure_absent).                                             *)
PriorKept == [][\A n \in Names : dir[n] = Prior => dir'[n] = Prior]_vars

(* For a call whose destination no other call names: Ok means the backup   *)
(* is there and a power loss does not take it back; an error that is not   *)
(* recovery_rollback_failed, or one of the calls that only describe the    *)
(* result, means it is not there (publish_temp_file withdraws it).         *)
Alone(c) == \A b \in Calls \ {c} : target[b] # target[c]
ReturnsTruth ==
  \A c \in Calls : pc[c] = "done" /\ Alone(c) =>
    /\ outcome[c] = "ok" => \A d \in images : d[Destination(target[c])] = Copy(c)
    /\ outcome[c] = "failed" => dir[Destination(target[c])] # Copy(c)

(* A call ends, whoever keeps the source locked, if the source is not      *)
(* written for ever: perform_backup has a deadline for BUSY, none for      *)
(* starting over.                                                          *)
CallsEnd == \A c \in Calls : pc[c] # "idle" ~> pc[c] \in {"done", "crashed"}

(* A backup that was returned stays at its destination ("an operator never *)
(* loses a prior backup implicitly", INTERFACES.md:99).  The run           *)
(* MCBackupShared shows that two calls can both find the destination free. *)
BackupStays ==
  \A c \in Calls : outcome[c] = "ok" => dir[Destination(target[c])] = Copy(c)
=============================================================================
