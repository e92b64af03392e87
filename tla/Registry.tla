------------------------------ MODULE Registry ------------------------------
(***************************************************************************)
(* Opening, dropping and recovering connections of one process to one      *)
(* database path: adapter/sqlite/mod.rs and, for what a recovery does to   *)
(* the path, adapter/sqlite/recovery.rs.  Each connection belongs to a     *)
(* thread of its own.  What they share is the registry (how many           *)
(* connections each path has), the directory entry of the path, and no     *)
(* lock that is held over more than one of the actions below.              *)
(*                                                                         *)
(* A path has two spellings: "direct", the one fs::canonicalize returns,   *)
(* and "alias", one that only canonicalize can tell is the same, which it  *)
(* does as long as there is a file.                                        *)
(***************************************************************************)
EXTENDS Integers, FiniteSets

CONSTANTS
  Connections,
  Spellings,     \* subset of {"direct", "alias"}
  MaxRecoveries, \* bound: recoveries let past the guard
  MaxReplaced,   \* bound: times another program puts its own file at the path
  MaxFaults      \* bound: calls that fail though nothing is in the way

ASSUME RegistryAssumption ==
  /\ IsFiniteSet(Connections)
  /\ Spellings \subseteq {"direct", "alias"} /\ Spellings # {}
  /\ MaxRecoveries \in Nat /\ MaxReplaced \in Nat /\ MaxFaults \in Nat

VARIABLES
  pc,        \* where each connection's open, drop or recovery is
  readonly,  \* connections opened with AccessMode::ReadOnly
  spelling,  \* how each connection spells the path
  counts,    \* OPEN_CONNECTIONS: key -> number of connections
  file,      \* inode at the path, or Missing
  archived,  \* inodes that recoveries moved to their archive paths
  born,      \* number of inodes so far
  handle,    \* inode each connection's handle is open on, or Missing (null)
  identity,  \* file_identity of each adapter
  copied,    \* inode each connection's recovery copied its rows from
  staged,    \* inode of the file it rebuilt
  answer,    \* what a guard said in the last step, if one was asked: whom, and what
  late,      \* connections whose handle the guard of a recovery could not see
  straddled, \* connections whose path changed hands while they were opened
  strayed,   \* an alias was looked up while there was no file
  budget     \* how much of each bound is used

path == <<file, archived, born>>
adapter == <<readonly, spelling, handle, identity>>
history == <<late, straddled, strayed>>
vars == <<pc, adapter, counts, path, copied, staged, answer, history, budget>>

Missing == 0
Idle == {"closed", "open"}
Recovering == {"inspect", "copy", "close", "archive", "activate", "reopen",
               "quarantine", "restore", "undo"}
Registered == {c \in Connections : pc[c] \in {"identify", "open"} \cup Recovering}
Busy == {c \in Connections : pc[c] \in Recovering}

-----------------------------------------------------------------------------
(* The registry *)

Keys == {"direct", "alias"}

PathAsSpelled(c) == spelling[c]

(* path_key: canonicalize, or the path as it is when there is no file. *)
PathKey(c) == IF file # Missing THEN "direct" ELSE spelling[c]
LookUp(c) == strayed' = (strayed \/ (file = Missing /\ spelling[c] = "alias"))

RegisterConnection(c) == counts' = [counts EXCEPT ![PathKey(c)] = @ + 1]

(* saturating_sub; an entry of 0 is removed. *)
UnregisterConnection(c) ==
  counts' = [counts EXCEPT ![PathKey(c)] = IF @ = 0 THEN 0 ELSE @ - 1]

(* More than the connection that asks. *)
HasOtherConnection(c) == counts[PathKey(c)] > 1

-----------------------------------------------------------------------------
Init ==
  /\ pc = [c \in Connections |-> "closed"]
  /\ readonly = {}
  /\ spelling = [c \in Connections |-> "direct"]
  /\ counts = [k \in Keys |-> 0]
  /\ file = 1 /\ archived = {} /\ born = 1
  /\ handle = [c \in Connections |-> Missing]
  /\ identity = [c \in Connections |-> Missing]
  /\ copied = [c \in Connections |-> Missing]
  /\ staged = [c \in Connections |-> Missing]
  /\ answer = <<>>
  /\ late = {} /\ straddled = {} /\ strayed = FALSE
  /\ budget = [recoveries |-> MaxRecoveries, replaced |-> MaxReplaced, faults |-> MaxFaults]

Spend(kind) == budget[kind] > 0 /\ budget' = [budget EXCEPT ![kind] = @ - 1]
GoTo(c, phase) == pc' = [pc EXCEPT ![c] = phase] /\ answer' = <<>>
Say(c, what) == answer' = <<c, what>>
SetHandle(c, inode) == handle' = [handle EXCEPT ![c] = inode]

(* recover() returns. *)
Return(c) ==
  /\ GoTo(c, "open")
  /\ copied' = [copied EXCEPT ![c] = Missing]
  /\ staged' = [staged EXCEPT ![c] = Missing]

(* A read-write open makes the file it does not find. *)
Opened == IF file = Missing THEN born + 1 ELSE file
MakeFile == file' = Opened /\ born' = (IF file = Missing THEN born + 1 ELSE born)

-----------------------------------------------------------------------------
(* open_with_options: open and configure a handle, register, and only then *)
(* take the identity of the file, by its path.                             *)

OpenHandle(c) ==
  /\ pc[c] = "closed"
  /\ \/ file # Missing /\ readonly' = readonly \cup {c} /\ UNCHANGED <<file, born>>
     \/ UNCHANGED readonly /\ MakeFile
  /\ \E s \in Spellings : spelling' = [spelling EXCEPT ![c] = s]
  /\ SetHandle(c, Opened) /\ GoTo(c, "register")
  /\ late' = IF Busy = {} THEN late ELSE late \cup {c}
  /\ UNCHANGED <<counts, archived, identity, copied, staged, straddled, strayed, budget>>

(* Counted before it is configured. *)
OpenFailsCounted(c) ==
  /\ pc[c] = "closed" /\ Spend("faults")
  /\ MakeFile /\ GoTo(c, "closed")
  /\ RegisterConnection(c)
  /\ UNCHANGED <<adapter, archived, copied, staged, history>>

(* Configuring the handle fails, and it is closed again. *)
OpenFails(c) ==
  /\ pc[c] = "closed" /\ Spend("faults")
  /\ MakeFile /\ GoTo(c, "closed")
  /\ UNCHANGED <<adapter, counts, archived, copied, staged, history>>

Register(c) ==
  /\ pc[c] = "register"
  /\ RegisterConnection(c) /\ LookUp(c)
  /\ GoTo(c, "identify")
  /\ UNCHANGED <<adapter, path, copied, staged, late, straddled, budget>>

Identify(c) ==
  /\ pc[c] = "identify"
  /\ identity' = [identity EXCEPT ![c] = file]
  /\ straddled' = IF file = handle[c] THEN straddled \ {c} ELSE straddled \cup {c}
  /\ Return(c)
  /\ UNCHANGED <<readonly, spelling, handle, counts, path, late, strayed, budget>>

(* Drop for SqliteAdapter, then for the SqliteConnection inside it. *)
Unregister(c) ==
  /\ pc[c] = "open"
  /\ UnregisterConnection(c) /\ LookUp(c)
  /\ GoTo(c, "drop")
  /\ UNCHANGED <<adapter, path, copied, staged, late, straddled, budget>>

CloseHandle(c) ==
  /\ pc[c] = "drop"
  /\ SetHandle(c, Missing) /\ GoTo(c, "closed")
  /\ identity' = [identity EXCEPT ![c] = Missing]
  /\ readonly' = readonly \ {c} /\ spelling' = [spelling EXCEPT ![c] = "direct"]
  /\ late' = late \ {c} /\ straddled' = straddled \ {c}
  /\ UNCHANGED <<counts, path, copied, staged, strayed, budget>>

-----------------------------------------------------------------------------
(* recover_from_dump_reload *)

(* The guard: decided at once, and not held afterwards. *)
Guard(c) ==
  /\ pc[c] = "open" /\ c \notin readonly
  /\ LookUp(c)
  /\ \/ /\ HasOtherConnection(c)
        /\ Say(c, "open_connections") /\ UNCHANGED <<pc, late, budget>>
     \/ /\ ~HasOtherConnection(c) /\ Spend("recoveries")
        /\ pc' = [pc EXCEPT ![c] = "inspect"] /\ Say(c, "admitted")
        /\ late' = late \cup {d \in Connections \ {c} : handle[d] # Missing}
  /\ UNCHANGED <<adapter, counts, path, copied, staged, straddled>>

AnyFile(c) == file # Missing

(* The file at the path is the one the adapter opened. *)
Unmoved(c) == file # Missing /\ file = identity[c]

Inspect(c) ==
  /\ pc[c] = "inspect"
  /\ \/ Unmoved(c) /\ GoTo(c, "copy") /\ UNCHANGED <<copied, staged, budget>>
     \/ ~Unmoved(c) /\ Return(c) /\ UNCHANGED budget
     \/ Spend("faults") /\ Return(c)
  /\ UNCHANGED <<adapter, counts, path, history>>

(* Rebuild what the handle is open on; BEGIN on a null handle fails. *)
CopyRows(c) ==
  /\ pc[c] = "copy"
  /\ \/ /\ handle[c] # Missing
        /\ copied' = [copied EXCEPT ![c] = handle[c]]
        /\ GoTo(c, "close") /\ UNCHANGED <<staged, budget>>
     \/ handle[c] = Missing /\ Return(c) /\ UNCHANGED budget
     \/ Spend("faults") /\ Return(c)
  /\ UNCHANGED <<adapter, counts, path, history>>

CloseOriginal(c) ==
  /\ pc[c] = "close"
  /\ \/ /\ Unmoved(c) /\ UNCHANGED <<copied, staged, budget>>
        /\ SetHandle(c, Missing) /\ GoTo(c, "archive")
     \/ ~Unmoved(c) /\ Return(c) /\ UNCHANGED <<handle, budget>>
     \/ Spend("faults") /\ Return(c) /\ UNCHANGED handle
  /\ UNCHANGED <<readonly, spelling, identity, counts, path, history>>

(* recovery_rollback_failed: the adapter is left without a handle. *)
Blocked(c) == Return(c) /\ UNCHANGED <<file, archived>>

ArchiveOriginal(c) ==
  /\ pc[c] = "archive"
  /\ \/ /\ Unmoved(c) /\ UNCHANGED <<copied, staged, budget>>
        /\ file' = Missing /\ archived' = archived \cup {file}
        /\ GoTo(c, "activate")
     \/ ~Unmoved(c) /\ Blocked(c) /\ UNCHANGED budget
     \/ /\ Spend("faults") /\ GoTo(c, "undo")
        /\ UNCHANGED <<file, archived, copied, staged>>
  /\ UNCHANGED <<adapter, counts, born, history>>

(* The rebuilt file takes the path only while nothing else has it. *)
Activate(c) ==
  /\ pc[c] = "activate"
  /\ \/ /\ file = Missing /\ UNCHANGED <<archived, copied, budget>>
        /\ file' = born + 1 /\ born' = born + 1
        /\ staged' = [staged EXCEPT ![c] = born + 1]
        /\ GoTo(c, "reopen")
     \/ file # Missing /\ Blocked(c) /\ UNCHANGED <<born, budget>>
     \/ Spend("faults") /\ GoTo(c, "restore") /\ UNCHANGED <<path, copied, staged>>
  /\ UNCHANGED <<adapter, counts, history>>

(* The adapter keeps the handle it had before the recovery. *)
ReopenSkipped(c) ==
  /\ pc[c] = "reopen"
  /\ \/ file = staged[c] /\ SetHandle(c, copied[c]) /\ GoTo(c, "identify")
        /\ late' = (IF Busy = {c} THEN late \ {c} ELSE late) /\ UNCHANGED budget
     \/ file # staged[c] /\ GoTo(c, "quarantine") /\ UNCHANGED <<handle, late, budget>>
     \/ Spend("faults") /\ GoTo(c, "quarantine") /\ UNCHANGED <<handle, late>>
  /\ UNCHANGED <<readonly, spelling, identity, counts, path, copied, staged, straddled, strayed>>

(* reopen_connection opens the path again; its identity is taken anew. *)
Reopen(c) ==
  /\ pc[c] = "reopen"
  /\ \/ file = staged[c] /\ SetHandle(c, file) /\ GoTo(c, "identify")
        /\ late' = (IF Busy = {c} THEN late \ {c} ELSE late) /\ UNCHANGED budget
     \/ file # staged[c] /\ GoTo(c, "quarantine") /\ UNCHANGED <<handle, late, budget>>
     \/ Spend("faults") /\ GoTo(c, "quarantine") /\ UNCHANGED <<handle, late>>
  /\ UNCHANGED <<readonly, spelling, identity, counts, path, copied, staged, straddled, strayed>>

Quarantine(c) ==
  /\ pc[c] = "quarantine"
  /\ \/ /\ file = staged[c] /\ UNCHANGED <<archived, copied, staged, budget>>
        /\ file' = Missing /\ GoTo(c, "restore")
     \/ file # staged[c] /\ Blocked(c) /\ UNCHANGED budget
     \/ Spend("faults") /\ Blocked(c)
  /\ UNCHANGED <<adapter, counts, born, history>>

(* rollback_original with no move recorded: the original must still be at  *)
(* the path, and is opened again.                                          *)
Undo(c) ==
  /\ pc[c] = "undo" /\ Return(c)
  /\ \/ Unmoved(c) /\ SetHandle(c, file) /\ UNCHANGED budget
     \/ ~Unmoved(c) /\ UNCHANGED <<handle, budget>>
     \/ Spend("faults") /\ UNCHANGED handle
  /\ UNCHANGED <<readonly, spelling, identity, counts, path, history>>

(* With the move recorded: put the original back, if its name is free, and *)
(* open it again.                                                          *)
Restore(c) ==
  /\ pc[c] = "restore" /\ Return(c)
  /\ \/ /\ file = Missing
        /\ file' = identity[c] /\ archived' = archived \ {identity[c]}
        /\ \/ SetHandle(c, identity[c]) /\ UNCHANGED budget
           \/ Spend("faults") /\ UNCHANGED handle
     \/ file # Missing /\ UNCHANGED <<file, archived, handle, budget>>
     \/ Spend("faults") /\ UNCHANGED <<file, archived, handle>>
  /\ UNCHANGED <<readonly, spelling, identity, counts, born, history>>

-----------------------------------------------------------------------------
(* Another program puts a file of its own at the path. *)
Replace ==
  /\ Spend("replaced")
  /\ file' = born + 1 /\ born' = born + 1
  /\ answer' = <<>>
  /\ UNCHANGED <<pc, adapter, counts, archived, copied, staged, history>>

Run(c) ==
  \/ Register(c) \/ Identify(c) \/ CloseHandle(c)
  \/ Inspect(c) \/ CopyRows(c) \/ CloseOriginal(c) \/ ArchiveOriginal(c)
  \/ Activate(c) \/ Reopen(c) \/ Quarantine(c) \/ Undo(c) \/ Restore(c)

Call(c) ==
  OpenHandle(c) \/ OpenFails(c) \/ Unregister(c) \/ Guard(c)

Next == Replace \/ \E c \in Connections : Call(c) \/ Run(c)

Spec == Init /\ [][Next]_vars

-----------------------------------------------------------------------------
(* The registry counts the connections that are open, whatever opens,      *)
(* drops, failures and recoveries come between, unless an alias was looked *)
(* up while a recovery had the file away: path_key is evaluated again at   *)
(* every call, and counts a connection up under one key and down under     *)
(* another (mod.rs:64).                                                    *)
CountsExact ==
  strayed \/ counts = [k \in Keys |-> IF k = "direct" THEN Cardinality(Registered) ELSE 0]

(* The guard tells the truth at the moment it is asked: a recovery is      *)
(* admitted only if no other connection of the process is open, and told   *)
(* open_connections only if one is ("refuses ... when another Dactyl       *)
(* connection", docs/sqlite-recovery.md:89).  Same exception.              *)
Told(c) ==
  /\ answer' = <<c, "admitted">> => Registered = {c}
  /\ answer' = <<c, "open_connections">> => Registered # {c}
GuardTells == [][strayed' \/ \A c \in Connections : Told(c)]_vars

(* Two recoveries of the path never run side by side, although the guard   *)
(* is not held: the first stays counted while it runs.  Same exception.    *)
RecoveriesApart == strayed \/ Cardinality(Busy) <= 1

(* A recovery archives the very file it copied, and no other program's,    *)
(* unless the path changed hands while the adapter was opened: the         *)
(* identity is taken by path after the handle is open (mod.rs:191).        *)
ReadIsArchived ==
  \A c \in Connections : pc[c] = "activate" =>
    /\ identity[c] \in archived
    /\ copied[c] = identity[c] \/ c \in straddled

(* The connections that go on writing to a file a recovery has put away    *)
(* are those it could not see: handles opened while it ran, or opened and  *)
(* not yet registered, or unregistered and not yet closed, when its guard  *)
(* was asked (mod.rs:181, mod.rs:213, mod.rs:399).                         *)
OrphansWereLate ==
  \A c \in Connections :
    handle[c] \in archived /\ pc[c] \notin Recovering => strayed \/ c \in late
=============================================================================
