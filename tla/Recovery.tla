------------------------------ MODULE Recovery ------------------------------
(***************************************************************************)
(* One call of SqliteAdapter::recover_from_dump_reload on a file-backed    *)
(* database: adapter/sqlite/recovery.rs.  The call rebuilds the database   *)
(* in a private staging directory, archives the original and its sidecars, *)
(* activates the rebuilt file and reopens it; every failure on the way is  *)
(* undone by moving the original back.                                     *)
(*                                                                         *)
(* The database directory is a function from names to inodes.  Suffix 0 is *)
(* the main database file, suffixes 1 .. N are its sidecars in the order   *)
(* of the code's SIDECARS array (-wal, -shm, -journal: N = 3).             *)
(*                                                                         *)
(* Around the call: other writers of the directory, system calls that      *)
(* fail, a crash of the process and a power loss.                          *)
(***************************************************************************)
EXTENDS Integers, Directory

CONSTANTS
  N,             \* number of sidecar suffixes
  MaxForeign,    \* bound: entries other writers create at unused names
  MaxDisplaced,  \* bound: names other writers replace with an entry of theirs
  MaxFaults      \* bound: system calls that fail though nothing is in the way

ASSUME ConstantsAssumption ==
  /\ N \in Nat
  /\ MaxForeign \in Nat
  /\ MaxDisplaced \in Nat
  /\ MaxFaults \in Nat

VARIABLES
  pc,        \* where recover() is
  step,      \* in a move: "pick" (identity), "rename" or "confirm"
  slot,      \* suffix the archive or restore loop is at
  holding,   \* identity the current move was given
  dir,       \* directory: name -> inode
  aside,     \* inodes other writers have moved out of the directory
  images,    \* directories a power loss may leave: any of the changes since
             \* the last sync may be missing
  moved,     \* the Vec of moves to undo: suffix -> inode archived
  surviving, \* suffixes of the original files SQLite has not removed itself
  handle,    \* inode the adapter's connection is open on, or Empty
  lock,      \* "exclusive" inside its BEGIN EXCLUSIVE transaction, or "none"
  staging,   \* the private directory
  content,   \* what rebuilt.db holds
  mode,      \* permission of rebuilt.db: 0600 or that of the original
  outcome,   \* what recover() will return
  faults, foreigns, displaced  \* how much of each bound is used

control == <<pc, step, slot, holding, outcome>>
names == <<dir, aside, images>>
stage == <<staging, content, mode>>
sqlite == <<handle, lock>>
budget == <<faults, foreigns, displaced>>
vars == <<control, names, moved, surviving, sqlite, stage, budget>>

-----------------------------------------------------------------------------
(* Names and inodes *)

Suffixes == 0 .. N

Source(i) == <<"source", i>>
Archive(i) == <<"archive", i>>
Staged == <<"staged", 0>>    \* rebuilt.db in the private directory
Failed == <<"failed", 0>>    \* failed.db in the private directory
Public == {"source", "archive"} \X Suffixes
Names == Public \cup {Staged, Failed}

Original(i) == <<"original", i>>
Rebuilt == <<"rebuilt", 0>>
Foreign(k) == <<"foreign", k>>
Inodes == {Rebuilt} \cup {Original(i) : i \in Suffixes}
                    \cup {Foreign(k) : k \in 1 .. MaxForeign + MaxDisplaced}
Entries == Inodes \cup {Empty}
Directories == [Names -> Entries]

(* A fallible call succeeds only where its condition holds; it fails where *)
(* it does not, or by an I/O error of its own.                             *)
Succeeds(condition) == condition /\ UNCHANGED faults
Fails(condition) ==
  \/ ~condition /\ UNCHANGED faults
  \/ faults < MaxFaults /\ faults' = faults + 1

(* Sidecars that sqlite3_close removes, and an entry another writer puts in *)
(* the place of one it moves out.                                          *)
WithoutSidecars(d, gone) ==
  [n \in Names |-> IF \E i \in gone : n = Source(i) /\ d[n] = Original(i)
                   THEN Empty ELSE d[n]]
Exchange(d, name, old, new) == [d EXCEPT ![name] = IF @ = old THEN new ELSE @]

(* A change not yet synced is in some of the directories a power loss may  *)
(* leave and not in others.                                                *)
BindName(name, inode) ==
  /\ dir' = Bind(dir, name, inode)
  /\ images' = images \cup {Bind(d, name, inode) : d \in images}

UnbindName(name) ==
  /\ dir' = Unbind(dir, name)
  /\ images' = images \cup {Unbind(d, name) : d \in images}

MoveEntry(from, to) ==
  /\ dir' = Rename(dir, from, to)
  /\ images' = images \cup {Rename(d, from, to) : d \in images}

SkipSync == UNCHANGED <<dir, aside, images>>
SyncDirectory == images' = {dir} /\ UNCHANGED <<dir, aside>>

(* recover() returns r: the staging directory is dropped next. *)
Return(r) == pc' = "drop" /\ outcome' = r /\ UNCHANGED <<step, slot, holding>>
GoTo(phase) == pc' = phase /\ UNCHANGED <<step, slot, holding, outcome>>
StartMoves(phase) ==
  pc' = phase /\ step' = "pick" /\ slot' = 0 /\ UNCHANGED <<holding, outcome>>

RollBackOffByOne(error) ==
  /\ pc' = "restore" /\ step' = "pick" /\ slot' = N + 1 /\ outcome' = error
  /\ UNCHANGED holding

(* rollback_original(error) undoes the recorded moves, last one first. *)
RollBack(error) ==
  /\ pc' = "restore" /\ step' = "pick" /\ slot' = N /\ outcome' = error
  /\ UNCHANGED holding

-----------------------------------------------------------------------------
InitWith(present) ==
  /\ surviving = present \cup {0}
  /\ dir = [n \in Names |-> IF \E i \in surviving : n = Source(i)
                            THEN Original(n[2]) ELSE Empty]
  /\ images = {dir}
  /\ aside = {}
  /\ pc = "inspect" /\ step = "pick" /\ slot = 0 /\ holding = Empty
  /\ moved = [i \in Suffixes |-> Empty]
  /\ handle = Original(0) /\ lock = "none"
  /\ staging = "none" /\ content = "none" /\ mode = "private"
  /\ outcome = "none"
  /\ faults = 0 /\ foreigns = 0 /\ displaced = 0

(* The adapter has the database open; any of its sidecars may be there. *)
Init == \E present \in SUBSET (Suffixes \ {0}) : InitWith(present)

(* No sidecar of the archive, or of the active path, exists. *)
ArchiveUnused == \A i \in Suffixes \ {0} : dir[Archive(i)] = Empty
SourceCleared == \A i \in Suffixes \ {0} : dir[Source(i)] = Empty

(* Before anything is created: the source is still the file that was       *)
(* opened, no archive name is taken.                                       *)
Unclaimed ==
  /\ dir[Source(0)] = Original(0)
  /\ dir[Archive(0)] = Empty /\ ArchiveUnused

Inspect ==
  /\ pc = "inspect"
  /\ \/ Succeeds(Unclaimed) /\ GoTo("stage")
     \/ Fails(Unclaimed) /\ Return("failed")
  /\ UNCHANGED <<names, moved, surviving, sqlite, stage, foreigns, displaced>>

(* Stage::create.  A failure before the Stage value exists leaves what was *)
(* created behind; after it, Drop cleans up.                               *)
CreateStage ==
  /\ pc = "stage"
  /\ \/ /\ Succeeds(TRUE)
        /\ dir' = Bind(dir, Staged, Rebuilt)
        /\ images' = {dir'}
        /\ staging' = "made" /\ GoTo("begin")
     \/ /\ Fails(TRUE) /\ Return("failed")
        /\ \/ UNCHANGED <<dir, images, staging>>
           \/ /\ staging' = "leaked"
              /\ \E inode \in {Empty, Rebuilt} : BindName(Staged, inode)
           \/ /\ staging' = "made"
              /\ BindName(Staged, Rebuilt)
  /\ UNCHANGED <<aside, moved, surviving, sqlite, content, mode, foreigns, displaced>>

(* BEGIN EXCLUSIVE on the original. *)
BeginExclusive ==
  /\ pc = "begin"
  /\ \/ Succeeds(TRUE) /\ lock' = "exclusive" /\ GoTo("rebuild")
     \/ Fails(TRUE) /\ UNCHANGED lock /\ Return("failed")
  /\ UNCHANGED <<names, moved, surviving, handle, stage, foreigns, displaced>>

(* rebuild_database: copied and verified as a whole, or not usable. *)
RebuildDatabase ==
  /\ pc = "rebuild"
  /\ \/ Succeeds(TRUE) /\ content' = "complete"
     \/ Fails(TRUE) /\ content' = "partial"
  /\ GoTo("rollback")
  /\ UNCHANGED <<names, moved, surviving, sqlite, staging, mode, foreigns, displaced>>

(* ROLLBACK of the snapshot transaction, whatever the rebuild did.  When   *)
(* it fails SQLite may or may not have ended the transaction.              *)
RollbackSnapshot ==
  /\ pc = "rollback"
  /\ \/ /\ Succeeds(TRUE) /\ lock' = "none"
        /\ \/ content = "complete" /\ GoTo("prepare")
           \/ content = "partial" /\ Return("failed")
     \/ Fails(TRUE) /\ lock' \in {"none", "exclusive"} /\ Return("blocked")
  /\ UNCHANGED <<names, moved, surviving, handle, stage, foreigns, displaced>>

(* Check the source, give rebuilt.db the original's mode and sync it. *)
PrepareRebuilt ==
  /\ pc = "prepare"
  /\ \/ /\ Succeeds(dir[Source(0)] = Original(0))
        /\ mode' = "shared" /\ content' = "durable" /\ GoTo("close")
     \/ /\ Fails(dir[Source(0)] = Original(0)) /\ Return("failed")
        /\ mode' \in {"private", "shared"} /\ UNCHANGED content
  /\ UNCHANGED <<names, moved, surviving, sqlite, staging, foreigns, displaced>>

(* Check the source again and close its connection.  SQLite may remove     *)
(* sidecars it no longer needs.                                            *)
CloseOriginal ==
  /\ pc = "close"
  /\ \/ /\ Succeeds(dir[Source(0)] = Original(0))
        /\ \E kept \in SUBSET surviving :
             /\ 0 \in kept
             /\ surviving' = kept
             /\ dir' = WithoutSidecars(dir, surviving \ kept)
             /\ images' = images \cup {WithoutSidecars(d, surviving \ kept) : d \in images}
        /\ handle' = Empty /\ GoTo("recheck")
     \/ /\ Fails(dir[Source(0)] = Original(0)) /\ Return("failed")
        /\ UNCHANGED <<dir, images, surviving, handle>>
  /\ UNCHANGED <<aside, moved, lock, stage, foreigns, displaced>>

(* Every archive sidecar name must still be unused. *)
RecheckArchive ==
  /\ pc = "recheck"
  /\ \/ Succeeds(ArchiveUnused) /\ StartMoves("archive")
     \/ Fails(ArchiveUnused) /\ RollBack("failed")
  /\ UNCHANGED <<names, moved, surviving, sqlite, stage, foreigns, displaced>>

-----------------------------------------------------------------------------
(* move_noreplace(from, to, identity): check the identity at from, rename  *)
(* without replacing, check the identity at to.  Four phases use it; each  *)
(* has its own "pick" action below.                                        *)

MovePhases == {"archive", "activate", "quarantine", "restore"}

FromArchiveToQuarantine ==
  CASE pc = "archive" -> Source(slot) [] pc = "activate" -> Staged
    [] pc \in {"quarantine", "restore"} -> Archive(slot)

From == CASE pc = "archive"    -> Source(slot)
          [] pc = "activate"   -> Staged
          [] pc = "quarantine" -> Source(0)
          [] pc = "restore"    -> Archive(slot)

To == CASE pc = "archive"    -> Archive(slot)
        [] pc = "activate"   -> Source(0)
        [] pc = "quarantine" -> Failed
        [] pc = "restore"    -> Source(slot)

FailWithoutRollBack ==
  \/ pc \in {"archive", "activate"} /\ Return("failed")
  \/ pc \in {"quarantine", "restore"} /\ Return("blocked")

RetryMove == step' = "pick" /\ UNCHANGED <<pc, slot, holding, outcome>>

(* A failed move: roll back before activation, give up afterwards. *)
MoveFailed ==
  \/ pc \in {"archive", "activate"} /\ RollBack("failed")
  \/ pc \in {"quarantine", "restore"} /\ Return("blocked")

MayRenameReplacing(from, to) == dir[from] # Empty

(* renameat2(RENAME_NOREPLACE). *)
MayRename(from, to) == dir[from] # Empty /\ dir[to] = Empty

Pick(from, identity) ==
  \/ /\ Succeeds(dir[from] = identity)
     /\ holding' = identity /\ step' = "rename" /\ UNCHANGED <<pc, slot, outcome>>
  \/ Fails(dir[from] = identity) /\ MoveFailed

RenameNoReplace ==
  /\ pc \in MovePhases /\ step = "rename"
  /\ \/ /\ Succeeds(MayRename(From, To))
        /\ MoveEntry(From, To)
        /\ step' = "confirm" /\ UNCHANGED <<pc, slot, holding, outcome>>
     \/ /\ Fails(MayRename(From, To)) /\ MoveFailed
        /\ UNCHANGED <<dir, images>>
  /\ UNCHANGED <<aside, moved, surviving, sqlite, stage, foreigns, displaced>>

(* What follows a completed move; only archiving records it for rollback. *)
MoveDone ==
  \/ /\ pc = "archive"
     /\ moved' = [moved EXCEPT ![slot] = holding]
     /\ slot' = slot + 1 /\ step' = "pick" /\ UNCHANGED <<pc, holding, outcome>>
  \/ pc = "activate" /\ GoTo("settle") /\ UNCHANGED moved
  \/ pc = "quarantine" /\ GoTo("syncQuarantine") /\ UNCHANGED moved
  \/ /\ pc = "restore"
     /\ slot' = slot - 1 /\ step' = "pick"
     /\ UNCHANGED <<pc, holding, outcome, moved>>

MoveUnconfirmed == TRUE

(* The entry now at the destination is the one the move was given. *)
Confirmed == dir[To] = holding

ConfirmMove ==
  /\ pc \in MovePhases /\ step = "confirm"
  /\ \/ Succeeds(Confirmed) /\ MoveDone
     \/ Fails(Confirmed) /\ MoveFailed /\ UNCHANGED moved
  /\ UNCHANGED <<names, surviving, sqlite, stage, foreigns, displaced>>

(* Archive the main file under the identity taken at the start; archive    *)
(* each sidecar that is there under the identity found now.                *)
ArchiveNext ==
  /\ pc = "archive" /\ step = "pick" /\ slot <= N
  /\ \/ slot = 0 /\ Pick(Source(0), Original(0))
     \/ slot > 0 /\ dir[Source(slot)] # Empty /\ Pick(Source(slot), dir[Source(slot)])
     \/ /\ slot > 0 /\ dir[Source(slot)] = Empty
        /\ slot' = slot + 1 /\ UNCHANGED <<pc, step, holding, outcome, faults>>
  /\ UNCHANGED <<names, moved, surviving, sqlite, stage, foreigns, displaced>>

(* Sync the archived files and their directory. *)
SyncArchive ==
  /\ pc = "archive" /\ step = "pick" /\ slot = N + 1
  /\ \/ Succeeds(TRUE) /\ SyncDirectory /\ GoTo("clear")
     \/ Fails(TRUE) /\ UNCHANGED names /\ RollBack("failed")
  /\ UNCHANGED <<moved, surviving, sqlite, stage, foreigns, displaced>>

(* The active path must have no sidecar another writer put there. *)
CheckCleared ==
  /\ pc = "clear"
  /\ \/ Succeeds(SourceCleared) /\ StartMoves("activate")
     \/ Fails(SourceCleared) /\ RollBack("failed")
  /\ UNCHANGED <<names, moved, surviving, sqlite, stage, foreigns, displaced>>

ActivateRebuilt ==
  /\ pc = "activate" /\ step = "pick"
  /\ Pick(Staged, Rebuilt)
  /\ UNCHANGED <<names, moved, surviving, sqlite, stage, foreigns, displaced>>

(* Sync both directories of the activation, then check the active inode. *)
SyncActivated ==
  /\ pc = "settle"
  /\ \/ Succeeds(dir[Source(0)] = Rebuilt) /\ SyncDirectory /\ GoTo("reopenRebuilt")
     \/ Fails(dir[Source(0)] = Rebuilt) /\ SyncDirectory /\ GoTo("restrict")
     \/ Fails(TRUE) /\ UNCHANGED names /\ GoTo("restrict")
  /\ UNCHANGED <<moved, surviving, sqlite, stage, foreigns, displaced>>

ReopenRebuilt ==
  /\ pc = "reopenRebuilt"
  /\ \/ Succeeds(TRUE) /\ handle' = dir[Source(0)] /\ Return("ok")
     \/ Fails(TRUE) /\ handle' = Empty /\ GoTo("restrict")
  /\ UNCHANGED <<names, moved, surviving, lock, stage, foreigns, displaced>>

(* Stage::quarantine, up to its move: keep the staging directory, restrict *)
(* the new inode, and refuse to touch sidecars nobody can account for.     *)
Restrict ==
  /\ pc = "restrict"
  /\ staging' = "retained"
  /\ \/ Fails(dir[Source(0)] = Rebuilt) /\ UNCHANGED mode /\ Return("blocked")
     \/ /\ dir[Source(0)] = Rebuilt /\ mode' = "private"
        /\ \/ Succeeds(SourceCleared) /\ StartMoves("quarantine")
           \/ Fails(SourceCleared) /\ Return("blocked")
  /\ UNCHANGED <<names, moved, surviving, sqlite, content, foreigns, displaced>>

Quarantine ==
  /\ pc = "quarantine" /\ step = "pick"
  /\ Pick(Source(0), Rebuilt)
  /\ UNCHANGED <<names, moved, surviving, sqlite, stage, foreigns, displaced>>

(* A sync failure here is reported, and the original is restored anyway. *)
SyncQuarantine ==
  /\ pc = "syncQuarantine"
  /\ \/ Succeeds(TRUE) /\ SyncDirectory /\ RollBack("failed")
     \/ Fails(TRUE) /\ UNCHANGED names /\ RollBack("blocked")
  /\ UNCHANGED <<moved, surviving, sqlite, stage, foreigns, displaced>>

-----------------------------------------------------------------------------
RestoreWhatItCan ==
  /\ pc = "restore" /\ step = "pick" /\ slot >= 0
  /\ \/ moved[slot] # Empty /\ Pick(Archive(slot), moved[slot])
     \/ /\ moved[slot] = Empty \/ dir[Source(slot)] # Empty
        /\ slot' = slot - 1 /\ UNCHANGED <<pc, step, holding, outcome, faults>>
  /\ UNCHANGED <<names, moved, surviving, sqlite, stage, foreigns, displaced>>

(* rollback_original: sidecars before the main file. *)
RestoreNext ==
  /\ pc = "restore" /\ step = "pick" /\ slot >= 0
  /\ \/ moved[slot] # Empty /\ Pick(Archive(slot), moved[slot])
     \/ /\ moved[slot] = Empty
        /\ slot' = slot - 1 /\ UNCHANGED <<pc, step, holding, outcome, faults>>
  /\ UNCHANGED <<names, moved, surviving, sqlite, stage, foreigns, displaced>>

CheckRestored ==
  /\ pc = "restore" /\ slot = -1
  /\ \/ Succeeds(dir[Source(0)] = Original(0)) /\ GoTo("reopenOriginal")
     \/ Fails(dir[Source(0)] = Original(0)) /\ Return("blocked")
  /\ UNCHANGED <<names, moved, surviving, sqlite, stage, foreigns, displaced>>

(* Sync and reopen are both attempted; either failing reports a blocked    *)
(* rollback.                                                               *)
ReopenOriginal ==
  /\ pc = "reopenOriginal"
  /\ \E synced, reopened \in BOOLEAN :
       /\ images' = IF synced THEN {dir} ELSE images
       /\ handle' = IF reopened THEN dir[Source(0)] ELSE Empty
       /\ IF synced /\ reopened
          THEN Succeeds(TRUE) /\ Return(outcome)
          ELSE Fails(TRUE) /\ Return("blocked")
  /\ UNCHANGED <<dir, aside, moved, surviving, lock, stage, foreigns, displaced>>

(* Drop for Stage: removes rebuilt.db only if it is the file it created,   *)
(* and nothing when staging is retained.                                   *)
DropStage ==
  /\ pc = "drop"
  /\ \/ /\ staging = "made"
        /\ \/ /\ Succeeds(TRUE) /\ staging' = "removed"
              /\ UnbindName(Staged)
           \/ Fails(TRUE) /\ staging' = "leaked" /\ UNCHANGED <<dir, images>>
     \/ staging # "made" /\ UNCHANGED <<staging, dir, images, faults>>
  /\ GoTo("done")
  /\ UNCHANGED <<aside, moved, surviving, sqlite, content, mode, foreigns, displaced>>

Recover ==
  \/ Inspect \/ CreateStage \/ BeginExclusive \/ RebuildDatabase \/ RollbackSnapshot
  \/ PrepareRebuilt \/ CloseOriginal \/ RecheckArchive
  \/ ArchiveNext \/ SyncArchive \/ CheckCleared \/ ActivateRebuilt
  \/ RenameNoReplace \/ ConfirmMove
  \/ SyncActivated \/ ReopenRebuilt \/ Restrict \/ Quarantine \/ SyncQuarantine
  \/ RestoreNext \/ CheckRestored \/ ReopenOriginal \/ DropStage

-----------------------------------------------------------------------------
(* The surroundings *)

Running == pc \notin {"done", "crashed"}
NewInode == Foreign(foreigns + displaced + 1)

(* Another writer creates an entry at a name nobody uses. *)
ForeignCreate(name) ==
  /\ Running /\ foreigns < MaxForeign
  /\ dir[name] = Empty
  /\ BindName(name, NewInode)
  /\ foreigns' = foreigns + 1
  /\ UNCHANGED <<control, aside, moved, surviving, sqlite, stage, faults, displaced>>

(* Another writer moves an entry out of the directory and puts its own in  *)
(* its place: what the identity checks are there to notice.                *)
ForeignReplace(name) ==
  /\ Running /\ displaced < MaxDisplaced
  /\ dir[name] # Empty
  /\ aside' = aside \cup {dir[name]}
  /\ dir' = Exchange(dir, name, dir[name], NewInode)
  /\ images' = images \cup {Exchange(d, name, dir[name], NewInode) : d \in images}
  /\ displaced' = displaced + 1
  /\ UNCHANGED <<control, moved, surviving, sqlite, stage, faults, foreigns>>

(* The process dies: the directory stays as it is (dir is one of images),  *)
(* or with the power it falls back to an image not yet superseded.         *)
Crash ==
  /\ Running
  /\ pc' = "crashed"
  /\ dir' \in images
  /\ images' = {dir'}
  /\ handle' = Empty /\ lock' = "none"
  /\ UNCHANGED <<step, slot, holding, outcome, aside, moved, surviving, stage, budget>>

Terminated == ~Running /\ UNCHANGED vars

Next ==
  \/ Recover
  \/ \E name \in Public : ForeignCreate(name) \/ ForeignReplace(name)
  \/ Crash
  \/ Terminated

(* The calling thread keeps executing; nothing is assumed of the others. *)
Fairness == WF_vars(Recover)

Spec == Init /\ [][Next]_vars /\ Fairness

-----------------------------------------------------------------------------
(* Properties *)

Phases == {"inspect", "stage", "begin", "rebuild", "rollback", "prepare", "close",
           "recheck", "clear", "settle", "reopenRebuilt", "restrict",
           "syncQuarantine", "reopenOriginal", "drop", "done", "crashed"} \cup MovePhases

(* Type invariant of the adapter, staging and directory state. *)
TypeOK ==
  /\ pc \in Phases
  /\ step \in {"pick", "rename", "confirm"}
  /\ slot \in -1 .. N + 1
  /\ pc = "restore" => slot <= N
  /\ pc \in {"activate", "quarantine"} => slot = 0
  /\ pc \in MovePhases /\ step # "pick" => slot \in Suffixes
  /\ holding \in Entries
  /\ dir \in Directories
  /\ aside \in SUBSET Inodes
  /\ images \in SUBSET Directories
  /\ moved \in [Suffixes -> Entries]
  /\ surviving \in SUBSET Suffixes
  /\ handle \in Entries
  /\ lock \in {"none", "exclusive"}
  /\ staging \in {"none", "made", "leaked", "retained", "removed"}
  /\ content \in {"none", "partial", "complete", "durable"}
  /\ mode \in {"private", "shared"}
  /\ outcome \in {"none", "ok", "failed", "blocked"}
  /\ faults \in 0 .. MaxFaults
  /\ foreigns \in 0 .. MaxForeign
  /\ displaced \in 0 .. MaxDisplaced

(* At every moment, and after a power loss at that moment, each file of    *)
(* the original database that SQLite itself has not removed is under its   *)
(* own name or under its archive name, or another writer has moved it out. *)
(* (recovery.rs moves files; it must never strand or destroy one.)         *)
Reachable(d) ==
  \A i \in surviving : Original(i) \in {d[Source(i)], d[Archive(i)]} \cup aside
OriginalReachable == Reachable(dir)
OriginalNeverLost == dir \in images /\ \A d \in images : Reachable(d)

(* After a power loss the active path never holds a rebuilt database whose *)
(* content was not synced, nor one activated before the archived original  *)
(* was durable: the order of the syncs in recover().                       *)
ActivationIsDurable ==
  \A d \in images : d[Source(0)] = Rebuilt =>
    content = "durable" /\ d[Archive(0)] = Original(0)

(* recover() returning Ok means: the rebuilt database is active, durably,  *)
(* with the original's permissions; the original and every sidecar that    *)
(* survived are archived; the connection is open on the rebuilt file.      *)
SuccessHolds ==
  pc = "done" /\ outcome = "ok" =>
    /\ \A d \in images : d[Source(0)] = Rebuilt
    /\ \A i \in surviving : dir[Archive(i)] = Original(i)
    /\ handle = Rebuilt /\ lock = "none" /\ mode = "shared"

(* recover() returning an error other than recovery_rollback_failed means  *)
(* the original is active again, durably, with the sidecars rollback knew  *)
(* of; the connection is open on it, outside any transaction; and the      *)
(* rebuilt file is not under a public name.                                *)
FailureRestores ==
  pc = "done" /\ outcome = "failed" =>
    /\ \A d \in images : d[Source(0)] = Original(0)
    /\ \A i \in surviving : moved[i] # Empty => dir[Source(i)] = Original(i)
    /\ handle = Original(0) /\ lock = "none"
    /\ \A name \in Public : dir[name] # Rebuilt

(* No step destroys an entry: what a name held is still under some name,   *)
(* or was moved out by the writer that replaced it.  The exceptions are    *)
(* the sidecars SQLite removes when it closes, the staging file Drop       *)
(* removes, and the names a power loss takes back.                         *)
EntriesKept ==
  \A name \in Names :
    \/ dir[name] = Empty \/ dir[name] \in aside'
    \/ \E other \in Names : dir'[other] = dir[name]
    \/ pc = "close" /\ \E i \in surviving \ surviving' : dir[name] = Original(i)
    \/ pc = "drop" /\ name = Staged /\ staging = "made"
    \/ pc' = "crashed"
NothingDestroyed == [][EntriesKept]_vars

(* Another writer's file found at the active path before recover() has     *)
(* made its last identity check, or a sidecar it creates there while other *)
(* files are still being archived, never becomes part of a successful      *)
(* recovery, however it got there (every check and confirm of              *)
(* move_noreplace, and the check of the sidecars, recovery.rs:470).  Only  *)
(* a sidecar created between that check and the activation goes unnoticed. *)
ForeignActive == \E k \in 1 .. MaxForeign + MaxDisplaced : dir[Source(0)] = Foreign(k)
ForeignBeside ==
  \E i \in Suffixes \ {0} :
    dir[Source(i)] # Empty /\ (pc = "clear" \/ (pc = "archive" /\ i < slot))
IntruderNoticed ==
  [](\/ ForeignActive /\ pc # "reopenRebuilt" /\ outcome # "ok"
     \/ ForeignBeside
     => [](outcome # "ok"))

(* While the main file is active, every sidecar that survived is beside it *)
(* - SQLite would read the database wrongly without its -wal or -journal - *)
(* however far archiving or rolling back has come ("Restore sidecars       *)
(* before the main file", recovery.rs:535).  The one exception: a sidecar  *)
(* whose move was made and could not be confirmed is not recorded, and     *)
(* stays in the archive.  Of a directory that nobody else moves entries of.*)
LeftInArchive(i) == moved[i] = Empty /\ dir[Archive(i)] = Original(i)
DatabaseWhole ==
  dir[Source(0)] = Original(0) /\ pc # "crashed" =>
    \A i \in surviving : dir[Source(i)] = Original(i) \/ LeftInArchive(i)

(* recover() returns or the process dies: no loop of it waits for ever. *)
Returns == <>(pc \in {"done", "crashed"})

(* What the call promises, whatever it does in between. *)
Occupant(inode) ==
  CASE inode = Empty -> "vacant"
    [] inode = Original(0) -> "original"
    [] inode = Rebuilt -> "rebuilt"
    [] OTHER -> "intruder"
Promise == INSTANCE Custody WITH
  active <- Occupant(dir[Source(0)]),
  archived <- Occupant(dir[Archive(0)]),
  status <- IF pc = "done" THEN outcome ELSE IF pc = "crashed" THEN "crashed" ELSE "running"
ImplementsCustody == Promise!Spec
=============================================================================
