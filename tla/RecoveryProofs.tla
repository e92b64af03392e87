--------------------------- MODULE RecoveryProofs ---------------------------
(***************************************************************************)
(* Theorems about Recovery, for every number of sidecars and every bound:  *)
(* the types, that the original database is never lost, what a return      *)
(* means, and that Recovery implements Custody.                            *)
(***************************************************************************)
EXTENDS Recovery, TLAPS

(* The names and the inodes of each kind are names and entries. *)
LEMMA NameTypes ==
  /\ Staged \in Names /\ Failed \in Names /\ 0 \in Suffixes
  /\ \A i \in Suffixes : Source(i) \in Public /\ Archive(i) \in Public
  /\ Public \subseteq Names
  BY ConstantsAssumption DEF Names, Public, Source, Archive, Staged, Failed, Suffixes

LEMMA EntryTypes ==
  /\ Empty \in Entries /\ Rebuilt \in Entries /\ Inodes \subseteq Entries
  /\ \A i \in Suffixes : Original(i) \in Entries
  /\ \A e \in Entries : e # Empty => e \in Inodes
  BY DEF Entries, Inodes

(* Every change of a directory yields a directory. *)
LEMMA BindType ==
  ASSUME NEW d \in Directories, NEW name \in Names, NEW inode \in Entries
  PROVE  Bind(d, name, inode) \in Directories
  BY DEF Bind, Directories

(* Removing a name, as Drop for Stage does with rebuilt.db. *)
LEMMA UnbindType ==
  ASSUME NEW d \in Directories, NEW name \in Names
  PROVE  Unbind(d, name) \in Directories
  BY EntryTypes DEF Unbind, Directories

(* The rename of move_noreplace, replayed on any directory. *)
LEMMA RenameType ==
  ASSUME NEW d \in Directories, NEW from \in Names, NEW to \in Names
  PROVE  Rename(d, from, to) \in Directories
  BY EntryTypes DEF Rename, Directories

(* Another writer's entry in the place of the one it moved out. *)
LEMMA ExchangeType ==
  ASSUME NEW d \in Directories, NEW name \in Names, NEW old, NEW new \in Entries
  PROVE  Exchange(d, name, old, new) \in Directories
  BY DEF Exchange, Directories

(* The sidecars SQLite removes when recover() closes the original. *)
LEMMA WithoutSidecarsType ==
  ASSUME NEW d \in Directories, NEW gone \in SUBSET Suffixes
  PROVE  WithoutSidecars(d, gone) \in Directories
  BY EntryTypes DEF WithoutSidecars, Directories

(* Each of the four phases that call move_noreplace names two paths of the *)
(* directory.                                                              *)
LEMMA MoveNames ==
  ASSUME pc \in MovePhases, slot \in Suffixes
  PROVE  From \in Names /\ To \in Names
  BY NameTypes DEF MovePhases, From, To

(* The part of the type invariant about the directory. *)
DirTypeOK == dir \in Directories /\ images \in SUBSET Directories

(* Creating an entry without a sync keeps the directory and every image a  *)
(* power loss may leave well formed (Stage::create).                       *)
LEMMA BindNameType ==
  ASSUME DirTypeOK, NEW name \in Names, NEW inode \in Entries, BindName(name, inode)
  PROVE  DirTypeOK'
  BY BindType DEF BindName, DirTypeOK

(* So does removing one (Drop for Stage). *)
LEMMA UnbindNameType ==
  ASSUME DirTypeOK, NEW name \in Names, UnbindName(name)
  PROVE  DirTypeOK'
  BY UnbindType DEF UnbindName, DirTypeOK

(* So does moving one (move_noreplace). *)
LEMMA MoveEntryType ==
  ASSUME DirTypeOK, NEW from \in Names, NEW to \in Names, MoveEntry(from, to)
  PROVE  DirTypeOK'
  BY RenameType DEF MoveEntry, DirTypeOK

(* Within its bounds another writer's file is one of the inodes. *)
LEMMA NewInodeType ==
  ASSUME foreigns \in 0 .. MaxForeign, displaced \in 0 .. MaxDisplaced,
         foreigns < MaxForeign \/ displaced < MaxDisplaced
  PROVE  NewInode \in Inodes
<1>1. foreigns + displaced + 1 \in 1 .. MaxForeign + MaxDisplaced
  BY ConstantsAssumption
<1>2. QED
  BY <1>1 DEF NewInode, Inodes

(***************************************************************************)
(* Type correctness: every variable of a recovery keeps its type, and the  *)
(* loops over SIDECARS stay within the suffixes, in every behaviour.       *)
(***************************************************************************)
THEOREM TypeCorrect == Spec => []TypeOK
<1>1. Init => TypeOK
  <2> SUFFICES ASSUME NEW present \in SUBSET (Suffixes \ {0}), InitWith(present)
               PROVE  TypeOK
    BY DEF Init
  <2>1. dir \in Directories
    BY NameTypes, EntryTypes DEF InitWith, Directories, Names, Public, Source, Staged, Failed
  <2>2. QED
    BY <2>1, ConstantsAssumption, NameTypes, EntryTypes
    DEF InitWith, TypeOK, Directories, Phases, MovePhases, Suffixes
<1>2. TypeOK /\ [Next]_vars => TypeOK'
  <2> SUFFICES ASSUME TypeOK, [Next]_vars PROVE TypeOK'
    OBVIOUS
  <2> /\ DirTypeOK
      /\ \A name \in Names : dir[name] \in Entries
      /\ \A d \in images : d \in Directories
    BY DEF TypeOK, DirTypeOK, Directories
  <2> USE ConstantsAssumption, NameTypes, EntryTypes
  <2> USE DEF TypeOK, Phases, MovePhases, Suffixes, Succeeds, Fails, Return, GoTo,
              StartMoves, RollBack, SyncDirectory, Pick, MoveFailed,
              names, stage, sqlite, control
  <2>1. CASE Inspect
    BY <2>1 DEF Inspect
  <2>2. CASE BeginExclusive
    BY <2>2 DEF BeginExclusive
  <2>3. CASE RebuildDatabase
    BY <2>3 DEF RebuildDatabase
  <2>4. CASE RollbackSnapshot
    BY <2>4 DEF RollbackSnapshot
  <2>5. CASE PrepareRebuilt
    BY <2>5 DEF PrepareRebuilt
  <2>6. CASE RecheckArchive
    BY <2>6 DEF RecheckArchive
  <2>7. CASE ArchiveNext
    BY <2>7 DEF ArchiveNext
  <2>8. CASE SyncArchive
    BY <2>8 DEF SyncArchive
  <2>9. CASE CheckCleared
    BY <2>9 DEF CheckCleared
  <2>10. CASE ActivateRebuilt
    BY <2>10 DEF ActivateRebuilt
  <2>11. CASE SyncActivated
    BY <2>11 DEF SyncActivated
  <2>12. CASE ReopenRebuilt
    BY <2>12 DEF ReopenRebuilt
  <2>13. CASE Restrict
    BY <2>13 DEF Restrict
  <2>14. CASE Quarantine
    BY <2>14 DEF Quarantine
  <2>15. CASE SyncQuarantine
    BY <2>15 DEF SyncQuarantine
  <2>16. CASE RestoreNext
    BY <2>16 DEF RestoreNext
  <2>17. CASE CheckRestored
    BY <2>17 DEF CheckRestored
  <2>18. CASE ReopenOriginal
    BY <2>18 DEF ReopenOriginal
  <2>19. CASE Crash
    <3>1. DirTypeOK'
      BY <2>19 DEF Crash, DirTypeOK
    <3>2. QED
      BY <2>19, <3>1 DEF Crash, DirTypeOK, budget
  <2>20. CASE CreateStage
    <3>1. DirTypeOK'
      BY <2>20, BindNameType, BindType
      DEF CreateStage, DirTypeOK
    <3>2. QED
      BY <2>20, <3>1 DEF CreateStage, DirTypeOK
  <2>21. CASE CloseOriginal
    <3>1. DirTypeOK'
      <4>1. CASE UNCHANGED <<dir, images>>
        BY <4>1 DEF DirTypeOK
      <4>2. ASSUME NEW kept \in SUBSET surviving,
                   dir' = WithoutSidecars(dir, surviving \ kept),
                   images' = images \cup {WithoutSidecars(d, surviving \ kept) : d \in images}
            PROVE  DirTypeOK'
        <5>1. surviving \ kept \in SUBSET Suffixes
          BY <4>2
        <5>2. \A d \in Directories : WithoutSidecars(d, surviving \ kept) \in Directories
          BY <5>1, WithoutSidecarsType
        <5>3. QED
          BY <4>2, <5>2 DEF DirTypeOK
      <4>3. QED
        BY <2>21, <4>1, <4>2 DEF CloseOriginal
    <3>2. surviving' \in SUBSET Suffixes
      BY <2>21 DEF CloseOriginal
    <3>3. QED
      BY <2>21, <3>1, <3>2 DEF CloseOriginal, DirTypeOK
  <2>22. CASE RenameNoReplace
    <3>1. DirTypeOK'
      BY <2>22, MoveNames, MoveEntryType
      DEF RenameNoReplace, DirTypeOK
    <3>2. QED
      BY <2>22, <3>1 DEF RenameNoReplace, DirTypeOK
  <2>23. CASE ConfirmMove
    BY <2>23 DEF ConfirmMove, MoveDone
  <2>24. CASE DropStage
    <3>1. DirTypeOK'
      BY <2>24, UnbindNameType
      DEF DropStage, DirTypeOK
    <3>2. QED
      BY <2>24, <3>1 DEF DropStage, DirTypeOK
  <2>25. ASSUME NEW name \in Public, ForeignCreate(name) PROVE TypeOK'
    <3>1. DirTypeOK'
      BY <2>25, NewInodeType, BindNameType
      DEF ForeignCreate, DirTypeOK
    <3>2. QED
      BY <2>25, <3>1 DEF ForeignCreate, DirTypeOK
  <2>26. ASSUME NEW name \in Public, ForeignReplace(name) PROVE TypeOK'
    <3>1. DirTypeOK'
      BY <2>26, NewInodeType, ExchangeType
      DEF ForeignReplace, DirTypeOK
    <3>2. QED
      BY <2>26, <3>1 DEF ForeignReplace, DirTypeOK
  <2>27. CASE UNCHANGED vars
    BY <2>27 DEF vars, budget
  <2>28. QED
    BY <2>1, <2>2, <2>3, <2>4, <2>5, <2>6, <2>7, <2>8, <2>9, <2>10, <2>11, <2>12, <2>13,
       <2>14, <2>15, <2>16, <2>17, <2>18, <2>19, <2>20, <2>21, <2>22, <2>23, <2>24,
       <2>25, <2>26, <2>27
    DEF Next, Recover, Terminated
<1>3. QED
  BY <1>1, <1>2, PTL DEF Spec

(***************************************************************************)
(* No step destroys an entry.                                              *)
(***************************************************************************)

(* A created entry replaces none. *)
LEMMA BindKeeps ==
  ASSUME NEW d \in Directories, NEW name \in Names, NEW inode,
         NEW n \in Names, d[n] # Empty
  PROVE  Bind(d, name, inode)[n] = d[n]
  BY DEF Bind, Directories

(* A rename to an unused name (RENAME_NOREPLACE) keeps every entry. *)
LEMMA RenameKeeps ==
  ASSUME NEW d \in Directories, NEW from \in Names, NEW to \in Names,
         d[to] = Empty, NEW n \in Names, d[n] # Empty
  PROVE  \E m \in Names : Rename(d, from, to)[m] = d[n]
<1>1. CASE d[from] = Empty
  BY <1>1 DEF Rename
<1>2. CASE d[from] # Empty
  <2>1. from # to
    BY <1>2
  <2>2. CASE n = from
    BY <1>2, <2>1, <2>2 DEF Rename, Directories
  <2>3. CASE n # from
    BY <1>2, <2>1, <2>3 DEF Rename, Directories
  <2>4. QED
    BY <2>2, <2>3
<1>3. QED
  BY <1>1, <1>2

(* No step of recover(), of another writer or of a crash destroys a file:  *)
(* every move is a rename without replacement, so what a name held is      *)
(* found under some name afterwards (move_noreplace, Drop for Stage).      *)
THEOREM NothingIsDestroyed == Spec => NothingDestroyed
<1>1. TypeOK /\ [Next]_vars => [EntriesKept]_vars
  <2> SUFFICES ASSUME TypeOK, Next PROVE EntriesKept
    BY DEF vars
  <2> SUFFICES ASSUME NEW name \in Names, dir[name] # Empty, dir[name] \notin aside',
                      pc' # "crashed",
                      pc = "close" => \A i \in surviving \ surviving' : dir[name] # Original(i),
                      ~(pc = "drop" /\ name = Staged /\ staging = "made")
               PROVE  \E other \in Names : dir'[other] = dir[name]
    BY DEF EntriesKept
  <2> dir \in Directories
    BY DEF TypeOK
  <2>1. CASE UNCHANGED dir
    BY <2>1
  <2>2. CASE CreateStage
    <3>1. UNCHANGED dir \/ \E inode : dir' = Bind(dir, Staged, inode)
      BY <2>2 DEF CreateStage, BindName
    <3>2. QED
      BY <2>1, <3>1, NameTypes, BindKeeps
  <2>3. CASE CloseOriginal
    <3>1. SUFFICES ASSUME surviving' \in SUBSET surviving,
                          dir' = WithoutSidecars(dir, surviving \ surviving')
                   PROVE  dir'[name] = dir[name]
      BY <2>1, <2>3 DEF CloseOriginal
    <3>2. QED
      BY <2>3, <3>1 DEF CloseOriginal, WithoutSidecars, Directories
  <2>4. CASE RenameNoReplace
    <3>1. From \in Names /\ To \in Names
      BY <2>4, MoveNames DEF RenameNoReplace, TypeOK
    <3>2. CASE dir[To] = Empty /\ MoveEntry(From, To)
      <4>1. dir' = Rename(dir, From, To)
        BY <3>2 DEF MoveEntry
      <4>2. \E m \in Names : Rename(dir, From, To)[m] = dir[name]
        <5> HIDE DEF Names
        <5>1. QED
          BY <3>1, <3>2, RenameKeeps
      <4>3. QED
        BY <4>1, <4>2
    <3>3. QED
      BY <2>1, <2>4, <3>2 DEF RenameNoReplace, MayRename, Succeeds
  <2>5. CASE DropStage
    BY <2>1, <2>5 DEF DropStage, UnbindName, Unbind, Directories
  <2>6. ASSUME NEW public \in Public, ForeignCreate(public)
        PROVE  \E other \in Names : dir'[other] = dir[name]
    BY <2>6, NameTypes, BindKeeps DEF ForeignCreate, BindName
  <2>7. ASSUME NEW public \in Public, ForeignReplace(public)
        PROVE  \E other \in Names : dir'[other] = dir[name]
    BY <2>7, NameTypes DEF ForeignReplace, Exchange, Directories
  <2>8. CASE Crash
    BY <2>8 DEF Crash
  <2>9. CASE Terminated
    BY <2>1, <2>9 DEF Terminated, vars, names
  <2>10. CASE Inspect
    BY <2>1, <2>10 DEF Inspect, names
  <2>11. CASE BeginExclusive
    BY <2>1, <2>11 DEF BeginExclusive, names
  <2>12. CASE RebuildDatabase
    BY <2>1, <2>12 DEF RebuildDatabase, names
  <2>13. CASE RollbackSnapshot
    BY <2>1, <2>13 DEF RollbackSnapshot, names
  <2>14. CASE PrepareRebuilt
    BY <2>1, <2>14 DEF PrepareRebuilt, names
  <2>15. CASE RecheckArchive
    BY <2>1, <2>15 DEF RecheckArchive, names
  <2>16. CASE ArchiveNext
    BY <2>1, <2>16 DEF ArchiveNext, names
  <2>17. CASE SyncArchive
    BY <2>1, <2>17 DEF SyncArchive, names, SyncDirectory
  <2>18. CASE CheckCleared
    BY <2>1, <2>18 DEF CheckCleared, names
  <2>19. CASE ActivateRebuilt
    BY <2>1, <2>19 DEF ActivateRebuilt, names
  <2>20. CASE ConfirmMove
    BY <2>1, <2>20 DEF ConfirmMove, names
  <2>21. CASE SyncActivated
    BY <2>1, <2>21 DEF SyncActivated, names, SyncDirectory
  <2>22. CASE ReopenRebuilt
    BY <2>1, <2>22 DEF ReopenRebuilt, names
  <2>23. CASE Restrict
    BY <2>1, <2>23 DEF Restrict, names
  <2>24. CASE Quarantine
    BY <2>1, <2>24 DEF Quarantine, names
  <2>25. CASE SyncQuarantine
    BY <2>1, <2>25 DEF SyncQuarantine, names, SyncDirectory
  <2>26. CASE RestoreNext
    BY <2>1, <2>26 DEF RestoreNext, names
  <2>27. CASE CheckRestored
    BY <2>1, <2>27 DEF CheckRestored, names
  <2>28. CASE ReopenOriginal
    BY <2>1, <2>28 DEF ReopenOriginal, names
  <2>29. QED
    BY <2>2, <2>3, <2>4, <2>5, <2>6, <2>7, <2>8, <2>9, <2>10, <2>11, <2>12, <2>13,
       <2>14, <2>15, <2>16, <2>17, <2>18, <2>19, <2>20, <2>21, <2>22, <2>23, <2>24,
       <2>25, <2>26, <2>27, <2>28 DEF Next, Recover
<1>2. QED
  BY <1>1, TypeCorrect, PTL DEF Spec, NothingDestroyed

-----------------------------------------------------------------------------
(* The original database is never lost: the invariant that makes it so and *)
(* its proof.                                                              *)

(* The files of the original that no other writer has moved out. *)
Ours == {i \in surviving : Original(i) \notin aside}

Safe(d, i) == Original(i) \in {d[Source(i)], d[Archive(i)]}

(* Suffix i is still to be archived, or must be left alone by archiving.   *)
Early == {"inspect", "stage", "begin", "rebuild", "rollback", "prepare", "close", "recheck"}
MayArchive(i) ==
  \/ pc \in Early
  \/ pc = "archive" /\ (slot < i \/ (slot = i /\ step # "confirm"))

(* The archive name of suffix i was taken by this call, and may be given   *)
(* up by rollback.                                                         *)
Taken(i) ==
  \/ pc = "archive" /\ slot = i /\ step = "confirm"
  \/ /\ moved[i] # Empty
     /\ pc \notin {"reopenOriginal", "drop", "done", "crashed"}
     /\ pc = "restore" => i < slot \/ (i = slot /\ step # "confirm")

(* The phases from the sync of the archive until a rollback. *)
Replacing == {"clear", "activate", "settle", "reopenRebuilt", "restrict", "quarantine",
              "syncQuarantine"}

(* What holds of the directory programs see: the archive names taken stay  *)
(* taken, the main file stays archived, only recorded moves are undone.    *)
DirectoryInv ==
  /\ dir \in images
  /\ \A i \in Ours : Taken(i) => dir[Archive(i)] # Empty
  /\ pc = "archive" /\ (slot >= 1 \/ step = "confirm") => dir[Source(0)] # Original(0)
  /\ pc = "restore" /\ step # "pick" => moved[slot] # Empty

(* What holds of every directory a power loss may leave. *)
ImageInv(d) ==
  /\ \A i \in Ours : Safe(d, i)
  /\ d[Staged] # Original(0)
  /\ \A i \in Ours : MayArchive(i) =>
       /\ d[Archive(i)] # Original(i)
       /\ dir[Archive(i)] = Empty => d[Archive(i)] = Empty
  /\ \A i \in Ours : Taken(i) => (d[Source(i)] = Original(i) => d[Archive(i)] = Empty)
  /\ pc \in Replacing => d[Source(0)] # Original(0)

CustodyInv == DirectoryInv /\ \A d \in images : ImageInv(d)

-----------------------------------------------------------------------------
(* The names recover() works with are distinct, and an inode of the        *)
(* original is no other inode.                                             *)
LEMMA Distinct ==
  /\ \A i, j \in Suffixes : Source(i) # Archive(j)
  /\ \A i, j \in Suffixes : i # j => Source(i) # Source(j) /\ Archive(i) # Archive(j)
  /\ \A i \in Suffixes : Staged \notin {Source(i), Archive(i)} /\ Failed \notin {Source(i), Archive(i)}
  /\ Staged # Failed
  /\ Staged \notin Public /\ Failed \notin Public
  /\ \A i \in Suffixes : Original(i) \notin {Empty, Rebuilt}
  /\ \A i \in Suffixes : \A k \in Nat : Original(i) # Foreign(k)
  BY DEF Source, Archive, Staged, Failed, Public, Original, Rebuilt, Empty, Foreign

(* A step that gives up no claim: what the invariant says after it of any  *)
(* suffix, it said before.                                                 *)
Settled ==
  /\ Ours' \subseteq Ours
  /\ \A i \in Suffixes : (MayArchive(i)' => MayArchive(i)) /\ (Taken(i)' => Taken(i))

(* A directory that satisfied the invariant still does after such a step,  *)
(* if no archive name becomes free (every step of recover() that moves     *)
(* nothing).                                                               *)
LEMMA ImageStays ==
  ASSUME TypeOK, Settled, NEW d, ImageInv(d),
         pc' \in Replacing => d[Source(0)] # Original(0),
         \A i \in Suffixes : dir'[Archive(i)] = Empty => dir[Archive(i)] = Empty
  PROVE  ImageInv(d)'
<1> Ours \subseteq Suffixes
  BY DEF Ours, TypeOK
<1> QED
  BY DEF ImageInv, Settled, Safe

(* The same for a step that moves nothing in the directory at all and at   *)
(* most forgets images (a sync).                                           *)
LEMMA QuietStep ==
  ASSUME TypeOK, CustodyInv, Settled,
         dir' = dir, dir \in images', images' \subseteq images,
         pc' \in Replacing => \A d \in images' : d[Source(0)] # Original(0),
         pc' = "archive" /\ (slot' >= 1 \/ step' = "confirm") => dir[Source(0)] # Original(0),
         pc' = "restore" /\ step' # "pick" => moved'[slot'] # Empty
  PROVE  CustodyInv'
<1> Ours \subseteq Suffixes
  BY DEF Ours, TypeOK
<1>1. DirectoryInv'
  BY DEF CustodyInv, DirectoryInv, Settled
<1>2. ASSUME NEW d \in images' PROVE ImageInv(d)'
  BY <1>2, ImageStays DEF CustodyInv
<1> QED
  BY <1>1, <1>2 DEF CustodyInv

(* What a step does to the phase that the invariant depends on, when it    *)
(* starts neither replacing nor archiving nor restoring.                   *)
NoNewPhase ==
  /\ Settled
  /\ pc' \in Replacing => pc \in Replacing
  /\ pc' = "archive" /\ (slot' >= 1 \/ step' = "confirm") =>
       pc = "archive" /\ (slot >= 1 \/ step = "confirm")
  /\ pc' = "restore" /\ step' # "pick" => moved'[slot'] # Empty

(* Where a created entry is found, and nothing else changes. *)
LEMMA BindWhere ==
  ASSUME NEW d \in Directories, NEW name \in Names, NEW inode, NEW n \in Names
  PROVE  \/ Bind(d, name, inode)[n] = d[n]
         \/ n = name /\ d[n] = Empty /\ Bind(d, name, inode)[n] = inode
  BY DEF Bind, Directories

(* Creating an entry, by Stage::create or by another writer, keeps the     *)
(* invariant: it takes a name the call has not taken.                      *)
LEMMA BindStep ==
  ASSUME TypeOK, CustodyInv, NoNewPhase, NEW name \in Names, NEW inode \in Entries,
         \A i \in Suffixes : inode # Original(i),
         name = Staged \/ dir[name] = Empty,
         dir' = Bind(dir, name, inode),
         dir' \in images',
         images' \subseteq images \cup {Bind(d, name, inode) : d \in images}
  PROVE  CustodyInv'
<1> Ours \subseteq Suffixes /\ dir \in Directories /\ images \subseteq Directories
  BY DEF Ours, TypeOK
<1> USE NameTypes, Distinct
<1>0. /\ dir \in images /\ \A d \in images : ImageInv(d)
  BY DEF CustodyInv, DirectoryInv
<1>1. DirectoryInv'
  BY BindWhere DEF CustodyInv, DirectoryInv, NoNewPhase, Settled
<1>2. \A i \in Suffixes : dir'[Archive(i)] = Empty => dir[Archive(i)] = Empty
  BY BindWhere
<1>3. ASSUME NEW d \in images PROVE ImageInv(d)'
  BY <1>0, <1>2, <1>3, ImageStays DEF NoNewPhase, ImageInv
<1>4. ASSUME NEW d \in images PROVE ImageInv(Bind(d, name, inode))'
  <2> DEFINE e == Bind(d, name, inode)
  <2>1. ImageInv(d) /\ d \in Directories
    BY <1>0
  <2>2. ASSUME NEW i \in Ours PROVE Safe(e, i)
    BY <2>1, <2>2, BindWhere DEF ImageInv, Safe
  <2>3. e[Staged] # Original(0)
    BY <2>1, BindWhere DEF ImageInv
  <2>4. ASSUME NEW i \in Ours, MayArchive(i)
        PROVE  e[Archive(i)] # Original(i) /\ (dir'[Archive(i)] = Empty => e[Archive(i)] = Empty)
    <3>1. d[Archive(i)] # Original(i) /\ (dir[Archive(i)] = Empty => d[Archive(i)] = Empty)
      BY <2>1, <2>4 DEF ImageInv
    <3>2. dir'[Archive(i)] = Empty => e[Archive(i)] = Empty
      BY <2>1, <3>1 DEF Bind, Directories
    <3>3. QED
      BY <2>1, <3>1, <3>2, BindWhere
  <2>5. ASSUME NEW i \in Ours, Taken(i), e[Source(i)] = Original(i)
        PROVE  e[Archive(i)] = Empty
    <3>1. dir[Archive(i)] # Empty
      BY <2>5 DEF CustodyInv, DirectoryInv
    <3>2. d[Source(i)] = Original(i)
      BY <2>1, <2>5, BindWhere
    <3>3. d[Archive(i)] = Empty /\ name # Archive(i)
      BY <2>1, <2>5, <3>1, <3>2 DEF ImageInv
    <3>4. QED
      BY <2>1, <3>3, BindWhere
  <2>6. pc \in Replacing => e[Source(0)] # Original(0)
    BY <2>1, BindWhere DEF ImageInv
  <2> HIDE DEF e
  <2>7. QED
    BY <2>2, <2>3, <2>4, <2>5, <2>6 DEF NoNewPhase, Settled, ImageInv, Safe, e
<1>5. QED
  BY <1>1, <1>3, <1>4 DEF CustodyInv

(* Where an exchange changes a directory. *)
LEMMA ExchangeWhere ==
  ASSUME NEW d \in Directories, NEW name \in Names, NEW old, NEW new, NEW n \in Names
  PROVE  IF n = name /\ d[n] = old THEN Exchange(d, name, old, new)[n] = new
                                   ELSE Exchange(d, name, old, new)[n] = d[n]
  BY DEF Exchange, Directories

(* Another writer that exchanges an entry of the original takes it out of  *)
(* the call's custody; any other exchange leaves the invariant alone.      *)
LEMMA ReplaceStep ==
  ASSUME TypeOK, CustodyInv, NEW name \in Public, ForeignReplace(name)
  PROVE  CustodyInv'
<1> DEFINE old == dir[name]
           new == NewInode
           E(d) == Exchange(d, name, old, new)
<1> Ours \subseteq Suffixes /\ dir \in Directories /\ images \subseteq Directories
  BY DEF Ours, TypeOK
<1> USE NameTypes, Distinct
<1>1. /\ dir \in images /\ \A d \in images : ImageInv(d)
      /\ old # Empty /\ new # Empty /\ \A i \in Suffixes : new # Original(i)
      /\ dir' = E(dir) /\ images' = images \cup {E(d) : d \in images}
      /\ aside' = aside \cup {old}
      /\ UNCHANGED <<pc, step, slot, moved, surviving>>
  BY DEF CustodyInv, DirectoryInv, ForeignReplace, control, NewInode, Foreign, Empty, Original
<1>2. Ours' \subseteq Ours /\ \A i \in Ours' : Original(i) # old
  BY <1>1 DEF Ours
<1>3. NoNewPhase
  BY <1>1, <1>2 DEF NoNewPhase, Settled, MayArchive, Taken, CustodyInv, DirectoryInv
<1>4. \A d \in images, n \in Names :
        E(d)[n] = d[n] \/ (d[n] = old /\ E(d)[n] = new)
  BY ExchangeWhere
<1> HIDE DEF old, new, E
<1>5. DirectoryInv'
  BY <1>1, <1>3, <1>4 DEF CustodyInv, DirectoryInv, NoNewPhase, Settled
<1>6. \A i \in Suffixes : dir'[Archive(i)] = Empty => dir[Archive(i)] = Empty
  BY <1>1, <1>4
<1>7. ASSUME NEW d \in images PROVE ImageInv(d)'
  BY <1>1, <1>3, <1>6, <1>7, ImageStays DEF NoNewPhase, ImageInv
<1>8. ASSUME NEW d \in images, NEW e, e = E(d) PROVE ImageInv(e)'
  BY <1>1, <1>2, <1>3, <1>4, <1>6, <1>8 DEF NoNewPhase, Settled, ImageInv, Safe
<1>9. QED
  BY <1>1, <1>5, <1>7, <1>8 DEF CustodyInv

(* Closing the source: SQLite removes sidecars of the original under their *)
(* own names, which are then no longer part of it.                         *)
LEMMA CloseStep ==
  ASSUME TypeOK, CustodyInv, CloseOriginal
  PROVE  CustodyInv'
<1> Ours \subseteq Suffixes /\ dir \in Directories /\ images \subseteq Directories
  BY DEF Ours, TypeOK
<1> USE NameTypes, Distinct
<1>1. NoNewPhase /\ pc' \notin Replacing
  BY DEF CloseOriginal, NoNewPhase, Settled, MayArchive, Taken, Ours, Return, GoTo,
         Replacing, Early, Succeeds, Fails
<1>2. CASE UNCHANGED <<dir, images>>
  BY <1>1, <1>2, QuietStep DEF NoNewPhase, CustodyInv, DirectoryInv
<1>3. ASSUME NEW kept \in SUBSET surviving,
             surviving' = kept,
             dir' = WithoutSidecars(dir, surviving \ kept),
             images' = images \cup {WithoutSidecars(d, surviving \ kept) : d \in images}
      PROVE  CustodyInv'
  <2> DEFINE W(d) == WithoutSidecars(d, surviving \ kept)
  <2>1. /\ dir \in images /\ \A d \in images : ImageInv(d)
        /\ dir' = W(dir) /\ images' = images \cup {W(d) : d \in images}
    BY <1>3 DEF CustodyInv, DirectoryInv
  <2>2. \A d \in images, n \in Names :
          W(d)[n] = d[n] \/ (W(d)[n] = Empty /\ \E i \in surviving \ kept : n = Source(i))
    BY DEF WithoutSidecars
  <2>3. surviving \ kept \subseteq Suffixes /\ Ours' \cap (surviving \ kept) = {}
    BY <1>3 DEF TypeOK, Ours
  <2> HIDE DEF W
  <2>4. \A d \in images : /\ \A i \in Suffixes : W(d)[Archive(i)] = d[Archive(i)]
                          /\ \A i \in Ours' : W(d)[Source(i)] = d[Source(i)]
                          /\ W(d)[Staged] = d[Staged]
    BY <1>1, <2>2, <2>3 DEF NoNewPhase, Settled
  <2>5. DirectoryInv'
    BY <1>1, <2>1, <2>4 DEF CustodyInv, DirectoryInv, NoNewPhase, Settled, CloseOriginal
  <2>6. ASSUME NEW d \in images PROVE ImageInv(d)'
    BY <1>1, <2>1, <2>4, <2>6, ImageStays DEF NoNewPhase
  <2>7. ASSUME NEW d \in images, NEW e, e = W(d) PROVE ImageInv(e)'
    BY <1>1, <2>1, <2>4, <2>7 DEF NoNewPhase, Settled, ImageInv, Safe
  <2>8. QED
    BY <2>1, <2>5, <2>6, <2>7 DEF CustodyInv
<1>4. QED
  BY <1>2, <1>3 DEF CloseOriginal

(* Where a rename of a name other than its destination changes a directory. *)
LEMMA RenameWhere ==
  ASSUME NEW d \in Directories, NEW from \in Names, NEW to \in Names, from # to
  PROVE  /\ d[from] = Empty => Rename(d, from, to) = d
         /\ d[from] # Empty => /\ Rename(d, from, to)[from] = Empty
                              /\ Rename(d, from, to)[to] = d[from]
         /\ \A n \in Names \ {from, to} : Rename(d, from, to)[n] = d[n]
  BY DEF Rename, Directories

(* The rename of move_noreplace, in each of the four phases that use it.   *)
(* Archiving finds the original of its suffix at the source or nothing;    *)
(* activation and quarantine move what is not of the original; restoring   *)
(* moves the original back, or finds it back already in an image where the *)
(* archiving rename is missing.                                            *)
LEMMA RenameStep ==
  ASSUME TypeOK, CustodyInv, RenameNoReplace
  PROVE  CustodyInv'
<1> Ours \subseteq Suffixes /\ dir \in Directories /\ images \subseteq Directories
  BY DEF Ours, TypeOK
<1> USE NameTypes, Distinct
<1>1. CASE UNCHANGED <<dir, images>> /\ MoveFailed
  <2>1. NoNewPhase /\ pc' \notin Replacing
    BY <1>1 DEF RenameNoReplace, NoNewPhase, Settled, MayArchive, Taken, Ours, MoveFailed,
            RollBack, Return, Replacing, Early, TypeOK, MovePhases
  <2>2. QED
    BY <1>1, <2>1, QuietStep DEF NoNewPhase, CustodyInv, DirectoryInv
<1>2. CASE MayRename(From, To) /\ MoveEntry(From, To) /\ step' = "confirm"
           /\ UNCHANGED <<pc, slot, holding, outcome>>
  <2> slot \in Suffixes /\ step = "rename" /\ pc \in MovePhases
    BY DEF RenameNoReplace, TypeOK
  <2>1. /\ From \in Names /\ To \in Names /\ From # To
        /\ dir[From] # Empty /\ dir[To] = Empty
    BY <1>2, MoveNames DEF MayRename
  <2>2. /\ dir \in images /\ \A d \in images : ImageInv(d)
        /\ Ours' = Ours /\ moved' = moved
    BY DEF CustodyInv, DirectoryInv, Ours, RenameNoReplace
  <2>3. /\ dir' = Rename(dir, From, To)
        /\ images' = images \cup {Rename(d, From, To) : d \in images}
    BY <1>2 DEF MoveEntry
  <2>4. \A d \in images : \A e : e = Rename(d, From, To) =>
          /\ d[From] = Empty => e = d
          /\ d[From] # Empty => e[From] = Empty /\ e[To] = d[From]
          /\ \A n \in Names \ {From, To} : e[n] = d[n]
    BY <2>1, RenameWhere
  <2>5. CASE pc = "archive"
    <3> slot >= 0 /\ From = Source(slot) /\ To = Archive(slot)
      BY <2>5 DEF From, To, Suffixes
    <3>1. /\ \A i \in Suffixes : MayArchive(i)' => i # slot /\ MayArchive(i)
          /\ \A i \in Suffixes : Taken(i)' => i = slot \/ Taken(i)
          /\ MayArchive(slot) /\ pc' \notin Replacing
      BY <1>2, <2>2, <2>5 DEF MayArchive, Taken, Early, Replacing, Suffixes
    <3>2. DirectoryInv'
      <4>1. dir'[Source(0)] # Original(0)
        BY <2>1, <2>2, <2>3, <2>4, <2>5 DEF CustodyInv, DirectoryInv, Suffixes
      <4>2. ASSUME NEW i \in Ours, Taken(i)' PROVE dir'[Archive(i)] # Empty
        BY <2>1, <2>2, <2>3, <2>4, <3>1, <4>2 DEF CustodyInv, DirectoryInv
      <4>3. QED
        BY <1>2, <2>2, <2>3, <2>5, <4>1, <4>2 DEF DirectoryInv
    <3>3. \A i \in Suffixes \ {slot} : dir'[Archive(i)] = dir[Archive(i)]
      BY <2>1, <2>2, <2>3, <2>4
    <3>4. ASSUME NEW d \in images PROVE ImageInv(d)'
      BY <2>1, <2>2, <3>1, <3>3, <3>4 DEF ImageInv, Safe
    <3>5. ASSUME NEW d \in images, NEW e, e = Rename(d, From, To) PROVE ImageInv(e)'
      BY <2>1, <2>2, <2>4, <3>1, <3>3, <3>4, <3>5 DEF ImageInv, Safe
    <3>6. QED
      BY <2>3, <3>2, <3>4, <3>5 DEF CustodyInv
  <2>6. CASE pc \in {"activate", "quarantine"}
    <3> From \notin {Archive(i) : i \in Suffixes} /\ To \notin {Archive(i) : i \in Suffixes}
      BY <2>6 DEF From, To
    <3>1. NoNewPhase /\ pc \in Replacing
      BY <1>2, <2>2, <2>6 DEF NoNewPhase, Settled, MayArchive, Taken, Early, Replacing
    <3>2. \A i \in Suffixes : dir'[Archive(i)] = dir[Archive(i)]
      BY <2>1, <2>2, <2>3, <2>4
    <3>3. DirectoryInv'
      BY <1>2, <2>2, <2>3, <2>6, <3>1, <3>2 DEF CustodyInv, DirectoryInv, NoNewPhase, Settled
    <3>4. ASSUME NEW d \in images PROVE ImageInv(d)'
      BY <2>2, <3>1, <3>2, <3>4, ImageStays DEF NoNewPhase, ImageInv
    <3>5. ASSUME NEW d \in images, NEW e, e = Rename(d, From, To) PROVE ImageInv(e)'
      <4>1. \A i \in Suffixes : e[Archive(i)] = d[Archive(i)] /\ (i # 0 => e[Source(i)] = d[Source(i)])
        BY <2>1, <2>4, <2>6, <3>5 DEF From, To
      <4>2. e[Source(0)] # Original(0) /\ e[Staged] # Original(0)
        BY <2>1, <2>2, <2>4, <2>6, <3>1, <3>5 DEF From, To, ImageInv
      <4>3. \A i \in Ours : Safe(e, i) /\ (Taken(i) => (e[Source(i)] = Original(i) => e[Archive(i)] = Empty))
        BY <2>2, <3>1, <4>1, <4>2 DEF ImageInv, Safe
      <4>4. QED
        BY <2>2, <3>1, <3>2, <4>1, <4>2, <4>3 DEF ImageInv, NoNewPhase, Settled, Safe
    <3>6. QED
      BY <2>3, <3>3, <3>4, <3>5 DEF CustodyInv
  <2>7. CASE pc = "restore"
    <3> From = Archive(slot) /\ To = Source(slot)
      BY <2>7 DEF From, To
    <3>1. /\ \A i \in Suffixes : ~MayArchive(i)'
          /\ \A i \in Suffixes : Taken(i)' => i # slot /\ Taken(i)
          /\ Taken(slot) /\ pc' \notin Replacing
      BY <1>2, <2>2, <2>7 DEF MayArchive, Taken, Early, Replacing, CustodyInv,
         DirectoryInv, Suffixes
    <3>2. \A i \in Suffixes \ {slot} : dir'[Archive(i)] = dir[Archive(i)]
      BY <2>1, <2>2, <2>3, <2>4
    <3>3. DirectoryInv'
      BY <1>2, <2>2, <2>3, <2>7, <3>1, <3>2 DEF CustodyInv, DirectoryInv
    <3>4. ASSUME NEW d \in images PROVE ImageInv(d)'
      BY <2>2, <3>1, <3>4 DEF ImageInv, Safe
    <3>5. ASSUME NEW d \in images, NEW e, e = Rename(d, From, To) PROVE ImageInv(e)'
      BY <2>1, <2>2, <2>4, <3>1, <3>4, <3>5 DEF ImageInv, Safe
    <3>6. QED
      BY <2>3, <3>3, <3>4, <3>5 DEF CustodyInv
  <2>8. QED
    BY <2>5, <2>6, <2>7 DEF MovePhases
<1>3. QED
  BY <1>1, <1>2 DEF RenameNoReplace, Succeeds

(* Removing the staging file, which is never of the original. *)
LEMMA DropStep ==
  ASSUME TypeOK, CustodyInv, DropStage
  PROVE  CustodyInv'
<1> Ours \subseteq Suffixes /\ dir \in Directories /\ images \subseteq Directories
  BY DEF Ours, TypeOK
<1> USE NameTypes, Distinct
<1>1. NoNewPhase /\ pc' = "done"
  BY DEF DropStage, NoNewPhase, Settled, MayArchive, Taken, Ours, GoTo, Replacing, Early
<1>2. CASE UNCHANGED <<dir, images>>
  BY <1>1, <1>2, QuietStep DEF NoNewPhase, CustodyInv, DirectoryInv, Replacing
<1>3. CASE UnbindName(Staged)
  <2>1. /\ dir \in images /\ \A d \in images : ImageInv(d)
        /\ dir' = Unbind(dir, Staged)
        /\ images' = images \cup {Unbind(d, Staged) : d \in images}
    BY <1>3 DEF CustodyInv, DirectoryInv, UnbindName
  <2>2. \A d \in images : /\ \A i \in Suffixes : /\ Unbind(d, Staged)[Source(i)] = d[Source(i)]
                                             /\ Unbind(d, Staged)[Archive(i)] = d[Archive(i)]
                          /\ Unbind(d, Staged)[Staged] = Empty
    BY DEF Unbind, Directories
  <2>3. DirectoryInv'
    BY <1>1, <2>1, <2>2 DEF CustodyInv, DirectoryInv, NoNewPhase, Settled
  <2>4. ASSUME NEW d \in images PROVE ImageInv(d)'
    BY <1>1, <2>1, <2>2, <2>4, ImageStays DEF NoNewPhase, Replacing
  <2>5. ASSUME NEW d \in images PROVE ImageInv(Unbind(d, Staged))'
    BY <1>1, <2>1, <2>2, <2>5 DEF NoNewPhase, Settled, ImageInv, Safe, Replacing
  <2>6. QED
    BY <2>1, <2>3, <2>4, <2>5 DEF CustodyInv
<1>4. QED
  BY <1>2, <1>3 DEF DropStage

(* A power loss leaves one of the images, and ends the call. *)
LEMMA CrashStep ==
  ASSUME TypeOK, CustodyInv, Crash
  PROVE  CustodyInv'
<1>1. /\ dir' \in images /\ images' = {dir'} /\ pc' = "crashed" /\ Ours' = Ours
      /\ ImageInv(dir')
  BY DEF CustodyInv, Crash, Ours
<1>2. \A i : ~MayArchive(i)' /\ ~Taken(i)'
  BY <1>1 DEF MayArchive, Taken, Early
<1>3. DirectoryInv'
  BY <1>1, <1>2 DEF DirectoryInv
<1>4. ASSUME NEW d, d = dir' PROVE ImageInv(d)'
  BY <1>1, <1>2, <1>4 DEF ImageInv, Safe, Replacing
<1>5. QED
  BY <1>1, <1>3, <1>4 DEF CustodyInv

(***************************************************************************)
(* The inductive invariant: no archive name the call has taken is given up *)
(* but by rolling back, and each directory a power loss may leave has the  *)
(* original under its own name or its archive name (recover() from its     *)
(* first check to its return, and every crash).                            *)
(***************************************************************************)
THEOREM CustodyHolds == Spec => []CustodyInv
<1>1. Init => CustodyInv
  <2> SUFFICES ASSUME NEW present \in SUBSET (Suffixes \ {0}), InitWith(present)
               PROVE  CustodyInv
    BY DEF Init
  <2> USE NameTypes, Distinct
  <2>1. /\ \A i \in Suffixes : dir[Archive(i)] = Empty
        /\ \A i \in surviving : i \in Suffixes /\ dir[Source(i)] = Original(i)
        /\ dir[Staged] = Empty
    BY DEF InitWith, Source, Staged
  <2>2. images = {dir} /\ pc = "inspect" /\ Ours \subseteq surviving /\ \A i \in Suffixes : ~Taken(i)
    BY DEF InitWith, Ours, Taken
  <2>3. DirectoryInv
    BY <2>1, <2>2 DEF DirectoryInv
  <2>4. ImageInv(dir)
    BY <2>1, <2>2 DEF ImageInv, Safe, Replacing
  <2>5. QED
    BY <2>2, <2>3, <2>4 DEF CustodyInv
<1>2. TypeOK /\ CustodyInv /\ [Next]_vars => CustodyInv'
  <2> SUFFICES ASSUME TypeOK, CustodyInv, [Next]_vars PROVE CustodyInv'
    OBVIOUS
  <2>1. CASE CreateStage
    <3>1. NoNewPhase
      BY <2>1 DEF CreateStage, NoNewPhase, Settled, MayArchive, Taken, Ours, GoTo,
         Return, Early, Replacing
    <3>2. CASE UNCHANGED <<dir, images>>
      BY <3>1, <3>2, QuietStep DEF NoNewPhase, CustodyInv, DirectoryInv, ImageInv
    <3>3. ASSUME NEW inode \in {Empty, Rebuilt},
                 dir' = Bind(dir, Staged, inode), dir' \in images',
                 images' \subseteq images \cup {Bind(d, Staged, inode) : d \in images}
          PROVE  CustodyInv'
      BY <3>1, <3>3, BindStep, NameTypes, EntryTypes, Distinct
    <3>4. QED
      BY <2>1, <3>2, <3>3 DEF CreateStage, BindName, CustodyInv, DirectoryInv
  <2>2. CASE CloseOriginal
    BY <2>2, CloseStep
  <2>3. CASE RenameNoReplace
    BY <2>3, RenameStep
  <2>4. CASE DropStage
    BY <2>4, DropStep
  <2>5. ASSUME NEW name \in Public, ForeignCreate(name) PROVE CustodyInv'
    <3>1. NoNewPhase
      BY <2>5 DEF ForeignCreate, NoNewPhase, Settled, MayArchive, Taken, Ours, control,
              CustodyInv, DirectoryInv
    <3>2. NewInode \in Entries /\ \A i \in Suffixes : NewInode # Original(i)
      BY <2>5, NewInodeType, EntryTypes DEF ForeignCreate, TypeOK, NewInode, Foreign, Original
    <3>3. QED
      BY <2>5, <3>1, <3>2, BindStep, NameTypes
      DEF ForeignCreate, BindName, CustodyInv, DirectoryInv
  <2>6. ASSUME NEW name \in Public, ForeignReplace(name) PROVE CustodyInv'
    BY <2>6, ReplaceStep
  <2>7. CASE Crash
    BY <2>7, CrashStep
  <2>8. CASE UNCHANGED vars
    BY <2>8, QuietStep DEF vars, Settled, MayArchive, Taken, Ours, control, names,
       CustodyInv, DirectoryInv, ImageInv
  <2> USE QuietStep
  <2> USE DEF TypeOK, CustodyInv, DirectoryInv, ImageInv, Settled, MayArchive, Taken, Early,
              Replacing, Ours, MovePhases, Suffixes,
              Succeeds, Fails, Return, GoTo, StartMoves, RollBack, SyncDirectory, Pick,
              MoveFailed, names, stage, sqlite, control
  <2>9. CASE Inspect
    BY <2>9 DEF Inspect
  <2>10. CASE BeginExclusive
    BY <2>10 DEF BeginExclusive
  <2>11. CASE RebuildDatabase
    BY <2>11 DEF RebuildDatabase
  <2>12. CASE RollbackSnapshot
    BY <2>12 DEF RollbackSnapshot
  <2>13. CASE PrepareRebuilt
    BY <2>13 DEF PrepareRebuilt
  <2>14. CASE RecheckArchive
    BY <2>14 DEF RecheckArchive
  <2>15. CASE ArchiveNext
    BY <2>15 DEF ArchiveNext
  <2>16. CASE SyncArchive
    <3>0. /\ pc = "archive" /\ step = "pick" /\ slot = N + 1
          /\ UNCHANGED <<dir, aside, moved, surviving>>
      BY <2>16 DEF SyncArchive
    <3>1. dir[Source(0)] # Original(0)
      BY <3>0, ConstantsAssumption
    <3>2. CASE images' = {dir} /\ GoTo("clear")
      <4>1. Settled
        BY <3>0, <3>2
      <4>2. pc' = "clear" /\ \A d \in images' : d[Source(0)] # Original(0)
        BY <3>1, <3>2
      <4>3. QED
        BY <3>0, <3>2, <4>1, <4>2
    <3>3. CASE UNCHANGED images /\ RollBack("failed")
      BY <3>0, <3>3
    <3>4. QED
      BY <2>16, <3>2, <3>3 DEF SyncArchive
  <2>17. CASE CheckCleared
    BY <2>17 DEF CheckCleared
  <2>18. CASE ActivateRebuilt
    BY <2>18 DEF ActivateRebuilt
  <2>19. CASE ConfirmMove
    <3>0. slot \in Suffixes /\ UNCHANGED <<dir, aside, images, surviving>>
      BY <2>19 DEF ConfirmMove
    <3>1. CASE MoveFailed /\ UNCHANGED moved
      BY <2>19, <3>0, <3>1 DEF ConfirmMove
    <3>2. CASE MoveDone /\ pc = "archive"
      <4>1. /\ \A i \in Suffixes \ {slot} : moved'[i] = moved[i]
            /\ slot' = slot + 1 /\ step' = "pick" /\ pc' = "archive"
        BY <3>0, <3>2 DEF MoveDone
      <4>2. Settled
        BY <2>19, <3>0, <3>2, <4>1 DEF ConfirmMove
      <4>3. QED
        BY <2>19, <3>0, <3>2, <4>1, <4>2 DEF ConfirmMove
    <3>3. CASE MoveDone /\ pc # "archive"
      <4>1. /\ moved' = moved /\ pc' # "archive"
            /\ pc = "restore" => pc' = pc /\ slot' = slot - 1 /\ step' = "pick"
            /\ pc # "restore" => pc' \in {"settle", "syncQuarantine"} /\ pc \in Replacing
        BY <2>19, <3>3 DEF ConfirmMove, MoveDone
      <4>2. Settled
        BY <3>0, <3>3, <4>1
      <4>3. QED
        BY <3>0, <3>3, <4>1, <4>2
    <3>4. QED
      BY <2>19, <3>1, <3>2, <3>3 DEF ConfirmMove
  <2>20. CASE SyncActivated
    BY <2>20 DEF SyncActivated
  <2>21. CASE ReopenRebuilt
    BY <2>21 DEF ReopenRebuilt
  <2>22. CASE Restrict
    BY <2>22 DEF Restrict
  <2>23. CASE Quarantine
    BY <2>23 DEF Quarantine
  <2>24. CASE SyncQuarantine
    BY <2>24 DEF SyncQuarantine
  <2>25. CASE RestoreNext
    BY <2>25 DEF RestoreNext
  <2>26. CASE CheckRestored
    BY <2>26 DEF CheckRestored
  <2>27. CASE ReopenOriginal
    BY <2>27 DEF ReopenOriginal
  <2>28. QED
    BY <2>1, <2>2, <2>3, <2>4, <2>5, <2>6, <2>7, <2>8, <2>9, <2>10, <2>11, <2>12, <2>13,
       <2>14, <2>15, <2>16, <2>17, <2>18, <2>19, <2>20, <2>21, <2>22, <2>23, <2>24,
       <2>25, <2>26, <2>27
    DEF Next, Recover, Terminated
<1>3. QED
  BY <1>1, <1>2, TypeCorrect, PTL DEF Spec

(***************************************************************************)
(* At every moment and after a power loss at that moment, every file of    *)
(* the original is under its own name or its archive name, or another      *)
(* writer has moved it out: recover() moves files, and never loses one.    *)
(***************************************************************************)
THEOREM OriginalIsNeverLost == Spec => []OriginalNeverLost
<1>1. CustodyInv => OriginalNeverLost
  BY DEF CustodyInv, DirectoryInv, ImageInv, Ours, Safe, OriginalNeverLost, Reachable
<1>2. QED
  BY <1>1, CustodyHolds, PTL

-----------------------------------------------------------------------------
(* What a return of recover() means, and that Recovery implements          *)
(* Custody, as long as no other writer moves an entry of the directory     *)
(* out (displaced = 0); it may create entries, system calls may fail and   *)
(* the machine may crash. CustodyInv says where the original can be;       *)
(* OutcomeInv says what recover() knows of it. The last theorem, about     *)
(* another writer's file at the active path, needs no such condition.      *)

Ended(result) == pc \in {"drop", "done"} /\ outcome = result

(* Suffix i was not offered for rollback yet: nothing is recorded of it. *)
Unrecorded(i) == pc \in Early \/ (pc = "archive" /\ i >= slot)

(* The call counts on suffix i being archived, or moved back. *)
Stored(i) ==
  \/ pc = "archive" /\ (i < slot \/ (i = slot /\ step = "confirm"))
  \/ pc \in {"clear", "activate", "settle", "reopenRebuilt"}
  \/ Ended("ok")
Back(i) ==
  \/ pc = "restore" /\ (slot < i \/ (slot = i /\ step = "confirm"))
  \/ pc = "reopenOriginal"
  \/ Ended("failed")

(* A move carries the inode it was given: nothing comes between its check  *)
(* and its rename, or its rename and its confirmation.                     *)
CarriedInv ==
  pc \in MovePhases /\ step # "pick" =>
    /\ holding # Empty
    /\ dir[IF step = "rename" THEN From ELSE To] = holding
    /\ pc = "archive" /\ slot \in surviving => holding = Original(slot)
    /\ pc = "restore" => holding = moved[slot]
    /\ pc \in {"activate", "quarantine"} => holding = Rebuilt

(* What is recorded for rollback of a file that survived is that file, the *)
(* main file first.                                                        *)
RecordsInv ==
  /\ aside = {} /\ 0 \in surviving
  /\ \A i \in surviving : moved[i] \in {Empty, Original(i)}
  /\ \A i \in surviving : moved[i] # Empty => moved[0] # Empty
  /\ \A i \in surviving : Unrecorded(i) => moved[i] = Empty
  /\ pc = "archive" /\ slot > 0 => moved[0] # Empty

(* Where the files are that the call counts on; the main file is not back  *)
(* before its sidecars are.                                                *)
PlacesInv ==
  /\ \A i \in surviving : Stored(i) => dir[Archive(i)] = Original(i)
  /\ \A i \in surviving : Back(i) /\ moved[i] # Empty => dir[Source(i)] = Original(i)
  /\ pc = "restore" /\ ~Back(0) /\ moved[0] # Empty => dir[Source(0)] # Original(0)
  /\ pc = "reopenOriginal" => dir[Source(0)] = Original(0)
  /\ dir[Source(0)] = Original(0) /\ pc # "crashed" =>
       \A i \in surviving : moved[i] # Empty => dir[Source(i)] = Original(i)

(* The adapter's own state in each phase. *)
AdapterInv ==
  /\ pc \in Early \ {"recheck"} \/ Ended("failed") => handle = Original(0)
  /\ Ended("ok") => handle = Rebuilt
  /\ lock = "exclusive" => pc \in {"rebuild", "rollback"} \/ Ended("blocked")
  /\ pc \in {"close", "recheck", "archive", "clear", "activate", "settle", "reopenRebuilt"}
       \/ Ended("ok") => mode = "shared"
  /\ pc \in {"close", "recheck", "archive", "clear", "activate"} => content = "durable"
  /\ pc \in {"restore", "reopenOriginal"} => outcome \in {"failed", "blocked"}
  /\ pc \in {"drop", "done"} => outcome \in {"ok", "failed", "blocked"}

(* What a power loss may leave at the public names. *)
PublicInv(d) ==
  /\ \A name \in Public : d[name] = Rebuilt =>
       name = Source(0) /\ content = "durable" /\ d[Archive(0)] = Original(0)
  /\ pc = "reopenRebuilt" \/ Ended("ok") => d[Source(0)] = Rebuilt
  /\ Ended("failed") => d[Source(0)] = Original(0)

OutcomeInv ==
  /\ CarriedInv /\ RecordsInv /\ PlacesInv /\ AdapterInv
  /\ \A d \in images : PublicInv(d)
QuietInv == displaced = 0 => OutcomeInv

-----------------------------------------------------------------------------
(* Where custody leaves the original when nobody moved any of it out: what *)
(* is still to be archived is under its own name, a replacement is being   *)
(* made only while the main file is under its archive name.                *)
LEMMA Whereabouts ==
  ASSUME TypeOK, CustodyInv, RecordsInv, NEW d \in images, NEW i \in surviving
  PROVE  /\ i \in Suffixes /\ i \in Ours
         /\ d[Source(i)] = Original(i) \/ d[Archive(i)] = Original(i)
         /\ MayArchive(i) => d[Source(i)] = Original(i) /\ d[Archive(i)] # Original(i)
         /\ pc \in Replacing /\ i = 0 => d[Source(0)] # Original(0) /\ d[Archive(0)] = Original(0)
  BY DEF TypeOK, CustodyInv, RecordsInv, ImageInv, Safe, Ours

(* The initial state: nothing has been decided yet. *)
LEMMA OutcomeInit == Init => OutcomeInv
<1> SUFFICES ASSUME NEW present \in SUBSET (Suffixes \ {0}), InitWith(present)
             PROVE  OutcomeInv
  BY DEF Init
<1> USE NameTypes, Distinct
<1>1. CarriedInv /\ AdapterInv
  BY DEF InitWith, CarriedInv, AdapterInv, MovePhases, Ended
<1>2. RecordsInv
  BY DEF InitWith, RecordsInv
<1>3. PlacesInv
  BY <1>2 DEF InitWith, PlacesInv, RecordsInv, Stored, Back, Ended, Original, Empty
<1>4. \A name \in Names : dir[name] # Rebuilt
  BY DEF InitWith, Original, Empty, Rebuilt
<1>5. PublicInv(dir)
  BY <1>4 DEF InitWith, PublicInv, Ended
<1>6. QED
  BY <1>1, <1>2, <1>3, <1>5 DEF InitWith, OutcomeInv

(* The steps of recover() that move no file: checks, calls into SQLite and *)
(* syncs.                                                                  *)
Deciding ==
  \/ Inspect \/ BeginExclusive \/ RebuildDatabase \/ RollbackSnapshot \/ PrepareRebuilt
  \/ RecheckArchive \/ ArchiveNext \/ SyncArchive \/ CheckCleared \/ ActivateRebuilt
  \/ ConfirmMove \/ SyncActivated \/ ReopenRebuilt \/ Restrict \/ Quarantine
  \/ SyncQuarantine \/ RestoreNext \/ CheckRestored \/ ReopenOriginal

(* What the proofs about them use of the state they start in. *)
LEMMA DecidingFrom ==
  ASSUME TypeOK, CustodyInv, OutcomeInv
  PROVE  /\ CarriedInv /\ RecordsInv /\ PlacesInv /\ AdapterInv /\ \A d \in images : PublicInv(d)
         /\ dir \in images /\ surviving \subseteq Suffixes /\ moved \in [Suffixes -> Entries]
         /\ N \in Nat /\ Suffixes = 0 .. N /\ slot \in -1 .. N + 1 /\ 0 \in Suffixes
         /\ pc \in MovePhases /\ step # "pick" => slot \in Suffixes
         /\ pc = "restore" => slot <= N
         /\ pc = "archive" /\ (slot >= 1 \/ step = "confirm") => dir[Source(0)] # Original(0)
         /\ Rebuilt # Empty /\ \A i \in Suffixes : Original(i) \notin {Empty, Rebuilt}
  BY NameTypes, ConstantsAssumption, Distinct
  DEF CustodyInv, DirectoryInv, OutcomeInv, TypeOK, Suffixes, Rebuilt, Empty

(* The last of them reports success only of a durable directory. *)
LEMMA Reopened ==
  ASSUME ReopenOriginal
  PROVE  /\ pc = "reopenOriginal" /\ pc' = "drop" /\ images' \in {images, {dir}}
         /\ UNCHANGED <<dir, aside, moved, surviving, lock, step, slot, holding>>
         /\ UNCHANGED <<staging, content, mode>>
         /\ \/ outcome' = outcome /\ images' = {dir} /\ handle' = dir[Source(0)]
            \/ outcome' = "blocked"
<1>1. PICK synced \in BOOLEAN, reopened \in BOOLEAN :
        /\ images' = IF synced THEN {dir} ELSE images
        /\ handle' = IF reopened THEN dir[Source(0)] ELSE Empty
        /\ IF synced /\ reopened THEN Return(outcome) ELSE Return("blocked")
  BY DEF ReopenOriginal
<1>2. QED
  BY <1>1 DEF ReopenOriginal, Return, stage

(* A move is given the inode found at its source, and keeps it.            *)
LEMMA CarriedDecided ==
  ASSUME TypeOK, CustodyInv, OutcomeInv, Deciding
  PROVE  CarriedInv'
<1> USE DecidingFrom, Whereabouts
    DEF CarriedInv, MovePhases, From, To, RecordsInv, MayArchive, Early,
        Succeeds, Fails, Return, GoTo, StartMoves, RollBack, SyncDirectory, Pick, MoveFailed,
        names, stage, sqlite, control
<1>1. CASE Inspect
  BY <1>1 DEF Inspect
<1>2. CASE BeginExclusive
  BY <1>2 DEF BeginExclusive
<1>3. CASE RebuildDatabase
  BY <1>3 DEF RebuildDatabase
<1>4. CASE RollbackSnapshot
  BY <1>4 DEF RollbackSnapshot
<1>5. CASE PrepareRebuilt
  BY <1>5 DEF PrepareRebuilt
<1>6. CASE RecheckArchive
  BY <1>6 DEF RecheckArchive
<1>7. CASE ArchiveNext
  BY <1>7 DEF ArchiveNext
<1>8. CASE SyncArchive
  BY <1>8 DEF SyncArchive
<1>9. CASE CheckCleared
  BY <1>9 DEF CheckCleared
<1>10. CASE ActivateRebuilt
  BY <1>10 DEF ActivateRebuilt
<1>11. CASE ConfirmMove
  BY <1>11 DEF ConfirmMove, MoveDone
<1>12. CASE SyncActivated
  BY <1>12 DEF SyncActivated
<1>13. CASE ReopenRebuilt
  BY <1>13 DEF ReopenRebuilt
<1>14. CASE Restrict
  BY <1>14 DEF Restrict
<1>15. CASE Quarantine
  BY <1>15 DEF Quarantine
<1>16. CASE SyncQuarantine
  BY <1>16 DEF SyncQuarantine
<1>17. CASE RestoreNext
  BY <1>17 DEF RestoreNext
<1>18. CASE CheckRestored
  BY <1>18 DEF CheckRestored
<1>19. CASE ReopenOriginal
  BY <1>19, Reopened
<1>20. QED
  BY <1>1, <1>2, <1>3, <1>4, <1>5, <1>6, <1>7, <1>8, <1>9, <1>10, <1>11, <1>12, <1>13,
     <1>14, <1>15, <1>16, <1>17, <1>18, <1>19 DEF Deciding

(* Only a confirmed archiving move is recorded.                            *)
LEMMA RecordsDecided ==
  ASSUME TypeOK, CustodyInv, OutcomeInv, Deciding
  PROVE  RecordsInv'
<1> USE DecidingFrom, Whereabouts
    DEF RecordsInv, Unrecorded, Early, CarriedInv, MovePhases,
        Succeeds, Fails, Return, GoTo, StartMoves, RollBack, SyncDirectory, Pick, MoveFailed,
        names, stage, sqlite, control
<1>1. CASE Inspect
  BY <1>1 DEF Inspect
<1>2. CASE BeginExclusive
  BY <1>2 DEF BeginExclusive
<1>3. CASE RebuildDatabase
  BY <1>3 DEF RebuildDatabase
<1>4. CASE RollbackSnapshot
  BY <1>4 DEF RollbackSnapshot
<1>5. CASE PrepareRebuilt
  BY <1>5 DEF PrepareRebuilt
<1>6. CASE RecheckArchive
  BY <1>6 DEF RecheckArchive
<1>7. CASE ArchiveNext
  BY <1>7 DEF ArchiveNext
<1>8. CASE SyncArchive
  BY <1>8 DEF SyncArchive
<1>9. CASE CheckCleared
  BY <1>9 DEF CheckCleared
<1>10. CASE ActivateRebuilt
  BY <1>10 DEF ActivateRebuilt
<1>11. CASE ConfirmMove
  BY <1>11 DEF ConfirmMove, MoveDone
<1>12. CASE SyncActivated
  BY <1>12 DEF SyncActivated
<1>13. CASE ReopenRebuilt
  BY <1>13 DEF ReopenRebuilt
<1>14. CASE Restrict
  BY <1>14 DEF Restrict
<1>15. CASE Quarantine
  BY <1>15 DEF Quarantine
<1>16. CASE SyncQuarantine
  BY <1>16 DEF SyncQuarantine
<1>17. CASE RestoreNext
  BY <1>17 DEF RestoreNext
<1>18. CASE CheckRestored
  BY <1>18 DEF CheckRestored
<1>19. CASE ReopenOriginal
  BY <1>19, Reopened
<1>20. QED
  BY <1>1, <1>2, <1>3, <1>4, <1>5, <1>6, <1>7, <1>8, <1>9, <1>10, <1>11, <1>12, <1>13,
     <1>14, <1>15, <1>16, <1>17, <1>18, <1>19 DEF Deciding

(* What the call counts on when it goes on, it checked or did itself.      *)
LEMMA PlacesDecided ==
  ASSUME TypeOK, CustodyInv, OutcomeInv, Deciding
  PROVE  PlacesInv'
<1> USE DecidingFrom, Whereabouts
    DEF PlacesInv, AdapterInv, Stored, Back, Ended, RecordsInv, Unrecorded, MayArchive,
        Early, Replacing, MovePhases, CarriedInv, To,
        Succeeds, Fails, Return, GoTo, StartMoves, RollBack, SyncDirectory, Pick, MoveFailed,
        names, stage, sqlite, control
<1>1. CASE Inspect
  BY <1>1 DEF Inspect
<1>2. CASE BeginExclusive
  BY <1>2 DEF BeginExclusive
<1>3. CASE RebuildDatabase
  BY <1>3 DEF RebuildDatabase
<1>4. CASE RollbackSnapshot
  BY <1>4 DEF RollbackSnapshot
<1>5. CASE PrepareRebuilt
  BY <1>5 DEF PrepareRebuilt
<1>6. CASE RecheckArchive
  BY <1>6 DEF RecheckArchive
<1>7. CASE ArchiveNext
  BY <1>7 DEF ArchiveNext
<1>8. CASE SyncArchive
  BY <1>8 DEF SyncArchive
<1>9. CASE CheckCleared
  BY <1>9 DEF CheckCleared
<1>10. CASE ActivateRebuilt
  BY <1>10 DEF ActivateRebuilt
<1>11. CASE ConfirmMove
  BY <1>11 DEF ConfirmMove, MoveDone
<1>12. CASE SyncActivated
  BY <1>12 DEF SyncActivated
<1>13. CASE ReopenRebuilt
  BY <1>13 DEF ReopenRebuilt
<1>14. CASE Restrict
  BY <1>14 DEF Restrict
<1>15. CASE Quarantine
  BY <1>15 DEF Quarantine
<1>16. CASE SyncQuarantine
  BY <1>16 DEF SyncQuarantine
<1>17. CASE RestoreNext
  BY <1>17 DEF RestoreNext
<1>18. CASE CheckRestored
  BY <1>18 DEF CheckRestored
<1>19. CASE ReopenOriginal
  BY <1>19, Reopened
<1>20. QED
  BY <1>1, <1>2, <1>3, <1>4, <1>5, <1>6, <1>7, <1>8, <1>9, <1>10, <1>11, <1>12, <1>13,
     <1>14, <1>15, <1>16, <1>17, <1>18, <1>19 DEF Deciding

(* The adapter's state in each phase is what the phase before left.        *)
LEMMA AdapterDecided ==
  ASSUME TypeOK, CustodyInv, OutcomeInv, Deciding
  PROVE  AdapterInv'
<1> USE DecidingFrom, Whereabouts
    DEF AdapterInv, PublicInv, PlacesInv, Ended, Early,
        Succeeds, Fails, Return, GoTo, StartMoves, RollBack, SyncDirectory, Pick, MoveFailed,
        names, stage, sqlite, control
<1>1. CASE Inspect
  BY <1>1 DEF Inspect
<1>2. CASE BeginExclusive
  BY <1>2 DEF BeginExclusive
<1>3. CASE RebuildDatabase
  BY <1>3 DEF RebuildDatabase
<1>4. CASE RollbackSnapshot
  BY <1>4 DEF RollbackSnapshot
<1>5. CASE PrepareRebuilt
  BY <1>5 DEF PrepareRebuilt
<1>6. CASE RecheckArchive
  BY <1>6 DEF RecheckArchive
<1>7. CASE ArchiveNext
  BY <1>7 DEF ArchiveNext
<1>8. CASE SyncArchive
  BY <1>8 DEF SyncArchive
<1>9. CASE CheckCleared
  BY <1>9 DEF CheckCleared
<1>10. CASE ActivateRebuilt
  BY <1>10 DEF ActivateRebuilt
<1>11. CASE ConfirmMove
  BY <1>11 DEF ConfirmMove, MoveDone
<1>12. CASE SyncActivated
  BY <1>12 DEF SyncActivated
<1>13. CASE ReopenRebuilt
  BY <1>13 DEF ReopenRebuilt
<1>14. CASE Restrict
  BY <1>14 DEF Restrict
<1>15. CASE Quarantine
  BY <1>15 DEF Quarantine
<1>16. CASE SyncQuarantine
  BY <1>16 DEF SyncQuarantine
<1>17. CASE RestoreNext
  BY <1>17 DEF RestoreNext
<1>18. CASE CheckRestored
  BY <1>18 DEF CheckRestored
<1>19. CASE ReopenOriginal
  BY <1>19, Reopened
<1>20. QED
  BY <1>1, <1>2, <1>3, <1>4, <1>5, <1>6, <1>7, <1>8, <1>9, <1>10, <1>11, <1>12, <1>13,
     <1>14, <1>15, <1>16, <1>17, <1>18, <1>19 DEF Deciding

(* The rebuilt file is synced before it is public, and sought before Ok.   *)
LEMMA PublicDecided ==
  ASSUME TypeOK, CustodyInv, OutcomeInv, Deciding
  PROVE  \A d \in images' : PublicInv(d)'
<1> USE DecidingFrom, Whereabouts
    DEF PublicInv, RecordsInv, PlacesInv, AdapterInv, Ended, MayArchive, Early,
        Succeeds, Fails, Return, GoTo, StartMoves, RollBack, SyncDirectory, Pick, MoveFailed,
        names, stage, sqlite, control
<1>1. CASE Inspect
  BY <1>1 DEF Inspect
<1>2. CASE BeginExclusive
  BY <1>2 DEF BeginExclusive
<1>3. CASE RebuildDatabase
  BY <1>3 DEF RebuildDatabase
<1>4. CASE RollbackSnapshot
  BY <1>4 DEF RollbackSnapshot
<1>5. CASE PrepareRebuilt
  BY <1>5 DEF PrepareRebuilt
<1>6. CASE RecheckArchive
  BY <1>6 DEF RecheckArchive
<1>7. CASE ArchiveNext
  BY <1>7 DEF ArchiveNext
<1>8. CASE SyncArchive
  BY <1>8 DEF SyncArchive
<1>9. CASE CheckCleared
  BY <1>9 DEF CheckCleared
<1>10. CASE ActivateRebuilt
  BY <1>10 DEF ActivateRebuilt
<1>11. CASE ConfirmMove
  BY <1>11 DEF ConfirmMove, MoveDone
<1>12. CASE SyncActivated
  BY <1>12 DEF SyncActivated
<1>13. CASE ReopenRebuilt
  BY <1>13 DEF ReopenRebuilt
<1>14. CASE Restrict
  BY <1>14 DEF Restrict
<1>15. CASE Quarantine
  BY <1>15 DEF Quarantine
<1>16. CASE SyncQuarantine
  BY <1>16 DEF SyncQuarantine
<1>17. CASE RestoreNext
  BY <1>17 DEF RestoreNext
<1>18. CASE CheckRestored
  BY <1>18 DEF CheckRestored
<1>19. CASE ReopenOriginal
  BY <1>19, Reopened
<1>20. QED
  BY <1>1, <1>2, <1>3, <1>4, <1>5, <1>6, <1>7, <1>8, <1>9, <1>10, <1>11, <1>12, <1>13,
     <1>14, <1>15, <1>16, <1>17, <1>18, <1>19 DEF Deciding

-----------------------------------------------------------------------------
(* A step that changes only private names, as Stage::create and Drop for   *)
(* Stage do.                                                               *)
PublicSame ==
  /\ \A name \in Public : dir'[name] = dir[name]
  /\ \A e \in images' : \E d \in images : \A name \in Public : e[name] = d[name]

(* Creating rebuilt.db in the private directory. *)
LEMMA StageCreated ==
  ASSUME TypeOK, CustodyInv, OutcomeInv, CreateStage
  PROVE  OutcomeInv'
<1> dir \in Directories /\ images \subseteq Directories
  BY DEF TypeOK
<1> USE NameTypes, DecidingFrom, Whereabouts
<1>1. PublicSame
  <2>1. ASSUME NEW inode, NEW d \in Directories, NEW name \in Public
        PROVE  Bind(d, Staged, inode)[name] = d[name]
    BY BindWhere, Distinct
  <2>2. CASE UNCHANGED <<dir, images>>
    BY <2>2 DEF PublicSame
  <2>3. ASSUME NEW inode, dir' = Bind(dir, Staged, inode),
               images' \subseteq images \cup {Bind(d, Staged, inode) : d \in images}
        PROVE  PublicSame
    BY <2>1, <2>3 DEF PublicSame
  <2>4. QED
    BY <2>2, <2>3 DEF CreateStage, BindName
<1>2. /\ pc = "stage"
      /\ pc' = "begin" \/ (pc' = "drop" /\ outcome' = "failed")
      /\ UNCHANGED <<aside, moved, surviving, handle, lock, content, mode>>
  BY DEF CreateStage, GoTo, Return, sqlite
<1>3. CarriedInv'
  BY <1>2 DEF CarriedInv, MovePhases
<1>4. RecordsInv' /\ \A i \in surviving : moved[i] = Empty
  BY <1>2 DEF RecordsInv, Unrecorded, Early
<1>5. PlacesInv'
  BY <1>1, <1>2, <1>4 DEF PlacesInv, PublicSame, Stored, Back, Ended
<1>6. AdapterInv'
  BY <1>2 DEF AdapterInv, Ended, Early
<1>7. \A d \in images : d[Source(0)] = Original(0)
  BY <1>2 DEF MayArchive, Early, RecordsInv
<1>8. ASSUME NEW e \in images' PROVE PublicInv(e)'
  BY <1>1, <1>2, <1>7, <1>8 DEF PublicSame, PublicInv, Ended
<1>9. QED
  BY <1>3, <1>4, <1>5, <1>6, <1>8 DEF OutcomeInv

(* Drop for Stage: only the private directory changes, whatever the call   *)
(* is about to return.                                                     *)
LEMMA StageDropped ==
  ASSUME TypeOK, CustodyInv, OutcomeInv, DropStage
  PROVE  OutcomeInv'
<1> dir \in Directories /\ images \subseteq Directories
  BY DEF TypeOK
<1> USE NameTypes, DecidingFrom, Whereabouts
<1>1. PublicSame
  <2>1. ASSUME NEW d \in Directories, NEW name \in Public
        PROVE  Unbind(d, Staged)[name] = d[name]
    BY Distinct DEF Unbind, Directories
  <2>2. CASE UNCHANGED <<dir, images>>
    BY <2>2 DEF PublicSame
  <2>3. CASE UnbindName(Staged)
    BY <2>1, <2>3 DEF PublicSame, UnbindName
  <2>4. QED
    BY <2>2, <2>3 DEF DropStage
<1>2. /\ pc = "drop" /\ pc' = "done"
      /\ UNCHANGED <<outcome, aside, moved, surviving, handle, lock, content, mode>>
  BY DEF DropStage, GoTo, sqlite
<1>3. CarriedInv'
  BY <1>2 DEF CarriedInv, MovePhases
<1>4. RecordsInv'
  BY <1>2 DEF RecordsInv, Unrecorded, Early
<1>5. PlacesInv'
  BY <1>1, <1>2 DEF PlacesInv, PublicSame, Stored, Back, Ended
<1>6. AdapterInv'
  BY <1>2 DEF AdapterInv, Ended, Early
<1>7. ASSUME NEW e \in images' PROVE PublicInv(e)'
  BY <1>1, <1>2, <1>7 DEF PublicSame, PublicInv, Ended
<1>8. QED
  BY <1>3, <1>4, <1>5, <1>6, <1>7 DEF OutcomeInv

(* Closing the source: the sidecars SQLite removes are no longer part of   *)
(* the original, and the main file is not among them.                      *)
LEMMA OriginalClosed ==
  ASSUME TypeOK, CustodyInv, OutcomeInv, CloseOriginal
  PROVE  OutcomeInv'
<1> dir \in Directories /\ images \subseteq Directories
  BY DEF TypeOK
<1> USE NameTypes, DecidingFrom, Whereabouts
<1> DEFINE Closed(d, e) == /\ e[Source(0)] = d[Source(0)]
                           /\ \A i \in Suffixes : e[Archive(i)] = d[Archive(i)]
                           /\ \A name \in Public : e[name] \in {d[name], Empty}
<1>1. /\ 0 \in surviving' /\ surviving' \subseteq surviving /\ Closed(dir, dir')
      /\ \A e \in images' : \E d \in images : Closed(d, e)
  <2>1. ASSUME NEW gone \in SUBSET (Suffixes \ {0}), NEW d \in Directories
        PROVE  Closed(d, WithoutSidecars(d, gone))
    BY Distinct DEF WithoutSidecars, Directories
  <2>2. \A d : Closed(d, d)
    OBVIOUS
  <2> HIDE DEF Closed
  <2>3. CASE UNCHANGED <<dir, images, surviving>>
    BY <2>2, <2>3 DEF RecordsInv
  <2>4. ASSUME NEW kept \in SUBSET surviving, 0 \in kept, surviving' = kept,
               dir' = WithoutSidecars(dir, surviving \ kept),
               images' = images \cup {WithoutSidecars(d, surviving \ kept) : d \in images}
        PROVE  /\ Closed(dir, dir')
               /\ \A e \in images' : \E d \in images : Closed(d, e)
    <3>1. surviving \ kept \in SUBSET (Suffixes \ {0})
      BY <2>4
    <3>2. \A d \in images : Closed(d, WithoutSidecars(d, surviving \ kept))
      BY <2>1, <3>1
    <3>3. QED
      BY <2>2, <2>4, <3>2
  <2>5. QED
    BY <2>3, <2>4 DEF CloseOriginal
<1>2. /\ pc = "close"
      /\ \/ pc' = "recheck"
         \/ pc' = "drop" /\ outcome' = "failed" /\ UNCHANGED handle
      /\ UNCHANGED <<aside, moved, lock, content, mode>>
  BY DEF CloseOriginal, GoTo, Return, stage
<1>3. CarriedInv'
  BY <1>2 DEF CarriedInv, MovePhases
<1>4. RecordsInv' /\ \A i \in surviving : moved[i] = Empty
  BY <1>1, <1>2 DEF RecordsInv, Unrecorded, Early
<1>5. PlacesInv'
  BY <1>1, <1>2, <1>4 DEF PlacesInv, Stored, Back, Ended
<1>6. AdapterInv'
  BY <1>2 DEF AdapterInv, Ended, Early
<1>7. \A d \in images : d[Source(0)] = Original(0)
  BY <1>2 DEF MayArchive, Early, RecordsInv
<1>8. ASSUME NEW e \in images' PROVE PublicInv(e)'
  BY <1>1, <1>2, <1>7, <1>8 DEF PublicInv, Ended
<1>9. QED
  BY <1>3, <1>4, <1>5, <1>6, <1>8 DEF OutcomeInv

(* Another writer's file at a name nobody uses is at none the call counts  *)
(* on.                                                                     *)
LEMMA ForeignCreated ==
  ASSUME TypeOK, CustodyInv, OutcomeInv, NEW name \in Public, ForeignCreate(name)
  PROVE  OutcomeInv'
<1> dir \in Directories /\ images \subseteq Directories
  BY DEF TypeOK
<1> USE NameTypes, DecidingFrom, Whereabouts
<1>1. /\ \A n \in Names : dir'[n] = dir[n] \/ (dir[n] = Empty /\ dir'[n] = NewInode)
      /\ \A e \in images' : \E d \in images :
           \A n \in Names : e[n] = d[n] \/ (d[n] = Empty /\ e[n] = NewInode)
  BY BindWhere DEF ForeignCreate, BindName
<1>2. NewInode # Empty /\ NewInode # Rebuilt /\ \A i \in Suffixes : NewInode # Original(i)
  BY DEF NewInode, Foreign, Empty, Rebuilt, Original
<1>3. UNCHANGED <<pc, step, slot, holding, outcome, aside, moved, surviving, handle, lock, content, mode>>
  BY DEF ForeignCreate, control, sqlite, stage
<1>4. CarriedInv'
  <2> pc \in MovePhases /\ slot \in Suffixes => From \in Names /\ To \in Names
    BY MoveNames
  <2> From' = From /\ To' = To
    BY <1>3 DEF From, To
  <2> QED
    BY <1>1, <1>3 DEF CarriedInv
<1>5. RecordsInv'
  BY <1>3 DEF RecordsInv, Unrecorded
<1>6. PlacesInv'
  BY <1>1, <1>2, <1>3 DEF PlacesInv, RecordsInv, Stored, Back, Ended
<1>7. AdapterInv'
  BY <1>3 DEF AdapterInv, Ended
<1>8. ASSUME NEW e \in images' PROVE PublicInv(e)'
  BY <1>1, <1>2, <1>3, <1>8 DEF PublicInv, Ended
<1>9. QED
  BY <1>4, <1>5, <1>6, <1>7, <1>8 DEF OutcomeInv

(* After a crash nothing is promised but what a power loss may leave. *)
LEMMA CrashOutcome ==
  ASSUME TypeOK, CustodyInv, OutcomeInv, Crash
  PROVE  OutcomeInv'
<1> USE DecidingFrom
<1>1. /\ pc' = "crashed" /\ dir' \in images /\ images' = {dir'} /\ lock' = "none"
      /\ UNCHANGED <<aside, moved, surviving, content>>
  BY DEF Crash, stage
<1>2. CarriedInv' /\ AdapterInv'
  BY <1>1 DEF CarriedInv, AdapterInv, MovePhases, Ended, Early
<1>3. RecordsInv' /\ PlacesInv'
  BY <1>1 DEF RecordsInv, PlacesInv, Unrecorded, Early, Stored, Back, Ended
<1>4. ASSUME NEW e \in images' PROVE PublicInv(e)'
  BY <1>1, <1>4 DEF PublicInv, Ended
<1>5. QED
  BY <1>2, <1>3, <1>4 DEF OutcomeInv

(* A rename of move_noreplace that is refused or fails. *)
LEMMA RenameRefused ==
  ASSUME TypeOK, CustodyInv, OutcomeInv, RenameNoReplace, UNCHANGED <<dir, images>>, MoveFailed
  PROVE  OutcomeInv'
<1> USE DecidingFrom, Whereabouts DEF MoveFailed, RollBack, Return
<1>1. /\ pc \in MovePhases /\ step = "rename"
      /\ UNCHANGED <<aside, moved, surviving, handle, lock, content, mode>>
  BY DEF RenameNoReplace, sqlite, stage
<1>2. CarriedInv' /\ AdapterInv'
  BY <1>1 DEF CarriedInv, AdapterInv, MovePhases, Ended, Early
<1>3. RecordsInv'
  BY <1>1 DEF RecordsInv, Unrecorded, MovePhases, Early
<1>4. PlacesInv'
  BY <1>1 DEF PlacesInv, RecordsInv, Unrecorded, Stored, Back, Ended, MovePhases,
     Replacing, Early
<1>5. ASSUME NEW d \in images PROVE PublicInv(d)'
  BY <1>1 DEF PublicInv, Ended, MovePhases
<1>6. QED
  BY <1>2, <1>3, <1>4, <1>5 DEF OutcomeInv

(* A rename that succeeds moves the inode it was given, and in an image    *)
(* what the image has at that name.                                        *)
LEMMA RenameDone ==
  ASSUME TypeOK, CustodyInv, CustodyInv', OutcomeInv, RenameNoReplace,
         MayRename(From, To), MoveEntry(From, To), step' = "confirm",
         UNCHANGED <<pc, slot, holding, outcome>>
  PROVE  OutcomeInv'
<1> dir \in Directories /\ images \subseteq Directories
  BY DEF TypeOK
<1> USE NameTypes, DecidingFrom, Whereabouts, Distinct
<1>1. /\ pc \in MovePhases /\ step = "rename" /\ slot \in Suffixes
      /\ pc \in {"activate", "quarantine"} => slot = 0
      /\ UNCHANGED <<aside, moved, surviving, handle, lock, content, mode>>
  BY DEF RenameNoReplace, sqlite, stage, TypeOK
<1>2. /\ From \in Names /\ To \in Names /\ From # To /\ From' = From /\ To' = To
      /\ dir[From] = holding /\ dir[To] = Empty /\ holding # Empty
  BY <1>1, MoveNames DEF MayRename, From, To, CarriedInv
<1>3. \A d \in images : \A e : e = Rename(d, From, To) =>
        /\ d[From] = Empty => e = d
        /\ d[From] # Empty => e[From] = Empty /\ e[To] = d[From]
        /\ \A n \in Names \ {From, To} : e[n] = d[n]
  BY <1>2, RenameWhere
<1>4. /\ dir'[From] = Empty /\ dir'[To] = holding
      /\ \A n \in Names \ {From, To} : dir'[n] = dir[n]
  BY <1>2, <1>3 DEF MoveEntry
<1>5. CarriedInv'
  BY <1>1, <1>2, <1>4 DEF CarriedInv
<1>6. RecordsInv' /\ AdapterInv'
  BY <1>1 DEF RecordsInv, AdapterInv, Unrecorded, Ended
<1>7. PlacesInv'
  <2>1. CASE pc = "archive"
    <3>1. From = Source(slot) /\ To = Archive(slot) /\ dir'[Source(0)] # Original(0)
      BY <2>1 DEF From, To, CustodyInv, DirectoryInv
    <3>2. \A i \in surviving : Stored(i)' => dir'[Archive(i)] = Original(i)
      BY <1>1, <1>4, <2>1, <3>1 DEF PlacesInv, CarriedInv, Stored, Ended
    <3>3. QED
      BY <2>1, <1>1, <3>1, <3>2 DEF PlacesInv, Back, Ended
  <2>2. CASE pc \in {"activate", "quarantine"}
    <3>1. /\ \A i \in Suffixes : dir'[Archive(i)] = dir[Archive(i)]
          /\ dir'[Source(0)] # Original(0)
      BY <1>1, <1>2, <1>4, <2>2 DEF From, To, CarriedInv
    <3>2. QED
      BY <1>1, <2>2, <3>1 DEF PlacesInv, Stored, Back, Ended
  <2>3. CASE pc = "restore"
    <3>1. From = Archive(slot) /\ To = Source(slot)
      BY <2>3 DEF From, To
    <3>2. /\ \A i \in Suffixes \ {slot} : dir'[Source(i)] = dir[Source(i)]
          /\ dir'[Source(slot)] = moved[slot] /\ moved[slot] # Empty
      BY <1>1, <1>2, <1>4, <2>3, <3>1 DEF CarriedInv
    <3>3. \A i \in surviving : Back(i)' /\ moved[i] # Empty => dir'[Source(i)] = Original(i)
      BY <1>1, <2>3, <3>2 DEF PlacesInv, RecordsInv, Back, Ended
    <3>4. CASE slot = 0
      BY <1>1, <2>3, <3>3, <3>4 DEF PlacesInv, Stored, Back, Ended
    <3>5. CASE slot > 0
      <4>1. dir[Source(0)] = Original(0) => moved[0] = Empty
        BY <1>1, <2>3, <3>5 DEF PlacesInv, Back, Ended
      <4>2. QED
        BY <1>1, <2>3, <3>2, <3>3, <3>5, <4>1 DEF PlacesInv, RecordsInv, Stored, Back, Ended
    <3>6. QED
      BY <1>1, <3>4, <3>5
  <2>4. QED
    BY <1>1, <2>1, <2>2, <2>3 DEF MovePhases
<1>8. ASSUME NEW e \in images' PROVE PublicInv(e)'
  <2> SUFFICES ASSUME NEW name \in Public, e[name] = Rebuilt
               PROVE  name = Source(0) /\ content = "durable" /\ e[Archive(0)] = Original(0)
    BY <1>1 DEF PublicInv, Ended, MovePhases
  <2>1. CASE e \in images
    BY <2>1 DEF PublicInv
  <2>2. ASSUME NEW d \in images, e = Rename(d, From, To), d[From] # Empty
        PROVE  name = Source(0) /\ content = "durable" /\ e[Archive(0)] = Original(0)
    <3>1. /\ e[From] = Empty /\ e[To] = d[From]
          /\ \A n \in Names \ {From, To} : e[n] = d[n]
      BY <1>3, <2>2
    <3>2. PublicInv(d)
      BY <2>2
    <3>3. CASE pc = "archive"
      <4>1. /\ From = Source(slot) /\ To = Archive(slot)
            /\ slot = 0 => d[Archive(0)] # Original(0)
        BY <1>1, <2>2, <3>3 DEF From, To, MayArchive, RecordsInv
      <4>2. QED
        BY <1>1, <3>1, <3>2, <4>1 DEF PublicInv
    <3>4. CASE pc = "activate"
      <4>1. /\ From = Staged /\ To = Source(0) /\ content = "durable"
            /\ d[Archive(0)] = Original(0)
        BY <2>2, <3>4 DEF From, To, AdapterInv, Replacing, RecordsInv
      <4>2. QED
        BY <3>1, <3>2, <4>1 DEF PublicInv
    <3>5. CASE pc = "quarantine"
      BY <3>1, <3>2, <3>5 DEF PublicInv, From, To
    <3>6. CASE pc = "restore"
      <4>1. From = Archive(slot) /\ To = Source(slot)
        BY <3>6 DEF From, To
      <4>2. QED
        BY <1>1, <3>1, <3>2, <4>1 DEF PublicInv
    <3>7. QED
      BY <1>1, <3>3, <3>4, <3>5, <3>6 DEF MovePhases
  <2>3. QED
    BY <1>3, <2>1, <2>2 DEF MoveEntry
<1>9. QED
  BY <1>5, <1>6, <1>7, <1>8 DEF OutcomeInv

-----------------------------------------------------------------------------
(* The invariant is inductive: every step keeps it, as long as it is not   *)
(* another writer moving an entry out.                                     *)
LEMMA OutcomeStep ==
  ASSUME TypeOK, CustodyInv, CustodyInv', QuietInv, [Next]_vars
  PROVE  QuietInv'
<1> SUFFICES ASSUME displaced' = 0, OutcomeInv PROVE OutcomeInv'
  <2>1. CASE \E name \in Public : ForeignReplace(name)
    BY <2>1 DEF ForeignReplace, TypeOK, QuietInv
  <2>2. CASE UNCHANGED displaced
    BY <2>2 DEF QuietInv
  <2>3. QED
    BY <2>1, <2>2
    DEF Next, Recover, Inspect, CreateStage, BeginExclusive, RebuildDatabase, RollbackSnapshot,
        PrepareRebuilt, CloseOriginal, RecheckArchive, ArchiveNext, SyncArchive, CheckCleared,
        ActivateRebuilt, RenameNoReplace, ConfirmMove, SyncActivated, ReopenRebuilt, Restrict,
        Quarantine, SyncQuarantine, RestoreNext, CheckRestored, ReopenOriginal, DropStage,
        ForeignCreate, Crash, Terminated, vars, budget
<1>1. CASE Deciding
  <2>1. surviving' = surviving
    BY <1>1 DEF Deciding, Inspect, BeginExclusive, RebuildDatabase, RollbackSnapshot,
                PrepareRebuilt, RecheckArchive, ArchiveNext, SyncArchive, CheckCleared,
                ActivateRebuilt, ConfirmMove, SyncActivated, ReopenRebuilt, Restrict,
                Quarantine, SyncQuarantine, RestoreNext, CheckRestored, ReopenOriginal
  <2>2. QED
    BY <1>1, CarriedDecided, RecordsDecided, PlacesDecided, AdapterDecided, PublicDecided
    DEF OutcomeInv
<1>2. CASE CreateStage
  BY <1>2, StageCreated
<1>3. CASE CloseOriginal
  BY <1>3, OriginalClosed
<1>4. CASE RenameNoReplace
  BY <1>4, RenameRefused, RenameDone DEF RenameNoReplace, Succeeds
<1>5. CASE DropStage
  BY <1>5, StageDropped
<1>6. ASSUME NEW name \in Public, ForeignCreate(name) PROVE OutcomeInv'
  BY <1>6, ForeignCreated
<1>7. ASSUME NEW name \in Public, ForeignReplace(name) PROVE OutcomeInv'
  BY <1>7 DEF ForeignReplace, TypeOK
<1>8. CASE Crash
  BY <1>8, CrashOutcome
<1>9. CASE UNCHANGED vars
  <2>1. UNCHANGED <<pc, step, slot, holding, outcome, dir, aside, images, moved, surviving>>
    BY <1>9 DEF vars, control, names
  <2>2. UNCHANGED <<handle, lock, content, mode>>
    BY <1>9 DEF vars, sqlite, stage
  <2>3. From' = From /\ To' = To
    BY <2>1 DEF From, To
  <2>4. CarriedInv' /\ RecordsInv' /\ PlacesInv'
    BY <2>1, <2>3 DEF OutcomeInv, CarriedInv, RecordsInv, PlacesInv, Unrecorded, Stored,
       Back, Ended
  <2>5. AdapterInv' /\ \A d \in images' : PublicInv(d)'
    BY <2>1, <2>2 DEF OutcomeInv, AdapterInv, PublicInv, Ended
  <2>6. QED
    BY <2>4, <2>5 DEF OutcomeInv
<1>10. QED
  BY <1>1, <1>2, <1>3, <1>4, <1>5, <1>6, <1>7, <1>8, <1>9 DEF Next, Recover, Deciding,
     Terminated

(* In every behaviour, until another writer moves an entry out, recover()  *)
(* knows where the original and the rebuilt file are.                      *)
THEOREM OutcomeHolds == Spec => []QuietInv
<1>1. Init => QuietInv
  BY OutcomeInit DEF QuietInv
<1>2. QED
  BY <1>1, OutcomeStep, TypeCorrect, CustodyHolds, PTL DEF Spec

(* A power loss never leaves a rebuilt database at the active path whose   *)
(* content was not synced, or whose original is not durably archived.      *)
THEOREM DurableBeforeActive == Spec => [](displaced = 0 => ActivationIsDurable)
<1>1. TypeOK /\ QuietInv => (displaced = 0 => ActivationIsDurable)
  BY NameTypes DEF QuietInv, OutcomeInv, PublicInv, ActivationIsDurable
<1>2. QED
  BY <1>1, OutcomeHolds, TypeCorrect, PTL

(* Ok from recover() tells the truth: the rebuilt database is active and   *)
(* durable, every surviving file of the original is archived.              *)
THEOREM SuccessIsTrue == Spec => [](displaced = 0 => SuccessHolds)
<1>1. TypeOK /\ QuietInv => (displaced = 0 => SuccessHolds)
  BY DEF TypeOK, QuietInv, OutcomeInv, PublicInv, PlacesInv, AdapterInv, Stored, Ended,
         SuccessHolds
<1>2. QED
  BY <1>1, OutcomeHolds, TypeCorrect, PTL

(* An error other than recovery_rollback_failed tells the truth: the       *)
(* original is active again and durable, with the sidecars recorded for    *)
(* rollback, and the connection is open on it.                             *)
THEOREM FailureIsUndone == Spec => [](displaced = 0 => FailureRestores)
<1>1. TypeOK /\ CustodyInv /\ QuietInv => (displaced = 0 => FailureRestores)
  <2> SUFFICES ASSUME TypeOK, CustodyInv, OutcomeInv, pc = "done", outcome = "failed"
               PROVE  FailureRestores
    BY DEF QuietInv, FailureRestores
  <2>1. /\ dir \in images /\ 0 \in Suffixes /\ Original(0) # Rebuilt
        /\ lock \in {"none", "exclusive"}
    BY NameTypes, Distinct DEF CustodyInv, DirectoryInv, TypeOK
  <2>2. \A d \in images : d[Source(0)] = Original(0) /\ PublicInv(d)
    BY DEF OutcomeInv, PublicInv, Ended
  <2>3. QED
    BY <2>1, <2>2 DEF OutcomeInv, PublicInv, PlacesInv, AdapterInv, Back, Ended,
       FailureRestores
<1>2. QED
  BY <1>1, OutcomeHolds, CustodyHolds, TypeCorrect, PTL

(* While the main file is active its surviving sidecars are beside it,     *)
(* however far archiving or rolling back has come.                         *)
THEOREM SidecarsFollow == Spec => [](displaced = 0 => DatabaseWhole)
<1>1. TypeOK /\ CustodyInv /\ QuietInv => (displaced = 0 => DatabaseWhole)
  <2> SUFFICES ASSUME TypeOK, CustodyInv, OutcomeInv, NEW i \in surviving,
                      dir[Source(0)] = Original(0), pc # "crashed"
               PROVE  dir[Source(i)] = Original(i) \/ LeftInArchive(i)
    BY DEF QuietInv, DatabaseWhole
  <2>1. dir[Source(i)] = Original(i) \/ dir[Archive(i)] = Original(i)
    BY Whereabouts DEF OutcomeInv, CustodyInv, DirectoryInv
  <2>2. QED
    BY <2>1 DEF OutcomeInv, PlacesInv, LeftInArchive
<1>2. QED
  BY <1>1, OutcomeHolds, CustodyHolds, TypeCorrect, PTL

-----------------------------------------------------------------------------
(* What Custody sees of a recovery. *)
Active == Occupant(dir[Source(0)])
Archived == Occupant(dir[Archive(0)])
Status == IF pc = "done" THEN outcome ELSE IF pc = "crashed" THEN "crashed" ELSE "running"

(* An inode is one kind of occupant. *)
LEMMA Occupants ==
  /\ Occupant(Empty) = "vacant" /\ Occupant(Original(0)) = "original"
  /\ Occupant(Rebuilt) = "rebuilt"
  /\ \A inode : /\ inode \notin {Empty, Original(0), Rebuilt} => Occupant(inode) = "intruder"
                /\ Occupant(inode) \in {"vacant", "original", "rebuilt", "intruder"}
  BY DEF Occupant, Empty, Original, Rebuilt

(* Each of the four moves of the main name is a step of Custody; moving a  *)
(* sidecar is none.                                                        *)
LEMMA RenameSimulated ==
  ASSUME TypeOK, CustodyInv, OutcomeInv, RenameNoReplace
  PROVE  Promise!Next \/ UNCHANGED <<Active, Archived, Status>>
<1> dir \in Directories
  BY DEF TypeOK
<1> USE NameTypes, DecidingFrom, Distinct, Occupants
<1>1. /\ pc \in MovePhases /\ step = "rename" /\ slot \in Suffixes
      /\ pc \in {"activate", "quarantine"} => slot = 0
      /\ Status = "running" /\ Status' = "running"
  BY DEF RenameNoReplace, MoveFailed, RollBack, Return, Status, TypeOK, MovePhases
<1>2. CASE UNCHANGED dir
  BY <1>1, <1>2 DEF Active, Archived
<1>3. CASE MayRename(From, To) /\ MoveEntry(From, To)
  <2>1. /\ From \in Names /\ To \in Names /\ From # To
        /\ dir[From] = holding /\ dir[To] = Empty /\ holding # Empty
    BY <1>1, <1>3, MoveNames DEF MayRename, From, To, CarriedInv
  <2>2. /\ dir'[From] = Empty /\ dir'[To] = holding
        /\ \A n \in Names \ {From, To} : dir'[n] = dir[n]
    BY <1>3, <2>1, RenameWhere DEF MoveEntry
  <2>3. CASE slot # 0
    <3>1. \/ From = Archive(slot) /\ To = Source(slot)
          \/ From = Source(slot) /\ To = Archive(slot)
      BY <1>1, <2>3 DEF From, To, MovePhases
    <3>2. UNCHANGED <<dir[Source(0)], dir[Archive(0)]>>
      BY <1>1, <2>2, <2>3, <3>1
    <3>3. QED
      BY <1>1, <3>2 DEF Active, Archived
  <2>4. CASE pc = "archive" /\ slot = 0
    <3>1. From = Source(0) /\ To = Archive(0) /\ holding = Original(0)
      BY <1>1, <2>4 DEF From, To, CarriedInv, RecordsInv
    <3>2. Promise!Archive
      BY <1>1, <2>1, <2>2, <3>1 DEF Promise!Archive, Status
    <3>3. QED
      BY <1>1, <3>2 DEF Promise!Next, Status
  <2>5. CASE pc = "restore" /\ slot = 0
    <3>1. From = Archive(0) /\ To = Source(0) /\ holding = Original(0)
      BY <1>1, <2>1, <2>5 DEF From, To, CarriedInv, RecordsInv
    <3>2. Promise!Restore
      BY <1>1, <2>1, <2>2, <3>1 DEF Promise!Restore, Status
    <3>3. QED
      BY <1>1, <3>2 DEF Promise!Next, Status
  <2>6. CASE pc = "activate"
    <3>1. From = Staged /\ To = Source(0) /\ holding = Rebuilt
      BY <1>1, <2>6 DEF From, To, CarriedInv
    <3>2. dir[Archive(0)] = Original(0)
      BY <2>6, Whereabouts DEF RecordsInv, Replacing
    <3>3. Promise!Activate
      BY <1>1, <2>1, <2>2, <3>1, <3>2 DEF Promise!Activate, Status
    <3>4. QED
      BY <1>1, <3>3 DEF Promise!Next, Status
  <2>7. CASE pc = "quarantine"
    <3>1. From = Source(0) /\ To = Failed /\ holding = Rebuilt
      BY <1>1, <2>7 DEF From, To, CarriedInv
    <3>2. Promise!Withdraw
      BY <1>1, <2>1, <2>2, <3>1 DEF Promise!Withdraw, Status
    <3>3. QED
      BY <1>1, <3>2 DEF Promise!Next, Status
  <2>8. QED
    BY <1>1, <2>3, <2>4, <2>5, <2>6, <2>7 DEF MovePhases
<1>4. QED
  BY <1>2, <1>3 DEF RenameNoReplace, Succeeds

(* Returning is a step of Custody: what recover() says is so. *)
LEMMA ReturnSimulated ==
  ASSUME TypeOK, CustodyInv, OutcomeInv, DropStage
  PROVE  Promise!Next
<1> dir \in Directories
  BY DEF TypeOK
<1> USE NameTypes, DecidingFrom, Distinct, Occupants
<1>1. UNCHANGED <<dir[Source(0)], dir[Archive(0)]>>
  BY DEF DropStage, UnbindName, Unbind, Directories
<1>2. pc = "drop" /\ Status = "running" /\ Status' = outcome
  BY DEF DropStage, GoTo, Status
<1>3. CASE outcome = "ok"
  <2>1. dir[Source(0)] = Rebuilt /\ dir[Archive(0)] = Original(0)
    BY <1>2, <1>3 DEF PublicInv, PlacesInv, RecordsInv, Stored, Ended
  <2>2. QED
    BY <1>1, <1>2, <1>3, <2>1 DEF Promise!Return, Promise!Next, Status
<1>4. CASE outcome = "failed"
  <2>1. dir[Source(0)] = Original(0)
    BY <1>2, <1>4 DEF PublicInv, Ended
  <2>2. QED
    BY <1>1, <1>2, <1>4, <2>1 DEF Promise!Return, Promise!Next, Status
<1>5. CASE outcome = "blocked"
  BY <1>1, <1>2, <1>5 DEF Promise!Return, Promise!Next, Status
<1>6. QED
  BY <1>2, <1>3, <1>4, <1>5 DEF AdapterInv

(* A crash is a step of Custody: the original is under one of its names. *)
LEMMA CrashSimulated ==
  ASSUME TypeOK, CustodyInv, OutcomeInv, Crash
  PROVE  Promise!Next
<1> USE NameTypes, DecidingFrom, Occupants
<1>1. dir' \in images /\ Status = "running" /\ Status' = "crashed"
  BY DEF Crash, Running, Status
<1>2. dir'[Source(0)] = Original(0) \/ dir'[Archive(0)] = Original(0)
  BY <1>1, Whereabouts DEF RecordsInv
<1>3. QED
  BY <1>1, <1>2 DEF Promise!Crash, Promise!Next, Promise!Held, Promise!Entries, Status

(***************************************************************************)
(* Recovery implements Custody, when no other writer moves entries out:    *)
(* seen at its two public names, recover() is a call that moves the        *)
(* original there and back, replaces it only while it is archived, and     *)
(* returns what is so.                                                     *)
(***************************************************************************)
THEOREM CustodyImplemented ==
  ASSUME MaxDisplaced = 0
  PROVE  Spec => ImplementsCustody
<1> USE NameTypes, Distinct, Occupants
<1>1. Init => Promise!Init
  BY DEF Init, InitWith, Promise!Init, Source, Archive
<1>2. TypeOK /\ CustodyInv /\ QuietInv /\ [Next]_vars => [Promise!Next]_(Promise!vars)
  <2> SUFFICES ASSUME TypeOK, CustodyInv, OutcomeInv, [Next]_vars
               PROVE  Promise!Next \/ UNCHANGED <<Active, Archived, Status>>
    BY DEF QuietInv, TypeOK, Promise!vars, Active, Archived, Status
  <2> dir \in Directories
    BY DEF TypeOK
  <2>1. CASE Deciding
    <3>1. UNCHANGED dir /\ pc \notin {"done", "crashed"} /\ pc' \notin {"done", "crashed"}
      BY <2>1
      DEF Deciding, Inspect, BeginExclusive, RebuildDatabase, RollbackSnapshot, PrepareRebuilt,
          RecheckArchive, ArchiveNext, SyncArchive, CheckCleared, ActivateRebuilt, ConfirmMove,
          SyncActivated, ReopenRebuilt, Restrict, Quarantine, SyncQuarantine, RestoreNext,
          CheckRestored, ReopenOriginal, Return, GoTo, StartMoves, RollBack, Pick, MoveFailed,
          MoveDone, SyncDirectory, MovePhases, names
    <3>2. QED
      BY <3>1 DEF Active, Archived, Status
  <2>2. CASE CreateStage
    <3>1. \A inode : /\ Bind(dir, Staged, inode)[Source(0)] = dir[Source(0)]
                     /\ Bind(dir, Staged, inode)[Archive(0)] = dir[Archive(0)]
      BY BindWhere
    <3>2. UNCHANGED <<dir[Source(0)], dir[Archive(0)]>>
      BY <2>2, <3>1 DEF CreateStage, BindName
    <3>3. QED
      BY <2>2, <3>2 DEF CreateStage, GoTo, Return, Active, Archived, Status
  <2>3. CASE CloseOriginal
    <3>1. UNCHANGED <<dir[Source(0)], dir[Archive(0)]>>
      BY <2>3 DEF CloseOriginal, WithoutSidecars, TypeOK
    <3>2. QED
      BY <2>3, <3>1 DEF CloseOriginal, GoTo, Return, Active, Archived, Status
  <2>4. CASE RenameNoReplace
    BY <2>4, RenameSimulated
  <2>5. CASE DropStage
    BY <2>5, ReturnSimulated
  <2>6. ASSUME NEW name \in Public, ForeignCreate(name)
        PROVE  Promise!Next \/ UNCHANGED <<Active, Archived, Status>>
    <3>1. /\ Status = "running" /\ Status' = "running"
          /\ Occupant(NewInode) = "intruder"
      BY <2>6 DEF ForeignCreate, control, Running, Status, NewInode, Foreign, Empty,
         Rebuilt, Original
    <3>2. /\ dir[name] = Empty /\ dir'[name] = NewInode
          /\ \A n \in Names \ {name} : dir'[n] = dir[n]
      BY <2>6 DEF ForeignCreate, BindName, Bind, Directories
    <3>3. CASE name \notin {Source(0), Archive(0)}
      BY <3>1, <3>2, <3>3 DEF Active, Archived
    <3>4. CASE name \in {Source(0), Archive(0)}
      BY <3>1, <3>2, <3>4 DEF Promise!Intrude, Promise!Next, Status
    <3>5. QED
      BY <3>3, <3>4
  <2>7. ASSUME NEW name \in Public, ForeignReplace(name) PROVE FALSE
    BY <2>7 DEF ForeignReplace, TypeOK
  <2>8. CASE Crash
    BY <2>8, CrashSimulated
  <2>9. CASE UNCHANGED vars
    BY <2>9 DEF vars, control, names, Active, Archived, Status
  <2>10. QED
    BY <2>1, <2>2, <2>3, <2>4, <2>5, <2>6, <2>7, <2>8, <2>9 DEF Next, Recover, Deciding,
       Terminated
<1>3. QED
  BY <1>1, <1>2, TypeCorrect, CustodyHolds, OutcomeHolds, PTL DEF Spec,
     ImplementsCustody, Promise!Spec

-----------------------------------------------------------------------------
(* Another writer's file at the active path.                               *)

IsForeign(inode) == \E k \in 1 .. MaxForeign + MaxDisplaced : inode = Foreign(k)

(* What the identity checks compare with, and when Ok is decided. *)
ChecksInv ==
  /\ pc = "archive" /\ slot = 0 /\ step # "pick" => holding = Original(0)
  /\ pc = "activate" /\ step # "pick" => holding = Rebuilt
  /\ outcome = "ok" => pc \in {"drop", "done", "crashed"}

(* The call can no longer succeed: it is giving up, or the file is where a *)
(* check still to come looks.                                              *)
Doomed ==
  /\ outcome # "ok"
  /\ \/ pc \in {"restrict", "quarantine", "syncQuarantine", "restore", "reopenOriginal",
                "drop", "done", "crashed"}
     \/ pc # "reopenRebuilt" /\ IsForeign(dir[Source(0)])
     \/ pc = "archive" /\ slot = 0 /\ step = "confirm" /\ IsForeign(dir[Archive(0)])
     \/ ForeignBeside

(* Every check compares with what the call was given, in every state. *)
LEMMA ChecksHold == Spec => []ChecksInv
<1>1. Init => ChecksInv
  BY DEF Init, InitWith, ChecksInv
<1>2. TypeOK /\ ChecksInv /\ [Next]_vars => ChecksInv'
  <2> SUFFICES ASSUME TypeOK, ChecksInv, [Next]_vars PROVE ChecksInv'
    OBVIOUS
  <2> USE DEF ChecksInv, Return, GoTo, StartMoves, RollBack, Pick, MoveFailed, MovePhases
  <2>1. CASE Inspect \/ BeginExclusive \/ RebuildDatabase \/ RollbackSnapshot \/ PrepareRebuilt
             \/ RecheckArchive
    BY <2>1 DEF Inspect, BeginExclusive, RebuildDatabase, RollbackSnapshot, PrepareRebuilt,
                RecheckArchive
  <2>2. CASE ArchiveNext
    <3>1. slot \in Int
      BY DEF TypeOK
    <3>2. QED
      BY <2>2, <3>1 DEF ArchiveNext
  <2>3. CASE SyncArchive \/ CheckCleared \/ ActivateRebuilt
    BY <2>3 DEF SyncArchive, CheckCleared, ActivateRebuilt
  <2>4. CASE ConfirmMove
    BY <2>4 DEF ConfirmMove, MoveDone
  <2>5. CASE SyncActivated \/ ReopenRebuilt \/ Restrict \/ Quarantine \/ SyncQuarantine
    BY <2>5 DEF SyncActivated, ReopenRebuilt, Restrict, Quarantine, SyncQuarantine
  <2>6. CASE RestoreNext \/ CheckRestored \/ ReopenOriginal
    BY <2>6 DEF RestoreNext, CheckRestored, ReopenOriginal
  <2>7. CASE CreateStage \/ CloseOriginal \/ DropStage
    BY <2>7 DEF CreateStage, CloseOriginal, DropStage
  <2>8. CASE RenameNoReplace
    BY <2>8 DEF RenameNoReplace
  <2>9. CASE (\E name \in Public : ForeignCreate(name) \/ ForeignReplace(name)) \/ Crash
    BY <2>9 DEF ForeignCreate, ForeignReplace, Crash, Running, control
  <2>10. CASE UNCHANGED vars
    BY <2>10 DEF vars, control
  <2>11. QED
    BY <2>1, <2>2, <2>3, <2>4, <2>5, <2>6, <2>7, <2>8, <2>9, <2>10 DEF Next, Recover,
       Terminated
<1>3. QED
  BY <1>1, <1>2, TypeCorrect, PTL DEF Spec

(* A foreign entry is neither of the inodes the checks look for. *)
LEMMA ForeignKinds ==
  \A inode : IsForeign(inode) => inode # Rebuilt /\ inode # Original(0) /\ inode # Empty
  BY DEF IsForeign, Foreign, Rebuilt, Original, Empty

(* No step of the call gets past the check, and another writer can only    *)
(* put a further file of its own in the place.                             *)
LEMMA DoomedStays ==
  ASSUME TypeOK, ChecksInv, ChecksInv', Doomed, [Next]_vars
  PROVE  Doomed'
<1> dir \in Directories /\ slot \in -1 .. N + 1 /\ N \in Nat
  BY ConstantsAssumption DEF TypeOK
<1> DEFINE Last == {"restrict", "quarantine", "syncQuarantine", "restore", "reopenOriginal",
                    "drop", "done", "crashed"}
<1> USE NameTypes, Distinct, ForeignKinds
<1> USE DEF Return, GoTo, StartMoves, RollBack, Pick, MoveFailed, Succeeds, Fails
<1>1. CASE pc \in Last
  BY <1>1
  DEF Doomed, Next, Recover, Inspect, CreateStage, BeginExclusive, RebuildDatabase,
      RollbackSnapshot, PrepareRebuilt, CloseOriginal, RecheckArchive, ArchiveNext, SyncArchive,
      CheckCleared, ActivateRebuilt, RenameNoReplace, ConfirmMove, MoveDone, SyncActivated,
      ReopenRebuilt, Restrict, Quarantine, SyncQuarantine, RestoreNext, CheckRestored,
      ReopenOriginal, DropStage, ForeignCreate, ForeignReplace, Crash, Terminated, vars, control
<1>2. CASE pc \notin Last
  <2> USE <1>2
  <2>1. CASE Deciding
    <3>1. UNCHANGED dir
      BY <2>1
      DEF Deciding, Inspect, BeginExclusive, RebuildDatabase, RollbackSnapshot, PrepareRebuilt,
          RecheckArchive, ArchiveNext, SyncArchive, CheckCleared, ActivateRebuilt, ConfirmMove,
          SyncActivated, ReopenRebuilt, Restrict, Quarantine, SyncQuarantine, RestoreNext,
          CheckRestored, ReopenOriginal, SyncDirectory, names
    <3>2. QED
      BY <2>1, <3>1
      DEF Deciding, Doomed, ChecksInv, ForeignBeside, Inspect, Unclaimed, BeginExclusive,
          RebuildDatabase, RollbackSnapshot, PrepareRebuilt, RecheckArchive, ArchiveNext,
          SyncArchive, CheckCleared, SourceCleared, ActivateRebuilt, ConfirmMove, MoveDone,
          Confirmed, To, SyncActivated, ReopenRebuilt, Restrict, Quarantine, SyncQuarantine,
          RestoreNext, CheckRestored, ReopenOriginal, Suffixes
  <2>2. CASE CreateStage
    <3>1. pc = "stage" /\ outcome # "ok" /\ IsForeign(dir[Source(0)])
      BY <2>2 DEF CreateStage, Doomed, ForeignBeside
    <3>2. \A inode : Bind(dir, Staged, inode)[Source(0)] = dir[Source(0)]
      BY BindWhere
    <3>3. dir'[Source(0)] = dir[Source(0)]
      BY <2>2, <3>2 DEF CreateStage, BindName
    <3>4. QED
      BY <2>2, <3>1, <3>3 DEF CreateStage, Doomed
  <2>3. CASE CloseOriginal
    <3>1. pc = "close" /\ outcome # "ok" /\ IsForeign(dir[Source(0)])
      BY <2>3 DEF CloseOriginal, Doomed, ForeignBeside
    <3>2. QED
      BY <2>3, <3>1 DEF CloseOriginal, Doomed
  <2>4. CASE RenameNoReplace
    <3>1. CASE MoveFailed /\ UNCHANGED dir
      BY <2>4, <3>1 DEF RenameNoReplace, Doomed, MovePhases
    <3>2. CASE MayRename(From, To) /\ MoveEntry(From, To) /\ step' = "confirm"
               /\ UNCHANGED <<pc, slot, holding, outcome>>
      <4>1. /\ pc \in {"archive", "activate"} /\ slot \in Suffixes /\ step = "rename"
            /\ pc = "activate" => slot = 0
        BY <2>4 DEF RenameNoReplace, MovePhases, TypeOK
      <4>2. /\ From \in Names /\ To \in Names /\ From # To
            /\ dir[From] # Empty /\ dir[To] = Empty
        BY <3>2, <4>1, MoveNames DEF MayRename, MovePhases
      <4>3. /\ dir'[To] = dir[From]
            /\ \A n \in Names \ {From, To} : dir'[n] = dir[n]
        BY <3>2, <4>2, RenameWhere DEF MoveEntry
      <4>4. CASE pc = "activate"
        BY <4>2, <4>4 DEF Doomed, To, ForeignBeside
      <4>5. CASE pc = "archive"
        <5>1. From = Source(slot) /\ To = Archive(slot)
          BY <4>5 DEF From, To
        <5>2. CASE IsForeign(dir[Source(0)])
          BY <3>2, <4>1, <4>3, <4>5, <5>1, <5>2 DEF Doomed, IsForeign
        <5>3. CASE ForeignBeside
          <6>1. PICK i \in Suffixes \ {0} : dir[Source(i)] # Empty /\ i < slot
            BY <4>5, <5>3 DEF ForeignBeside
          <6>2. dir'[Source(i)] = dir[Source(i)]
            BY <4>1, <4>3, <5>1, <6>1 DEF Suffixes
          <6>3. QED
            BY <3>2, <4>5, <6>1, <6>2 DEF Doomed, ForeignBeside
        <5>4. QED
          BY <4>1, <4>5, <5>2, <5>3 DEF Doomed
      <4>6. QED
        BY <4>1, <4>4, <4>5
    <3>3. QED
      BY <2>4, <3>1, <3>2 DEF RenameNoReplace
  <2>5. CASE DropStage
    BY <2>5 DEF DropStage
  <2>6. ASSUME NEW name \in Public, ForeignCreate(name) \/ ForeignReplace(name) PROVE Doomed'
    <3>1. \A n \in Names : dir'[n] = dir[n] \/ dir'[n] = NewInode
      BY <2>6, BindWhere, ExchangeWhere DEF ForeignCreate, BindName, ForeignReplace
    <3>2. IsForeign(NewInode)
      <4>1. foreigns + displaced + 1 \in 1 .. MaxForeign + MaxDisplaced
        BY <2>6, ConstantsAssumption DEF ForeignCreate, ForeignReplace, TypeOK
      <4>2. QED
        BY <4>1 DEF NewInode, IsForeign
    <3>3. UNCHANGED <<pc, step, slot, outcome>>
      BY <2>6 DEF ForeignCreate, ForeignReplace, control
    <3>4. \A n \in Names : /\ IsForeign(dir[n]) => IsForeign(dir'[n])
                           /\ dir[n] # Empty => dir'[n] # Empty
      BY <3>1, <3>2
    <3> HIDE DEF IsForeign
    <3>5. ForeignBeside => ForeignBeside'
      BY <3>3, <3>4 DEF ForeignBeside
    <3>6. QED
      BY <3>3, <3>4, <3>5 DEF Doomed
  <2>7. CASE Crash
    BY <2>7 DEF Crash, Doomed
  <2>8. CASE UNCHANGED vars
    BY <2>8 DEF vars, control, names, Doomed, ForeignBeside
  <2>9. QED
    BY <2>1, <2>2, <2>3, <2>4, <2>5, <2>6, <2>7, <2>8 DEF Next, Recover, Deciding, Terminated
<1>3. QED
  BY <1>1, <1>2

(* Another writer's file found at the active path before the last identity *)
(* check, or a sidecar it creates there while files are being archived,    *)
(* never becomes part of a successful recovery - whatever other writers    *)
(* create or replace.                                                      *)
THEOREM IntrudersAreNoticed == Spec => IntruderNoticed
<1> DEFINE Seen == \/ ForeignActive /\ pc # "reopenRebuilt" /\ outcome # "ok"
                   \/ ForeignBeside
<1>1. ChecksInv /\ Seen => Doomed
  BY DEF ForeignActive, ForeignBeside, ChecksInv, Doomed, IsForeign
<1>2. Doomed => outcome # "ok"
  BY DEF Doomed
<1>3. TypeOK /\ ChecksInv /\ ChecksInv' /\ Doomed /\ [Next]_vars => Doomed'
  BY DoomedStays
<1> HIDE DEF Seen
<1>4. Spec => [](Seen => [](outcome # "ok"))
  BY <1>1, <1>2, <1>3, TypeCorrect, ChecksHold, PTL DEF Spec
<1>5. QED
  BY <1>4 DEF Seen, IntruderNoticed
=============================================================================
