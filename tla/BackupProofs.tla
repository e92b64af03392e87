---------------------------- MODULE BackupProofs ----------------------------
(***************************************************************************)
(* Theorems about OnlineBackup, for any calls, destinations and bounds: a  *)
(* destination names only whole copies, whatever a power loss leaves; no   *)
(* file from before is touched; and what a call returns is true of the     *)
(* destination, if no other call names it.                                 *)
(***************************************************************************)
EXTENDS OnlineBackup, TLAPS

Phases == {"idle", "create", "copy", "verify", "sync", "publish", "settle", "withdraw",
           "report", "discard", "done", "crashed"}
Outcomes == {"none", "ok", "failed", "unwithdrawn", "unreported"}

TypeInv ==
  /\ target \in [Calls -> Destinations]
  /\ pc \in [Calls -> Phases]
  /\ outcome \in [Calls -> Outcomes]
  /\ commits \in Nat
  /\ since \in [Calls -> Nat]
  /\ copied \in [Calls -> [1 .. Chunks -> Nat]]
  /\ cursor \in [Calls -> Nat]
  /\ dir \in [Names -> Files]
  /\ images \subseteq [Names -> Files]
  /\ dir \in images

(* How far a copy is: the chunks so far come from one commit. *)
SameCommit(c, last) == \E n \in since[c] .. commits : \A i \in 1 .. last : copied[c][i] = n
CopyInv ==
  \A c \in Calls :
    /\ since[c] <= commits
    /\ pc[c] \in {"create", "copy"} => cursor[c] \in 1 .. Chunks /\ SameCommit(c, cursor[c] - 1)
    /\ pc[c] = "idle" => cursor[c] = 1
    /\ pc[c] \in {"verify", "sync", "publish", "settle", "withdraw", "report"} =>
         SameCommit(c, Chunks)
    /\ pc[c] \in {"publish", "settle", "withdraw", "report"} => c \in durable

(* Wherever a copy is but under its temporary name, in any directory a     *)
(* power loss may leave, it is whole and its call has published it.        *)
Afterwards == {"settle", "withdraw", "report", "discard", "done", "crashed"}
PlaceInv ==
  \A d \in images, c \in Calls, n \in Names :
    d[n] = Copy(c) /\ n # Temporary(c) => Snapshot(c) /\ pc[c] \in Afterwards

(* Files from before the calls are where no call may write. *)
PriorInv ==
  \A c \in Calls :
    /\ dir[Temporary(c)] # Prior
    /\ pc[c] \notin {"idle", "done", "crashed"} => dir[Destination(target[c])] # Prior

(* A call whose destination no other call names finds there what it put    *)
(* there itself.                                                           *)
Own(c) ==
  LET placed == dir[Destination(target[c])]
      temporary == dir[Temporary(c)]
  IN  /\ pc[c] \in {"idle", "create"} => temporary = Empty
      /\ pc[c] \in {"idle", "create", "copy", "verify", "sync", "publish"} =>
           placed # Copy(c) /\ outcome[c] = "none"
      /\ pc[c] \in {"create", "copy", "verify", "sync", "publish"} => placed = Empty
      /\ pc[c] \in {"copy", "verify", "sync", "publish"} => temporary = Copy(c)
      /\ pc[c] \in {"settle", "withdraw"} => placed = Copy(c) /\ temporary = Empty
      /\ pc[c] \in {"settle", "withdraw", "report"} => outcome[c] = "none"
      /\ pc[c] = "report" \/ (pc[c] = "done" /\ outcome[c] = "ok") =>
           \A d \in images : d[Destination(target[c])] = Copy(c)
      /\ outcome[c] = "failed" => placed # Copy(c)
      /\ pc[c] = "discard" => outcome[c] # "ok"
OwnInv == \A c \in Calls : Alone(c) => Own(c)

-----------------------------------------------------------------------------
(* Names and files are told apart by what they are. *)
LEMMA NamesDiffer ==
  ASSUME NEW c \in Calls, NEW b \in Calls, NEW t \in Destinations, NEW u \in Destinations
  PROVE  /\ Temporary(c) \in Names /\ Destination(t) \in Names
         /\ Temporary(c) # Destination(t)
         /\ Temporary(c) = Temporary(b) => c = b
         /\ Destination(t) = Destination(u) => t = u
BY DEF Names, Public, Temporary, Destination

LEMMA FilesDiffer ==
  ASSUME NEW c \in Calls, NEW b \in Calls
  PROVE  /\ Copy(c) \in Files /\ Empty \in Files
         /\ Copy(c) # Empty /\ Copy(c) # Prior /\ Prior # Empty
         /\ Copy(c) = Copy(b) => c = b
BY DEF Files, Copy, Prior, Empty

(* What the changes of a directory do to each name. *)
LEMMA BindAt ==
  ASSUME NEW d \in [Names -> Files], NEW name \in Names, NEW f \in Files
  PROVE  /\ Bind(d, name, f) \in [Names -> Files]
         /\ \A n \in Names \ {name} : Bind(d, name, f)[n] = d[n]
         /\ Bind(d, name, f)[name] = (IF d[name] = Empty THEN f ELSE d[name])
BY DEF Bind

LEMMA UnbindAt ==
  ASSUME NEW d \in [Names -> Files], NEW name \in Names
  PROVE  /\ Unbind(d, name) \in [Names -> Files]
         /\ \A n \in Names \ {name} : Unbind(d, name)[n] = d[n]
         /\ Unbind(d, name)[name] = Empty
BY DEF Unbind, Files

LEMMA RenameAt ==
  ASSUME NEW d \in [Names -> Files], NEW from \in Names, NEW to \in Names, from # to
  PROVE  /\ Rename(d, from, to) \in [Names -> Files]
         /\ \A n \in Names \ {from, to} : Rename(d, from, to)[n] = d[n]
         /\ Rename(d, from, to)[from] = Empty
         /\ Rename(d, from, to)[to] = (IF d[from] = Empty THEN d[to] ELSE d[from])
BY DEF Rename, Files

-----------------------------------------------------------------------------
(* The one change that the step of a call may make to the directory. *)
Published(c) == MoveEntry(Temporary(c), Destination(target[c]))
Withdrawn(c) == MoveEntry(Destination(target[c]), Temporary(c))
NamesAfter(c) ==
  \/ UNCHANGED names
  \/ SyncDirectory
  \/ pc[c] = "create" /\ BindName(Temporary(c), Copy(c))
  \/ pc[c] = "publish" /\ pc'[c] = "settle" /\ Published(c)
  \/ pc[c] = "withdraw" /\ pc'[c] = "discard" /\ Withdrawn(c)
  \/ pc[c] = "discard" /\ UnbindName(Temporary(c))

LEMMA Changing ==
  ASSUME TypeInv, NEW c \in Calls, Backup(c)
  PROVE  NamesAfter(c)
<1> USE DEF NamesAfter, TypeInv, GoTo, Fail
<1>1. CASE CheckDestination(c) \/ PerformBackup(c) \/ Verify(c) \/ Report(c)
  BY <1>1 DEF CheckDestination, PerformBackup, Verify, Report
<1>2. CASE CreateTemporary(c)
  BY <1>2 DEF CreateTemporary
<1>3. CASE SyncTemporary(c) \/ SyncDestination(c)
  BY <1>3 DEF SyncTemporary, SyncDestination
<1>4. CASE Publish(c)
  BY <1>4 DEF Publish, Published
<1>5. CASE Withdraw(c)
  BY <1>5 DEF Withdraw, Withdrawn
<1>6. CASE Discard(c)
  BY <1>6 DEF Discard
<1>7. QED
  BY <1>1, <1>2, <1>3, <1>4, <1>5, <1>6 DEF Backup

(* Every directory there may be afterwards is one there might have been,   *)
(* or the same change made to it.                                          *)
ChangedFrom(c, e, d) ==
  \/ e = d
  \/ pc[c] = "create" /\ e = Bind(d, Temporary(c), Copy(c))
  \/ /\ pc[c] = "publish" /\ pc'[c] = "settle"
     /\ e = Rename(d, Temporary(c), Destination(target[c]))
  \/ /\ pc[c] = "withdraw" /\ pc'[c] = "discard"
     /\ e = Rename(d, Destination(target[c]), Temporary(c))
  \/ pc[c] = "discard" /\ e = Unbind(d, Temporary(c))

LEMMA Images ==
  ASSUME TypeInv, NEW c \in Calls, NamesAfter(c)
  PROVE  /\ \A e \in images' : \E d \in images : ChangedFrom(c, e, d)
         /\ ChangedFrom(c, dir', dir) /\ dir' \in images'
<1> USE DEF TypeInv, ChangedFrom
<1>1. CASE UNCHANGED names \/ SyncDirectory
  BY <1>1 DEF names, SyncDirectory
<1>2. CASE pc[c] = "create" /\ BindName(Temporary(c), Copy(c))
  BY <1>2 DEF BindName
<1>3. CASE pc[c] = "publish" /\ pc'[c] = "settle" /\ Published(c)
  BY <1>3 DEF Published, MoveEntry
<1>4. CASE pc[c] = "withdraw" /\ pc'[c] = "discard" /\ Withdrawn(c)
  BY <1>4 DEF Withdrawn, MoveEntry
<1>5. CASE pc[c] = "discard" /\ UnbindName(Temporary(c))
  BY <1>5 DEF UnbindName
<1>6. QED
  BY <1>1, <1>2, <1>3, <1>4, <1>5 DEF NamesAfter

LEMMA ChangedType ==
  ASSUME TypeInv, NEW c \in Calls, NEW d \in [Names -> Files], NEW e, ChangedFrom(c, e, d)
  PROVE  /\ e \in [Names -> Files]
         /\ \A n \in Names \ {Temporary(c), Destination(target[c])} : e[n] = d[n]
         /\ pc[c] \notin {"publish", "withdraw"} =>
              e[Destination(target[c])] = d[Destination(target[c])]
<1>1. target[c] \in Destinations
  BY DEF TypeInv
<1>2. /\ Temporary(c) \in Names /\ Destination(target[c]) \in Names
      /\ Temporary(c) # Destination(target[c]) /\ Copy(c) \in Files
  BY <1>1, NamesDiffer, FilesDiffer
<1>3. CASE pc[c] = "create" /\ e = Bind(d, Temporary(c), Copy(c))
  BY <1>2, <1>3, BindAt
<1>4. CASE pc[c] = "publish" /\ e = Rename(d, Temporary(c), Destination(target[c]))
  BY <1>2, <1>4, RenameAt
<1>5. CASE pc[c] = "withdraw" /\ e = Rename(d, Destination(target[c]), Temporary(c))
  BY <1>2, <1>5, RenameAt
<1>6. CASE pc[c] = "discard" /\ e = Unbind(d, Temporary(c))
  BY <1>2, <1>6, UnbindAt
<1>7. QED
  BY <1>3, <1>4, <1>5, <1>6 DEF ChangedFrom
(* A call touches neither the state of another call nor names but two. *)
LEMMA OthersKeep ==
  ASSUME TypeInv, NEW c \in Calls, Backup(c), NEW b \in Calls \ {c}
  PROVE  /\ pc'[b] = pc[b] /\ outcome'[b] = outcome[b] /\ since'[b] = since[b]
         /\ copied'[b] = copied[b] /\ cursor'[b] = cursor[b]
         /\ b \in durable' <=> b \in durable
<1> USE DEF TypeInv, GoTo, Fail, Return, progress
<1>1. CASE CheckDestination(c) \/ CreateTemporary(c)
  BY <1>1 DEF CheckDestination, CreateTemporary
<1>2. CASE PerformBackup(c)
  BY <1>2 DEF PerformBackup, CopyChunk, DeadlinePassed
<1>3. CASE Verify(c) \/ SyncTemporary(c)
  BY <1>3 DEF Verify, SyncTemporary
<1>4. CASE Publish(c) \/ SyncDestination(c) \/ Withdraw(c)
  BY <1>4 DEF Publish, SyncDestination, Withdraw
<1>5. CASE Report(c) \/ Discard(c)
  BY <1>5 DEF Report, Discard
<1>6. QED
  BY <1>1, <1>2, <1>3, <1>4, <1>5 DEF Backup

-----------------------------------------------------------------------------
(* Types. *)
LEMMA InitTypes == Init => TypeInv
<1> SUFFICES ASSUME Init PROVE TypeInv
  OBVIOUS
<1>1. dir \in [Names -> Files] /\ images = {dir}
  BY DEF Init, Files
<1>2. target \in [Calls -> Destinations] /\ commits \in Nat
  BY DEF Init
<1>3. pc \in [Calls -> Phases] /\ outcome \in [Calls -> Outcomes]
  BY DEF Init, Phases, Outcomes
<1>4. since \in [Calls -> Nat] /\ cursor \in [Calls -> Nat]
  BY DEF Init
<1>5. copied \in [Calls -> [1 .. Chunks -> Nat]]
  BY DEF Init
<1>6. QED
  BY <1>1, <1>2, <1>3, <1>4, <1>5 DEF TypeInv

(* The next chunk is one of the copy. *)
LEMMA NextChunkInRange ==
  ASSUME TypeInv, CopyInv, NEW c \in Calls, pc[c] = "copy"
  PROVE  NextChunk(c) \in 1 .. Chunks
BY BoundsAssumption DEF CopyInv, NextChunk

LEMMA StepTypes == TypeInv /\ CopyInv /\ [Next]_vars => TypeInv'
<1> SUFFICES ASSUME TypeInv, CopyInv, [Next]_vars PROVE TypeInv'
  OBVIOUS
<1>1. ASSUME NEW c \in Calls, Backup(c) PROVE TypeInv'
  <2>1. dir' \in [Names -> Files] /\ images' \subseteq [Names -> Files] /\ dir' \in images'
    BY <1>1, Changing, Images, ChangedType DEF TypeInv
  <2>2. UNCHANGED <<target, commits>>
    BY <1>1 DEF Backup, source
  <2>3. pc' \in [Calls -> Phases] /\ outcome' \in [Calls -> Outcomes]
    <3> USE DEF TypeInv, Phases, Outcomes, GoTo, Fail, Return
    <3>1. CASE CheckDestination(c) \/ CreateTemporary(c)
      BY <3>1 DEF CheckDestination, CreateTemporary
    <3>2. CASE PerformBackup(c)
      BY <3>2 DEF PerformBackup, CopyChunk, DeadlinePassed
    <3>3. CASE Verify(c) \/ SyncTemporary(c)
      BY <3>3 DEF Verify, SyncTemporary
    <3>4. CASE Publish(c) \/ SyncDestination(c) \/ Withdraw(c)
      BY <3>4 DEF Publish, SyncDestination, Withdraw
    <3>5. CASE Report(c) \/ Discard(c)
      BY <3>5 DEF Report, Discard
    <3>6. QED
      BY <1>1, <3>1, <3>2, <3>3, <3>4, <3>5 DEF Backup
  <2>4. /\ since' \in [Calls -> Nat] /\ cursor' \in [Calls -> Nat]
        /\ copied' \in [Calls -> [1 .. Chunks -> Nat]]
    <3>1. CASE CheckDestination(c)
      BY <3>1 DEF CheckDestination, TypeInv
    <3>2. CASE PerformBackup(c)
      <4>1. CASE CopyChunk(c)
        <5>1. NextChunk(c) \in 1 .. Chunks /\ NextChunk(c) \in Nat
          BY <3>2, NextChunkInRange DEF PerformBackup
        <5>2. copied' \in [Calls -> [1 .. Chunks -> Nat]]
          BY <4>1, <5>1 DEF CopyChunk, TypeInv
        <5>3. cursor' \in [Calls -> Nat]
          BY <4>1, <5>1 DEF CopyChunk, TypeInv
        <5>4. QED
          BY <3>2, <5>2, <5>3 DEF PerformBackup, TypeInv
      <4>2. CASE UNCHANGED <<copied, cursor>>
        BY <3>2, <4>2 DEF PerformBackup, TypeInv
      <4>3. QED
        BY <3>2, <4>1, <4>2 DEF PerformBackup, DeadlinePassed
    <3>3. CASE CreateTemporary(c) \/ Verify(c) \/ SyncTemporary(c) \/ Publish(c)
      BY <3>3 DEF CreateTemporary, Verify, SyncTemporary, Publish, TypeInv, progress
    <3>4. CASE SyncDestination(c) \/ Withdraw(c) \/ Report(c) \/ Discard(c)
      BY <3>4 DEF SyncDestination, Withdraw, Report, Discard, TypeInv, progress
    <3>5. QED
      BY <1>1, <3>1, <3>2, <3>3, <3>4 DEF Backup
  <2>5. QED
    BY <2>1, <2>2, <2>3, <2>4 DEF TypeInv
<1>2. ASSUME NEW c \in Calls, Crash(c) PROVE TypeInv'
  BY <1>2 DEF Crash, GoTo, TypeInv, Phases, source, progress, names
<1>3. CASE Commit \/ Block
  BY <1>3 DEF Commit, Block, TypeInv, progress, names
<1>4. CASE UNCHANGED vars
  BY <1>4 DEF vars, source, progress, names, TypeInv
<1>5. QED
  BY <1>1, <1>2, <1>3, <1>4 DEF Next
-----------------------------------------------------------------------------
(* The chunks copied so far come from one commit, whatever is committed    *)
(* between two steps: a step either goes on in the same commit or starts   *)
(* over.                                                                   *)
CopyOf(c) ==
  /\ since[c] <= commits
  /\ pc[c] \in {"create", "copy"} => cursor[c] \in 1 .. Chunks /\ SameCommit(c, cursor[c] - 1)
  /\ pc[c] = "idle" => cursor[c] = 1
  /\ pc[c] \in {"verify", "sync", "publish", "settle", "withdraw", "report"} =>
       SameCommit(c, Chunks)
  /\ pc[c] \in {"publish", "settle", "withdraw", "report"} => c \in durable

LEMMA ChunkCopied ==
  ASSUME TypeInv, CopyInv, NEW c \in Calls, PerformBackup(c), commits' = commits
  PROVE  CopyOf(c)'
<1>1. /\ pc[c] = "copy" /\ since' = since /\ since[c] <= commits
      /\ cursor[c] \in 1 .. Chunks /\ SameCommit(c, cursor[c] - 1)
  BY DEF PerformBackup, CopyInv
<1>2. CASE CopyChunk(c)
  <2>1. PICK k \in 1 .. Chunks : k = NextChunk(c)
    BY <1>1, NextChunkInRange
  <2>2. \A i \in 1 .. (k - 1) : copied[c][i] = commits
    <3>1. CASE k = 1
      BY <3>1
    <3>2. CASE k # 1
      <4>1. k = cursor[c] /\ cursor[c] > 1 /\ copied[c][cursor[c] - 1] = commits
        BY <1>1, <2>1, <3>2 DEF NextChunk
      <4>2. PICK n \in since[c] .. commits : \A i \in 1 .. (cursor[c] - 1) : copied[c][i] = n
        BY <1>1 DEF SameCommit
      <4>3. n = commits
        BY <1>1, <4>1, <4>2
      <4>4. QED
        BY <4>1, <4>2, <4>3
    <3>3. QED
      BY <3>1, <3>2
  <2>3. \A i \in 1 .. k : copied'[c][i] = commits
    <3>1. copied'[c] = [copied[c] EXCEPT ![k] = commits]
      BY <1>2, <2>1 DEF CopyChunk, TypeInv
    <3>2. copied[c] \in [1 .. Chunks -> Nat]
      BY DEF TypeInv
    <3>3. \A i \in 1 .. k : i \in 1 .. Chunks /\ (i = k \/ i \in 1 .. (k - 1))
      BY <2>1, BoundsAssumption
    <3>4. QED
      BY <2>2, <3>1, <3>2, <3>3
  <2>4. cursor'[c] = k + 1 /\ pc'[c] = (IF k = Chunks THEN "verify" ELSE "copy")
    BY <1>2, <2>1 DEF CopyChunk, GoTo, TypeInv
  <2>5. SameCommit(c, k)'
    <3>1. commits' \in since'[c] .. commits'
      BY <1>1 DEF TypeInv
    <3>2. \A i \in 1 .. k : copied'[c][i] = commits'
      BY <2>3
    <3>3. QED
      BY <3>1, <3>2 DEF SameCommit
  <2>6. cursor'[c] - 1 = k
    BY <2>1, <2>4
  <2>7. k # Chunks => cursor'[c] \in 1 .. Chunks
    BY <2>1, <2>4, BoundsAssumption
  <2>8. CASE k = Chunks
    BY <1>1, <2>4, <2>5, <2>8 DEF CopyOf, SameCommit
  <2>9. CASE k # Chunks
    BY <1>1, <2>4, <2>5, <2>6, <2>7, <2>9 DEF CopyOf, SameCommit
  <2>10. QED
    BY <2>8, <2>9
<1>3. CASE Fail(c, "failed")
  BY <1>1, <1>3 DEF Fail, CopyOf, TypeInv
<1>4. QED
  BY <1>2, <1>3 DEF PerformBackup, DeadlinePassed

LEMMA CopyKept ==
  ASSUME TypeInv, CopyInv, NEW c \in Calls, Backup(c), ~PerformBackup(c)
  PROVE  CopyOf(c)'
<1>1. CopyOf(c) /\ commits' = commits
  BY DEF CopyInv, CopyOf, Backup, source
<1>2. CASE CheckDestination(c)
  <2>1. /\ pc[c] = "idle" /\ pc'[c] \in {"create", "done"} /\ since'[c] = commits
        /\ cursor'[c] = cursor[c]
    BY <1>2 DEF CheckDestination, GoTo, Return, TypeInv
  <2>2. cursor'[c] = 1 /\ cursor'[c] \in 1 .. Chunks
    BY <1>1, <2>1, BoundsAssumption DEF CopyOf
  <2>3. SameCommit(c, cursor[c] - 1)'
    <3>1. cursor'[c] - 1 = 0 /\ commits' \in since'[c] .. commits'
      BY <1>1, <2>1, <2>2 DEF TypeInv
    <3>2. QED
      BY <3>1 DEF SameCommit
  <2>4. since'[c] <= commits'
    BY <1>1, <2>1 DEF TypeInv
  <2>5. QED
    BY <2>1, <2>2, <2>3, <2>4 DEF CopyOf
<1>3. ASSUME ~CheckDestination(c)
      PROVE  since' = since /\ copied' = copied /\ cursor' = cursor
  <2>1. CASE CreateTemporary(c) \/ Verify(c) \/ SyncTemporary(c) \/ Publish(c)
    BY <2>1 DEF CreateTemporary, Verify, SyncTemporary, Publish, progress
  <2>2. CASE SyncDestination(c) \/ Withdraw(c) \/ Report(c) \/ Discard(c)
    BY <2>2 DEF SyncDestination, Withdraw, Report, Discard, progress
  <2>3. QED
    BY <1>3, <2>1, <2>2 DEF Backup
<1>4. ASSUME ~CheckDestination(c)
      PROVE  /\ pc'[c] \notin {"idle", "create"}
             /\ pc'[c] = "copy" => pc[c] = "create"
             /\ pc'[c] \in {"verify", "sync", "publish", "settle", "withdraw", "report"} =>
                  pc[c] \in {"verify", "sync", "publish", "settle", "withdraw", "report"}
             /\ pc'[c] \in {"publish", "settle", "withdraw", "report"} => c \in durable'
  <2> USE <1>1 DEF CopyOf, GoTo, Fail, Return, TypeInv, progress
  <2>1. CASE CreateTemporary(c) \/ Verify(c)
    BY <2>1 DEF CreateTemporary, Verify
  <2>2. CASE SyncTemporary(c)
    BY <2>2 DEF SyncTemporary
  <2>3. CASE Publish(c) \/ SyncDestination(c) \/ Withdraw(c)
    BY <2>3 DEF Publish, SyncDestination, Withdraw
  <2>4. CASE Report(c) \/ Discard(c)
    BY <2>4 DEF Report, Discard
  <2>5. QED
    BY <1>4, <2>1, <2>2, <2>3, <2>4 DEF Backup
<1>5. CASE ~CheckDestination(c)
  BY <1>1, <1>3, <1>4, <1>5 DEF CopyOf, SameCommit
<1>6. QED
  BY <1>2, <1>5

LEMMA StepCopies == TypeInv /\ CopyInv /\ [Next]_vars => CopyInv'
<1> SUFFICES ASSUME TypeInv, CopyInv, [Next]_vars, NEW b \in Calls PROVE CopyOf(b)'
  BY DEF CopyInv, CopyOf
<1>1. CopyOf(b)
  BY DEF CopyInv, CopyOf
<1>2. ASSUME NEW c \in Calls, Backup(c) PROVE CopyOf(b)'
  <2>1. commits' = commits
    BY <1>2 DEF Backup, source
  <2>2. CASE b # c
    BY <1>1, <1>2, <2>1, <2>2, OthersKeep DEF CopyOf, SameCommit
  <2>3. CASE b = c
    BY <1>2, <2>1, <2>3, ChunkCopied, CopyKept
  <2>4. QED
    BY <2>2, <2>3
<1>3. ASSUME NEW c \in Calls, Crash(c) PROVE CopyOf(b)'
  BY <1>1, <1>3 DEF Crash, GoTo, CopyOf, SameCommit, TypeInv, source, progress
<1>4. CASE Commit
  <2>1. UNCHANGED <<pc, since, copied, cursor, durable>> /\ commits' = commits + 1
    BY <1>4 DEF Commit, progress
  <2>2. since[b] \in Nat /\ commits \in Nat
    BY DEF TypeInv
  <2>3. \A n \in since[b] .. commits : n \in since[b] .. (commits + 1)
    BY <2>2
  <2>4. QED
    BY <1>1, <2>1, <2>2, <2>3 DEF CopyOf, SameCommit
<1>5. CASE Block \/ UNCHANGED vars
  BY <1>1, <1>5 DEF Block, vars, CopyOf, SameCommit, source, progress
<1>6. QED
  BY <1>2, <1>3, <1>4, <1>5 DEF Next

LEMMA CopiesHold == Spec => [](TypeInv /\ CopyInv)
<1>1. Init => CopyInv
  BY DEF Init, CopyInv, SameCommit
<1>2. QED
  BY <1>1, InitTypes, StepTypes, StepCopies, PTL DEF Spec
-----------------------------------------------------------------------------
(* What is published stays whole: its call copies no more. *)
LEMMA WholeStays ==
  ASSUME TypeInv, [Next]_vars, NEW b \in Calls, Snapshot(b), pc[b] \in Afterwards
  PROVE  Snapshot(b)' /\ pc'[b] \in Afterwards
<1>1. ASSUME NEW c \in Calls, Backup(c) PROVE Snapshot(b)' /\ pc'[b] \in Afterwards
  <2>1. commits' = commits
    BY <1>1 DEF Backup, source
  <2>2. CASE b # c
    BY <1>1, <2>1, <2>2, OthersKeep DEF Snapshot
  <2>3. CASE b = c
    <3>1. SyncDestination(c) \/ Withdraw(c) \/ Report(c) \/ Discard(c)
      BY <1>1, <2>3 DEF Backup, Afterwards, CheckDestination, CreateTemporary, PerformBackup,
                        Verify, SyncTemporary, Publish
    <3>2. UNCHANGED progress
      BY <3>1 DEF SyncDestination, Withdraw, Report, Discard
    <3>3. pc'[c] \in Afterwards
      BY <3>1 DEF SyncDestination, Withdraw, Report, Discard, Afterwards, GoTo, Fail, Return,
                  TypeInv
    <3>4. QED
      BY <2>1, <2>3, <3>2, <3>3 DEF Snapshot, progress
  <2>4. QED
    BY <2>2, <2>3
<1>2. ASSUME NEW c \in Calls, Crash(c) PROVE Snapshot(b)' /\ pc'[b] \in Afterwards
  BY <1>2 DEF Crash, GoTo, Snapshot, Afterwards, TypeInv, source, progress
<1>3. CASE Commit
  <2>1. UNCHANGED <<pc, since, copied, durable>> /\ commits' = commits + 1
    BY <1>3 DEF Commit, progress
  <2>2. since[b] \in Nat /\ commits \in Nat
    BY DEF TypeInv
  <2>3. \A n \in since[b] .. commits : n \in since[b] .. (commits + 1)
    BY <2>2
  <2>4. QED
    BY <2>1, <2>3 DEF Snapshot
<1>4. CASE Block \/ UNCHANGED vars
  BY <1>4 DEF Block, vars, Snapshot, source, progress
<1>5. QED
  BY <1>1, <1>2, <1>3, <1>4 DEF Next

(* A directory that already is as it should be stays so under a change: a  *)
(* copy gets to a destination from its own temporary name, after its call  *)
(* has copied and synced it, or from where another call had put it.        *)
LEMMA ChangedPlaces ==
  ASSUME TypeInv, CopyInv, [Next]_vars, NEW c \in Calls,
         NEW d \in [Names -> Files], NEW e, ChangedFrom(c, e, d),
         \A b \in Calls, n \in Names :
           d[n] = Copy(b) /\ n # Temporary(b) => Snapshot(b) /\ pc[b] \in Afterwards,
         Backup(c),
         NEW b \in Calls, NEW n \in Names, e[n] = Copy(b), n # Temporary(b)
  PROVE  Snapshot(b)' /\ pc'[b] \in Afterwards
<1> DEFINE T == Temporary(c)
           D == Destination(target[c])
<1>1. T \in Names /\ D \in Names /\ T # D /\ D # Temporary(b) /\ Copy(c) \in Files
  BY NamesDiffer, FilesDiffer DEF TypeInv
<1>2. Copy(b) # Empty /\ (Copy(b) = Copy(c) => b = c)
  BY FilesDiffer
<1>3. CASE d[n] = Copy(b)
  BY <1>3, WholeStays
<1>4. CASE d[n] # Copy(b)
  <2>1. CASE pc[c] = "create" /\ e = Bind(d, T, Copy(c))
    <3>1. n = T
      BY <1>1, <1>4, <2>1, BindAt
    <3>2. Copy(b) = Copy(c)
      BY <1>1, <1>4, <2>1, <3>1, BindAt
    <3>3. QED
      BY <1>2, <3>1, <3>2
  <2>2. CASE pc[c] = "publish" /\ pc'[c] = "settle" /\ e = Rename(d, T, D)
    <3>1. n = D /\ d[T] = Copy(b)
      BY <1>1, <1>2, <1>4, <2>2, RenameAt
    <3>2. CASE T # Temporary(b)
      BY <1>1, <3>1, <3>2, WholeStays
    <3>3. CASE T = Temporary(b)
      <4>1. b = c
        BY <3>3, NamesDiffer DEF TypeInv
      <4>2. Snapshot(c)
        BY <2>2 DEF CopyInv, SameCommit, Snapshot
      <4>3. since' = since /\ copied' = copied /\ durable' = durable /\ commits' = commits
        BY <2>2 DEF Backup, CheckDestination, CreateTemporary, PerformBackup, Verify,
                    SyncTemporary, Publish, SyncDestination, Withdraw, Report, Discard,
                    progress, source
      <4>4. QED
        BY <2>2, <4>1, <4>2, <4>3 DEF Snapshot, Afterwards
    <3>4. QED
      BY <3>2, <3>3
  <2>3. CASE pc[c] = "withdraw" /\ e = Rename(d, D, T)
    <3>1. n = T /\ d[D] = Copy(b)
      BY <1>1, <1>2, <1>4, <2>3, RenameAt
    <3>2. QED
      BY <1>1, <3>1, WholeStays
  <2>4. CASE pc[c] = "discard" /\ e = Unbind(d, T)
    BY <1>1, <1>2, <1>4, <2>4, UnbindAt
  <2>5. QED
    BY <1>4, <2>1, <2>2, <2>3, <2>4 DEF ChangedFrom
<1>5. QED
  BY <1>3, <1>4

LEMMA StepPlaces == TypeInv /\ CopyInv /\ PlaceInv /\ [Next]_vars => PlaceInv'
<1> SUFFICES ASSUME TypeInv, CopyInv, PlaceInv, [Next]_vars,
                    NEW e \in images', NEW b \in Calls, NEW n \in Names,
                    e[n] = Copy(b), n # Temporary(b)
             PROVE  Snapshot(b)' /\ pc'[b] \in Afterwards
  BY DEF PlaceInv
<1>1. ASSUME NEW c \in Calls, Backup(c) PROVE Snapshot(b)' /\ pc'[b] \in Afterwards
  <2>1. PICK d \in images : ChangedFrom(c, e, d)
    BY <1>1, Changing, Images
  <2>2. d \in [Names -> Files]
    BY DEF TypeInv
  <2>3. \A a \in Calls, m \in Names :
          d[m] = Copy(a) /\ m # Temporary(a) => Snapshot(a) /\ pc[a] \in Afterwards
    BY DEF PlaceInv
  <2>4. QED
    BY <1>1, <2>1, <2>2, <2>3, ChangedPlaces
<1>2. CASE images' = images
  BY <1>2, WholeStays DEF PlaceInv
<1>3. ASSUME NEW c \in Calls, Crash(c) PROVE images' = images
  BY <1>3 DEF Crash, names
<1>4. CASE Commit \/ Block \/ UNCHANGED vars
  BY <1>2, <1>4 DEF Commit, Block, vars, names
<1>5. QED
  BY <1>1, <1>2, <1>3, <1>4 DEF Next

LEMMA PlacesHold == Spec => []PlaceInv
<1>1. Init => PlaceInv
  BY FilesDiffer DEF Init, PlaceInv
<1>2. QED
  BY <1>1, StepPlaces, CopiesHold, PTL DEF Spec

(* A destination that names a copy names a whole one, also after a power   *)
(* loss, however many calls share destinations, whoever writes meanwhile,  *)
(* whatever fails and whichever processes die.                             *)
THEOREM OnlyWholeCopies == Spec => []PublishedWhole
<1>1. PlaceInv => PublishedWhole
  BY NamesDiffer DEF PlaceInv, PublishedWhole
<1>2. QED
  BY <1>1, PlacesHold, PTL
-----------------------------------------------------------------------------
(* What a step puts at the two names of its call. *)
LEMMA PlacedAfter ==
  ASSUME TypeInv, NEW c \in Calls, NEW d \in [Names -> Files], NEW e, ChangedFrom(c, e, d)
  PROVE  LET T == Temporary(c)
             D == Destination(target[c])
         IN  /\ e[D] = d[D] \/ e[D] = d[T] \/ e[D] = Empty
             /\ \/ e[T] = d[T] \/ e[T] = Empty \/ e[T] = Copy(c)
                \/ pc[c] = "withdraw" /\ e[T] = d[D]
<1> DEFINE T == Temporary(c)
           D == Destination(target[c])
<1>1. T \in Names /\ D \in Names /\ T # D /\ Copy(c) \in Files
  BY NamesDiffer, FilesDiffer DEF TypeInv
<1> SUFFICES /\ e[D] = d[D] \/ e[D] = d[T] \/ e[D] = Empty
             /\ \/ e[T] = d[T] \/ e[T] = Empty \/ e[T] = Copy(c)
                \/ pc[c] = "withdraw" /\ e[T] = d[D]
  OBVIOUS
<1> HIDE DEF T, D
<1>2. CASE pc[c] = "create" /\ e = Bind(d, T, Copy(c))
  BY <1>1, <1>2, BindAt
<1>3. CASE pc[c] = "publish" /\ e = Rename(d, T, D)
  BY <1>1, <1>3, RenameAt
<1>4. CASE pc[c] = "withdraw" /\ e = Rename(d, D, T)
  BY <1>1, <1>4, RenameAt
<1>5. CASE pc[c] = "discard" /\ e = Unbind(d, T)
  BY <1>1, <1>5, UnbindAt
<1>6. QED
  BY <1>2, <1>3, <1>4, <1>5 DEF ChangedFrom, T, D

LEMMA StepPriors == TypeInv /\ PriorInv /\ [Next]_vars => PriorInv'
<1> SUFFICES ASSUME TypeInv, PriorInv, [Next]_vars PROVE PriorInv'
  OBVIOUS
<1>1. ASSUME NEW c \in Calls, Backup(c), NEW b \in Calls
      PROVE  /\ dir'[Temporary(b)] # Prior
             /\ pc'[b] \notin {"idle", "done", "crashed"} =>
                  dir'[Destination(target'[b])] # Prior
  <2> DEFINE T == Temporary(c)
             D == Destination(target[c])
             E == Destination(target[b])
  <2>1. ChangedFrom(c, dir', dir) /\ dir \in [Names -> Files]
    BY <1>1, Changing, Images DEF TypeInv
  <2>2. /\ \A n \in Names \ {T, D} : dir'[n] = dir[n]
        /\ dir'[D] = dir[D] \/ dir'[D] = dir[T] \/ dir'[D] = Empty
        /\ \/ dir'[T] = dir[T] \/ dir'[T] = Empty \/ dir'[T] = Copy(c)
           \/ pc[c] = "withdraw" /\ dir'[T] = dir[D]
    BY <2>1, ChangedType, PlacedAfter
  <2>3. target' = target /\ Empty # Prior /\ Copy(c) # Prior
    BY <1>1, FilesDiffer DEF Backup
  <2>4. E \in Names /\ Temporary(b) \in Names /\ Temporary(b) # D /\ E # T
    BY NamesDiffer DEF TypeInv
  <2>5. dir[T] # Prior /\ (pc[c] = "withdraw" => dir[D] # Prior)
    BY DEF PriorInv
  <2>6. dir'[Temporary(b)] # Prior
    <3>1. CASE Temporary(b) = T
      BY <2>2, <2>3, <2>5, <3>1
    <3>2. CASE Temporary(b) # T
      BY <2>2, <2>4, <3>2 DEF PriorInv
    <3>3. QED
      BY <3>1, <3>2
  <2>7. ASSUME pc'[b] \notin {"idle", "done", "crashed"} PROVE dir[E] # Prior
    <3>1. CASE b # c
      BY <1>1, <2>7, <3>1, OthersKeep DEF PriorInv
    <3>2. CASE b = c /\ pc[c] # "idle"
      <4>1. pc[c] \notin {"done", "crashed"}
        BY <1>1 DEF Backup, CheckDestination, CreateTemporary, PerformBackup, Verify,
                    SyncTemporary, Publish, SyncDestination, Withdraw, Report, Discard
      <4>2. QED
        BY <3>2, <4>1 DEF PriorInv
    <3>3. CASE b = c /\ pc[c] = "idle"
      <4>1. CheckDestination(c)
        BY <1>1, <3>3 DEF Backup, CreateTemporary, PerformBackup, Verify,
                    SyncTemporary, Publish, SyncDestination, Withdraw, Report, Discard
      <4>2. Absent(c)
        BY <2>7, <3>3, <4>1 DEF CheckDestination, Return, TypeInv
      <4>3. QED
        BY <2>3, <3>3, <4>2 DEF Absent
    <3>4. QED
      BY <3>1, <3>2, <3>3
  <2>8. ASSUME pc'[b] \notin {"idle", "done", "crashed"} PROVE dir'[E] # Prior
    <3>1. CASE E = D
      BY <2>2, <2>3, <2>5, <2>7, <2>8, <3>1
    <3>2. CASE E # D
      BY <2>2, <2>4, <2>7, <2>8, <3>2
    <3>3. QED
      BY <3>1, <3>2
  <2>9. QED
    BY <2>3, <2>6, <2>8
<1>2. ASSUME NEW c \in Calls, Crash(c) PROVE PriorInv'
  BY <1>2 DEF Crash, GoTo, PriorInv, TypeInv, names
<1>3. CASE Commit \/ Block \/ UNCHANGED vars
  BY <1>3 DEF Commit, Block, vars, names, PriorInv
<1>4. QED
  BY <1>1, <1>2, <1>3 DEF Next, PriorInv

(* No call touches a file that was there before it, under any name: not    *)
(* when it publishes, nor when it withdraws or cleans up.                  *)
THEOREM PriorIsKept == Spec => PriorKept
<1>1. Init => PriorInv
  <2> SUFFICES ASSUME Init, NEW c \in Calls PROVE dir[Temporary(c)] # Prior
    BY DEF Init, PriorInv
  <2>1. PICK used \in {{}} \cup {{n} : n \in Leftovers \X Destinations} :
          dir = [n \in Names |-> IF n \in used THEN Prior ELSE Empty]
    BY DEF Init
  <2>2. Temporary(c) \in Names /\ Empty # Prior
    BY FilesDiffer DEF Names
  <2>3. Temporary(c) \notin used
    BY <2>1, BoundsAssumption DEF Temporary
  <2>4. QED
    BY <2>1, <2>2, <2>3
<1>2. ASSUME TypeInv, PriorInv, [Next]_vars
      PROVE  [\A n \in Names : dir[n] = Prior => dir'[n] = Prior]_vars
  <2>1. ASSUME NEW c \in Calls, Backup(c), NEW n \in Names, dir[n] = Prior
        PROVE  dir'[n] = Prior
    <3>1. ChangedFrom(c, dir', dir) /\ dir \in [Names -> Files]
      BY <1>2, <2>1, Changing, Images DEF TypeInv
    <3>2. n # Temporary(c)
      BY <1>2, <2>1 DEF PriorInv
    <3>3. pc[c] \in {"publish", "withdraw"} => n # Destination(target[c])
      BY <1>2, <2>1 DEF PriorInv
    <3>4. QED
      BY <1>2, <2>1, <3>1, <3>2, <3>3, ChangedType
  <2>2. ASSUME NEW c \in Calls, Crash(c) PROVE dir' = dir
    BY <2>2 DEF Crash, names
  <2>3. CASE Commit \/ Block \/ UNCHANGED vars
    BY <2>3 DEF Commit, Block, vars, names
  <2>4. QED
    BY <1>2, <2>1, <2>2, <2>3 DEF Next
<1>3. QED
  BY <1>1, <1>2, StepPriors, CopiesHold, PTL DEF Spec, PriorKept
-----------------------------------------------------------------------------
(* Steps of other calls do not reach the names of a call on its own. *)
LEMMA OwnLeftAlone ==
  ASSUME TypeInv, NEW b \in Calls, Alone(b), Own(b), NEW c \in Calls \ {b}, Backup(c)
  PROVE  Own(b)'
<1> DEFINE D == Destination(target[b])
           T == Temporary(b)
<1>1. D \in Names \ {Temporary(c), Destination(target[c])}
  BY NamesDiffer DEF TypeInv, Alone
<1>2. T \in Names \ {Temporary(c), Destination(target[c])}
  BY NamesDiffer DEF TypeInv
<1>3. dir'[D] = dir[D] /\ dir'[T] = dir[T]
  <2>1. ChangedFrom(c, dir', dir) /\ dir \in [Names -> Files]
    BY Changing, Images DEF TypeInv
  <2>2. QED
    BY <1>1, <1>2, <2>1, ChangedType
<1>4. \A e \in images' : \E d \in images : e[D] = d[D]
  <2>1. \A e \in images' : \E d \in images : d \in [Names -> Files] /\ ChangedFrom(c, e, d)
    BY Changing, Images DEF TypeInv
  <2>2. QED
    BY <1>1, <2>1, ChangedType
<1>5. pc'[b] = pc[b] /\ outcome'[b] = outcome[b] /\ target' = target
  BY OthersKeep DEF Backup
<1>6. QED
  BY <1>3, <1>4, <1>5 DEF Own

(* Its own steps. *)
LEMMA OwnStep ==
  ASSUME TypeInv, NEW c \in Calls, Own(c), Backup(c)
  PROVE  Own(c)'
<1> DEFINE D == Destination(target[c])
           T == Temporary(c)
           P == dir'[D]
           Q == dir'[T]
<1>1. D \in Names /\ T \in Names /\ D # T /\ dir \in [Names -> Files] /\ Copy(c) \in Files
  BY NamesDiffer, FilesDiffer DEF TypeInv
<1>2. Copy(c) # Empty /\ target' = target /\ pc[c] \in Phases
  BY FilesDiffer DEF TypeInv, Backup
<1> USE DEF GoTo, Fail, Return
<1>3. CASE CheckDestination(c)
  <2>1. UNCHANGED names /\ pc[c] = "idle"
    BY <1>3 DEF CheckDestination
  <2>2. \/ dir[D] = Empty /\ pc'[c] = "create" /\ outcome' = outcome
        \/ pc'[c] = "done" /\ outcome'[c] = "failed"
    BY <1>3 DEF CheckDestination, Absent, TypeInv
  <2>3. QED
    BY <1>2, <2>1, <2>2 DEF Own, names
<1>4. CASE CreateTemporary(c)
  <2>1. pc[c] = "create" /\ dir[T] = Empty /\ dir[D] = Empty /\ outcome[c] = "none"
    BY <1>4 DEF CreateTemporary, Own
  <2>2. BindName(T, Copy(c)) => Q = Copy(c) /\ P = dir[D]
    BY <1>1, <2>1, BindAt DEF BindName
  <2>3. /\ P = Empty
        /\ \/ Q = Copy(c) /\ pc'[c] = "copy" /\ outcome' = outcome
           \/ pc'[c] = "discard" /\ outcome'[c] = "failed"
           \/ pc'[c] = "done" /\ outcome'[c] = "failed"
    BY <1>4, <2>1, <2>2 DEF CreateTemporary, TypeInv, names
  <2>4. QED
    BY <1>2, <2>1, <2>3 DEF Own
<1>5. CASE PerformBackup(c) \/ Verify(c) \/ SyncTemporary(c)
  <2>1. pc[c] \in {"copy", "verify", "sync"} /\ dir' = dir
    BY <1>5 DEF PerformBackup, Verify, SyncTemporary, names, SyncDirectory
  <2>2. \/ pc'[c] \in {"copy", "verify", "sync", "publish"} /\ outcome' = outcome
        \/ pc'[c] = "discard" /\ outcome'[c] = "failed"
    BY <1>5 DEF PerformBackup, Verify, SyncTemporary, CopyChunk, DeadlinePassed, TypeInv
  <2>3. QED
    BY <1>2, <2>1, <2>2 DEF Own
<1>6. CASE Publish(c)
  <2>1. pc[c] = "publish" /\ dir[T] = Copy(c) /\ dir[D] = Empty /\ outcome[c] = "none"
    BY <1>6 DEF Publish, Own
  <2>2. MoveEntry(T, D) => P = Copy(c) /\ Q = Empty
    BY <1>1, <1>2, <2>1, RenameAt DEF MoveEntry
  <2>3. \/ P = Copy(c) /\ Q = Empty /\ pc'[c] = "settle" /\ outcome' = outcome
        \/ P = Empty /\ pc'[c] = "discard" /\ outcome'[c] = "failed"
    BY <1>6, <2>1, <2>2 DEF Publish, TypeInv, names
  <2>4. QED
    BY <1>2, <2>1, <2>3 DEF Own
<1>7. CASE SyncDestination(c)
  <2>1. /\ pc[c] = "settle" /\ dir[D] = Copy(c) /\ dir[T] = Empty /\ outcome[c] = "none"
        /\ dir' = dir /\ outcome' = outcome
    BY <1>7 DEF SyncDestination, Own, SyncDirectory, names
  <2>2. (pc'[c] = "report" /\ images' = {dir}) \/ pc'[c] = "withdraw"
    BY <1>7 DEF SyncDestination, SyncDirectory, TypeInv
  <2>3. QED
    BY <1>2, <2>1, <2>2 DEF Own
<1>8. CASE Withdraw(c)
  <2>1. pc[c] = "withdraw" /\ dir[D] = Copy(c) /\ outcome[c] = "none"
    BY <1>8 DEF Withdraw, Own
  <2>2. MoveEntry(D, T) => P = Empty
    BY <1>1, RenameAt DEF MoveEntry
  <2>3. pc'[c] = "discard" /\ (outcome'[c] = "unwithdrawn" \/ (outcome'[c] = "failed" /\ P = Empty))
    BY <1>8, <2>2 DEF Withdraw, TypeInv
  <2>4. QED
    BY <1>2, <2>3 DEF Own
<1>9. CASE Report(c)
  <2>1. /\ \A d \in images' : d[D] = Copy(c)
        /\ dir' = dir
    BY <1>9 DEF Report, Own, names
  <2>2. \/ pc'[c] = "done" /\ outcome'[c] = "ok"
        \/ pc'[c] = "discard" /\ outcome'[c] = "unreported"
    BY <1>9 DEF Report, TypeInv
  <2>3. QED
    BY <1>2, <2>1, <2>2 DEF Own
<1>10. CASE Discard(c)
  <2>1. pc[c] = "discard" /\ pc'[c] = "done" /\ outcome' = outcome
    BY <1>10 DEF Discard, TypeInv
  <2>2. P = dir[D]
    BY <1>1, <1>10, UnbindAt DEF Discard, UnbindName, names
  <2>3. QED
    BY <1>2, <2>1, <2>2 DEF Own
<1>11. QED
  BY <1>3, <1>4, <1>5, <1>6, <1>7, <1>8, <1>9, <1>10 DEF Backup

LEMMA StepOwn == TypeInv /\ OwnInv /\ [Next]_vars => OwnInv'
<1> SUFFICES ASSUME TypeInv, OwnInv, [Next]_vars, NEW b \in Calls, Alone(b)' PROVE Own(b)'
  BY DEF OwnInv
<1>1. target' = target
  BY DEF Next, Backup, Crash, Commit, Block, vars
<1>2. Alone(b) /\ Own(b)
  BY <1>1 DEF Alone, OwnInv
<1>3. ASSUME NEW c \in Calls, Backup(c) PROVE Own(b)'
  BY <1>2, <1>3, OwnLeftAlone, OwnStep
<1>4. ASSUME NEW c \in Calls, Crash(c) PROVE Own(b)'
  BY <1>2, <1>4 DEF Crash, GoTo, Own, TypeInv, names
<1>5. CASE Commit \/ Block \/ UNCHANGED vars
  BY <1>2, <1>5 DEF Commit, Block, vars, names, Own
<1>6. QED
  BY <1>3, <1>4, <1>5 DEF Next

(* For a call whose destination no other call names, Ok means that the     *)
(* backup is there and stays there after a power loss, and an error that   *)
(* it is not there, whatever happens to the other calls.                   *)
THEOREM ReturnsAreTrue == Spec => []ReturnsTruth
<1>1. Init => OwnInv
  <2> SUFFICES ASSUME Init, NEW c \in Calls PROVE Own(c)
    BY DEF OwnInv
  <2>1. PICK used \in {{}} \cup {{n} : n \in Leftovers \X Destinations} :
          dir = [n \in Names |-> IF n \in used THEN Prior ELSE Empty]
    BY DEF Init
  <2>2. Temporary(c) \notin used
    BY <2>1, BoundsAssumption DEF Temporary
  <2>3. Temporary(c) \in Names /\ Destination(target[c]) \in Names
    BY NamesDiffer, InitTypes DEF TypeInv
  <2>4. dir[Temporary(c)] = Empty /\ dir[Destination(target[c])] # Copy(c)
    BY <2>1, <2>2, <2>3, FilesDiffer
  <2>5. pc[c] = "idle" /\ outcome[c] = "none"
    BY DEF Init
  <2>6. QED
    BY <2>4, <2>5 DEF Own
<1>2. TypeInv /\ OwnInv => ReturnsTruth
  <2> SUFFICES ASSUME TypeInv, OwnInv, NEW c \in Calls, pc[c] = "done", Alone(c)
               PROVE  /\ outcome[c] = "ok" =>
                           \A d \in images : d[Destination(target[c])] = Copy(c)
                      /\ outcome[c] = "failed" => dir[Destination(target[c])] # Copy(c)
    BY DEF ReturnsTruth
  <2>1. Own(c)
    BY DEF OwnInv
  <2>2. QED
    BY <2>1 DEF Own
<1>3. QED
  BY <1>1, <1>2, StepOwn, CopiesHold, PTL DEF Spec
=============================================================================
