--------------------------- MODULE RegistryProofs ---------------------------
(***************************************************************************)
(* Theorems about Registry, for any finite set of connections and every    *)
(* bound: the counts of OPEN_CONNECTIONS are exact, the guard of a         *)
(* recovery tells the truth, recoveries run one at a time and archive what *)
(* they copied, and only a handle a guard could not see is left behind.    *)
(***************************************************************************)
EXTENDS Registry, FiniteSetTheorems, TLAPS

Phases == Idle \cup {"register", "identify", "drop"} \cup Recovering

TypeInv ==
  /\ pc \in [Connections -> Phases]
  /\ spelling \in [Connections -> Keys]
  /\ counts \in [Keys -> Nat]
  /\ born \in Nat \ {0} /\ file \in 0 .. born
  /\ archived \subseteq 1 .. born /\ file \notin archived
  /\ handle \in [Connections -> Nat]
  /\ identity \in [Connections -> Nat]
  /\ copied \in [Connections -> Nat]
  /\ strayed \in BOOLEAN

(* The recoveries that have the original of the path in their archive.     *)
Holds(c) == pc[c] \in {"activate", "reopen", "quarantine", "restore"}
HoldersInv ==
  /\ \A c \in Connections : Holds(c) => identity[c] \in archived
  /\ \A c, d \in Connections : Holds(c) /\ Holds(d) /\ identity[c] = identity[d] => c = d

-----------------------------------------------------------------------------
(* Types.  A recovery puts back only an inode that the path once had,      *)
(* which is what the holders' invariant is for.                            *)
LEMMA InitTypes == Init => TypeInv /\ HoldersInv
<1> SUFFICES ASSUME Init PROVE TypeInv /\ HoldersInv
  OBVIOUS
<1> USE DEF Init, TypeInv, Phases, Idle, Keys, Missing
<1>1. TypeInv
  <2>1. pc \in [Connections -> Phases] /\ spelling \in [Connections -> Keys]
    OBVIOUS
  <2>2. counts \in [Keys -> Nat]
    OBVIOUS
  <2>3. born \in Nat \ {0} /\ file \in 0 .. born
    OBVIOUS
  <2>4. archived \subseteq 1 .. born /\ file \notin archived /\ strayed \in BOOLEAN
    OBVIOUS
  <2>5. /\ handle \in [Connections -> Nat] /\ identity \in [Connections -> Nat]
        /\ copied \in [Connections -> Nat]
    OBVIOUS
  <2>6. QED
    BY <2>1, <2>2, <2>3, <2>4, <2>5
<1>2. HoldersInv
  BY DEF Init, HoldersInv, Holds
<1>3. QED
  BY <1>1, <1>2

LEMMA StepTypes == TypeInv /\ HoldersInv /\ [Next]_vars => TypeInv'
<1> SUFFICES ASSUME TypeInv, HoldersInv, [Next]_vars PROVE TypeInv'
  OBVIOUS
<1> USE DEF TypeInv, Phases, Idle, Recovering, Keys, Missing, GoTo, Say, Return, SetHandle,
            Opened, MakeFile, LookUp, Blocked, adapter, path, history
<1>1. ASSUME NEW c \in Connections, OpenHandle(c) PROVE TypeInv'
  BY <1>1, RegistryAssumption DEF OpenHandle
<1>2. ASSUME NEW c \in Connections, OpenFails(c) PROVE TypeInv'
  BY <1>2 DEF OpenFails
<1>3. ASSUME NEW c \in Connections, Register(c) PROVE TypeInv'
  BY <1>3 DEF Register, RegisterConnection, PathKey
<1>4. ASSUME NEW c \in Connections, Identify(c) PROVE TypeInv'
  BY <1>4 DEF Identify
<1>5. ASSUME NEW c \in Connections, Unregister(c) PROVE TypeInv'
  BY <1>5 DEF Unregister, UnregisterConnection, PathKey
<1>6. ASSUME NEW c \in Connections, CloseHandle(c) PROVE TypeInv'
  BY <1>6 DEF CloseHandle
<1>7. ASSUME NEW c \in Connections, Guard(c) PROVE TypeInv'
  BY <1>7 DEF Guard
<1>8. ASSUME NEW c \in Connections, Inspect(c) PROVE TypeInv'
  <2>1. pc' \in [Connections -> Phases]
    BY <1>8 DEF Inspect
  <2>2. copied' \in [Connections -> Nat]
    BY <1>8 DEF Inspect
  <2>3. UNCHANGED <<spelling, counts, born, file, archived, handle, identity, strayed>>
    BY <1>8 DEF Inspect
  <2>4. QED
    BY <2>1, <2>2, <2>3
<1>9. ASSUME NEW c \in Connections, CopyRows(c) PROVE TypeInv'
  <2>1. pc' \in [Connections -> Phases]
    BY <1>9 DEF CopyRows
  <2>2. copied' \in [Connections -> Nat]
    BY <1>9 DEF CopyRows
  <2>3. UNCHANGED <<spelling, counts, born, file, archived, handle, identity, strayed>>
    BY <1>9 DEF CopyRows
  <2>4. QED
    BY <2>1, <2>2, <2>3
<1>10. ASSUME NEW c \in Connections, CloseOriginal(c) PROVE TypeInv'
  <2>1. pc' \in [Connections -> Phases]
    BY <1>10 DEF CloseOriginal
  <2>2. copied' \in [Connections -> Nat]
    BY <1>10 DEF CloseOriginal
  <2>3. UNCHANGED handle \/ handle' = [handle EXCEPT ![c] = 0]
    BY <1>10 DEF CloseOriginal
  <2>4. UNCHANGED <<spelling, counts, born, file, archived, identity, strayed>>
    BY <1>10 DEF CloseOriginal
  <2>5. QED
    BY <2>1, <2>2, <2>3, <2>4
<1>11. ASSUME NEW c \in Connections, ArchiveOriginal(c) PROVE TypeInv'
  <2>1. pc' \in [Connections -> Phases]
    BY <1>11 DEF ArchiveOriginal, Unmoved
  <2>2. copied' \in [Connections -> Nat]
    BY <1>11 DEF ArchiveOriginal, Unmoved
  <2>3. UNCHANGED <<file, archived>> \/ (file # 0 /\ file' = 0 /\ archived' = archived \cup {file})
    BY <1>11 DEF ArchiveOriginal, Unmoved
  <2>4. file' \in 0 .. born /\ archived' \subseteq 1 .. born /\ file' \notin archived'
    <3>1. file \in 0 .. born /\ archived \subseteq 1 .. born /\ born \in Nat
      OBVIOUS
    <3>2. file # 0 => file \in 1 .. born
      BY <3>1
    <3>3. 0 \notin archived
      BY <3>1
    <3>4. CASE UNCHANGED <<file, archived>>
      BY <3>4
    <3>5. CASE file # 0 /\ file' = 0 /\ archived' = archived \cup {file}
      <4>1. file' \in 0 .. born
        BY <3>1, <3>5
      <4>2. archived' \subseteq 1 .. born
        BY <3>1, <3>2, <3>5
      <4>3. file' \notin archived'
        BY <3>3, <3>5
      <4>4. QED
        BY <4>1, <4>2, <4>3
    <3>6. QED
      BY <2>3, <3>4, <3>5
  <2>5. UNCHANGED <<spelling, counts, born, handle, identity, strayed>>
    BY <1>11 DEF ArchiveOriginal, Unmoved
  <2>6. QED
    BY <2>1, <2>2, <2>3, <2>4, <2>5
<1>12. ASSUME NEW c \in Connections, Activate(c) PROVE TypeInv'
  <2>1. pc' \in [Connections -> Phases]
    BY <1>12 DEF Activate
  <2>2. UNCHANGED copied \/ copied' = [copied EXCEPT ![c] = 0]
    BY <1>12 DEF Activate
  <2>3. UNCHANGED <<file, born>> \/ (born' = born + 1 /\ file' = born + 1)
    BY <1>12 DEF Activate, Spend
  <2>4. UNCHANGED <<spelling, counts, archived, handle, identity, strayed>>
    BY <1>12 DEF Activate, Spend
  <2>5. QED
    BY <2>1, <2>2, <2>3, <2>4
<1>13. ASSUME NEW c \in Connections, Reopen(c) PROVE TypeInv'
  <2>1. pc' \in [Connections -> Phases]
    BY <1>13 DEF Reopen
  <2>2. handle' \in [Connections -> Nat]
    BY <1>13 DEF Reopen
  <2>3. UNCHANGED <<spelling, counts, born, file, archived, identity, copied, strayed>>
    BY <1>13 DEF Reopen
  <2>4. QED
    BY <2>1, <2>2, <2>3
<1>14. ASSUME NEW c \in Connections, Quarantine(c) PROVE TypeInv'
  <2>1. pc' \in [Connections -> Phases]
    BY <1>14 DEF Quarantine
  <2>2. copied' \in [Connections -> Nat]
    BY <1>14 DEF Quarantine
  <2>3. file' \in 0 .. born /\ file' \notin archived
    BY <1>14 DEF Quarantine
  <2>4. UNCHANGED <<spelling, counts, born, archived, handle, identity, strayed>>
    BY <1>14 DEF Quarantine
  <2>5. QED
    BY <2>1, <2>2, <2>3, <2>4
<1>15. ASSUME NEW c \in Connections, Undo(c) PROVE TypeInv'
  BY <1>15 DEF Undo, Unmoved
<1>16. ASSUME NEW c \in Connections, Restore(c) PROVE TypeInv'
  <2>1. pc' \in [Connections -> Phases]
    BY <1>16 DEF Restore
  <2>2. copied' \in [Connections -> Nat]
    BY <1>16 DEF Restore
  <2>3. identity[c] \in archived
    BY <1>16 DEF Restore, HoldersInv, Holds
  <2>4. handle' \in [Connections -> Nat]
    BY <1>16, <2>3 DEF Restore
  <2>5. file' \in 0 .. born /\ archived' \subseteq archived /\ file' \notin archived'
    BY <1>16, <2>3 DEF Restore
  <2>6. UNCHANGED <<spelling, counts, born, identity, strayed>>
    BY <1>16 DEF Restore
  <2>7. QED
    BY <2>1, <2>2, <2>3, <2>4, <2>5, <2>6
<1>17. CASE Replace
  BY <1>17 DEF Replace
<1>18. CASE UNCHANGED vars
  BY <1>18 DEF vars
<1>19. QED
  BY <1>1, <1>2, <1>3, <1>4, <1>5, <1>6, <1>7, <1>8, <1>9,
     <1>10, <1>11, <1>12, <1>13, <1>14, <1>15, <1>16, <1>17, <1>18
  DEF Next, Call, Run

-----------------------------------------------------------------------------
(* What a step of one connection leaves to the others.                     *)
LEMMA OthersKeep ==
  ASSUME TypeInv, NEW c \in Connections, Call(c) \/ Run(c),
         NEW d \in Connections, d # c
  PROVE  /\ pc'[d] = pc[d] /\ handle'[d] = handle[d]
         /\ identity'[d] = identity[d] /\ copied'[d] = copied[d]
<1> USE DEF TypeInv, GoTo, Say, Return, SetHandle, Blocked, adapter
<1>1. CASE OpenHandle(c)
  BY <1>1 DEF OpenHandle
<1>2. CASE OpenFails(c)
  BY <1>2 DEF OpenFails
<1>3. CASE Register(c)
  BY <1>3 DEF Register
<1>4. CASE Identify(c)
  BY <1>4 DEF Identify
<1>5. CASE Unregister(c)
  BY <1>5 DEF Unregister
<1>6. CASE CloseHandle(c)
  BY <1>6 DEF CloseHandle
<1>7. CASE Guard(c)
  BY <1>7 DEF Guard
<1>8. CASE Inspect(c)
  BY <1>8 DEF Inspect
<1>9. CASE CopyRows(c)
  BY <1>9 DEF CopyRows
<1>10. CASE CloseOriginal(c)
  BY <1>10 DEF CloseOriginal
<1>11. CASE ArchiveOriginal(c)
  BY <1>11 DEF ArchiveOriginal
<1>12. CASE Activate(c)
  BY <1>12 DEF Activate
<1>13. CASE Reopen(c)
  BY <1>13 DEF Reopen
<1>14. CASE Quarantine(c)
  BY <1>14 DEF Quarantine
<1>15. CASE Undo(c)
  BY <1>15 DEF Undo
<1>16. CASE Restore(c)
  BY <1>16 DEF Restore
<1>17. QED
  BY <1>1, <1>2, <1>3, <1>4, <1>5, <1>6, <1>7, <1>8, <1>9, <1>10, <1>11, <1>12, <1>13,
     <1>14, <1>15, <1>16
  DEF Call, Run
-----------------------------------------------------------------------------
(* A step of c archives the file at the path for c, puts c's original      *)
(* back, or leaves the archives alone.                                     *)
HeldAfter(c) == Holds(c)' =>
  \/ Holds(c) /\ identity'[c] = identity[c]
  \/ ~Holds(c) /\ identity'[c] = file /\ archived' = archived \cup {file}
ArchiveAfter(c) ==
  \/ archived \subseteq archived'
  \/ Holds(c) /\ ~Holds(c)' /\ archived' = archived \ {identity[c]}

LEMMA Archiving ==
  ASSUME TypeInv, NEW c \in Connections, Call(c) \/ Run(c)
  PROVE  HeldAfter(c) /\ ArchiveAfter(c)
<1> USE DEF TypeInv, HeldAfter, ArchiveAfter, Holds, GoTo, Say, Return, SetHandle, Blocked,
            adapter, path, Missing
<1>1. CASE OpenHandle(c)
  BY <1>1 DEF OpenHandle
<1>2. CASE OpenFails(c)
  BY <1>2 DEF OpenFails
<1>3. CASE Register(c)
  BY <1>3 DEF Register
<1>4. CASE Identify(c)
  BY <1>4 DEF Identify
<1>5. CASE Unregister(c)
  BY <1>5 DEF Unregister
<1>6. CASE CloseHandle(c)
  BY <1>6 DEF CloseHandle
<1>7. CASE Guard(c)
  BY <1>7 DEF Guard
<1>8. CASE Inspect(c)
  BY <1>8 DEF Inspect
<1>9. CASE CopyRows(c)
  BY <1>9 DEF CopyRows
<1>10. CASE CloseOriginal(c)
  BY <1>10 DEF CloseOriginal
<1>11. CASE ArchiveOriginal(c)
  BY <1>11 DEF ArchiveOriginal, Unmoved
<1>12. CASE Activate(c)
  BY <1>12 DEF Activate
<1>13. CASE Reopen(c)
  BY <1>13 DEF Reopen
<1>14. CASE Quarantine(c)
  BY <1>14 DEF Quarantine
<1>15. CASE Undo(c)
  BY <1>15 DEF Undo
<1>16. CASE Restore(c)
  BY <1>16 DEF Restore
<1>17. QED
  BY <1>1, <1>2, <1>3, <1>4, <1>5, <1>6, <1>7, <1>8, <1>9, <1>10, <1>11, <1>12, <1>13, <1>14,
     <1>15, <1>16
  DEF Call, Run

(* Two recoveries never hold the same file, so that no step takes from a   *)
(* connection what it holds.                                               *)
LEMMA StepHolders == TypeInv /\ HoldersInv /\ [Next]_vars => HoldersInv'
<1> SUFFICES ASSUME TypeInv, HoldersInv, [Next]_vars PROVE HoldersInv'
  OBVIOUS
<1>1. ASSUME NEW c \in Connections, Call(c) \/ Run(c) PROVE HoldersInv'
  <2>1. /\ HeldAfter(c) /\ ArchiveAfter(c)
        /\ \A d \in Connections \ {c} : (Holds(d)' <=> Holds(d)) /\ identity'[d] = identity[d]
    BY <1>1, Archiving, OthersKeep DEF Holds
  <2>2. file \notin archived
    BY DEF TypeInv
  <2>3. ASSUME NEW d \in Connections, Holds(d)' PROVE identity'[d] \in archived'
    BY <2>1, <2>3 DEF HoldersInv, HeldAfter, ArchiveAfter
  <2>4. ASSUME NEW d \in Connections, NEW e \in Connections, d # e, Holds(d)', Holds(e)'
        PROVE  identity'[d] # identity'[e]
    BY <2>1, <2>2, <2>4 DEF HoldersInv, HeldAfter
  <2>5. QED
    BY <2>3, <2>4 DEF HoldersInv
<1>2. CASE Replace
  BY <1>2 DEF Replace, HoldersInv, Holds, adapter
<1>3. CASE UNCHANGED vars
  BY <1>3 DEF vars, path, adapter, HoldersInv, Holds
<1>4. QED
  BY <1>1, <1>2, <1>3 DEF Next

LEMMA TypesHold == Spec => [](TypeInv /\ HoldersInv)
<1>1. Init => TypeInv /\ HoldersInv
  BY InitTypes
<1>2. TypeInv /\ HoldersInv /\ [Next]_vars => TypeInv' /\ HoldersInv'
  BY StepTypes, StepHolders
<1>3. QED
  BY <1>1, <1>2, PTL DEF Spec
-----------------------------------------------------------------------------
(* What a step of c does to the registry, if it never looks up an alias    *)
(* while there is no file: it counts c up once, or down once, or leaves    *)
(* both the count and the set of registered connections alone.             *)
Registers(c) ==
  /\ c \notin Registered /\ Registered' = Registered \cup {c}
  /\ counts' = [counts EXCEPT !["direct"] = @ + 1]
Unregisters(c) ==
  /\ c \in Registered /\ Registered' = Registered \ {c}
  /\ counts' = [counts EXCEPT !["direct"] = IF @ = 0 THEN 0 ELSE @ - 1]

LEMMA Counting ==
  ASSUME TypeInv, NEW c \in Connections, Call(c) \/ Run(c), ~strayed'
  PROVE  /\ ~strayed
         /\ Registers(c) \/ Unregisters(c) \/ UNCHANGED <<Registered, counts>>
<1>1. \A d \in Connections \ {c} : d \in Registered' <=> d \in Registered
  BY OthersKeep DEF Registered
<1>2. ASSUME c \in Registered' <=> c \in Registered PROVE Registered' = Registered
  BY <1>1, <1>2 DEF Registered
<1>3. spelling[c] = "alias" \/ spelling[c] = "direct"
  BY DEF TypeInv, Keys
<1> USE DEF TypeInv, GoTo, Say, Return, SetHandle, Blocked, adapter, path, history, Recovering
<1>4. CASE Register(c)
  <2>1. ~strayed /\ PathKey(c) = "direct"
    BY <1>3, <1>4 DEF Register, LookUp, PathKey
  <2>2. c \notin Registered /\ c \in Registered'
    BY <1>4 DEF Register, Registered
  <2>3. Registered' = Registered \cup {c}
    BY <1>1, <2>2 DEF Registered
  <2>4. QED
    BY <1>4, <2>1, <2>2, <2>3 DEF Register, RegisterConnection, Registers
<1>5. CASE Unregister(c)
  <2>1. ~strayed /\ PathKey(c) = "direct"
    BY <1>3, <1>5 DEF Unregister, LookUp, PathKey
  <2>2. c \in Registered /\ c \notin Registered'
    BY <1>5 DEF Unregister, Registered
  <2>3. Registered' = Registered \ {c}
    BY <1>1, <2>2 DEF Registered
  <2>4. QED
    BY <1>5, <2>1, <2>2, <2>3 DEF Unregister, UnregisterConnection, Unregisters
<1>6. ASSUME ~Register(c), ~Unregister(c)
      PROVE  /\ ~strayed /\ counts' = counts
             /\ c \in Registered' <=> c \in Registered
  <2> USE DEF Registered
  <2>1. CASE OpenHandle(c)
    BY <2>1 DEF OpenHandle
  <2>2. CASE OpenFails(c)
    BY <2>2 DEF OpenFails
  <2>3. CASE Identify(c)
    BY <2>3 DEF Identify
  <2>4. CASE CloseHandle(c)
    BY <2>4 DEF CloseHandle
  <2>5. CASE Guard(c)
    BY <2>5 DEF Guard, LookUp
  <2>6. CASE Inspect(c)
    BY <2>6 DEF Inspect
  <2>7. CASE CopyRows(c)
    BY <2>7 DEF CopyRows
  <2>8. CASE CloseOriginal(c)
    BY <2>8 DEF CloseOriginal
  <2>9. CASE ArchiveOriginal(c)
    BY <2>9 DEF ArchiveOriginal
  <2>10. CASE Activate(c)
    BY <2>10 DEF Activate
  <2>11. CASE Reopen(c)
    BY <2>11 DEF Reopen
  <2>12. CASE Quarantine(c)
    BY <2>12 DEF Quarantine
  <2>13. CASE Undo(c)
    BY <2>13 DEF Undo
  <2>14. CASE Restore(c)
    BY <2>14 DEF Restore
  <2>15. QED
    BY <1>6, <2>1, <2>2, <2>3, <2>4, <2>5, <2>6, <2>7, <2>8, <2>9, <2>10, <2>11, <2>12, <2>13,
       <2>14
    DEF Call, Run
<1>7. QED
  BY <1>2, <1>4, <1>5, <1>6

(* Nobody is registered, or one is, or one more or one less than before.   *)
LEMMA RegisteredFinite == Registered \subseteq Connections /\ IsFiniteSet(Registered)
<1>1. Registered \subseteq Connections
  BY DEF Registered
<1>2. QED
  BY <1>1, RegistryAssumption, FS_Subset

(* What the counts should be when S is registered. *)
Tally(S) == [k \in Keys |-> IF k = "direct" THEN Cardinality(S) ELSE 0]

LEMMA StepCounts == TypeInv /\ CountsExact /\ [Next]_vars => CountsExact'
<1> SUFFICES ASSUME TypeInv, CountsExact, [Next]_vars, ~strayed'
             PROVE  counts' = Tally(Registered')
  BY DEF CountsExact, Tally
<1>1. ASSUME NEW c \in Connections, Call(c) \/ Run(c) PROVE counts' = Tally(Registered')
  <2>1. /\ ~strayed
        /\ Registers(c) \/ Unregisters(c) \/ UNCHANGED <<Registered, counts>>
    BY <1>1, Counting
  <2>2. counts = Tally(Registered)
    BY <2>1 DEF CountsExact, Tally
  <2>3. IsFiniteSet(Registered) /\ Cardinality(Registered) \in Nat
    BY RegisteredFinite, FS_CardinalityType
  <2>4. CASE Registers(c)
    <3>1. Cardinality(Registered') = Cardinality(Registered) + 1
      BY <2>3, <2>4, FS_AddElement DEF Registers
    <3>2. QED
      BY <2>2, <2>4, <3>1 DEF Registers, Tally, Keys
  <2>5. CASE Unregisters(c)
    <3>1. Cardinality(Registered') = Cardinality(Registered) - 1
      BY <2>3, <2>5, FS_RemoveElement DEF Unregisters
    <3>2. Cardinality(Registered) # 0
      BY <2>3, <2>5, FS_EmptySet DEF Unregisters
    <3>3. QED
      BY <2>2, <2>5, <3>1, <3>2 DEF Unregisters, Tally, Keys
  <2>6. CASE UNCHANGED <<Registered, counts>>
    BY <2>2, <2>6
  <2>7. QED
    BY <2>1, <2>4, <2>5, <2>6
<1>2. CASE Replace
  BY <1>2 DEF Replace, CountsExact, Tally, Registered, adapter, history
<1>3. CASE UNCHANGED vars
  BY <1>3 DEF vars, CountsExact, Tally, Registered, adapter, history
<1>4. QED
  BY <1>1, <1>2, <1>3 DEF Next

(* The registry counts the connections that are open, for any number of    *)
(* connections, recoveries, failures and replaced files, unless an alias   *)
(* was looked up while there was no file.                                  *)
THEOREM OpenAreCounted == Spec => []CountsExact
<1>1. Init => CountsExact
  <2> SUFFICES ASSUME Init PROVE CountsExact
    OBVIOUS
  <2>1. Registered = {}
    BY DEF Init, Registered, Recovering
  <2>2. QED
    BY <2>1, FS_EmptySet DEF Init, CountsExact, Keys
<1>2. TypeInv /\ CountsExact /\ [Next]_vars => CountsExact'
  BY StepCounts
<1>3. QED
  BY <1>1, <1>2, TypesHold, PTL DEF Spec
-----------------------------------------------------------------------------
(* The guard of a recovery reads the count of the path, which is exact     *)
(* when it is asked.                                                       *)
LEMMA GuardSees ==
  ASSUME TypeInv, CountsExact, NEW c \in Connections, Guard(c), ~strayed'
  PROVE  /\ c \in Registered
         /\ HasOtherConnection(c) => Registered # {c}
         /\ ~HasOtherConnection(c) => Registered = {c}
<1>1. ~strayed /\ PathKey(c) = "direct"
  BY DEF TypeInv, Keys, Guard, LookUp, PathKey
<1>2. HasOtherConnection(c) <=> Cardinality(Registered) > 1
  BY <1>1 DEF CountsExact, HasOtherConnection, Keys
<1>3. IsFiniteSet(Registered) /\ Cardinality(Registered) \in Nat
  BY RegisteredFinite, FS_CardinalityType
<1>4. c \in Registered
  BY DEF Guard, Registered
<1>5. Registered = {c} => Cardinality(Registered) = 1
  BY FS_Singleton
<1>6. ASSUME Cardinality(Registered) <= 1 PROVE Registered = {c}
  <2>1. Cardinality(Registered) = 1
    BY <1>3, <1>4, <1>6, FS_EmptySet
  <2>2. PICK x : Registered = {x}
    BY <1>3, <2>1, FS_Singleton
  <2>3. QED
    BY <1>4, <2>2
<1>7. QED
  BY <1>2, <1>3, <1>4, <1>5, <1>6

(* Only the guard answers. *)
LEMMA OnlyGuardAnswers ==
  ASSUME NEW c \in Connections, Call(c) \/ Run(c)
  PROVE  \/ answer' = <<>>
         \/ Guard(c) /\ HasOtherConnection(c) /\ answer' = <<c, "open_connections">>
         \/ Guard(c) /\ ~HasOtherConnection(c) /\ answer' = <<c, "admitted">>
<1> USE DEF GoTo, Say, Return, Blocked
<1>1. CASE Guard(c)
  BY <1>1 DEF Guard
<1>2. CASE OpenHandle(c) \/ OpenFails(c) \/ Unregister(c)
  BY <1>2 DEF OpenHandle, OpenFails, Unregister
<1>3. CASE Register(c) \/ Identify(c) \/ CloseHandle(c) \/ Inspect(c) \/ CopyRows(c)
  BY <1>3 DEF Register, Identify, CloseHandle, Inspect, CopyRows
<1>4. CASE CloseOriginal(c) \/ ArchiveOriginal(c) \/ Activate(c) \/ Reopen(c)
  BY <1>4 DEF CloseOriginal, ArchiveOriginal, Activate, Reopen
<1>5. CASE Quarantine(c) \/ Undo(c) \/ Restore(c)
  BY <1>5 DEF Quarantine, Undo, Restore
<1>6. QED
  BY <1>1, <1>2, <1>3, <1>4, <1>5 DEF Call, Run

(* A recovery is admitted only if no other connection is open, and refused *)
(* only if one is, for any number of connections; same exception.          *)
THEOREM GuardIsTrue == Spec => GuardTells
<1>1. ASSUME TypeInv, CountsExact, [Next]_vars
      PROVE  [strayed' \/ \A c \in Connections : Told(c)]_vars
  <2> SUFFICES ASSUME Next, ~strayed', NEW d \in Connections PROVE Told(d)
    BY <1>1
  <2>1. \A x, y : <<>> # <<x, y>>
    OBVIOUS
  <2>2. CASE Replace
    BY <2>1, <2>2 DEF Replace, Told
  <2>3. ASSUME NEW c \in Connections, Call(c) \/ Run(c) PROVE Told(d)
    <3>1. CASE answer' = <<>>
      BY <2>1, <3>1 DEF Told
    <3>2. CASE Guard(c) /\ HasOtherConnection(c) /\ answer' = <<c, "open_connections">>
      BY <1>1, <3>2, GuardSees DEF Told
    <3>3. CASE Guard(c) /\ ~HasOtherConnection(c) /\ answer' = <<c, "admitted">>
      BY <1>1, <3>3, GuardSees DEF Told
    <3>4. QED
      BY <2>3, <3>1, <3>2, <3>3, OnlyGuardAnswers
  <2>4. QED
    BY <2>2, <2>3 DEF Next
<1>2. QED
  BY <1>1, TypesHold, OpenAreCounted, PTL DEF Spec, GuardTells

-----------------------------------------------------------------------------
(* A connection becomes busy only by being admitted.                       *)
LEMMA BusyGrows ==
  ASSUME TypeInv, NEW c \in Connections, Call(c) \/ Run(c)
  PROVE  \/ Busy' \subseteq Busy
         \/ /\ Guard(c) /\ ~HasOtherConnection(c) /\ Busy' = Busy \cup {c}
            /\ late' = late \cup {d \in Connections \ {c} : handle[d] # Missing}
<1>1. \A d \in Connections \ {c} : d \in Busy' <=> d \in Busy
  BY OthersKeep DEF Busy
<1>2. Busy \subseteq Connections /\ Busy' \subseteq Connections
  BY DEF Busy
<1> USE DEF TypeInv, Busy, Recovering, GoTo, Return, Blocked
<1>3. CASE Guard(c)
  <2>1. CASE HasOtherConnection(c)
    BY <1>3, <2>1 DEF Guard
  <2>2. CASE ~HasOtherConnection(c)
    <3>1. /\ c \in Busy'
          /\ late' = late \cup {d \in Connections \ {c} : handle[d] # Missing}
      BY <1>3, <2>2 DEF Guard
    <3>2. Busy' = Busy \cup {c}
      BY <1>1, <1>2, <3>1
    <3>3. QED
      BY <1>3, <2>2, <3>1, <3>2
  <2>3. QED
    BY <2>1, <2>2
<1>4. ASSUME ~Guard(c) PROVE c \in Busy' => c \in Busy
  <2>1. CASE OpenHandle(c) \/ OpenFails(c) \/ Unregister(c)
    BY <2>1 DEF OpenHandle, OpenFails, Unregister
  <2>2. CASE Register(c) \/ Identify(c) \/ CloseHandle(c)
    BY <2>2 DEF Register, Identify, CloseHandle
  <2>3. CASE Inspect(c) \/ CopyRows(c) \/ CloseOriginal(c) \/ ArchiveOriginal(c)
    BY <2>3 DEF Inspect, CopyRows, CloseOriginal, ArchiveOriginal
  <2>4. CASE Activate(c) \/ Reopen(c) \/ Quarantine(c) \/ Undo(c) \/ Restore(c)
    BY <2>4 DEF Activate, Reopen, Quarantine, Undo, Restore
  <2>5. QED
    BY <1>4, <2>1, <2>2, <2>3, <2>4 DEF Call, Run
<1>5. QED
  BY <1>1, <1>2, <1>3, <1>4

(* RecoveriesApart without the cardinality. *)
Apart == strayed \/ \A c, d \in Busy : c = d

LEMMA StepApart == TypeInv /\ CountsExact /\ Apart /\ [Next]_vars => Apart'
<1> SUFFICES ASSUME TypeInv, CountsExact, Apart, [Next]_vars, ~strayed'
             PROVE  \A c, d \in Busy' : c = d
  BY DEF Apart
<1>1. ASSUME NEW c \in Connections, Call(c) \/ Run(c) PROVE \A d, e \in Busy' : d = e
  <2>1. ~strayed
    BY <1>1, Counting
  <2>2. CASE Busy' \subseteq Busy
    BY <2>1, <2>2 DEF Apart
  <2>3. CASE Guard(c) /\ ~HasOtherConnection(c) /\ Busy' = Busy \cup {c}
    <3>1. Registered = {c}
      BY <2>3, GuardSees
    <3>2. Busy \subseteq Registered
      BY DEF Busy, Registered
    <3>3. QED
      BY <2>3, <3>1, <3>2
  <2>4. QED
    BY <1>1, <2>2, <2>3, BusyGrows
<1>2. CASE Replace
  BY <1>2 DEF Replace, Apart, Busy, history
<1>3. CASE UNCHANGED vars
  BY <1>3 DEF vars, Apart, Busy, history
<1>4. QED
  BY <1>1, <1>2, <1>3 DEF Next

LEMMA ApartHolds == Spec => []Apart
<1>1. Init => Apart
  BY DEF Init, Apart, Busy, Recovering
<1>2. QED
  BY <1>1, StepApart, TypesHold, OpenAreCounted, PTL DEF Spec

(* No two recoveries of the path run side by side, for any number of       *)
(* connections, although the guard is not held; same exception.            *)
THEOREM OneRecovery == Spec => []RecoveriesApart
<1>1. Apart => RecoveriesApart
  <2> SUFFICES ASSUME \A c, d \in Busy : c = d PROVE Cardinality(Busy) <= 1
    BY DEF Apart, RecoveriesApart
  <2>1. CASE Busy = {}
    BY <2>1, FS_EmptySet
  <2>2. CASE Busy # {}
    <3>1. PICK c \in Busy : Busy = {c}
      BY <2>2
    <3>2. Cardinality({c}) = 1
      BY FS_Singleton
    <3>3. QED
      BY <3>1, <3>2
  <2>3. QED
    BY <2>1, <2>2
<1>2. QED
  BY <1>1, ApartHolds, PTL
-----------------------------------------------------------------------------
(* What a recovery reads and what it archives: the identity of an adapter  *)
(* is the inode of its handle, which a recovery copies, closes before it   *)
(* archives, and opens again only on the file at the path.                 *)
Matched(c) ==
  /\ pc[c] \in {"open", "inspect", "copy", "close"} /\ handle[c] # Missing =>
       identity[c] = handle[c] \/ c \in straddled
  /\ pc[c] \in {"close", "archive", "activate"} => copied[c] = identity[c] \/ c \in straddled
  /\ pc[c] \in {"archive", "activate", "reopen", "quarantine", "restore", "undo"} =>
       handle[c] = Missing
ReadInv == \A c \in Connections : Matched(c)

LEMMA StepReads == TypeInv /\ ReadInv /\ [Next]_vars => ReadInv'
<1> SUFFICES ASSUME TypeInv, ReadInv, [Next]_vars PROVE ReadInv'
  OBVIOUS
<1>1. ASSUME NEW c \in Connections, Call(c) \/ Run(c) PROVE ReadInv'
  <2>1. ASSUME NEW d \in Connections \ {c} PROVE Matched(d)'
    <3>1. d \in straddled' <=> d \in straddled
      <4> USE DEF history
      <4>1. CASE OpenHandle(c) \/ OpenFails(c) \/ Unregister(c) \/ Guard(c)
        BY <4>1 DEF OpenHandle, OpenFails, Unregister, Guard
      <4>2. CASE Register(c) \/ Identify(c) \/ CloseHandle(c)
        BY <2>1, <4>2 DEF Register, Identify, CloseHandle
      <4>3. CASE Inspect(c) \/ CopyRows(c) \/ CloseOriginal(c) \/ ArchiveOriginal(c)
        BY <4>3 DEF Inspect, CopyRows, CloseOriginal, ArchiveOriginal
      <4>4. CASE Activate(c) \/ Reopen(c) \/ Quarantine(c) \/ Undo(c) \/ Restore(c)
        BY <4>4 DEF Activate, Reopen, Quarantine, Undo, Restore
      <4>5. QED
        BY <1>1, <4>1, <4>2, <4>3, <4>4 DEF Call, Run
    <3>2. Matched(d)
      BY DEF ReadInv
    <3>3. QED
      BY <1>1, <2>1, <3>1, <3>2, OthersKeep DEF Matched, Missing
  <2>2. Matched(c)'
    <3>1. Matched(c)
      BY DEF ReadInv
    <3> USE DEF TypeInv, Matched, Missing, GoTo, Say, Return, SetHandle, Blocked, adapter, history
    <3>2. CASE OpenHandle(c)
      BY <3>1, <3>2 DEF OpenHandle
    <3>3. CASE OpenFails(c)
      BY <3>1, <3>3 DEF OpenFails
    <3>4. CASE Register(c)
      BY <3>1, <3>4 DEF Register
    <3>5. CASE Identify(c)
      BY <3>1, <3>5 DEF Identify
    <3>6. CASE Unregister(c)
      BY <3>1, <3>6 DEF Unregister
    <3>7. CASE CloseHandle(c)
      BY <3>1, <3>7 DEF CloseHandle
    <3>8. CASE Guard(c)
      BY <3>1, <3>8 DEF Guard
    <3>9. CASE Inspect(c)
      BY <3>1, <3>9 DEF Inspect
    <3>10. CASE CopyRows(c)
      BY <3>1, <3>10 DEF CopyRows
    <3>11. CASE CloseOriginal(c)
      BY <3>1, <3>11 DEF CloseOriginal
    <3>12. CASE ArchiveOriginal(c)
      BY <3>1, <3>12 DEF ArchiveOriginal
    <3>13. CASE Activate(c)
      BY <3>1, <3>13 DEF Activate
    <3>14. CASE Reopen(c)
      BY <3>1, <3>14 DEF Reopen
    <3>15. CASE Quarantine(c)
      BY <3>1, <3>15 DEF Quarantine
    <3>16. CASE Undo(c)
      BY <3>1, <3>16 DEF Undo, Unmoved
    <3>17. CASE Restore(c)
      BY <3>1, <3>17 DEF Restore
    <3>18. QED
      BY <1>1, <3>2, <3>3, <3>4, <3>5, <3>6, <3>7, <3>8, <3>9, <3>10, <3>11, <3>12,
         <3>13, <3>14,
         <3>15, <3>16, <3>17
      DEF Call, Run
  <2>3. QED
    BY <2>1, <2>2 DEF ReadInv
<1>2. CASE Replace
  BY <1>2 DEF Replace, ReadInv, Matched, adapter, history, Missing
<1>3. CASE UNCHANGED vars
  BY <1>3 DEF vars, ReadInv, Matched, adapter, history, Missing
<1>4. QED
  BY <1>1, <1>2, <1>3 DEF Next

LEMMA ReadHolds == Spec => []ReadInv
<1>1. Init => ReadInv
  BY DEF Init, ReadInv, Matched, Missing
<1>2. QED
  BY <1>1, StepReads, TypesHold, PTL DEF Spec

(* A recovery archives the very file it copied, whoever else opens, drops  *)
(* or replaces it meanwhile, and with no exception for aliases.            *)
THEOREM CopyIsArchived == Spec => []ReadIsArchived
<1>1. HoldersInv /\ ReadInv => ReadIsArchived
  BY DEF HoldersInv, Holds, ReadInv, Matched, ReadIsArchived
<1>2. QED
  BY <1>1, TypesHold, ReadHolds, PTL
-----------------------------------------------------------------------------
(* Who is left behind on an archived file.  While a recovery runs, every   *)
(* other handle is one its guard could not see.                            *)
Unseen ==
  strayed \/ \A d \in Busy : \A c \in Connections \ {d} : handle[c] # Missing => c \in late
Orphaned == \A c \in Connections : handle[c] \in archived => strayed \/ c \in late
LateInv == Unseen /\ Orphaned

(* What a step does to its own connection's handle: nothing, or it is      *)
(* closed, or opened on the file at the path, by a newcomer or by the end  *)
(* of a recovery.                                                          *)
HandleAfter(c) ==
  \/ handle'[c] = handle[c] /\ (c \in late => c \in late')
  \/ handle'[c] = Missing
  \/ /\ handle'[c] \notin archived'
     /\ Busy = {} \/ c \in late' \/ (c \in Busy /\ c \notin Busy')

LEMMA Handling ==
  ASSUME TypeInv, HoldersInv, NEW c \in Connections, Call(c) \/ Run(c)
  PROVE  HandleAfter(c)
<1>1. file \notin archived /\ born + 1 \notin archived
  BY DEF TypeInv
<1>2. c \in Busy <=> pc[c] \in Recovering
  BY DEF Busy
<1>3. c \in Busy' <=> pc'[c] \in Recovering
  BY DEF Busy
<1> USE DEF HandleAfter, TypeInv, GoTo, Say, Return, SetHandle, Blocked, adapter, path, history,
            Missing, Recovering
<1>4. CASE OpenHandle(c)
  <2>1. handle'[c] = Opened /\ archived' = archived
    BY <1>4 DEF OpenHandle
  <2>2. Busy = {} \/ c \in late'
    BY <1>4 DEF OpenHandle
  <2>3. QED
    BY <1>1, <2>1, <2>2 DEF Opened
<1>5. CASE OpenFails(c) \/ Register(c) \/ Identify(c) \/ Unregister(c) \/ Guard(c)
  BY <1>5 DEF OpenFails, Register, Identify, Unregister, Guard
<1>6. CASE CloseHandle(c)
  BY <1>6 DEF CloseHandle
<1>7. CASE Inspect(c) \/ CopyRows(c) \/ ArchiveOriginal(c) \/ Activate(c) \/ Quarantine(c)
  BY <1>7 DEF Inspect, CopyRows, ArchiveOriginal, Activate, Quarantine
<1>8. CASE CloseOriginal(c)
  BY <1>8 DEF CloseOriginal
<1>9. CASE Reopen(c)
  <2>1. \/ handle'[c] = handle[c] /\ late' = late
        \/ handle'[c] = file /\ pc[c] = "reopen" /\ pc'[c] = "identify"
    BY <1>9 DEF Reopen
  <2>2. archived' = archived
    BY <1>9 DEF Reopen
  <2>3. QED
    BY <1>1, <1>2, <1>3, <2>1, <2>2
<1>10. CASE Undo(c)
  <2>1. handle'[c] = handle[c] \/ handle'[c] = file
    BY <1>10 DEF Undo
  <2>2. archived' = archived /\ late' = late /\ pc[c] = "undo" /\ pc'[c] = "open"
    BY <1>10 DEF Undo
  <2>3. QED
    BY <1>1, <1>2, <1>3, <2>1, <2>2
<1>11. CASE Restore(c)
  <2>1. \/ handle'[c] = handle[c]
        \/ handle'[c] = identity[c] /\ archived' = archived \ {identity[c]}
    BY <1>11 DEF Restore
  <2>2. late' = late /\ pc[c] = "restore" /\ pc'[c] = "open"
    BY <1>11 DEF Restore
  <2>3. QED
    BY <1>2, <1>3, <2>1, <2>2
<1>12. QED
  BY <1>4, <1>5, <1>6, <1>7, <1>8, <1>9, <1>10, <1>11 DEF Call, Run

(* No other connection becomes late or stops being so, but for those a     *)
(* guard finds open.                                                       *)
LEMMA LateOthers ==
  ASSUME NEW c \in Connections, Call(c) \/ Run(c), NEW d \in Connections, d # c, d \in late
  PROVE  d \in late'
<1> USE DEF history
<1>1. CASE OpenHandle(c) \/ OpenFails(c) \/ Unregister(c) \/ Guard(c)
  BY <1>1 DEF OpenHandle, OpenFails, Unregister, Guard
<1>2. CASE Register(c) \/ Identify(c) \/ CloseHandle(c)
  BY <1>2 DEF Register, Identify, CloseHandle
<1>3. CASE Inspect(c) \/ CopyRows(c) \/ CloseOriginal(c) \/ ArchiveOriginal(c)
  BY <1>3 DEF Inspect, CopyRows, CloseOriginal, ArchiveOriginal
<1>4. CASE Activate(c) \/ Reopen(c) \/ Quarantine(c) \/ Undo(c) \/ Restore(c)
  BY <1>4 DEF Activate, Reopen, Quarantine, Undo, Restore
<1>5. QED
  BY <1>1, <1>2, <1>3, <1>4 DEF Call, Run

(* Only a recovery that has closed its handle archives the file.           *)
LEMMA ArchivingNeedsBusy ==
  ASSUME TypeInv, ReadInv, NEW c \in Connections, Call(c) \/ Run(c)
  PROVE  \/ archived' \subseteq archived
         \/ /\ c \in Busy /\ handle[c] = Missing /\ handle'[c] = Missing
            /\ file # Missing /\ archived' = archived \cup {file}
<1> USE DEF path
<1>1. CASE OpenHandle(c) \/ OpenFails(c) \/ Unregister(c) \/ Guard(c)
  BY <1>1 DEF OpenHandle, OpenFails, Unregister, Guard
<1>2. CASE Register(c) \/ Identify(c) \/ CloseHandle(c)
  BY <1>2 DEF Register, Identify, CloseHandle
<1>3. CASE Inspect(c) \/ CopyRows(c) \/ CloseOriginal(c)
  BY <1>3 DEF Inspect, CopyRows, CloseOriginal
<1>4. CASE ArchiveOriginal(c)
  <2>1. c \in Busy /\ handle[c] = Missing /\ handle'[c] = handle[c]
    BY <1>4 DEF ArchiveOriginal, Busy, Recovering, ReadInv, Matched, adapter
  <2>2. archived' = archived \/ (file # Missing /\ archived' = archived \cup {file})
    BY <1>4 DEF ArchiveOriginal, Unmoved, Blocked
  <2>3. QED
    BY <2>1, <2>2
<1>5. CASE Activate(c) \/ Reopen(c) \/ Quarantine(c) \/ Undo(c)
  BY <1>5 DEF Activate, Reopen, Quarantine, Undo, Blocked
<1>6. CASE Restore(c)
  BY <1>6 DEF Restore
<1>7. QED
  BY <1>1, <1>2, <1>3, <1>4, <1>5, <1>6 DEF Call, Run

LEMMA StepLate ==
  TypeInv /\ HoldersInv /\ CountsExact /\ Apart /\ ReadInv /\ LateInv /\ [Next]_vars => LateInv'
<1> SUFFICES ASSUME TypeInv, HoldersInv, CountsExact, Apart, ReadInv, LateInv, [Next]_vars
             PROVE  LateInv'
  OBVIOUS
<1>1. ASSUME NEW c \in Connections, Call(c) \/ Run(c), ~strayed' PROVE LateInv'
  <2>1. ~strayed
    BY <1>1, Counting
  <2>2. /\ \A d \in Busy : \A e \in Connections \ {d} : handle[e] # Missing => e \in late
        /\ \A e \in Connections : handle[e] \in archived => e \in late
        /\ \A d, e \in Busy : d = e
    BY <2>1 DEF LateInv, Unseen, Orphaned, Apart
  <2>3. \A e \in Connections \ {c} : handle'[e] = handle[e] /\ (e \in late => e \in late')
    BY <1>1, OthersKeep, LateOthers
  <2>4. HandleAfter(c)
    BY <1>1, Handling
  <2>5. Missing \notin archived'
    BY StepTypes DEF TypeInv, Missing
  <2>6. ASSUME NEW d \in Busy', NEW e \in Connections \ {d}, handle'[e] # Missing
        PROVE  e \in late'
    <3>1. CASE Busy' \subseteq Busy
      <4>1. CASE e # c
        BY <2>2, <2>3, <2>6, <3>1, <4>1
      <4>2. CASE e = c
        BY <2>2, <2>4, <2>6, <3>1, <4>2 DEF HandleAfter
      <4>3. QED
        BY <4>1, <4>2
    <3>2. CASE /\ Guard(c) /\ ~HasOtherConnection(c) /\ Busy' = Busy \cup {c}
               /\ late' = late \cup {f \in Connections \ {c} : handle[f] # Missing}
      <4>1. Registered = {c}
        BY <1>1, <3>2, GuardSees
      <4>2. Busy \subseteq Registered
        BY DEF Busy, Registered
      <4>3. d = c
        BY <2>6, <3>2, <4>1, <4>2
      <4>4. QED
        BY <2>3, <2>6, <3>2, <4>3
    <3>3. QED
      BY <1>1, <3>1, <3>2, BusyGrows
  <2>7. ASSUME NEW e \in Connections, handle'[e] \in archived' PROVE e \in late'
    <3>1. CASE archived' \subseteq archived
      BY <2>2, <2>3, <2>4, <2>5, <2>7, <3>1 DEF HandleAfter
    <3>2. CASE /\ c \in Busy /\ handle[c] = Missing /\ handle'[c] = Missing
               /\ file # Missing /\ archived' = archived \cup {file}
      <4>1. e # c
        BY <2>5, <2>7, <3>2
      <4>2. QED
        BY <2>2, <2>3, <2>7, <3>2, <4>1
    <3>3. QED
      BY <1>1, <3>1, <3>2, ArchivingNeedsBusy
  <2>8. QED
    BY <2>6, <2>7 DEF LateInv, Unseen, Orphaned
<1>2. ASSUME strayed' PROVE LateInv'
  BY <1>2 DEF LateInv, Unseen, Orphaned
<1>3. CASE Replace
  BY <1>3 DEF Replace, LateInv, Unseen, Orphaned, Busy, adapter, history
<1>4. CASE UNCHANGED vars
  BY <1>4 DEF vars, path, adapter, history, LateInv, Unseen, Orphaned, Busy
<1>5. QED
  BY <1>1, <1>2, <1>3, <1>4 DEF Next

(* The connections that go on writing to an archived file are those the    *)
(* guard of a recovery could not see, for any number of connections,       *)
(* recoveries, failures and replaced files.                                *)
THEOREM OrphansAreLate == Spec => []OrphansWereLate
<1>1. Init => LateInv
  BY DEF Init, LateInv, Unseen, Orphaned, Busy, Recovering
<1>2. LateInv => OrphansWereLate
  BY DEF LateInv, Orphaned, OrphansWereLate
<1>3. QED
  BY <1>1, <1>2, StepLate, TypesHold, OpenAreCounted, ApartHolds, ReadHolds, PTL DEF Spec
=============================================================================
