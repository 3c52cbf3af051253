--------------------------- MODULE KeyMutexProofs ---------------------------
(***************************************************************************)
(* The lock registry is a lock until a caller removes its entry, whatever  *)
(* the number of goroutines.  MutualExclusion is not inductive: the proof  *)
(* adds that a goroutine past LoadOrStore points at the entry, that the    *)
(* mutex is locked while somebody is in the critical region, and that a    *)
(* holder's Unlock finds isLocked set.                                     *)
(*                                                                         *)
(* That Unlock never unlocks an unlocked sync.Mutex holds even when the    *)
(* entry is removed under a holder.  There the argument is one about each  *)
(* mutex: the right to unlock it is with a goroutine that has just locked  *)
(* it, in its flag isLocked, or with the one goroutine that swapped the    *)
(* flag back, and it is never in two places.                               *)
(***************************************************************************)
EXTENDS KeyMutex, TLAPS

\* The goroutine has locked a mutex and has not unlocked it yet.
Critical(p) == pc[p] \in {"ident", "flag", "held", "clear", "cas", "unlock"}

\* The pointer a goroutine works with is the entry.
PointersAreEntry ==
    \A p \in Procs : pc[p] # "idle" => ptr[p] = entry /\ entry # NoMux

OneCritical ==
    /\ \A p, q \in Procs : Critical(p) /\ Critical(q) => p = q
    /\ \A p \in Procs : Critical(p) => locked[entry]

FlagWhileHeld ==
    \A p \in Procs : pc[p] \in {"held", "clear", "cas"} => isLocked[entry]

\* The identifier of the entry is of the goroutine in the critical region.
IdentIsHolder ==
    \A p \in Procs :
        entry # NoMux /\ ident[entry] = p => pc[p] \in {"flag", "held", "clear"}

KeepInv == PointersAreEntry /\ OneCritical /\ FlagWhileHeld

MutexInv == TypeOK /\ (~removed => KeepInv)

LEMMA MutexInvInit == Init => MutexInv
BY KeyMutexAssumption
DEF Init, MutexInv, KeepInv, TypeOK, Location, PointersAreEntry, OneCritical, Critical,
    FlagWhileHeld

\* The type is kept whoever removes what.
LEMMA TypeNext == ASSUME TypeOK, [Next]_vars PROVE TypeOK'
<1> USE KeyMutexAssumption DEF TypeOK, Location, Goto
<1>1. CASE UNCHANGED vars
  BY <1>1 DEF vars
<1>2. ASSUME NEW p \in Procs, NEW l \in {"trylock", "lock"}, LoadOrStore(p, l)
      PROVE  TypeOK'
  <2>1. CASE entry # NoMux
    BY <1>2, <2>1 DEF LoadOrStore
  <2>2. CASE entry = NoMux
    <3>1. PICK m \in Mux : /\ entry' = m
                           /\ ptr' = [ptr EXCEPT ![p] = m]
                           /\ locked' = [locked EXCEPT ![m] = FALSE]
                           /\ isLocked' = [isLocked EXCEPT ![m] = FALSE]
                           /\ ident' = [ident EXCEPT ![m] = NoProc]
      BY <1>2, <2>2 DEF LoadOrStore, Unreferenced
    <3>2. pc' = [pc EXCEPT ![p] = l] /\ remove' = remove /\ removed' = removed
      BY <1>2 DEF LoadOrStore
    <3> QED
      BY <3>1, <3>2
  <2> QED
    BY <2>1, <2>2
<1>3. ASSUME NEW p \in Procs, TryLockMutex(p) \/ LockMutex(p)
      PROVE  TypeOK'
  BY <1>3, ZenonT(30) DEF TryLockMutex, LockMutex
<1>4. ASSUME NEW p \in Procs, SetIdent(p) \/ SetIsLocked(p) \/ ClearIdent(p)
      PROVE  TypeOK'
  <2>1. CASE SetIdent(p)
    BY <2>1 DEF SetIdent
  <2>2. CASE SetIsLocked(p)
    BY <2>2 DEF SetIsLocked
  <2>3. CASE ClearIdent(p)
    BY <2>3 DEF ClearIdent
  <2> QED
    BY <1>4, <2>1, <2>2, <2>3
<1>5. ASSUME NEW p \in Procs, NEW r \in BOOLEAN, UnlockLoad(p, r)
      PROVE  TypeOK'
  BY <1>5 DEF UnlockLoad
<1>6. ASSUME NEW p \in Procs, CompareAndSwap(p) \/ UnlockMutex(p)
      PROVE  TypeOK'
  BY <1>6, ZenonT(30) DEF CompareAndSwap, UnlockMutex, AfterUnlock
<1>7. ASSUME NEW p \in Procs, Delete(p)
      PROVE  TypeOK'
  BY <1>7 DEF Delete
<1> QED
  BY <1>1, <1>2, <1>3, <1>4, <1>5, <1>6, <1>7 DEF Next, Step, TryLockStart, LockStart

\* No step but a Delete touches the history, and none resets it.
LEMMA RemovedStays == ASSUME removed, [Next]_vars PROVE removed'
BY DEF Next, Step, TryLockStart, LockStart, LoadOrStore, TryLockMutex, LockMutex, SetIdent,
       SetIsLocked, UnlockLoad, ClearIdent, CompareAndSwap, UnlockMutex, Delete, vars

LEMMA KeepInvNext ==
    ASSUME TypeOK, KeepInv, [Next]_vars, ~removed'
    PROVE  KeepInv'
<1> USE KeyMutexAssumption
<1> USE DEF KeepInv, TypeOK, Location, PointersAreEntry, OneCritical, Critical, FlagWhileHeld, Goto
<1>1. CASE UNCHANGED vars
  BY <1>1 DEF vars
<1>2. ASSUME NEW p \in Procs, NEW l \in {"trylock", "lock"}, LoadOrStore(p, l)
      PROVE  KeepInv'
  <2>1. CASE entry # NoMux
    BY <1>2, <2>1 DEF LoadOrStore
  <2>2. CASE entry = NoMux
    <3>1. \A q \in Procs : pc[q] = "idle"
      BY <2>2
    <3>2. PICK m \in Mux : /\ entry' = m
                           /\ ptr' = [ptr EXCEPT ![p] = m]
                           /\ locked' = [locked EXCEPT ![m] = FALSE]
                           /\ isLocked' = [isLocked EXCEPT ![m] = FALSE]
                           /\ ident' = [ident EXCEPT ![m] = NoProc]
      BY <1>2, <2>2 DEF LoadOrStore, Unreferenced
    <3>3. pc' = [pc EXCEPT ![p] = l] /\ remove' = remove
      BY <1>2 DEF LoadOrStore
    <3> QED
      BY <3>1, <3>2, <3>3
  <2> QED
    BY <2>1, <2>2
<1>3. ASSUME NEW p \in Procs, TryLockMutex(p)
      PROVE  KeepInv'
  <2>1. CASE ~locked[ptr[p]]
    <3>1. ptr[p] = entry /\ entry \in Mux
      BY <1>3 DEF TryLockMutex
    <3>2. \A q \in Procs : ~Critical(q)
      BY <2>1, <3>1
    <3>3. /\ locked' = [locked EXCEPT ![entry] = TRUE]
          /\ pc' = [pc EXCEPT ![p] = "ident"]
          /\ UNCHANGED <<entry, isLocked, ident, ptr, remove>>
      BY <1>3, <2>1, <3>1 DEF TryLockMutex
    <3> QED
      BY <3>1, <3>2, <3>3
  <2>2. CASE locked[ptr[p]]
    BY <1>3, <2>2 DEF TryLockMutex
  <2> QED
    BY <2>1, <2>2
<1>4. ASSUME NEW p \in Procs, LockMutex(p)
      PROVE  KeepInv'
  BY <1>4 DEF LockMutex
<1>5. ASSUME NEW p \in Procs, SetIdent(p)
      PROVE  KeepInv'
  BY <1>5 DEF SetIdent
<1>6. ASSUME NEW p \in Procs, SetIsLocked(p)
      PROVE  KeepInv'
  BY <1>6 DEF SetIsLocked
<1>7. ASSUME NEW p \in Procs, NEW r \in BOOLEAN, UnlockLoad(p, r)
      PROVE  KeepInv'
  BY <1>7 DEF UnlockLoad
<1>8. ASSUME NEW p \in Procs, ClearIdent(p)
      PROVE  KeepInv'
  BY <1>8 DEF ClearIdent
<1>9. ASSUME NEW p \in Procs, CompareAndSwap(p)
      PROVE  KeepInv'
  BY <1>9 DEF CompareAndSwap, AfterUnlock
<1>10. ASSUME NEW p \in Procs, UnlockMutex(p)
       PROVE  KeepInv'
  BY <1>10 DEF UnlockMutex, AfterUnlock
<1>11. ASSUME NEW p \in Procs, Delete(p)
       PROVE  FALSE
  BY <1>11 DEF Delete
<1> QED
  BY <1>1, <1>2, <1>3, <1>4, <1>5, <1>6, <1>7, <1>8, <1>9, <1>10, <1>11
  DEF Next, Step, TryLockStart, LockStart

\* At most one goroutine holds the lock of a key, provided no Unlock has removed
\* the entry yet.
THEOREM KeepingUnlockExcludes == Spec => [](TypeOK /\ MutualExclusion)
<1>1. Init => MutexInv
  BY MutexInvInit
<1>2. MutexInv /\ [Next]_vars => MutexInv'
  BY TypeNext, RemovedStays, KeepInvNext DEF MutexInv
<1>3. MutexInv => TypeOK /\ MutualExclusion
  BY DEF MutexInv, KeepInv, OneCritical, Critical, MutualExclusion, Exclusion
<1> QED
  BY <1>1, <1>2, <1>3, PTL DEF Spec

\* The types of the variables, whoever removes what; a goroutine inside TryLock, Lock or
\* Unlock has a lockWithIdent to work with, never a missing entry.
THEOREM MutexTypeCorrect == Spec => []TypeOK
<1>1. Spec => [](TypeOK /\ MutualExclusion)
  BY KeepingUnlockExcludes
<1> QED
  BY <1>1, PTL

-----------------------------------------------------------------------------
\* The goroutine has the right to unlock the mutex it points at: it has locked it and
\* not set the flag yet, or has swapped the flag back.
Owner(p) == pc[p] \in {"ident", "flag", "unlock"}

\* The right is in one place: with an owner, or in the flag.
OneRight ==
    /\ \A p \in Procs : Owner(p) => locked[ptr[p]] /\ ~isLocked[ptr[p]]
    /\ \A m \in Mux : isLocked[m] => locked[m]
    /\ \A p, q \in Procs : Owner(p) /\ Owner(q) /\ ptr[p] = ptr[q] => p = q

\* Every step keeps the right in one place.
LEMMA OneRightNext ==
    ASSUME TypeOK, OneRight, [Next]_vars
    PROVE  OneRight'
<1> USE KeyMutexAssumption DEF TypeOK, Location, Goto, OneRight, Owner
<1>1. CASE UNCHANGED vars
  BY <1>1 DEF vars
<1>2. ASSUME NEW p \in Procs, NEW l \in {"trylock", "lock"}, LoadOrStore(p, l)
      PROVE  OneRight'
  <2>1. CASE entry # NoMux
    BY <1>2, <2>1 DEF LoadOrStore
  <2>2. CASE entry = NoMux
    <3>1. PICK m \in Unreferenced : /\ ptr' = [ptr EXCEPT ![p] = m]
                                    /\ locked' = [locked EXCEPT ![m] = FALSE]
                                    /\ isLocked' = [isLocked EXCEPT ![m] = FALSE]
      BY <1>2, <2>2 DEF LoadOrStore
    <3>2. m \in Mux /\ \A q \in Procs : ptr[q] # m
      BY DEF Unreferenced
    <3>3. pc' = [pc EXCEPT ![p] = l]
      BY <1>2 DEF LoadOrStore
    <3> QED
      BY <3>1, <3>2, <3>3
  <2> QED
    BY <2>1, <2>2
<1>3. ASSUME NEW p \in Procs, TryLockMutex(p) \/ LockMutex(p)
      PROVE  OneRight'
  BY <1>3 DEF TryLockMutex, LockMutex
<1>4. ASSUME NEW p \in Procs, SetIdent(p) \/ ClearIdent(p)
      PROVE  OneRight'
  BY <1>4 DEF SetIdent, ClearIdent
<1>5. ASSUME NEW p \in Procs, SetIsLocked(p)
      PROVE  OneRight'
  BY <1>5 DEF SetIsLocked
<1>6. ASSUME NEW p \in Procs, NEW r \in BOOLEAN, UnlockLoad(p, r)
      PROVE  OneRight'
  BY <1>6 DEF UnlockLoad
<1>7. ASSUME NEW p \in Procs, CompareAndSwap(p)
      PROVE  OneRight'
  BY <1>7 DEF CompareAndSwap, AfterUnlock
<1>8. ASSUME NEW p \in Procs, UnlockMutex(p)
      PROVE  OneRight'
  BY <1>8 DEF UnlockMutex, AfterUnlock
<1>9. ASSUME NEW p \in Procs, Delete(p)
      PROVE  OneRight'
  BY <1>9 DEF Delete
<1> QED
  BY <1>1, <1>2, <1>3, <1>4, <1>5, <1>6, <1>7, <1>8, <1>9
  DEF Next, Step, TryLockStart, LockStart

\* Unlock(key, remove) never calls mux.Unlock of a sync.Mutex that is not locked, which
\* would end the process, even after an Unlock has removed the entry another goroutine
\* still holds.
THEOREM UnlockIsNeverFatal == Spec => []NoFatalUnlock
<1>1. Init => TypeOK /\ OneRight
  BY MutexInvInit DEF MutexInv, Init, OneRight, Owner
<1>2. TypeOK /\ OneRight /\ [Next]_vars => (TypeOK /\ OneRight)'
  BY TypeNext, OneRightNext
<1>3. TypeOK /\ OneRight => NoFatalUnlock
  BY DEF OneRight, Owner, NoFatalUnlock
<1> QED
  BY <1>1, <1>2, <1>3, PTL DEF Spec

-----------------------------------------------------------------------------
\* While no entry is removed, a step leaves an identifier only with its goroutine.
LEMMA IdentNext ==
    ASSUME TypeOK, KeepInv, IdentIsHolder, [Next]_vars, ~removed'
    PROVE  IdentIsHolder'
<1> USE KeyMutexAssumption DEF TypeOK, Location, Goto, IdentIsHolder
<1>1. CASE UNCHANGED vars
  BY <1>1 DEF vars
<1>2. ASSUME NEW p \in Procs, NEW l \in {"trylock", "lock"}, LoadOrStore(p, l)
      PROVE  IdentIsHolder'
  <2>1. CASE entry # NoMux
    BY <1>2, <2>1 DEF LoadOrStore
  <2>2. CASE entry = NoMux
    BY <1>2, <2>2 DEF LoadOrStore, Unreferenced
  <2> QED
    BY <2>1, <2>2
<1>3. ASSUME NEW p \in Procs, TryLockMutex(p) \/ LockMutex(p) \/ SetIsLocked(p)
      PROVE  IdentIsHolder'
  BY <1>3 DEF TryLockMutex, LockMutex, SetIsLocked
<1>4. ASSUME NEW p \in Procs, SetIdent(p) \/ ClearIdent(p)
      PROVE  IdentIsHolder'
  BY <1>4 DEF SetIdent, ClearIdent, KeepInv, PointersAreEntry
<1>5. ASSUME NEW p \in Procs, NEW r \in BOOLEAN, UnlockLoad(p, r)
      PROVE  IdentIsHolder'
  BY <1>5 DEF UnlockLoad, KeepInv, PointersAreEntry
<1>6. ASSUME NEW p \in Procs, CompareAndSwap(p) \/ UnlockMutex(p)
      PROVE  IdentIsHolder'
  BY <1>6 DEF CompareAndSwap, UnlockMutex, AfterUnlock
<1>7. ASSUME NEW p \in Procs, Delete(p)
      PROVE  FALSE
  BY <1>7 DEF Delete
<1> QED
  BY <1>1, <1>2, <1>3, <1>4, <1>5, <1>6, <1>7 DEF Next, Step, TryLockStart, LockStart

\* Until an entry is removed, LockedBy(key) is empty or names a goroutine that has taken
\* the mutex and not released it.
THEOREM LockedByNamesHolder == Spec => []LockedByIsHolder
<1> DEFINE I == MutexInv /\ (~removed => IdentIsHolder)
<1>1. Init => I
  BY MutexInvInit, KeyMutexAssumption DEF Init, IdentIsHolder
<1>2. I /\ [Next]_vars => I'
  BY TypeNext, RemovedStays, KeepInvNext, IdentNext DEF MutexInv
<1>3. I => LockedByIsHolder
  BY KeyMutexAssumption DEF IdentIsHolder, LockedByIsHolder, LockedBy
<1> HIDE DEF I
<1> QED
  BY <1>1, <1>2, <1>3, PTL DEF Spec
=============================================================================
