------------------------------ MODULE KeyMutex ------------------------------
(***************************************************************************)
(* The registry entry of ONE key of locking/local_locker.go (keyMutex),    *)
(* used by goroutines that follow the protocol "TryLock, Lock or           *)
(* LockWithContext, then Unlock".  The keys of the sync.Map never interact.*)
(*                                                                         *)
(* Every step is one atomic operation of the Go code: a sync.Map call, a   *)
(* sync.Mutex call, an atomic.Bool call or the write of ident.             *)
(***************************************************************************)
EXTENDS FiniteSets, Naturals

CONSTANTS
    Procs,      \* the goroutines
    Mux,        \* identities of lockWithIdent values
    Removers,   \* the goroutines that may call Unlock(key, true)
    NoMux,      \* "the sync.Map has no entry"
    NoProc      \* the empty identifier

ASSUME KeyMutexAssumption ==
    /\ Removers \subseteq Procs
    /\ NoMux \notin Mux
    /\ NoProc \notin Procs

VARIABLES
    entry,      \* muxes[key]: the lockWithIdent stored, or NoMux
    locked,     \* locked[m]: the sync.Mutex of m is locked
    isLocked,   \* isLocked[m]: the atomic.Bool of m
    ident,      \* ident[m]: the identifier stored in m
    pc,         \* where each goroutine is
    ptr,        \* the lockWithIdent each goroutine last loaded
    remove,     \* the remove argument of the goroutine's current Unlock
    removed     \* history: an Unlock has removed the entry

vars == <<entry, locked, isLocked, ident, pc, ptr, remove, removed>>

\* "trylock", "lock": LoadOrStore returned; "ident", "flag": the mutex is taken;
\* "held": the call returned; "clear", "cas", "unlock", "delete": inside Unlock.
Location == {"idle", "trylock", "lock", "ident", "flag", "held",
             "clear", "cas", "unlock", "delete"}

TypeOK ==
    /\ entry \in Mux \cup {NoMux}
    /\ locked \in [Mux -> BOOLEAN]
    /\ isLocked \in [Mux -> BOOLEAN]
    /\ ident \in [Mux -> Procs \cup {NoProc}]
    /\ pc \in [Procs -> Location]
    /\ ptr \in [Procs -> Mux \cup {NoMux}]
    /\ remove \in [Procs -> BOOLEAN]
    /\ removed \in BOOLEAN
    \* no function of the locker dereferences a missing entry
    /\ \A p \in Procs : pc[p] # "idle" => ptr[p] \in Mux

Init ==
    /\ entry = NoMux
    /\ locked = [m \in Mux |-> FALSE]
    /\ isLocked = [m \in Mux |-> FALSE]
    /\ ident = [m \in Mux |-> NoProc]
    /\ pc = [p \in Procs |-> "idle"]
    /\ ptr = [p \in Procs |-> NoMux]
    /\ remove = [p \in Procs |-> FALSE]
    /\ removed = FALSE

Goto(p, l) == pc' = [pc EXCEPT ![p] = l]

\* A lockWithIdent nothing refers to any more has been collected; a new one may
\* reuse its identity.
Unreferenced == Mux \ ({entry} \cup {ptr[p] : p \in Procs})

-----------------------------------------------------------------------------
\* mux, _ := k.muxes.LoadOrStore(key, &lockWithIdent{}), of TryLock and of Lock.
LoadOrStore(p, next) ==
    /\ pc[p] = "idle"
    /\ \/ /\ entry # NoMux
          /\ ptr' = [ptr EXCEPT ![p] = entry]
          /\ UNCHANGED <<entry, locked, isLocked, ident>>
       \/ /\ entry = NoMux
          /\ \E m \in Unreferenced :
                /\ entry' = m
                /\ ptr' = [ptr EXCEPT ![p] = m]
                /\ locked' = [locked EXCEPT ![m] = FALSE]
                /\ isLocked' = [isLocked EXCEPT ![m] = FALSE]
                /\ ident' = [ident EXCEPT ![m] = NoProc]
    /\ Goto(p, next)
    /\ UNCHANGED <<remove, removed>>

\* Also each attempt of LockWithContext, whose failed attempts only wait.
TryLockStart(p) == LoadOrStore(p, "trylock")
LockStart(p) == LoadOrStore(p, "lock")

\* Mutant: the flag is consulted instead of the mutex.
TryLockByFlag(p) ==
    /\ pc[p] = "trylock"
    /\ \/ /\ ~isLocked[ptr[p]]
          /\ locked' = [locked EXCEPT ![ptr[p]] = TRUE]
          /\ Goto(p, "ident")
          /\ UNCHANGED ptr
       \/ /\ isLocked[ptr[p]]
          /\ Goto(p, "idle")
          /\ ptr' = [ptr EXCEPT ![p] = NoMux]
          /\ UNCHANGED locked
    /\ UNCHANGED <<entry, isLocked, ident, remove, removed>>

\* keyMux.mux.TryLock()
TryLockMutex(p) ==
    /\ pc[p] = "trylock"
    /\ \/ /\ ~locked[ptr[p]]
          /\ locked' = [locked EXCEPT ![ptr[p]] = TRUE]
          /\ Goto(p, "ident")
          /\ UNCHANGED ptr
       \/ /\ locked[ptr[p]]
          /\ Goto(p, "idle")
          /\ ptr' = [ptr EXCEPT ![p] = NoMux]
          /\ UNCHANGED locked
    /\ UNCHANGED <<entry, isLocked, ident, remove, removed>>

\* keyMux.mux.Lock(): blocks while the mutex is locked
LockMutex(p) ==
    /\ pc[p] = "lock"
    /\ ~locked[ptr[p]]
    /\ locked' = [locked EXCEPT ![ptr[p]] = TRUE]
    /\ Goto(p, "ident")
    /\ UNCHANGED <<entry, isLocked, ident, ptr, remove, removed>>

\* keyMux.ident = identifier
SetIdent(p) ==
    /\ pc[p] = "ident"
    /\ ident' = [ident EXCEPT ![ptr[p]] = p]
    /\ Goto(p, "flag")
    /\ UNCHANGED <<entry, locked, isLocked, ptr, remove, removed>>

\* keyMux.isLocked.Store(true), and the call returns
SetIsLocked(p) ==
    /\ pc[p] = "flag"
    /\ isLocked' = [isLocked EXCEPT ![ptr[p]] = TRUE]
    /\ Goto(p, "held")
    /\ UNCHANGED <<entry, locked, ident, ptr, remove, removed>>

\* Mutant: the result ok of Load is ignored.
UnlockLoadUnchecked(p, r) ==
    /\ pc[p] = "held"
    /\ r => p \in Removers
    /\ ptr' = [ptr EXCEPT ![p] = entry]
    /\ Goto(p, "clear")
    /\ remove' = [remove EXCEPT ![p] = r]
    /\ UNCHANGED <<entry, locked, isLocked, ident, removed>>

\* Unlock(key, r): mux, ok := k.muxes.Load(key); if !ok { return }
UnlockLoad(p, r) ==
    /\ pc[p] = "held"
    /\ r => p \in Removers
    /\ ptr' = [ptr EXCEPT ![p] = entry]
    /\ \/ /\ entry = NoMux
          /\ Goto(p, "idle")
          /\ UNCHANGED remove
       \/ /\ entry # NoMux
          /\ Goto(p, "clear")
          /\ remove' = [remove EXCEPT ![p] = r]
    /\ UNCHANGED <<entry, locked, isLocked, ident, removed>>

\* Mutant: Unlock leaves the identifier in place.
ClearNothing(p) ==
    /\ pc[p] = "clear"
    /\ Goto(p, "cas")
    /\ UNCHANGED <<entry, locked, isLocked, ident, ptr, remove, removed>>

\* keyMux.ident = ""
ClearIdent(p) ==
    /\ pc[p] = "clear"
    /\ ident' = [ident EXCEPT ![ptr[p]] = NoProc]
    /\ Goto(p, "cas")
    /\ UNCHANGED <<entry, locked, isLocked, ptr, remove, removed>>

\* The end of Unlock: Delete is called only when remove is set.
AfterUnlock(p) ==
    \/ /\ remove[p]
       /\ Goto(p, "delete")
       /\ UNCHANGED ptr
    \/ /\ ~remove[p]
       /\ Goto(p, "idle")
       /\ ptr' = [ptr EXCEPT ![p] = NoMux]

\* Mutant: Unlock does not test the flag.
UnlockUnguarded(p) ==
    /\ pc[p] = "cas"
    /\ isLocked' = [isLocked EXCEPT ![ptr[p]] = FALSE]
    /\ Goto(p, "unlock")
    /\ UNCHANGED <<entry, locked, ident, ptr, remove, removed>>

\* if keyMux.isLocked.CompareAndSwap(true, false)
CompareAndSwap(p) ==
    /\ pc[p] = "cas"
    /\ \/ /\ isLocked[ptr[p]]
          /\ isLocked' = [isLocked EXCEPT ![ptr[p]] = FALSE]
          /\ Goto(p, "unlock")
          /\ UNCHANGED ptr
       \/ /\ ~isLocked[ptr[p]]
          /\ AfterUnlock(p)
          /\ UNCHANGED isLocked
    /\ UNCHANGED <<entry, locked, ident, remove, removed>>

\* keyMux.mux.Unlock()
UnlockMutex(p) ==
    /\ pc[p] = "unlock"
    /\ locked' = [locked EXCEPT ![ptr[p]] = FALSE]
    /\ AfterUnlock(p)
    /\ UNCHANGED <<entry, isLocked, ident, remove, removed>>

\* k.muxes.Delete(key)
Delete(p) ==
    /\ pc[p] = "delete"
    /\ entry' = NoMux
    /\ Goto(p, "idle")
    /\ ptr' = [ptr EXCEPT ![p] = NoMux]
    /\ remove' = [remove EXCEPT ![p] = FALSE]
    /\ removed' = TRUE
    /\ UNCHANGED <<locked, isLocked, ident>>

\* LockedBy(key): the identifier of the entry, NoProc when there is none.
LockedBy == IF entry = NoMux THEN NoProc ELSE ident[entry]

-----------------------------------------------------------------------------
Step(p) ==
    \/ TryLockStart(p) \/ TryLockMutex(p)
    \/ LockStart(p) \/ LockMutex(p)
    \/ SetIdent(p) \/ SetIsLocked(p)
    \/ \E r \in BOOLEAN : UnlockLoad(p, r)
    \/ ClearIdent(p) \/ CompareAndSwap(p) \/ UnlockMutex(p) \/ Delete(p)

Next == \E p \in Procs : Step(p)

Spec == Init /\ [][Next]_vars

-----------------------------------------------------------------------------
\* Two goroutines never both hold the lock of one key: what every caller that
\* brackets an update of an instance with Lock and Unlock relies on.
Exclusion == \A p, q \in Procs : pc[p] = "held" /\ pc[q] = "held" => p = q

\* The registry is a lock until an Unlock removes the entry, however TryLock,
\* Lock and Unlock interleave.
MutualExclusion == ~removed => Exclusion

\* Unlock never calls Unlock on an unlocked sync.Mutex, which is a fatal error
\* of the Go runtime: the compare-and-swap on isLocked guards it, even when the
\* entry was replaced under a holder.
NoFatalUnlock == \A p \in Procs : pc[p] = "unlock" => locked[ptr[p]]

\* Until the entry is removed, LockedBy only ever names a goroutine that is
\* between taking the mutex and releasing it.
LockedByIsHolder ==
    \A p \in Procs :
        ~removed /\ LockedBy = p => pc[p] \in {"flag", "held", "clear"}
=============================================================================
