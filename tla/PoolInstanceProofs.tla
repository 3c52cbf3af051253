------------------------- MODULE PoolInstanceProofs -------------------------
(***************************************************************************)
(* The invariants TypeOK, LockOwned, OneProviderCall, NoLeakByDelete and   *)
(* the action property OnlyRetryUndeletes hold of PoolInstance for every   *)
(* value of its constants: any set of lanes, any set of faults, any number *)
(* of crashes and of create attempts. BusyMachineKept holds for JIT        *)
(* runners: the ID of the agent of another runner may be unknown, and then *)
(* the forge is not asked to remove it.                                    *)
(*                                                                         *)
(* The inductive invariant of the first four is Inv. LockOwned carries the *)
(* argument: a lane that deletes the row or the machine holds the lock, so *)
(* no create is under way that would bring a machine to a row that is      *)
(* gone.                                                                   *)
(*                                                                         *)
(* OnlyRetryUndeletes needs AddInv: while addInstanceToProvider works on   *)
(* the instance, only it can take the row out of creating; and ListedInv,  *)
(* for scaleDownOnePool, which may write after it lost the lock.           *)
(* BusyMachineKept needs BusyInv: whoever queues the row for deletion has  *)
(* had the runner removed at the forge first, which refuses that while it  *)
(* runs a job and gives it no job afterwards; unasked records the          *)
(* exceptions.                                                             *)
(***************************************************************************)
EXTENDS PoolInstance, TLAPS

\* What the steps of the lanes remember of earlier ones.
Kept ==
    \* a machine is only created while its row exists
    /\ task["add"] = "create" => Exists
    \* AddRunner inserts a row once
    /\ task["birth"] = "insert" => row.status = "none"
    \* a retry adds one to an attempt below the limit
    /\ task["retry"] # "idle" => seen["retry"].attempt < MaxCreateAttempts
    \* a deletion that is not forced reaches the row only after the machine
    /\ task["del"] # "idle" => seen["del"].status \in {"pending_delete", "pending_force_delete"}
    /\ task["del"] = "drop" /\ seen["del"].status = "pending_delete" => prov = "absent"
    /\ removedBy = "delete" => prov = "absent" /\ row.status = "gone"

Inv == TypeOK /\ LockOwned /\ Kept

-----------------------------------------------------------------------------
\* The values of the functions and sets the steps need.

\* At which steps each lane holds the lock.
LEMMA StepValues ==
    /\ LockedSteps["add"] = {"create", "record", "record_error", "undo", "undo_last", "fail"}
    /\ LockedSteps["del"] = {"jitter", "delete", "drop", "restore"}
    /\ LockedSteps["retry"] = {"clean", "requeue"}
    /\ LockedSteps["down"] = {"remove", "mark"}
    /\ LockedSteps["clean"] = {"remove", "mark", "gh_remove", "gh_drop", "gh_start"}
    /\ \A l \in {"birth", "api", "start", "done", "agent", "boot"} : LockedSteps[l] = {}
BY DEF LockedSteps, Lanes

\* The other steps of each lane.
LEMMA MoreStepValues ==
    /\ UnlockedSteps["add"] = {"idle", "seen"}
    /\ UnlockedSteps["del"] = {"idle", "seen"}
    /\ UnlockedSteps["retry"] = {"idle", "seen"}
    /\ UnlockedSteps["down"] = {"idle", "seen", "remove_late", "mark_late"}
    /\ UnlockedSteps["clean"] =
           {"idle", "reap", "reap_seen", "orphan", "orphan_seen", "gh", "gh_read"}
    /\ UnlockedSteps["birth"] = {"idle", "insert"}
    /\ UnlockedSteps["api"] = {"idle", "remove", "remove_force", "mark", "mark_force"}
    /\ UnlockedSteps["start"] = {"idle", "activate"}
    /\ UnlockedSteps["done"] = {"idle", "terminate", "mark"}
    /\ UnlockedSteps["agent"] = {"idle", "mark"}
    /\ UnlockedSteps["boot"] = {"idle", "remove", "mark"}
    /\ \A l \in Lanes : LockedSteps[l] \cup UnlockedSteps[l] \subseteq Steps
BY DEF LockedSteps, UnlockedSteps, Lanes, Steps

\* The statuses of the tables.
LEMMA StatusValues ==
    /\ Statuses = {"running", "stopped", "error", "pending_delete", "pending_force_delete",
                   "deleting", "deleted", "pending_create", "creating", "unknown"}
    /\ RunnerStatuses = {"pending", "installing", "idle", "active", "failed", "offline",
                         "terminated"}
BY DEF Statuses, RunnerStatuses, InstanceTransitions, RunnerTransitions

\* What the lanes remember of a row, and a row that was just inserted, are rows.
LEMMA Snapshots ==
  ASSUME row \in Rows
  PROVE  /\ NoRow \in Rows
         /\ [NoRow EXCEPT !.status = row.status] \in Rows
         /\ [NoRow EXCEPT !.attempt = row.attempt] \in Rows
         /\ [NoRow EXCEPT !.agent = row.agent] \in Rows
         /\ [NoRow EXCEPT !.status = row.status, !.runner = row.runner] \in Rows
         /\ [NoRow EXCEPT !.status = "gone"] \in Rows
<1>1. NoRow \in Rows
  BY PoolInstanceAssumption, StatusValues DEF Rows, NoRow
<1> QED
  BY <1>1 DEF Rows

\* So is the row CreateInstance inserts.
LEMMA FreshRow ==
  [status |-> "pending_create", runner |-> "pending", attempt |-> 0, agent |-> JIT] \in Rows
<1>1. \A b \in BOOLEAN :
        [status |-> "pending_create", runner |-> "pending", attempt |-> 0, agent |-> b] \in Rows
  BY PoolInstanceAssumption, StatusValues DEF Rows
<1>2. JIT \in BOOLEAN
  BY PoolInstanceAssumption, Zenon
<1> QED
  BY <1>1, <1>2, Zenon

\* A lane that remembers a row leaves the others alone.
LEMMA RememberOK ==
  ASSUME seen \in [Lanes -> Rows], NEW l \in Lanes, NEW r \in Rows, Remember(l, r)
  PROVE  seen' \in [Lanes -> Rows]
BY DEF Remember

\* Preservation: AddRunner.
LEMMA BirthStep == ASSUME Inv, Birth PROVE Inv'
<1> USE DEF Inv, TypeOK, Birth, AddRunnerRegister, AddRunnerInsert, Goto,
            Finish, lists, process, hist
<1>1. (row \in Rows)'
  BY Snapshots, FreshRow DEF Remember
<1>2. (seen \in [Lanes -> Rows])'
  BY Snapshots, RememberOK DEF Lanes
<1>3. TaskOK'
  BY StepValues, MoreStepValues DEF TaskOK, Lanes, Free, Remember
<1>4. OutsideOK'
  BY DEF OutsideOK, ForgeRemoves, ForgeRefuses, ForgeUnauthorized, Remember
<1>5. ProcessOK'
  BY PoolInstanceAssumption DEF ProcessOK, OutsideOK, Lanes, Remember
<1>6. HistoryOK'
  BY DEF HistoryOK, Remember
<1>7. LockOwned'
  BY StepValues DEF LockOwned, TaskOK, ProcessOK, Lanes, Free, Remember
<1>8. Kept'
  BY StepValues, MoreStepValues, StatusValues DEF Kept, TaskOK, LockOwned,
     Lanes, Exists, Rows, NoRow, Free, Remember
<1> QED
  BY <1>1, <1>2, <1>3, <1>4, <1>5, <1>6, <1>7, <1>8

\* Preservation: addPendingInstances and addInstanceToProvider.
LEMMA AddStep == ASSUME Inv, Add PROVE Inv'
<1> USE DEF Inv, TypeOK, Add, AddList, AddBegin, CreateReturns, AddRecord,
            AddRecordError, AddUndo, AddFail, Goto, Unlock, outside, lists,
            process, hist
<1>1. (row \in Rows)'
  BY PoolInstanceAssumption, StatusValues, Snapshots DEF Rows, Exists,
     UpdateStatus, Accepts, Kept
<1>2. (seen \in [Lanes -> Rows])'
  BY Snapshots, RememberOK DEF Lanes
<1>3. TaskOK'
  BY StepValues, MoreStepValues DEF TaskOK, Lanes, Free
<1>4. OutsideOK'
  BY DEF OutsideOK, ProviderDeletes, ProviderRefuses
<1>5. ProcessOK'
  BY PoolInstanceAssumption DEF ProcessOK, OutsideOK, Lanes
<1>6. HistoryOK'
  BY DEF HistoryOK
<1>7. LockOwned'
  BY StepValues DEF LockOwned, TaskOK, ProcessOK, Lanes, Free
<1>8. Kept'
  BY StepValues, MoreStepValues, StatusValues DEF Kept, TaskOK, LockOwned,
     Lanes, Exists, Rows, NoRow, UpdateStatus, Accepts, ProviderDeletes,
     ProviderRefuses, Free
<1> QED
  BY <1>1, <1>2, <1>3, <1>4, <1>5, <1>6, <1>7, <1>8

\* Preservation: deletePendingInstances.
LEMMA DelStep == ASSUME Inv, Del PROVE Inv'
<1> USE DEF Inv, TypeOK, Del, DelList, DelBegin, DelMark, DelProvider,
            DelDrop, DelRestore, Goto, Finish, Unlock, TryLock, outside,
            lists, process, hist
<1>1. (row \in Rows)'
  BY PoolInstanceAssumption, StatusValues, Snapshots DEF Rows, Exists,
     ForceStatus, DropRow, Kept, Remember
<1>2. (seen \in [Lanes -> Rows])'
  BY Snapshots, RememberOK DEF Lanes
<1>3. TaskOK'
  BY StepValues, MoreStepValues DEF TaskOK, Lanes, Free, Remember
<1>4. OutsideOK'
  BY DEF OutsideOK, ProviderDeletes, ProviderRefuses, Remember
<1>5. ProcessOK'
  BY PoolInstanceAssumption DEF ProcessOK, OutsideOK, Lanes, Remember
<1>6. HistoryOK'
  BY DEF HistoryOK, Remember
<1>7. LockOwned'
  BY StepValues DEF LockOwned, TaskOK, ProcessOK, Lanes, Free, Remember
<1>8. Kept'
  BY StepValues, MoreStepValues, StatusValues DEF Kept, TaskOK, LockOwned,
     Lanes, Exists, Rows, NoRow, ForceStatus, DropRow, ProviderDeletes,
     ProviderRefuses, Free, Remember
<1> QED
  BY <1>1, <1>2, <1>3, <1>4, <1>5, <1>6, <1>7, <1>8

\* Preservation: retryFailedInstancesForOnePool.
LEMMA RetryStep == ASSUME Inv, Retry PROVE Inv'
<1> USE DEF Inv, TypeOK, Retry, RetryList, RetryBegin, RetryClean,
            RetryRequeue, Goto, Finish, Unlock, TryLock, outside, lists,
            process, hist
<1>1. row' \in Rows
  <2>1. CASE RetryRequeue
    <3>1. seen["retry"].attempt + 1 \in 0..MaxCreateAttempts
      BY <2>1, PoolInstanceAssumption DEF Kept, Rows, Lanes
    <3> QED
      BY <2>1, <3>1, StatusValues DEF Rows
  <2>2. CASE RetryList \/ RetryBegin \/ RetryClean
    BY <2>2
  <2> QED
    BY <2>1, <2>2
<1>2. (seen \in [Lanes -> Rows])'
  BY Snapshots, RememberOK DEF Lanes
<1>3. TaskOK'
  BY StepValues, MoreStepValues DEF TaskOK, Lanes, Free, Remember
<1>4. OutsideOK'
  BY DEF OutsideOK, ProviderDeletes, ProviderRefuses, Remember
<1>5. ProcessOK'
  BY PoolInstanceAssumption DEF ProcessOK, OutsideOK, Lanes, Remember
<1>6. HistoryOK'
  BY DEF HistoryOK, Remember
<1>7. LockOwned'
  BY StepValues DEF LockOwned, TaskOK, ProcessOK, Lanes, Free, Remember
<1>8. Kept'
  BY StepValues, MoreStepValues, StatusValues DEF Kept, TaskOK, LockOwned,
     Lanes, Exists, Rows, NoRow, ProviderDeletes, ProviderRefuses, Free,
     Remember
<1> QED
  BY <1>1, <1>2, <1>3, <1>4, <1>5, <1>6, <1>7, <1>8

\* Preservation: scaleDownOnePool.
LEMMA DownStep == ASSUME Inv, Down PROVE Inv'
<1> USE DEF Inv, DownReturnsEarly, Release, TypeOK, Down, DownList, DownBegin, DownRemove, DownMark,
            DeleteRunnerForge, Goto, Finish, Unlock, TryLock, outside, lists,
            process, hist
<1>1. (row \in Rows)'
  BY PoolInstanceAssumption, StatusValues, Snapshots DEF Rows, Exists,
     ForceStatus, Kept, Remember
<1>2. (seen \in [Lanes -> Rows])'
  BY Snapshots, RememberOK DEF Lanes
<1>3. TaskOK'
  BY StepValues, MoreStepValues DEF TaskOK, Lanes, Free, Remember
<1>4. OutsideOK'
  BY DEF OutsideOK, ForgeRemoves, ForgeRefuses, ForgeUnauthorized,
     ForgeFailsLoop, Remember
<1>5. ProcessOK'
  <2>1. running' \in BOOLEAN
    BY Zenon DEF ProcessOK, OutsideOK, Lanes, ForgeFailsLoop, Remember
  <2>2. crashes' \in 0..MaxCrashes
    BY PoolInstanceAssumption DEF ProcessOK, OutsideOK, Lanes, ForgeFailsLoop, Remember
  <2>3. /\ lock' \in Lanes \cup {"free", "leaked"}
        /\ seenForge' \in {"absent", "offline", "idle", "busy"}
        /\ seenProv' \in {"unknown", "absent", "running", "stopped"}
        /\ mode' \in {"down", "boot", "up", "stopping"}
    BY DEF ProcessOK, OutsideOK, Lanes, ForgeFailsLoop, Remember
  <2> QED
    BY <2>1, <2>2, <2>3 DEF ProcessOK
<1>6. HistoryOK'
  BY DEF HistoryOK, Remember
<1>7. LockOwned'
  BY StepValues DEF LockOwned, TaskOK, ProcessOK, Lanes, Free, Remember
<1>8. Kept'
  BY StepValues, MoreStepValues, StatusValues DEF Kept, TaskOK, LockOwned,
     Lanes, Exists, Rows, NoRow, ForceStatus, Free, Remember
<1> QED
  BY <1>1, <1>2, <1>3, <1>4, <1>5, <1>6, <1>7, <1>8

\* Preservation: runnerCleanup up to reapTimedOutRunners.
LEMMA ReapStep == ASSUME Inv, Reap PROVE Inv'
<1> USE DEF Inv, Release, TypeOK, Reap, CleanList, ReapList, ReapCheck, ReapRemove,
            ReapMark, DeleteRunnerForge, EndPass, Goto, Finish, Unlock,
            outside, lists, process, hist
<1>1. (row \in Rows)'
  BY PoolInstanceAssumption, StatusValues, Snapshots DEF Rows, Exists,
     ForceStatus, Kept, Remember
<1>2. (seen \in [Lanes -> Rows])'
  BY Snapshots, RememberOK DEF Lanes
<1>3. TaskOK'
  BY StepValues, MoreStepValues DEF TaskOK, Lanes, Free, Remember
<1>4. OutsideOK'
  BY DEF OutsideOK, ForgeRemoves, ForgeRefuses, ForgeUnauthorized,
     ForgeFailsLoop, Remember
<1>5. ProcessOK'
  <2>1. running' \in BOOLEAN
    BY Zenon DEF ProcessOK, OutsideOK, Lanes, ForgeFailsLoop, Remember
  <2>2. crashes' \in 0..MaxCrashes
    BY PoolInstanceAssumption DEF ProcessOK, OutsideOK, Lanes, ForgeFailsLoop, Remember
  <2>3. /\ lock' \in Lanes \cup {"free", "leaked"}
        /\ seenForge' \in {"absent", "offline", "idle", "busy"}
        /\ seenProv' \in {"unknown", "absent", "running", "stopped"}
        /\ mode' \in {"down", "boot", "up", "stopping"}
    BY DEF ProcessOK, OutsideOK, Lanes, ForgeFailsLoop, Remember
  <2> QED
    BY <2>1, <2>2, <2>3 DEF ProcessOK
<1>6. HistoryOK'
  BY DEF HistoryOK, Remember
<1>7. LockOwned'
  BY StepValues DEF LockOwned, TaskOK, ProcessOK, Lanes, Free, Remember
<1>8. Kept'
  BY StepValues, MoreStepValues, StatusValues DEF Kept, TaskOK, LockOwned,
     Lanes, Exists, Rows, NoRow, ForceStatus, Free, Remember
<1> QED
  BY <1>1, <1>2, <1>3, <1>4, <1>5, <1>6, <1>7, <1>8

\* Preservation: cleanupOrphanedProviderRunners.
LEMMA OrphanStep == ASSUME Inv, Orphan PROVE Inv'
<1> USE DEF Inv, Release, TypeOK, Orphan, OrphanList, OrphanCheck, EndPass,
            OrphanWaits, Goto, Finish, outside, lists, process, hist
<1>1. (row \in Rows)'
  BY PoolInstanceAssumption, StatusValues, Snapshots DEF Rows, Exists,
     ForceStatus, Kept, Remember
<1>2. (seen \in [Lanes -> Rows])'
  BY Snapshots, RememberOK DEF Lanes
<1>3. TaskOK'
  BY StepValues, MoreStepValues DEF TaskOK, Lanes, Remember
<1>4. OutsideOK'
  BY DEF OutsideOK, Remember
<1>5. ProcessOK'
  BY PoolInstanceAssumption DEF ProcessOK, OutsideOK, Lanes, Remember
<1>6. HistoryOK'
  <2>1. unasked' \in BOOLEAN
    BY Zenon DEF HistoryOK
  <2>2. removedBy' \in {"nobody", "delete", "force", "orphan"}
    BY DEF HistoryOK, Remember
  <2> QED
    BY <2>1, <2>2 DEF HistoryOK
<1>7. LockOwned'
  BY StepValues DEF LockOwned, TaskOK, ProcessOK, Lanes, Remember
<1>8. Kept'
  BY StepValues, MoreStepValues, StatusValues DEF Kept, TaskOK, LockOwned,
     Lanes, Exists, Rows, NoRow, ForceStatus, Remember
<1> QED
  BY <1>1, <1>2, <1>3, <1>4, <1>5, <1>6, <1>7, <1>8

\* Preservation: cleanupOrphanedGithubRunners up to its TryLock.
LEMMA GhLookStep == ASSUME Inv, GhLook PROVE Inv'
<1> USE DEF Inv, Release, TypeOK, GhLook, GhListProvider, GhRead, GhBegin, EndPass,
            GhWaits, ForgeRemoves, ForgeRefuses, ForgeUnauthorized,
            ForgeFailsLoop, Goto, Finish, outside, lists, process, hist
<1>1. (row \in Rows)'
  BY PoolInstanceAssumption, StatusValues, Snapshots DEF Rows, Exists, Kept,
     Remember
<1>2. (seen \in [Lanes -> Rows])'
  BY Snapshots, RememberOK DEF Lanes
<1>3. TaskOK'
  BY StepValues, MoreStepValues DEF TaskOK, Lanes, Remember
<1>4. OutsideOK'
  BY DEF OutsideOK, ForgeRemoves, ForgeRefuses, ForgeUnauthorized,
     ForgeFailsLoop, Remember
<1>5. ProcessOK'
  <2>1. running' \in BOOLEAN
    BY Zenon DEF ProcessOK, OutsideOK, Lanes, ForgeFailsLoop, Remember
  <2>2. crashes' \in 0..MaxCrashes
    BY PoolInstanceAssumption DEF ProcessOK, OutsideOK, Lanes, ForgeFailsLoop, Remember
  <2>3. /\ lock' \in Lanes \cup {"free", "leaked"}
        /\ seenForge' \in {"absent", "offline", "idle", "busy"}
        /\ seenProv' \in {"unknown", "absent", "running", "stopped"}
        /\ mode' \in {"down", "boot", "up", "stopping"}
    BY DEF ProcessOK, OutsideOK, Lanes, ForgeFailsLoop, Remember
  <2> QED
    BY <2>1, <2>2, <2>3 DEF ProcessOK
<1>6. HistoryOK'
  BY DEF HistoryOK, Remember
<1>7. LockOwned'
  BY StepValues DEF LockOwned, TaskOK, ProcessOK, Lanes, Remember
<1>8. Kept'
  BY StepValues, MoreStepValues, StatusValues DEF Kept, TaskOK, LockOwned,
     Lanes, Exists, Rows, NoRow, Remember
<1> QED
  BY <1>1, <1>2, <1>3, <1>4, <1>5, <1>6, <1>7, <1>8

\* Preservation: what it does with the lock.
LEMMA GhActStep == ASSUME Inv, GhAct PROVE Inv'
<1> USE DEF Inv, Release, TypeOK, GhAct, GhRemove, GhDrop, GhStart, EndPass,
            ForgeRemoves, ForgeRefuses, ForgeUnauthorized, ForgeFailsLoop,
            Goto, Finish, outside, lists, process, hist
<1>1. (row \in Rows)'
  BY PoolInstanceAssumption, StatusValues, Snapshots DEF Rows, Exists, DropRow,
     Kept, Remember
<1>2. (seen \in [Lanes -> Rows])'
  BY Snapshots, RememberOK DEF Lanes
<1>3. TaskOK'
  BY StepValues, MoreStepValues DEF TaskOK, Lanes, Remember
<1>4. OutsideOK'
  BY DEF OutsideOK, ProviderRefuses, ForgeRemoves, ForgeRefuses,
     ForgeUnauthorized, ForgeFailsLoop, Remember
<1>5. ProcessOK'
  <2>1. running' \in BOOLEAN
    BY Zenon DEF ProcessOK, OutsideOK, Lanes, ForgeFailsLoop, Remember
  <2>2. crashes' \in 0..MaxCrashes
    BY PoolInstanceAssumption DEF ProcessOK, OutsideOK, Lanes, ForgeFailsLoop, Remember
  <2>3. /\ lock' \in Lanes \cup {"free", "leaked"}
        /\ seenForge' \in {"absent", "offline", "idle", "busy"}
        /\ seenProv' \in {"unknown", "absent", "running", "stopped"}
        /\ mode' \in {"down", "boot", "up", "stopping"}
    BY DEF ProcessOK, OutsideOK, Lanes, ForgeFailsLoop, Remember
  <2> QED
    BY <2>1, <2>2, <2>3 DEF ProcessOK
<1>6. HistoryOK'
  BY DEF HistoryOK, Remember
<1>7. LockOwned'
  BY StepValues DEF LockOwned, TaskOK, ProcessOK, Lanes, Remember
<1>8. Kept'
  BY StepValues, MoreStepValues, StatusValues DEF Kept, TaskOK, LockOwned,
     Lanes, Exists, Rows, NoRow, DropRow, ProviderRefuses, Remember
<1> QED
  BY <1>1, <1>2, <1>3, <1>4, <1>5, <1>6, <1>7, <1>8

\* Preservation: Runner.DeleteRunner.
LEMMA ApiStep == ASSUME Inv, Api PROVE Inv'
<1> USE DEF Inv, TypeOK, Api, ApiRead, ApiRemove, ApiMark, Goto, Finish,
            outside, lists, process, hist
<1>1. (row \in Rows)'
  BY PoolInstanceAssumption, StatusValues, Snapshots DEF Rows, Exists,
     UpdateStatus, Accepts, Kept, Remember
<1>2. (seen \in [Lanes -> Rows])'
  BY Snapshots, RememberOK DEF Lanes
<1>3. TaskOK'
  BY StepValues, MoreStepValues DEF TaskOK, Lanes, Free, Remember
<1>4. OutsideOK'
  BY DEF OutsideOK, ForgeRemoves, ForgeRefuses, ForgeUnauthorized,
     ForgeFailsLoop, Remember
<1>5. ProcessOK'
  <2>1. running' \in BOOLEAN
    BY Zenon DEF ProcessOK, OutsideOK, Lanes, ForgeFailsLoop, Remember
  <2>2. crashes' \in 0..MaxCrashes
    BY PoolInstanceAssumption DEF ProcessOK, OutsideOK, Lanes, ForgeFailsLoop, Remember
  <2>3. /\ lock' \in Lanes \cup {"free", "leaked"}
        /\ seenForge' \in {"absent", "offline", "idle", "busy"}
        /\ seenProv' \in {"unknown", "absent", "running", "stopped"}
        /\ mode' \in {"down", "boot", "up", "stopping"}
    BY DEF ProcessOK, OutsideOK, Lanes, ForgeFailsLoop, Remember
  <2> QED
    BY <2>1, <2>2, <2>3 DEF ProcessOK
<1>6. HistoryOK'
  <2>1. unasked' \in BOOLEAN
    BY Zenon DEF HistoryOK
  <2>2. removedBy' \in {"nobody", "delete", "force", "orphan"}
    BY DEF HistoryOK, Remember
  <2> QED
    BY <2>1, <2>2 DEF HistoryOK
<1>7. LockOwned'
  BY StepValues DEF LockOwned, TaskOK, ProcessOK, Lanes, Free, Remember
<1>8. Kept'
  BY StepValues, MoreStepValues, StatusValues DEF Kept, TaskOK, LockOwned,
     Lanes, Exists, Rows, NoRow, UpdateStatus, Accepts, Free, Remember
<1> QED
  BY <1>1, <1>2, <1>3, <1>4, <1>5, <1>6, <1>7, <1>8

\* Preservation: HandleWorkflowJob.
LEMMA HookStep == ASSUME Inv, Hook PROVE Inv'
<1> USE DEF Inv, TypeOK, Hook, HookStart, HookActivate, HookDone,
            HookTerminate, HookMark, Goto, outside, lists, process, hist
<1>1. (row \in Rows)'
  BY PoolInstanceAssumption, StatusValues, Snapshots DEF Rows, Exists,
     UpdateStatus, Accepts, Kept
<1>2. (seen \in [Lanes -> Rows])'
  BY Snapshots, RememberOK DEF Lanes
<1>3. TaskOK'
  BY StepValues, MoreStepValues DEF TaskOK, Lanes, Free
<1>4. OutsideOK'
  BY DEF OutsideOK
<1>5. ProcessOK'
  BY PoolInstanceAssumption DEF ProcessOK, OutsideOK, Lanes
<1>6. HistoryOK'
  BY DEF HistoryOK
<1>7. LockOwned'
  BY StepValues DEF LockOwned, TaskOK, ProcessOK, Lanes, Free
<1>8. Kept'
  BY StepValues, MoreStepValues, StatusValues DEF Kept, TaskOK, LockOwned,
     Lanes, Exists, Rows, NoRow, UpdateStatus, Accepts, Free
<1> QED
  BY <1>1, <1>2, <1>3, <1>4, <1>5, <1>6, <1>7, <1>8

\* Preservation: handleStatusMessage of the agent worker.
LEMMA AgentStep == ASSUME Inv, Agent PROVE Inv'
<1> USE DEF Inv, TypeOK, Agent, AgentTerminated, AgentMark, Goto, outside,
            lists, process, hist
<1>1. (row \in Rows)'
  BY PoolInstanceAssumption, StatusValues, Snapshots DEF Rows, Exists,
     UpdateStatus, Accepts, Kept
<1>2. (seen \in [Lanes -> Rows])'
  BY Snapshots, RememberOK DEF Lanes
<1>3. TaskOK'
  BY StepValues, MoreStepValues DEF TaskOK, Lanes, Free
<1>4. OutsideOK'
  BY DEF OutsideOK
<1>5. ProcessOK'
  BY PoolInstanceAssumption DEF ProcessOK, OutsideOK, Lanes
<1>6. HistoryOK'
  BY DEF HistoryOK
<1>7. LockOwned'
  BY StepValues DEF LockOwned, TaskOK, ProcessOK, Lanes, Free
<1>8. Kept'
  BY StepValues, MoreStepValues, StatusValues DEF Kept, TaskOK, LockOwned,
     Lanes, Exists, Rows, NoRow, UpdateStatus, Accepts, Free
<1> QED
  BY <1>1, <1>2, <1>3, <1>4, <1>5, <1>6, <1>7, <1>8

\* Preservation: Start and updateTools.
LEMMA BootStep == ASSUME Inv, Boot PROVE Inv'
<1> USE DEF Inv, TypeOK, Boot, BootStart, BootRemove, BootMark, BootTools,
            UpdateTools, Goto, Finish, outside, lists, process, hist
<1>1. (row \in Rows)'
  BY PoolInstanceAssumption, StatusValues, Snapshots DEF Rows, Exists,
     ForceStatus, Kept, Remember
<1>2. (seen \in [Lanes -> Rows])'
  BY Snapshots, RememberOK DEF Lanes
<1>3. TaskOK'
  BY StepValues, MoreStepValues DEF TaskOK, Lanes, Remember
<1>4. OutsideOK'
  BY DEF OutsideOK, ForgeRemoves, ForgeRefuses, ForgeUnauthorized, Remember
<1>5. ProcessOK'
  <2>1. running' \in BOOLEAN
    BY Zenon DEF ProcessOK, OutsideOK, Lanes, Remember
  <2>2. crashes' \in 0..MaxCrashes
    BY PoolInstanceAssumption DEF ProcessOK, OutsideOK, Lanes, Remember
  <2>3. /\ lock' \in Lanes \cup {"free", "leaked"}
        /\ seenForge' \in {"absent", "offline", "idle", "busy"}
        /\ seenProv' \in {"unknown", "absent", "running", "stopped"}
        /\ mode' \in {"down", "boot", "up", "stopping"}
    BY DEF ProcessOK, OutsideOK, Lanes, Remember
  <2> QED
    BY <2>1, <2>2, <2>3 DEF ProcessOK
<1>6. HistoryOK'
  <2>1. unasked' \in BOOLEAN
    BY Zenon DEF HistoryOK
  <2>2. removedBy' \in {"nobody", "delete", "force", "orphan"}
    BY DEF HistoryOK, Remember
  <2> QED
    BY <2>1, <2>2 DEF HistoryOK
<1>7. LockOwned'
  BY StepValues DEF LockOwned, TaskOK, ProcessOK, Lanes, Remember
<1>8. Kept'
  BY StepValues, MoreStepValues, StatusValues DEF Kept, TaskOK, LockOwned,
     Lanes, Exists, Rows, NoRow, ForceStatus, Remember
<1> QED
  BY <1>1, <1>2, <1>3, <1>4, <1>5, <1>6, <1>7, <1>8

\* Preservation: the end of the process.
LEMMA EndStep == ASSUME Inv, Stop \/ Crash \/ Exit PROVE Inv'
<1> USE DEF Inv, TypeOK, Stop, Crash, Exit, ProcessEnds, outside, lists, hist
<1>1. (row \in Rows)'
  BY PoolInstanceAssumption, StatusValues, Snapshots DEF Rows, Exists, Kept
<1>2. (seen \in [Lanes -> Rows])'
  BY Snapshots, RememberOK DEF Lanes
<1>3. TaskOK'
  BY StepValues, MoreStepValues DEF TaskOK, Lanes
<1>4. OutsideOK'
  BY DEF OutsideOK
<1>5. ProcessOK'
  <2>1. running' \in BOOLEAN
    BY Zenon DEF ProcessOK, OutsideOK, Lanes
  <2>2. crashes' \in 0..MaxCrashes
    BY PoolInstanceAssumption DEF ProcessOK, OutsideOK, Lanes
  <2>3. /\ lock' \in Lanes \cup {"free", "leaked"}
        /\ seenForge' \in {"absent", "offline", "idle", "busy"}
        /\ seenProv' \in {"unknown", "absent", "running", "stopped"}
        /\ mode' \in {"down", "boot", "up", "stopping"}
    BY DEF ProcessOK, OutsideOK, Lanes
  <2> QED
    BY <2>1, <2>2, <2>3 DEF ProcessOK
<1>6. HistoryOK'
  BY DEF HistoryOK
<1>7. LockOwned'
  BY StepValues DEF LockOwned, TaskOK, ProcessOK, Lanes
<1>8. Kept'
  BY StepValues, MoreStepValues, StatusValues DEF Kept, TaskOK, LockOwned,
     Lanes, Exists, Rows, NoRow
<1> QED
  BY <1>1, <1>2, <1>3, <1>4, <1>5, <1>6, <1>7, <1>8

\* Preservation: the machine, its runner and the forge.
LEMMA WorldStep == ASSUME Inv, World PROVE Inv'
<1> USE DEF Inv, TypeOK, World, Machine, MachineBoots, RunnerOnline, JobEnds,
            RunnerLost, MachineFails, JobStarts, MachineReports,
            MachineReportsAgent, HookLost, outside, lists, process, hist
<1>1. (row \in Rows)'
  BY StatusValues DEF Rows
<1>2. (seen \in [Lanes -> Rows])'
  BY Snapshots, RememberOK DEF Lanes
<1>3. TaskOK'
  BY StepValues, MoreStepValues DEF TaskOK, Lanes
<1>4. OutsideOK'
  BY DEF OutsideOK
<1>5. ProcessOK'
  BY PoolInstanceAssumption DEF ProcessOK, OutsideOK, Lanes
<1>6. HistoryOK'
  BY DEF HistoryOK
<1>7. LockOwned'
  BY StepValues DEF LockOwned, TaskOK, ProcessOK, Lanes
<1>8. Kept'
  BY StepValues, MoreStepValues, StatusValues DEF Kept, TaskOK, LockOwned,
     Lanes, Exists, Rows, NoRow
<1> QED
  BY <1>1, <1>2, <1>3, <1>4, <1>5, <1>6, <1>7, <1>8

-----------------------------------------------------------------------------
\* The initial state satisfies the invariant.
LEMMA InitInv == ASSUME Init PROVE Inv
<1> USE DEF Init
<1>1. row \in Rows /\ seen \in [Lanes -> Rows]
  BY PoolInstanceAssumption, StatusValues DEF Rows, NoRow
<1>2. TaskOK
  BY StepValues, MoreStepValues DEF TaskOK, Lanes
<1>3. OutsideOK /\ HistoryOK
  BY DEF OutsideOK, HistoryOK
<1>4. ProcessOK
  BY PoolInstanceAssumption DEF ProcessOK
<1>5. LockOwned
  BY StepValues DEF LockOwned, Lanes
<1>6. Kept
  BY DEF Kept, Lanes
<1> QED
  BY <1>1, <1>2, <1>3, <1>4, <1>5, <1>6 DEF Inv, TypeOK

\* Every step preserves it: one case per lane.
LEMMA NextInv == ASSUME Inv, [Next]_vars PROVE Inv'
<1>1. CASE Next
  BY <1>1, BirthStep, AddStep, DelStep, RetryStep, DownStep, ReapStep, OrphanStep,
     GhLookStep, GhActStep, ApiStep, HookStep, AgentStep, BootStep, EndStep, WorldStep
     DEF Next, Clean
<1>2. CASE UNCHANGED vars
  BY <1>2 DEF vars, outside, lists, process, hist, Inv, TypeOK, TaskOK, OutsideOK,
              ProcessOK, HistoryOK, LockOwned, Kept, Exists
<1> QED
  BY <1>1, <1>2

\* The invariant holds in every reachable state of the pool instance.
THEOREM Invariance == Spec => []Inv
<1>1. Init => Inv
  BY InitInv
<1>2. Inv /\ [Next]_vars => Inv'
  BY NextInv
<1> QED
  BY <1>1, <1>2, PTL DEF Spec

\* The state is always well typed, and the attempts stored in the row never
\* exceed maxCreateAttempts (retryFailedInstancesForOnePool).
THEOREM TypeCorrect == Spec => []TypeOK
<1>1. Inv => TypeOK
  BY DEF Inv
<1> QED
  BY <1>1, Invariance, PTL

\* The instance's lock is always held by exactly the lane that works under it: no loop
\* of pool.go leaks the lock or frees another's, also when scaleDownOnePool returns before
\* its goroutines; only a jitter cut short by the end of the process leaves it locked.
THEOREM LocksAreOwned == Spec => []LockOwned
<1>1. Inv => LockOwned
  BY DEF Inv
<1> QED
  BY <1>1, Invariance, PTL

\* No two code paths are ever inside a provider call for one instance: the lanes
\* that call the provider do so at steps at which they hold the lock.
THEOREM ProviderCallsExclude == Spec => []OneProviderCall
<1>1. Inv => OneProviderCall
  <2>1. ASSUME Inv, NEW l \in Lanes, CallsProvider(l) PROVE lock = l
    BY <2>1, StepValues DEF Inv, LockOwned, CallsProvider
  <2> QED
    BY <2>1 DEF OneProviderCall
<1> QED
  BY <1>1, Invariance, PTL

\* A row that deletePendingInstances deleted without force never leaves a machine
\* behind, whatever fails and whenever the process dies.
THEOREM DeletedLeavesNoMachine == Spec => []NoLeakByDelete
<1>1. Inv => NoLeakByDelete
  BY DEF Inv, Kept, NoLeakByDelete
<1> QED
  BY <1>1, Invariance, PTL

-----------------------------------------------------------------------------
(***************************************************************************)
(* Deletion is one way.  The only transition of the table that leads out   *)
(* of the deletion lane is from deleting to error, and the lane that       *)
(* writes error holds the lock and has the row in creating.                *)
(***************************************************************************)

\* While addInstanceToProvider is at work, the row stays in creating: whatever could
\* change its status needs the lock, or is refused.  After a crash the loops wait for
\* the clean-up of interrupted rows.
AddInv ==
    /\ task["add"] \in {"create", "record", "record_error", "undo", "fail"} =>
           row.status = "creating"
    /\ mode \in {"down", "boot"} => task["add"] = "idle"
    /\ task["boot"] # "idle" => mode \in {"boot", "stopping"} /\ task["add"] = "idle"

\* The row a loop listed in error, or in running, is still there or on its way out.  So
\* scaleDownOnePool, when it has lost its lock, cannot meet a row in creating.
ListedInv ==
    /\ task["retry"] # "idle" => row.status \in {"error", "gone"} \cup DeletionLane
    /\ task["down"] # "idle" =>
           row.status \in {"running", "gone"} \cup DeletionLane /\ task["retry"] = "idle"

\* What the table of the transitions allows.
LEMMA TransitionValues ==
    /\ \A t : InstanceMayBecome("creating", t) <=> t \in {"creating", "error", "running"}
    /\ \A t : \A s \in DeletionLane : InstanceMayBecome(s, t) => t \in DeletionLane \cup {"error"}
    /\ DeletionLane = {"pending_delete", "pending_force_delete", "deleting", "deleted"}
BY DEF InstanceMayBecome, InstanceTransitions, DeletionLane

\* A row in error or running is not taken to creating.
LEMMA CreatingFrom ==
  \A s \in {"error", "running"} : ~InstanceMayBecome(s, "creating")
BY DEF InstanceMayBecome, InstanceTransitions

\* The statuses a step may write into a row that stays.
LEMMA UpdatedRow ==
  ASSUME row \in Rows, NEW s, UpdateStatus(s) \/ ForceStatus(s)
  PROVE  row' = row \/ (Exists /\ row'.status = s)
BY DEF UpdateStatus, ForceStatus, Accepts, Rows

LEMMA AddInvInit == Init => AddInv
BY DEF Init, AddInv, Lanes

\* A step that leaves the row's status, the mode and the lanes "add" and "boot" alone.
LEMMA AddInvKept ==
  ASSUME AddInv, task'["add"] = task["add"], task'["boot"] = task["boot"],
         mode' = mode, row'.status = row.status
  PROVE  AddInv'
BY DEF AddInv

\* A step of another lane that has the lock, or finds it free, when it writes a status.
LEMMA AddInvLocked ==
  ASSUME Inv, AddInv, task'["add"] = task["add"], task'["boot"] = task["boot"],
         mode' = mode, lock # "add"
  PROVE  AddInv'
BY StepValues DEF AddInv, Inv, LockOwned, Lanes

LEMMA AddInvBirth == ASSUME Inv, AddInv, Birth PROVE AddInv'
BY StepValues DEF Birth, AddRunnerRegister, AddRunnerInsert, Goto, Finish, Remember, process,
   Inv, TypeOK, TaskOK, Kept, AddInv, Lanes

LEMMA AddInvAdd == ASSUME Inv, AddInv, Add PROVE AddInv'
<1>1. task \in [Lanes -> Steps] /\ row \in Rows
  BY DEF Inv, TypeOK, TaskOK
<1>2. mode' = mode /\ task'["boot"] = task["boot"] /\ (task["add"] = "idle" => mode = "up")
  BY <1>1 DEF Add, AddList, AddBegin, CreateReturns, AddRecord, AddRecordError, AddUndo, AddFail,
     Goto, process, LoopsRun, Lanes
<1>3. CASE AddList \/ CreateReturns \/ AddUndo
  BY <1>1, <1>2, <1>3 DEF AddList, CreateReturns, AddUndo, Goto, AddInv, Lanes
<1>4. CASE AddBegin
  <2>1. CASE Accepts("creating") /\ UpdateStatus("creating") /\ Goto("add", "create")
    BY <1>1, <1>2, <2>1, <1>4 DEF AddBegin, UpdateStatus, Goto, AddInv, Lanes, Rows
  <2>2. CASE Goto("add", "idle")
    BY <1>1, <1>2, <2>2 DEF Goto, AddInv, Lanes
  <2> QED
    BY <1>4, <2>1, <2>2 DEF AddBegin
<1>5. CASE AddRecord \/ AddRecordError \/ AddFail
  <2>1. row.status = "creating"
    BY <1>5 DEF AddRecord, AddRecordError, AddFail, AddInv
  <2>2. Accepts("running") /\ Accepts("error")
    BY <2>1, TransitionValues DEF Accepts, Exists
  <2>3. \E s \in {"idle", "undo_last"} : Goto("add", s)
    BY <1>5, <2>2 DEF AddRecord, AddRecordError, AddFail
  <2>4. task["add"] # "idle"
    BY <1>5 DEF AddRecord, AddRecordError, AddFail
  <2> QED
    BY <1>1, <1>2, <2>3, <2>4 DEF Goto, AddInv, Lanes
<1> QED
  BY <1>3, <1>4, <1>5 DEF Add

LEMMA AddInvDel == ASSUME Inv, AddInv, Del PROVE AddInv'
<1>1. task'["add"] = task["add"] /\ task'["boot"] = task["boot"] /\ mode' = mode
  BY DEF Del, DelList, DelBegin, DelMark, DelProvider, DelDrop, DelRestore, TryLock, Finish, Goto,
     process, Inv, TypeOK, TaskOK, Lanes
<1>2. CASE DelList \/ DelBegin \/ DelProvider
  BY <1>1, <1>2, AddInvKept DEF DelList, DelBegin, DelProvider
<1>3. CASE DelMark \/ DelDrop \/ DelRestore
  BY <1>1, <1>3, StepValues, AddInvLocked
     DEF DelMark, DelDrop, DelRestore, Inv, LockOwned, Lanes
<1> QED
  BY <1>2, <1>3 DEF Del

LEMMA AddInvRetry == ASSUME Inv, AddInv, Retry PROVE AddInv'
<1>1. task'["add"] = task["add"] /\ task'["boot"] = task["boot"] /\ mode' = mode
  BY DEF Retry, RetryList, RetryBegin, RetryClean, RetryRequeue, TryLock, Finish, Goto,
     process, Inv, TypeOK, TaskOK, Lanes
<1>2. CASE RetryList \/ RetryBegin \/ RetryClean
  BY <1>1, <1>2, AddInvKept DEF RetryList, RetryBegin, RetryClean
<1>3. CASE RetryRequeue
  BY <1>1, <1>3, StepValues, AddInvLocked DEF RetryRequeue, Inv, LockOwned, Lanes
<1> QED
  BY <1>2, <1>3 DEF Retry

LEMMA AddInvDown == ASSUME Inv, AddInv, ListedInv, Down PROVE AddInv'
<1>1. task'["add"] = task["add"] /\ task'["boot"] = task["boot"] /\ mode' = mode
  BY DEF Down, DownList, DownBegin, DownRemove, DeleteRunnerForge, DownMark, DownReturnsEarly,
     TryLock, Finish, Goto, process, Inv, TypeOK, TaskOK, Lanes
<1>2. CASE row' = row
  BY <1>1, <1>2, AddInvKept
<1>3. CASE DownMark
  <2>1. row.status # "creating"
    BY <1>3, TransitionValues DEF DownMark, ListedInv
  <2> QED
    BY <1>1, <2>1 DEF AddInv
<1> QED
  BY <1>2, <1>3 DEF Down, DownList, DownBegin, DownRemove, DeleteRunnerForge, DownReturnsEarly

LEMMA AddInvClean == ASSUME Inv, AddInv, Clean PROVE AddInv'
<1>1. task'["add"] = task["add"] /\ task'["boot"] = task["boot"] /\ mode' = mode
  BY DEF Clean, Reap, CleanList, ReapList, ReapCheck, ReapRemove, DeleteRunnerForge, ReapMark,
     Orphan, OrphanList, OrphanCheck, GhLook, GhListProvider, GhRead, GhBegin,
     GhAct, GhRemove, GhDrop, GhStart, EndPass, Finish, Goto, process, Inv, TypeOK, TaskOK, Lanes
<1>2. row' = row \/ lock # "add"
  BY StepValues
     DEF Clean, Reap, CleanList, ReapList, ReapCheck, ReapRemove, DeleteRunnerForge, ReapMark,
     Orphan, OrphanList, OrphanCheck, GhLook, GhListProvider, GhRead, GhBegin,
     GhAct, GhRemove, GhDrop, GhStart, Inv, LockOwned, Lanes
<1> QED
  BY <1>1, <1>2, AddInvKept, AddInvLocked

LEMMA AddInvApi == ASSUME Inv, AddInv, Api PROVE AddInv'
<1>1. task'["add"] = task["add"] /\ task'["boot"] = task["boot"] /\ mode' = mode
  BY DEF Api, ApiRead, ApiRemove, ApiMark, Finish, Goto, process, Inv, TypeOK, TaskOK, Lanes
<1>2. \/ row' = row
      \/ UpdateStatus("pending_delete") \/ UpdateStatus("pending_force_delete")
  BY DEF Api, ApiRead, ApiRemove, ApiMark
<1>3. row.status = "creating" => row' = row
  BY <1>2, TransitionValues DEF UpdateStatus, Accepts
<1> QED
  BY <1>1, <1>3 DEF AddInv

LEMMA AddInvHook == ASSUME Inv, AddInv, Hook \/ Agent PROVE AddInv'
<1>1. task'["add"] = task["add"] /\ task'["boot"] = task["boot"] /\ mode' = mode
  BY DEF Hook, HookStart, HookActivate, HookDone, HookTerminate, HookMark, Agent, AgentTerminated,
     AgentMark, Goto, process, Inv, TypeOK, TaskOK, Lanes
<1>2. \/ row'.status = row.status \/ UpdateStatus("pending_delete")
  BY DEF Hook, HookStart, HookActivate, HookDone, HookTerminate, HookMark, Agent, AgentTerminated,
     AgentMark, Inv, TypeOK, Rows
<1>3. row.status = "creating" => row'.status = row.status
  BY <1>2, TransitionValues DEF UpdateStatus, Accepts
<1> QED
  BY <1>1, <1>3 DEF AddInv

LEMMA AddInvBoot == ASSUME Inv, AddInv, Boot PROVE AddInv'
<1>1. task \in [Lanes -> Steps]
  BY DEF Inv, TypeOK, TaskOK
<1>2. task'["add"] = task["add"]
  BY <1>1 DEF Boot, BootStart, BootRemove, BootMark, BootTools, UpdateTools, Finish, Goto, Lanes
<1> QED
  BY <1>1, <1>2 DEF Boot, BootStart, BootRemove, BootMark, BootTools, UpdateTools, Finish, Goto,
     process, AddInv, Lanes

LEMMA AddInvEnd == ASSUME Inv, AddInv, Stop \/ Crash \/ Exit PROVE AddInv'
<1>1. CASE Stop
  BY <1>1 DEF Stop, AddInv
<1>2. CASE Crash \/ Exit
  BY <1>2 DEF Crash, Exit, ProcessEnds, AddInv, Lanes
<1> QED
  BY <1>1, <1>2

LEMMA AddInvWorld == ASSUME Inv, AddInv, World PROVE AddInv'
<1>1. row'.status = row.status /\ mode' = mode /\ task' = task
  BY DEF World, Machine, MachineBoots, RunnerOnline, JobEnds, RunnerLost, MachineFails, JobStarts,
     MachineReports, MachineReportsAgent, HookLost, process, Inv, TypeOK, Rows
<1> QED
  BY <1>1, AddInvKept

LEMMA AddInvNext == ASSUME Inv, AddInv, ListedInv, [Next]_vars PROVE AddInv'
<1>1. CASE UNCHANGED vars
  BY <1>1, AddInvKept DEF vars, process
<1>2. CASE Next
  BY <1>2, AddInvBirth, AddInvAdd, AddInvDel, AddInvRetry, AddInvDown, AddInvClean, AddInvApi,
     AddInvHook, AddInvBoot, AddInvEnd, AddInvWorld DEF Next
<1> QED
  BY <1>1, <1>2

\* A step that starts no pass of these loops, and writes no status a row may have in
\* one, or only where no such pass works with the row.
LEMMA ListedKept ==
  ASSUME ListedInv, task'["retry"] \in {task["retry"], "idle"},
         task'["down"] = task["down"] \/ task["down"] # "idle",
         \/ row'.status = row.status
         \/ row'.status \in DeletionLane \cup {"gone"}
         \/ row.status \notin {"error", "running", "gone"} \cup DeletionLane
         \/ task["down"] = "idle" /\ task'["retry"] = "idle"
  PROVE  ListedInv'
BY DEF ListedInv

LEMMA ListedInit == Init => ListedInv
BY DEF Init, ListedInv, Lanes

\* The steps that write no status, or one of a deletion.
LEMMA ListedIfDeletes ==
  ASSUME ListedInv, row \in Rows, task'["retry"] \in {task["retry"], "idle"},
         task'["down"] = task["down"] \/ task["down"] # "idle",
         \/ row'.status = row.status
         \/ \E s \in DeletionLane : UpdateStatus(s) \/ ForceStatus(s)
         \/ DropRow
  PROVE  ListedInv'
<1>1. row'.status = row.status \/ row'.status \in DeletionLane \cup {"gone"}
  BY UpdatedRow DEF DropRow, Rows
<1> QED
  BY <1>1, ListedKept

LEMMA ListedAdd == ASSUME Inv, AddInv, ListedInv, Birth \/ Add PROVE ListedInv'
<1>1. task'["retry"] = task["retry"] /\ task'["down"] = task["down"] /\ row \in Rows
  BY DEF Birth, AddRunnerRegister, AddRunnerInsert, Add, AddList, AddBegin, CreateReturns, AddRecord,
     AddRecordError, AddUndo, AddFail, Finish, Goto, Inv, TypeOK, TaskOK, Lanes
<1>2. row' = row \/ row.status = "none" \/ row.status = "creating" \/ Accepts("creating")
  BY DEF Birth, AddRunnerRegister, AddRunnerInsert, Add, AddList, AddBegin, CreateReturns, AddRecord,
     AddRecordError, AddUndo, AddFail, AddInv, Inv, Kept
<1>3. Accepts("creating") => row.status \notin {"error", "running", "gone"} \cup DeletionLane
  BY TransitionValues, CreatingFrom DEF Accepts, Exists
<1> QED
  BY <1>1, <1>2, <1>3, ListedKept, TransitionValues

LEMMA ListedDel == ASSUME Inv, ListedInv, Del PROVE ListedInv'
<1>1. task'["retry"] = task["retry"] /\ task'["down"] = task["down"] /\ row \in Rows
  BY DEF Del, DelList, DelBegin, DelMark, DelProvider, DelDrop, DelRestore, TryLock, Finish, Goto,
     Inv, TypeOK, TaskOK, Lanes
<1>2. \/ row' = row \/ DropRow \/ ForceStatus("deleting")
      \/ task["del"] # "idle" /\ ForceStatus(seen["del"].status)
  BY DEF Del, DelList, DelBegin, DelMark, DelProvider, DelDrop, DelRestore
<1>3. task["del"] # "idle" => seen["del"].status \in DeletionLane
  BY TransitionValues DEF Inv, Kept
<1> QED
  BY <1>1, <1>2, <1>3, ListedIfDeletes, TransitionValues

LEMMA ListedRetry == ASSUME Inv, ListedInv, Retry PROVE ListedInv'
<1>1. task'["down"] = task["down"] /\ task \in [Lanes -> Steps] /\ row \in Rows
  BY DEF Retry, RetryList, RetryBegin, RetryClean, RetryRequeue, TryLock, Finish, Goto,
     Inv, TypeOK, TaskOK, Lanes
<1>2. CASE RetryList
  BY <1>1, <1>2, TransitionValues DEF RetryList, Goto, ListedInv, Lanes
<1>3. CASE RetryBegin \/ RetryClean
  <2>1. row' = row /\ task["retry"] # "idle"
    BY <1>3 DEF RetryBegin, RetryClean
  <2> QED
    BY <1>1, <2>1 DEF ListedInv
<1>4. CASE RetryRequeue
  <2>1. task'["retry"] = "idle" /\ task["down"] = "idle"
    BY <1>1, <1>4 DEF RetryRequeue, Finish, Goto, ListedInv, Lanes
  <2> QED
    BY <1>1, <2>1, ListedKept
<1> QED
  BY <1>2, <1>3, <1>4 DEF Retry

LEMMA ListedDown == ASSUME Inv, ListedInv, Down PROVE ListedInv'
<1>1. task'["retry"] = task["retry"] /\ row \in Rows
  BY DEF Down, DownList, DownBegin, DownRemove, DeleteRunnerForge, DownMark, DownReturnsEarly,
     TryLock, Finish, Goto, Inv, TypeOK, TaskOK, Lanes
<1>2. CASE DownList
  BY <1>1, <1>2, TransitionValues DEF DownList, ListedInv
<1>3. CASE DownBegin \/ DownRemove \/ DownMark \/ DownReturnsEarly
  <2>1. task["down"] # "idle" /\ (row' = row \/ ForceStatus("pending_delete"))
    BY <1>3 DEF DownBegin, DownRemove, DeleteRunnerForge, DownMark, DownReturnsEarly
  <2> QED
    BY <1>1, <2>1, ListedIfDeletes, TransitionValues
<1> QED
  BY <1>2, <1>3 DEF Down

LEMMA ListedClean == ASSUME Inv, ListedInv, Clean \/ Api PROVE ListedInv'
<1>1. task'["retry"] = task["retry"] /\ task'["down"] = task["down"] /\ row \in Rows
  BY DEF Clean, Reap, CleanList, ReapList, ReapCheck, ReapRemove, DeleteRunnerForge, ReapMark,
     Orphan, OrphanList, OrphanCheck, GhLook, GhListProvider, GhRead, GhBegin,
     GhAct, GhRemove, GhDrop, GhStart, EndPass, Api, ApiRead, ApiRemove, ApiMark, Finish, Goto,
     Inv, TypeOK, TaskOK, Lanes
<1>2. \/ row' = row \/ ForceStatus("pending_delete") \/ DropRow
      \/ UpdateStatus("pending_delete") \/ UpdateStatus("pending_force_delete")
  BY DEF Clean, Reap, CleanList, ReapList, ReapCheck, ReapRemove, DeleteRunnerForge,
     ReapMark, Orphan, OrphanList, OrphanCheck, GhLook, GhListProvider, GhRead, GhBegin,
     GhAct, GhRemove, GhDrop, GhStart, Api, ApiRead, ApiRemove, ApiMark
<1> QED
  BY <1>1, <1>2, ListedIfDeletes, TransitionValues

LEMMA ListedHook == ASSUME Inv, ListedInv, Hook \/ Agent \/ Boot PROVE ListedInv'
<1>1. task'["retry"] = task["retry"] /\ task'["down"] = task["down"] /\ row \in Rows
  BY DEF Hook, HookStart, HookActivate, HookDone, HookTerminate, HookMark, Agent,
     AgentTerminated, AgentMark, Boot, BootStart, BootRemove, BootMark, BootTools, UpdateTools,
     Finish, Goto, Inv, TypeOK, TaskOK, Lanes
<1>2. row'.status = row.status \/ UpdateStatus("pending_delete") \/ ForceStatus("pending_delete")
  BY <1>1 DEF Hook, HookStart, HookActivate, HookDone, HookTerminate, HookMark, Agent,
     AgentTerminated, AgentMark, Boot, BootStart, BootRemove, BootMark, BootTools, UpdateTools,
     Rows
<1> QED
  BY <1>1, <1>2, ListedIfDeletes, TransitionValues

LEMMA ListedRest == ASSUME Inv, ListedInv, Stop \/ Crash \/ Exit \/ World PROVE ListedInv'
<1>1. row'.status = row.status
  BY DEF Stop, Crash, Exit, ProcessEnds, World, Machine, MachineBoots, RunnerOnline, JobEnds,
     RunnerLost, MachineFails, JobStarts, MachineReports, MachineReportsAgent, HookLost,
     Inv, TypeOK, Rows
<1>2. task' = task \/ (task'["retry"] = "idle" /\ task'["down"] = "idle")
  BY DEF Stop, Crash, Exit, ProcessEnds, World, Machine, MachineBoots, RunnerOnline, JobEnds,
     RunnerLost, MachineFails, JobStarts, MachineReports, MachineReportsAgent, HookLost, Lanes
<1> QED
  BY <1>1, <1>2 DEF ListedInv

LEMMA ListedNext == ASSUME Inv, AddInv, ListedInv, [Next]_vars PROVE ListedInv'
<1>1. CASE UNCHANGED vars
  BY <1>1 DEF vars, ListedInv
<1>2. CASE Next
  BY <1>2, ListedAdd, ListedDel, ListedRetry, ListedDown, ListedClean, ListedHook, ListedRest
     DEF Next
<1> QED
  BY <1>1, <1>2

\* A step that writes no status, or one of a deletion.
LEMMA StaysIfDeletes ==
  ASSUME row \in Rows,
         \/ row'.status = row.status
         \/ \E s \in DeletionLane : UpdateStatus(s) \/ ForceStatus(s)
         \/ DropRow
  PROVE  StaysInDeletion
BY UpdatedRow DEF StaysInDeletion, DropRow, Rows

LEMMA AddStaysInDeletion ==
  ASSUME Inv, AddInv, Add
  PROVE  StaysInDeletion
<1>1. row \in Rows
  BY DEF Inv, TypeOK
<1>2. CASE AddList \/ CreateReturns \/ AddUndo
  BY <1>1, <1>2, StaysIfDeletes DEF AddList, CreateReturns, AddUndo
<1>3. CASE AddBegin
  <2>1. row' = row \/ Accepts("creating")
    BY <1>3 DEF AddBegin
  <2>2. Accepts("creating") => row.status \notin DeletionLane
    BY TransitionValues DEF Accepts
  <2> QED
    BY <2>1, <2>2 DEF StaysInDeletion
<1>4. CASE AddRecord \/ AddRecordError \/ AddFail
  <2>1. row.status = "creating"
    BY <1>4 DEF AddRecord, AddRecordError, AddFail, AddInv
  <2> QED
    BY <2>1 DEF StaysInDeletion, DeletionLane
<1> QED
  BY <1>2, <1>3, <1>4 DEF Add

LEMMA OthersStayInDeletion ==
  ASSUME Inv, Birth \/ Del \/ Retry \/ Down \/ Clean \/ Api, task["retry"] # "requeue"
  PROVE  StaysInDeletion
<1>1. /\ row \in Rows
      /\ DeletionLane = {"pending_delete", "pending_force_delete", "deleting", "deleted"}
  BY TransitionValues DEF Inv, TypeOK
<1>2. CASE Birth
  BY <1>1, <1>2 DEF Birth, AddRunnerRegister, AddRunnerInsert, Inv, Kept, StaysInDeletion
<1>3. CASE Del
  <2>1. \/ row' = row \/ DropRow \/ ForceStatus("deleting")
        \/ task["del"] # "idle" /\ ForceStatus(seen["del"].status)
    BY <1>3 DEF Del, DelList, DelBegin, DelMark, DelProvider, DelDrop, DelRestore
  <2>2. task["del"] # "idle" => seen["del"].status \in DeletionLane
    BY <1>1 DEF Inv, Kept
  <2> QED
    BY <1>1, <2>1, <2>2, StaysIfDeletes
<1>4. CASE Retry
  BY <1>1, <1>4, StaysIfDeletes DEF Retry, RetryList, RetryBegin, RetryClean, RetryRequeue
<1>5. CASE Down
  <2>1. row' = row \/ ForceStatus("pending_delete")
    BY <1>5 DEF Down, DownList, DownBegin, DownRemove, DeleteRunnerForge, DownMark,
       DownReturnsEarly
  <2> QED
    BY <1>1, <2>1, StaysIfDeletes
<1>6. CASE Clean
  <2>1. row' = row \/ ForceStatus("pending_delete") \/ DropRow
    BY <1>6 DEF Clean, Reap, CleanList, ReapList, ReapCheck, ReapRemove, DeleteRunnerForge,
       ReapMark, Orphan, OrphanList, OrphanCheck, GhLook, GhListProvider, GhRead, GhBegin,
       GhAct, GhRemove, GhDrop, GhStart
  <2> QED
    BY <1>1, <2>1, StaysIfDeletes
<1>7. CASE Api
  <2>1. row' = row \/ UpdateStatus("pending_delete") \/ UpdateStatus("pending_force_delete")
    BY <1>7 DEF Api, ApiRead, ApiRemove, ApiMark
  <2> QED
    BY <1>1, <2>1, StaysIfDeletes
<1> QED
  BY <1>2, <1>3, <1>4, <1>5, <1>6, <1>7

LEMMA RestStaysInDeletion ==
  ASSUME Inv, Hook \/ Agent \/ Boot \/ Stop \/ Crash \/ Exit \/ World
  PROVE  StaysInDeletion
<1>1. /\ row \in Rows
      /\ DeletionLane = {"pending_delete", "pending_force_delete", "deleting", "deleted"}
  BY TransitionValues DEF Inv, TypeOK
<1>2. CASE Hook \/ Agent
  <2>1. row'.status = row.status \/ UpdateStatus("pending_delete")
    BY <1>1, <1>2 DEF Hook, HookStart, HookActivate, HookDone, HookTerminate, HookMark, Agent,
       AgentTerminated, AgentMark, Rows
  <2> QED
    BY <1>1, <2>1, StaysIfDeletes
<1>3. CASE Boot
  <2>1. row' = row \/ ForceStatus("pending_delete")
    BY <1>3 DEF Boot, BootStart, BootRemove, BootMark, BootTools, UpdateTools
  <2> QED
    BY <1>1, <2>1, StaysIfDeletes
<1>4. CASE Stop \/ Crash \/ Exit \/ World
  <2>1. row'.status = row.status
    BY <1>1, <1>4 DEF Stop, Crash, Exit, ProcessEnds, World, Machine, MachineBoots, RunnerOnline, JobEnds, RunnerLost,
       MachineFails, JobStarts, MachineReports, MachineReportsAgent, HookLost, Rows
  <2> QED
    BY <1>1, <2>1, StaysIfDeletes
<1> QED
  BY <1>2, <1>3, <1>4

\* No code path but retryFailedInstancesForOnePool takes a row out of the deletion lane
\* other than by deleting it, whatever it read before and whatever fails: the table of the
\* transitions and the lock refuse every late update (pool.go:1600).
THEOREM DeletionIsOneWay == Spec => OnlyRetryUndeletes
<1>1. Init => AddInv /\ ListedInv
  BY AddInvInit, ListedInit
<1>2. Inv /\ AddInv /\ ListedInv /\ [Next]_vars => AddInv' /\ ListedInv'
  BY AddInvNext, ListedNext
<1>3. Inv /\ AddInv /\ [Next]_vars => [StaysInDeletion \/ task["retry"] = "requeue"]_vars
  BY AddStaysInDeletion, OthersStayInDeletion, RestStaysInDeletion DEF Next
<1> QED
  BY <1>1, <1>2, <1>3, Invariance, PTL DEF Spec, OnlyRetryUndeletes

-----------------------------------------------------------------------------
(***************************************************************************)
(* Whoever queues a row for deletion had the forge give up the runner      *)
(* before, unless unasked says otherwise, and the forge never takes back a *)
(* runner it gave up.                                                      *)
(***************************************************************************)

\* The forge gave up the runner for good.
Given == forge = "absent" /\ row.status # "none"

\* Before its row is inserted, the runner does nothing.
Early == row.status = "none" =>
             prov = "absent" /\ hooks = {} /\ forge \in {"absent", "offline"}

\* The lanes that have the forge remove the runner before they queue the row, and when
\* they are about to call it.
Askers == {"api", "down", "clean", "boot"}
Asking == {"seen", "reap_seen", "remove", "remove_force", "remove_late"}

\* The row has the ID of the agent, and so has who is about to call the forge.
AgentKnown ==
    /\ Exists => row.agent = TRUE
    /\ \A l \in Askers : task[l] \in Asking => seen[l].agent = TRUE /\ row.status # "none"

\* The lanes that queue the row, and when they are about to.
Queuers == Askers \cup {"agent", "done"}
Queuing == {"mark", "mark_force", "mark_late", "terminate"}

\* Who is about to queue the row for deletion, or has, comes after the forge.
ForgeFirst ==
    ~unasked =>
        /\ \A l \in Queuers : task[l] \in Queuing => Given
        /\ "completed" \in hooks => Given
        /\ task["del"] # "idle" => Given
        /\ row.status \in DeletionLane => forge = "absent"

BusyInv == Early /\ AgentKnown /\ ForgeFirst

\* With the ID of the agent, a successful call leaves no runner at the forge, and a
\* refused one leaves it as it is.
LEMMA ForgeCalls ==
  ASSUME NEW a
  PROVE  /\ a = TRUE /\ ForgeRemoves(a) => forge' = "absent"
         /\ ForgeRemoves(a) => forge' \in {"absent", forge}
         /\ ForgeRefuses(a) \/ ForgeUnauthorized(a) \/ ForgeFailsLoop(a) => forge' = forge
BY Zenon DEF ForgeRemoves, ForgeRefuses, ForgeUnauthorized, ForgeFailsLoop

LEMMA BusyInit == ASSUME Init PROVE BusyInv
<1>1. row.status = "none" /\ task = [l \in Lanes |-> "idle"] /\ prov = "absent" /\ hooks = {}
      /\ forge = "absent" /\ ~Exists
  BY DEF Init, NoRow, Exists
<1>2. \A l \in Lanes : task[l] = "idle"
  BY <1>1
<1> QED
  BY <1>1, <1>2
     DEF BusyInv, Early, AgentKnown, ForgeFirst, DeletionLane, Askers, Asking, Queuers, Queuing, Lanes

LEMMA BusyBirth == ASSUME JIT = TRUE, Inv, BusyInv, Birth PROVE BusyInv'
<1>1. task \in [Lanes -> Steps] /\ row.status = "none" /\ UNCHANGED <<prov, hooks, unasked>>
      /\ \A l \in Lanes \ {"birth"} : task'[l] = task[l]
  BY DEF Birth, AddRunnerRegister, AddRunnerInsert, Goto, Finish, Inv, TypeOK, TaskOK, Kept,
     hist
<1>2. \A l \in Lanes \ {"birth"} : seen'[l] = seen[l]
  BY DEF Birth, AddRunnerRegister, AddRunnerInsert, Finish, Remember, Inv, TypeOK
<1>3. forge' \in {"absent", "offline"}
  <2>1. forge \in {"absent", "offline"}
    BY <1>1 DEF BusyInv, Early
  <2>2. CASE AddRunnerRegister
    BY <2>1, <2>2 DEF AddRunnerRegister
  <2>3. CASE AddRunnerInsert
    <3>1. forge' = forge \/ ForgeRemoves(JIT) \/ ForgeRefuses(JIT) \/ ForgeUnauthorized(JIT)
      BY <2>3 DEF AddRunnerInsert
    <3>2. forge' \in {"absent", forge}
      BY <3>1, ForgeCalls
    <3> QED
      BY <2>1, <3>2
  <2> QED
    BY <2>2, <2>3 DEF Birth
<1>4. \/ row' = row
      \/ row'.status = "pending_create" /\ row'.agent = TRUE
      \/ row'.status = "gone"
  <2>1. CASE AddRunnerRegister
    BY <2>1 DEF AddRunnerRegister
  <2>2. CASE row' = [status |-> "pending_create", runner |-> "pending", attempt |-> 0, agent |-> JIT]
    BY <2>2
  <2>3. CASE row' = [NoRow EXCEPT !.status = "gone"]
    BY <2>3 DEF NoRow
  <2> QED
    BY <2>1, <2>2, <2>3 DEF Birth, AddRunnerInsert
<1>5. Early'
  BY <1>1, <1>3, <1>4 DEF BusyInv, Early
<1>6. AgentKnown'
  <2>1. Exists' => row'.agent = TRUE
    BY <1>1, <1>4 DEF Exists
  <2>2. \A l \in Askers : task[l] \notin Asking
    BY <1>1 DEF BusyInv, AgentKnown
  <2> QED
    BY <1>1, <2>1, <2>2 DEF AgentKnown, Askers, Lanes
<1>7. ForgeFirst'
  <2>1. /\ ~unasked => \A l \in Queuers : task[l] \notin Queuing
        /\ ~unasked => hooks = {} /\ task["del"] = "idle"
        /\ row'.status \notin DeletionLane
    BY <1>1, <1>4 DEF BusyInv, ForgeFirst, Given, Early, DeletionLane
  <2> QED
    BY <1>1, <2>1 DEF ForgeFirst, Queuers, Askers, Lanes
<1> QED
  BY <1>1, <1>5, <1>6, <1>7 DEF BusyInv, Lanes

\* A lane that at most has the forge give up the runner, and writes a status of deletion
\* only when it has.
LEMMA BusyKept ==
  ASSUME BusyInv, NEW l \in Lanes, ~unasked' => ~unasked,
         \A k \in Lanes \ {l} : task'[k] = task[k] /\ seen'[k] = seen[k],
         forge' = forge \/ forge' = "absent", hooks' \subseteq hooks,
         prov' = prov \/ prov' = "absent" \/ row.status # "none",
         row' = row \/ (Exists /\ row'.agent \in {row.agent, TRUE} /\ row'.status # "none"),
         ~unasked' /\ row'.status \in DeletionLane =>
             row.status \in DeletionLane \/ forge' = "absent",
         l \in Askers /\ task'[l] \in Asking => seen'[l].agent = TRUE /\ row.status # "none",
         ~unasked' /\ l \in Queuers /\ task'[l] \in Queuing => Given',
         ~unasked' /\ l = "del" /\ task'[l] # "idle" => Given'
  PROVE  BusyInv'
<1>1. row.status # "none" => row'.status # "none"
  OBVIOUS
<1>2. Early'
  <2>1. row'.status = "none" => row.status = "none"
    BY DEF Exists
  <2> QED
    BY <2>1 DEF BusyInv, Early
<1>3. AgentKnown'
  <2>1. Exists' => Exists
    BY DEF Exists
  <2> QED
    BY <1>1, <2>1 DEF BusyInv, AgentKnown, Askers, Lanes
<1>4. ForgeFirst'
  <2>1. Given => Given'
    BY <1>1 DEF Given
  <2> QED
    BY <2>1 DEF BusyInv, ForgeFirst, Queuers, Askers, Lanes
<1> QED
  BY <1>2, <1>3, <1>4 DEF BusyInv

\* What a write of a status leaves of the row.
LEMMA WrittenRow ==
  ASSUME row \in Rows, NEW s, s # "none", UpdateStatus(s) \/ ForceStatus(s)
  PROVE  row' = row \/ (Exists /\ row'.agent = row.agent /\ row'.status # "none")
BY DEF UpdateStatus, ForceStatus, Accepts, Rows

LEMMA BusyAdd == ASSUME JIT = TRUE, Inv, BusyInv, Add PROVE BusyInv'
<1>1. task \in [Lanes -> Steps] /\ row \in Rows /\ UNCHANGED <<unasked, forge, hooks, seen>>
      /\ \A l \in Lanes \ {"add"} : task'[l] = task[l]
  BY DEF Add, AddList, AddBegin, CreateReturns, AddRecord, AddRecordError, AddUndo, AddFail, Goto,
     outside, hist, Inv, TypeOK, TaskOK
<1>2. prov' = prov \/ prov' = "absent"
  BY DEF Add, AddList, AddBegin, CreateReturns, AddRecord, AddRecordError, AddUndo, AddFail,
     outside, ProviderDeletes, ProviderRefuses
<1>3. row' = row \/ \E s \in {"creating", "running", "error"} : UpdateStatus(s)
  BY DEF Add, AddList, AddBegin, CreateReturns, AddRecord, AddRecordError, AddUndo, AddFail
<1>4. row' = row \/ (Exists /\ row'.agent = row.agent /\ row'.status # "none")
  BY <1>1, <1>3, WrittenRow
<1>5. row'.status \in DeletionLane => row.status \in DeletionLane
  BY <1>1, <1>3, UpdatedRow, TransitionValues
<1> QED
  BY <1>1, <1>2, <1>4, <1>5, BusyKept DEF Lanes, Askers, Queuers

LEMMA BusyDel == ASSUME JIT = TRUE, Inv, BusyInv, Del PROVE BusyInv'
<1>1. task \in [Lanes -> Steps] /\ row \in Rows /\ seen \in [Lanes -> Rows]
  BY DEF Inv, TypeOK, TaskOK
<1>2. /\ UNCHANGED <<unasked, forge, hooks>>
      /\ \A l \in Lanes \ {"del"} : task'[l] = task[l] /\ seen'[l] = seen[l]
  BY <1>1 DEF Del, DelList, DelBegin, DelMark, DelProvider, DelDrop, DelRestore, TryLock, Finish,
     Goto, Remember, outside, hist
<1>3. prov' = prov \/ prov' = "absent"
  BY DEF Del, DelList, DelBegin, DelMark, DelProvider, DelDrop, DelRestore,
     outside, ProviderDeletes, ProviderRefuses
<1>4. task["del"] # "idle" \/ row.status \in DeletionLane
  BY DEF Del, DelList, DelBegin, DelMark, DelProvider, DelDrop, DelRestore, DeletionLane
<1>5. ~unasked => Given
  BY <1>4 DEF BusyInv, ForgeFirst, Given, DeletionLane
<1>6. row' = row \/ (Exists /\ row'.agent = row.agent /\ row'.status # "none")
  <2>1. row' = row \/ DropRow \/ \E s \in Statuses : ForceStatus(s)
    <3>1. DelRestore => seen["del"].status \in Statuses
      BY StatusValues DEF DelRestore, Inv, Kept
    <3> QED
      BY <3>1, StatusValues
         DEF Del, DelList, DelBegin, DelMark, DelProvider, DelDrop, DelRestore
  <2> QED
    BY <1>1, <2>1, WrittenRow, StatusValues DEF DropRow, Rows
<1>7. ~unasked => Given'
  BY <1>2, <1>5, <1>6 DEF Given
<1>8. ~unasked /\ row'.status \in DeletionLane => forge' = "absent"
  BY <1>7 DEF Given
<1> QED
  BY <1>2, <1>3, <1>6, <1>7, <1>8, BusyKept DEF Lanes, Askers, Queuers

LEMMA BusyRetry == ASSUME JIT = TRUE, Inv, BusyInv, Retry PROVE BusyInv'
<1>1. task \in [Lanes -> Steps] /\ row \in Rows /\ seen \in [Lanes -> Rows]
  BY DEF Inv, TypeOK, TaskOK
<1>2. /\ UNCHANGED <<unasked, forge, hooks>>
      /\ \A l \in Lanes \ {"retry"} : task'[l] = task[l] /\ seen'[l] = seen[l]
  BY <1>1 DEF Retry, RetryList, RetryBegin, RetryClean, RetryRequeue, TryLock, Finish, Goto,
     Remember, outside, hist
<1>3. prov' = prov \/ prov' = "absent"
  BY DEF Retry, RetryList, RetryBegin, RetryClean, RetryRequeue, outside, ProviderDeletes,
     ProviderRefuses
<1>4. row' = row \/ (Exists /\ row'.agent = row.agent /\ row'.status = "pending_create")
  BY <1>1 DEF Retry, RetryList, RetryBegin, RetryClean, RetryRequeue, Rows
<1> QED
  BY <1>2, <1>3, <1>4, BusyKept, TransitionValues DEF Lanes, Askers, Queuers

LEMMA BusyDown == ASSUME JIT = TRUE, Inv, BusyInv, Down PROVE BusyInv'
<1>1. task \in [Lanes -> Steps] /\ row \in Rows /\ seen \in [Lanes -> Rows]
  BY DEF Inv, TypeOK, TaskOK
<1>2. /\ UNCHANGED <<unasked, hooks, prov>>
      /\ \A l \in Lanes \ {"down"} : task'[l] = task[l] /\ seen'[l] = seen[l]
  BY <1>1 DEF Down, DownList, DownBegin, DownRemove, DeleteRunnerForge, DownMark, DownReturnsEarly,
     TryLock, Finish, Goto, Remember, outside, hist
<1>3. CASE DownList
  <2>1. /\ row' = row /\ forge' = forge /\ row.status = "running" /\ task'["down"] = "seen"
        /\ seen'["down"] = [NoRow EXCEPT !.agent = row.agent]
    BY <1>1, <1>3 DEF DownList, Goto, Remember, outside, Lanes
  <2>2. seen'["down"].agent = TRUE
    BY <2>1 DEF BusyInv, AgentKnown, Exists, NoRow
  <2> QED
    BY <1>2, <2>1, <2>2, BusyKept DEF Lanes, Queuing
<1>4. CASE DownBegin
  <2>1. /\ row' = row /\ forge' = forge /\ task["down"] = "seen"
        /\ task'["down"] = "idle" \/ (task'["down"] = "remove" /\ seen' = seen)
    BY <1>1, <1>4 DEF DownBegin, TryLock, Finish, Goto, outside, Lanes
  <2>2. seen["down"].agent = TRUE /\ row.status # "none"
    BY <2>1 DEF BusyInv, AgentKnown, Askers, Asking
  <2> QED
    BY <1>2, <2>1, <2>2, BusyKept DEF Lanes, Asking, Queuing
<1>5. CASE DownRemove
  <2>1. task["down"] \in {"remove", "remove_late"} /\ row' = row
    BY <1>5 DEF DownRemove, DeleteRunnerForge
  <2>2. seen["down"].agent = TRUE /\ row.status # "none"
    BY <2>1 DEF BusyInv, AgentKnown, Askers, Asking
  <2>3. \/ ForgeRemoves(seen["down"].agent) /\ task'["down"] \in {"mark", "mark_late"}
        \/ forge' = forge /\ task'["down"] = "idle"
    BY <1>1, <1>5, ForgeCalls DEF DownRemove, DeleteRunnerForge, Finish, Goto, Lanes
  <2>4. \/ forge' = "absent" /\ task'["down"] \in {"mark", "mark_late"}
        \/ forge' = forge /\ task'["down"] = "idle"
    BY <2>2, <2>3, ForgeCalls
  <2>5. task'["down"] \notin Asking /\ (task'["down"] \in Queuing => Given')
    BY <2>1, <2>2, <2>4 DEF Given, Asking, Queuing
  <2> QED
    BY <1>2, <2>1, <2>4, <2>5, BusyKept DEF Lanes
<1>6. CASE DownMark
  <2>1. /\ task["down"] \in {"mark", "mark_late"} /\ task'["down"] = "idle" /\ forge' = forge
        /\ ForceStatus("pending_delete")
    BY <1>1, <1>6 DEF DownMark, Finish, Goto, outside, Lanes
  <2>2. ~unasked => forge = "absent"
    BY <2>1 DEF BusyInv, ForgeFirst, Given, Queuers, Askers, Queuing
  <2>3. row' = row \/ (Exists /\ row'.agent = row.agent /\ row'.status # "none")
    BY <1>1, <2>1, WrittenRow
  <2> QED
    BY <1>2, <2>1, <2>2, <2>3, BusyKept DEF Lanes, Asking, Queuing
<1>7. CASE DownReturnsEarly
  <2>1. /\ row' = row /\ forge' = forge /\ seen' = seen
        /\ \/ task["down"] = "remove" /\ task'["down"] = "remove_late"
           \/ task["down"] = "mark" /\ task'["down"] = "mark_late"
    BY <1>1, <1>7 DEF DownReturnsEarly, Goto, outside, Lanes
  <2>2. task'["down"] \in Asking => seen["down"].agent = TRUE /\ row.status # "none"
    BY <2>1 DEF BusyInv, AgentKnown, Askers, Asking
  <2>3. ~unasked /\ task'["down"] \in Queuing => Given'
    BY <2>1 DEF BusyInv, ForgeFirst, Given, Queuers, Askers, Queuing
  <2> QED
    BY <1>2, <2>1, <2>2, <2>3, BusyKept DEF Lanes
<1> QED
  BY <1>3, <1>4, <1>5, <1>6, <1>7 DEF Down

LEMMA BusyReap == ASSUME JIT = TRUE, Inv, BusyInv, Reap PROVE BusyInv'
<1>1. task \in [Lanes -> Steps] /\ row \in Rows /\ seen \in [Lanes -> Rows]
  BY DEF Inv, TypeOK, TaskOK
<1>2. /\ UNCHANGED <<unasked, hooks, prov>>
      /\ \A l \in Lanes \ {"clean"} : task'[l] = task[l] /\ seen'[l] = seen[l]
  BY <1>1 DEF Reap, CleanList, ReapList, ReapCheck, ReapRemove, DeleteRunnerForge, ReapMark,
     EndPass, Finish, Goto, Remember, outside, hist
<1>3. CASE CleanList \/ ReapCheck
  <2>1. /\ row' = row /\ forge' = forge /\ seen' = seen
        /\ \/ task'["clean"] \in {"reap", "orphan"}
           \/ task["clean"] = "reap_seen" /\ task'["clean"] = "remove"
    BY <1>1, <1>3 DEF CleanList, ReapCheck, Goto, outside, Lanes
  <2>2. task'["clean"] \in Asking => seen["clean"].agent = TRUE /\ row.status # "none"
    BY <2>1 DEF BusyInv, AgentKnown, Askers, Asking
  <2> QED
    BY <1>2, <2>1, <2>2, BusyKept DEF Lanes, Queuing
<1>4. CASE ReapList
  <2>1. /\ row' = row /\ forge' = forge
        /\ \/ task'["clean"] = "orphan"
           \/ /\ Exists /\ task'["clean"] = "reap_seen"
              /\ seen'["clean"] = [NoRow EXCEPT !.agent = row.agent]
    BY <1>1, <1>4 DEF ReapList, Goto, Remember, outside, Lanes
  <2>2. task'["clean"] \in Asking => seen'["clean"].agent = TRUE /\ row.status # "none"
    BY <2>1 DEF BusyInv, AgentKnown, Exists, NoRow, Asking
  <2> QED
    BY <1>2, <2>1, <2>2, BusyKept DEF Lanes, Queuing
<1>5. CASE ReapRemove
  <2>1. task["clean"] \in {"remove", "remove_late"} /\ row' = row
    BY <1>5 DEF ReapRemove, DeleteRunnerForge
  <2>2. seen["clean"].agent = TRUE /\ row.status # "none"
    BY <2>1 DEF BusyInv, AgentKnown, Askers, Asking
  <2>3. \/ ForgeRemoves(seen["clean"].agent) /\ task'["clean"] \in {"mark", "mark_late"}
        \/ forge' = forge /\ task'["clean"] = "idle"
    BY <1>1, <1>5, ForgeCalls DEF ReapRemove, DeleteRunnerForge, EndPass, Finish, Goto, Lanes
  <2>4. \/ forge' = "absent" /\ task'["clean"] \in {"mark", "mark_late"}
        \/ forge' = forge /\ task'["clean"] = "idle"
    BY <2>2, <2>3, ForgeCalls
  <2>5. task'["clean"] \notin Asking /\ (task'["clean"] \in Queuing => Given')
    BY <2>1, <2>2, <2>4 DEF Given, Asking, Queuing
  <2> QED
    BY <1>2, <2>1, <2>4, <2>5, BusyKept DEF Lanes
<1>6. CASE ReapMark
  <2>1. /\ task["clean"] = "mark" /\ task'["clean"] = "orphan" /\ forge' = forge
        /\ ForceStatus("pending_delete")
    BY <1>1, <1>6 DEF ReapMark, Goto, outside, Lanes
  <2>2. ~unasked => forge = "absent"
    BY <2>1 DEF BusyInv, ForgeFirst, Given, Queuers, Askers, Queuing
  <2>3. row' = row \/ (Exists /\ row'.agent = row.agent /\ row'.status # "none")
    BY <1>1, <2>1, WrittenRow
  <2> QED
    BY <1>2, <2>1, <2>2, <2>3, BusyKept DEF Lanes, Asking, Queuing
<1> QED
  BY <1>3, <1>4, <1>5, <1>6 DEF Reap

LEMMA BusyOrphan == ASSUME JIT = TRUE, Inv, BusyInv, Orphan PROVE BusyInv'
<1>1. task \in [Lanes -> Steps] /\ row \in Rows /\ seen \in [Lanes -> Rows]
  BY DEF Inv, TypeOK, TaskOK
<1>2. /\ UNCHANGED <<forge, hooks, prov>>
      /\ \A l \in Lanes \ {"clean"} : task'[l] = task[l] /\ seen'[l] = seen[l]
  BY <1>1 DEF Orphan, OrphanList, OrphanCheck, EndPass, Finish, Goto, Remember, outside
<1>3. task'["clean"] \notin Asking \cup Queuing
  BY <1>1 DEF Orphan, OrphanList, OrphanCheck, EndPass, Finish, Goto, Lanes, Asking, Queuing
<1>4. CASE row' = row /\ unasked' = unasked
  BY <1>2, <1>3, <1>4, BusyKept DEF Lanes
<1>5. CASE ForceStatus("pending_delete") /\ unasked' = (unasked \/ forge # "absent")
  <2>1. ~unasked' => ~unasked /\ forge' = "absent"
    BY <1>2, <1>5
  <2>2. row' = row \/ (Exists /\ row'.agent = row.agent /\ row'.status # "none")
    BY <1>1, <1>5, WrittenRow
  <2> QED
    BY <1>2, <1>3, <2>1, <2>2, BusyKept DEF Lanes
<1> QED
  BY <1>4, <1>5 DEF Orphan, OrphanList, OrphanCheck, hist

LEMMA BusyGh == ASSUME JIT = TRUE, Inv, BusyInv, GhLook \/ GhAct PROVE BusyInv'
<1>1. task \in [Lanes -> Steps] /\ row \in Rows /\ seen \in [Lanes -> Rows]
  BY DEF Inv, TypeOK, TaskOK
<1>2. /\ UNCHANGED <<unasked, hooks>>
      /\ \A l \in Lanes \ {"clean"} : task'[l] = task[l] /\ seen'[l] = seen[l]
  BY <1>1 DEF GhLook, GhListProvider, GhRead, GhBegin, GhAct, GhRemove, GhDrop, GhStart,
     EndPass, Finish, Goto, Remember, outside, hist
<1>3. task'["clean"] \notin Asking \cup Queuing
  BY <1>1 DEF GhLook, GhListProvider, GhRead, GhBegin, GhAct, GhRemove, GhDrop, GhStart,
     EndPass, Finish, Goto, Lanes, Asking, Queuing
<1>4. forge' = forge \/ forge' = "absent"
  <2>1. forge' = forge \/ ForgeRemoves(TRUE) \/ ForgeFailsLoop(TRUE)
    BY DEF GhLook, GhListProvider, GhRead, GhBegin, GhAct, GhRemove, GhDrop, GhStart, outside
  <2> QED
    BY <2>1, ForgeCalls
<1>5. prov' = prov \/ row.status # "none"
  <2>1. CASE GhStart
    BY <2>1 DEF GhStart, ProviderRefuses, BusyInv, Early
  <2> QED
    BY <2>1 DEF GhLook, GhListProvider, GhRead, GhBegin, GhAct, GhRemove, GhDrop, outside
<1>6. row' = row \/ (Exists /\ row'.agent = row.agent /\ row'.status = "gone")
  BY <1>1 DEF GhLook, GhListProvider, GhRead, GhBegin, GhAct, GhRemove, GhDrop, GhStart,
     DropRow, outside, Rows
<1> QED
  BY <1>2, <1>3, <1>4, <1>5, <1>6, BusyKept DEF Lanes, DeletionLane

LEMMA BusyApi == ASSUME JIT = TRUE, Inv, BusyInv, Api PROVE BusyInv'
<1>1. task \in [Lanes -> Steps] /\ row \in Rows /\ seen \in [Lanes -> Rows]
  BY DEF Inv, TypeOK, TaskOK
<1>2. /\ UNCHANGED <<hooks, prov>> /\ (~unasked' => ~unasked)
      /\ \A l \in Lanes \ {"api"} : task'[l] = task[l] /\ seen'[l] = seen[l]
  <2>1. unasked' = unasked \/ unasked' = (unasked \/ forge # "absent")
    BY DEF Api, ApiRead, ApiRemove, ApiMark, hist
  <2>2. ~unasked' => ~unasked
    BY <2>1
  <2>3. /\ UNCHANGED <<hooks, prov>>
        /\ \A l \in Lanes \ {"api"} : task'[l] = task[l] /\ seen'[l] = seen[l]
    BY <1>1 DEF Api, ApiRead, ApiRemove, ApiMark, Finish, Goto, Remember, outside
  <2> QED
    BY <2>2, <2>3
<1>3. ASSUME NEW force \in BOOLEAN, ApiRead(force) PROVE BusyInv'
  <2>1. /\ row' = row /\ forge' = forge /\ Exists /\ task'["api"] \in {"remove", "remove_force"}
        /\ seen'["api"] = [NoRow EXCEPT !.agent = row.agent]
    BY <1>1, <1>3 DEF ApiRead, Goto, Remember, outside, Lanes, Exists
  <2>2. seen'["api"].agent = TRUE /\ row.status # "none"
    BY <2>1 DEF BusyInv, AgentKnown, Exists, NoRow
  <2> QED
    BY <1>2, <2>1, <2>2, BusyKept DEF Lanes, Queuing
<1>4. CASE ApiRemove
  <2>1. task["api"] \in {"remove", "remove_force"} /\ row' = row
    BY <1>4 DEF ApiRemove
  <2>2. seen["api"].agent = TRUE /\ row.status # "none"
    BY <2>1 DEF BusyInv, AgentKnown, Askers, Asking
  <2>3. /\ task'["api"] \in {"mark", "mark_force", "idle"}
        /\ forge' = forge \/ forge' = "absent"
        /\ ~unasked' /\ task'["api"] # "idle" => forge' = "absent"
    <3>1. CASE ForgeRemoves(seen["api"].agent) /\ task'["api"] \in {"mark", "mark_force"}
      BY <2>2, <3>1, ForgeCalls
    <3>2. CASE /\ ForgeFailsLoop(seen["api"].agent) /\ unasked' = (unasked \/ forge # "absent")
               /\ task'["api"] \in {"mark", "mark_force"}
      BY <3>2, ForgeCalls
    <3>3. CASE ForgeFailsLoop(seen["api"].agent) /\ task'["api"] = "idle"
      BY <3>3, ForgeCalls
    <3> QED
      BY <1>1, <1>4, <3>1, <3>2, <3>3 DEF ApiRemove, Finish, Goto, Lanes
  <2>4. ~unasked' /\ task'["api"] \in Queuing => Given'
    BY <2>1, <2>2, <2>3 DEF Given, Queuing
  <2> QED
    BY <1>2, <2>1, <2>3, <2>4, BusyKept DEF Lanes, Asking
<1>5. CASE ApiMark
  <2>1. /\ task["api"] \in {"mark", "mark_force"} /\ task'["api"] = "idle" /\ forge' = forge
        /\ UpdateStatus("pending_delete") \/ UpdateStatus("pending_force_delete")
    BY <1>1, <1>5 DEF ApiMark, Finish, Goto, outside, Lanes
  <2>2. ~unasked => forge = "absent"
    BY <2>1 DEF BusyInv, ForgeFirst, Given, Queuers, Askers, Queuing
  <2>3. row' = row \/ (Exists /\ row'.agent = row.agent /\ row'.status # "none")
    BY <1>1, <2>1, WrittenRow
  <2> QED
    BY <1>2, <2>1, <2>2, <2>3, BusyKept DEF Lanes, Asking, Queuing
<1> QED
  BY <1>3, <1>4, <1>5 DEF Api

LEMMA BusyHook == ASSUME JIT = TRUE, Inv, BusyInv, Hook PROVE BusyInv'
<1>1. task \in [Lanes -> Steps] /\ row \in Rows
  BY DEF Inv, TypeOK, TaskOK
<1>2. UNCHANGED <<unasked, prov, forge, seen>> /\ hooks' \subseteq hooks
  BY DEF Hook, HookStart, HookActivate, HookDone, HookTerminate, HookMark, outside, hist
<1>3. CASE HookStart \/ HookActivate
  <2>1. /\ \A l \in Lanes \ {"start"} : task'[l] = task[l]
        /\ task'["start"] = task["start"] \/ task'["start"] \in {"activate", "idle"}
    BY <1>1, <1>3 DEF HookStart, HookActivate, Goto, Lanes
  <2>2. task["start"] \in {"idle", "activate"}
    BY StepValues, MoreStepValues DEF Inv, TypeOK, TaskOK, Lanes
  <2>3. /\ row' = row \/ (Exists /\ row'.agent = row.agent /\ row'.status # "none")
        /\ row'.status = row.status
    BY <1>1, <1>3 DEF HookStart, HookActivate, Exists, Rows
  <2> QED
    BY <1>2, <2>1, <2>2, <2>3, BusyKept DEF Lanes, Askers, Queuers
<1>4. CASE HookDone \/ HookTerminate \/ HookMark
  <2>1. \A l \in Lanes \ {"done"} : task'[l] = task[l]
    BY <1>1, <1>4 DEF HookDone, HookTerminate, HookMark, Goto, Lanes
  <2>2. ~unasked => Given
    BY <1>4 DEF HookDone, HookTerminate, HookMark, BusyInv, ForgeFirst, Queuers, Queuing
  <2>3. row' = row \/ (Exists /\ row'.agent = row.agent /\ row'.status # "none")
    <3>1. CASE UpdateStatus("pending_delete")
      BY <1>1, <3>1, WrittenRow
    <3>2. CASE HookDone \/ HookTerminate
      BY <1>1, <3>2 DEF HookDone, HookTerminate, Exists, Rows
    <3> QED
      BY <1>4, <3>1, <3>2 DEF HookMark
  <2>4. ~unasked => Given'
    BY <1>2, <2>2, <2>3 DEF Given
  <2>5. ~unasked /\ row'.status \in DeletionLane => forge' = "absent"
    BY <2>4 DEF Given
  <2> QED
    BY <1>2, <2>1, <2>3, <2>4, <2>5, BusyKept DEF Lanes, Askers
<1> QED
  BY <1>3, <1>4 DEF Hook

LEMMA BusyAgent == ASSUME JIT = TRUE, Inv, BusyInv, Agent PROVE BusyInv'
<1>1. task \in [Lanes -> Steps] /\ row \in Rows
  BY DEF Inv, TypeOK, TaskOK
<1>2. /\ UNCHANGED <<unasked, prov, forge, seen, hooks>>
      /\ \A l \in Lanes \ {"agent"} : task'[l] = task[l]
  BY <1>1 DEF Agent, AgentTerminated, AgentMark, outside, hist, Goto
<1>3. ~unasked => Given
  BY DEF Agent, AgentTerminated, AgentMark, BusyInv, ForgeFirst, Exists, Given, Queuers, Queuing
<1>4. row' = row \/ (Exists /\ row'.agent = row.agent /\ row'.status # "none")
  <2>1. CASE UpdateStatus("pending_delete")
    BY <1>1, <2>1, WrittenRow
  <2>2. CASE AgentTerminated
    BY <1>1, <2>2 DEF AgentTerminated, Exists, Rows
  <2> QED
    BY <2>1, <2>2 DEF Agent, AgentMark
<1>5. ~unasked => Given'
  BY <1>2, <1>3, <1>4 DEF Given
<1>6. ~unasked /\ row'.status \in DeletionLane => forge' = "absent"
  BY <1>5 DEF Given
<1> QED
  BY <1>2, <1>4, <1>5, <1>6, BusyKept DEF Lanes, Askers

\* A step of no lane, which leaves the forge as it is, or as it was given up.
LEMMA BusyIdle ==
  ASSUME JIT = TRUE, Inv, BusyInv, UNCHANGED <<task, seen, unasked>>,
         hooks' \subseteq hooks, row.status = "none" => prov' = "absent",
         row' = row \/ (Exists /\ row'.agent \in {row.agent, TRUE} /\ row'.status = row.status),
         \/ forge' = forge
         \/ forge # "absent" /\ row.status # "none"
  PROVE  BusyInv'
<1>1. row'.status = row.status /\ (Exists' <=> Exists)
  BY DEF Exists
<1>2. Given => Given'
  BY <1>1 DEF Given
<1>3. Early'
  BY <1>1 DEF BusyInv, Early
<1>4. AgentKnown'
  BY <1>1 DEF BusyInv, AgentKnown
<1>5. ForgeFirst'
  BY <1>1, <1>2 DEF BusyInv, ForgeFirst, Given, DeletionLane
<1> QED
  BY <1>3, <1>4, <1>5 DEF BusyInv

LEMMA BusyBoot == ASSUME JIT = TRUE, Inv, BusyInv, Boot PROVE BusyInv'
<1>1. task \in [Lanes -> Steps] /\ row \in Rows /\ seen \in [Lanes -> Rows]
  BY DEF Inv, TypeOK, TaskOK
<1>2. CASE UpdateTools \/ BootTools
  BY <1>2, BusyIdle DEF UpdateTools, BootTools, outside, hist, BusyInv, Early
<1>3. CASE BootStart \/ BootRemove \/ BootMark
  <2>1. /\ UNCHANGED <<prov, hooks>> /\ (~unasked' => ~unasked)
        /\ \A l \in Lanes \ {"boot"} : task'[l] = task[l] /\ seen'[l] = seen[l]
    <3>1. unasked' = unasked \/ unasked' = (unasked \/ forge # "absent")
      BY <1>3 DEF BootStart, BootRemove, BootMark, hist
    <3>2. ~unasked' => ~unasked
      BY <3>1
    <3>3. /\ UNCHANGED <<prov, hooks>>
          /\ \A l \in Lanes \ {"boot"} : task'[l] = task[l] /\ seen'[l] = seen[l]
      BY <1>1, <1>3 DEF BootStart, BootRemove, BootMark, Finish, Goto, Remember, outside
    <3> QED
      BY <3>2, <3>3
  <2>2. CASE BootStart
    <3>1. row' = row /\ forge' = forge /\ unasked' = unasked
      BY <2>2 DEF BootStart, outside, hist
    <3>2. CASE UNCHANGED <<task, seen>>
      BY <2>1, <3>1, <3>2, BusyIdle DEF BusyInv, Early
    <3>3. CASE /\ row.status \in {"creating", "deleting"} /\ Goto("boot", "remove")
               /\ Remember("boot", [NoRow EXCEPT !.agent = row.agent])
      <4>1. task'["boot"] = "remove" /\ seen'["boot"] = [NoRow EXCEPT !.agent = row.agent]
        BY <1>1, <3>3 DEF Goto, Remember, Lanes
      <4>2. seen'["boot"].agent = TRUE /\ row.status # "none"
        BY <3>3, <4>1 DEF BusyInv, AgentKnown, Exists, NoRow
      <4> QED
        BY <2>1, <3>1, <4>1, <4>2, BusyKept DEF Lanes, Queuing
    <3> QED
      BY <2>2, <3>2, <3>3 DEF BootStart
  <2>3. CASE BootRemove
    <3>1. task["boot"] = "remove" /\ row' = row
      BY <2>3 DEF BootRemove
    <3>2. seen["boot"].agent = TRUE /\ row.status # "none"
      BY <3>1 DEF BusyInv, AgentKnown, Askers, Asking
    <3>3. /\ task'["boot"] \in {"mark", "idle"}
          /\ forge' = forge \/ forge' = "absent"
          /\ ~unasked' /\ task'["boot"] # "idle" => forge' = "absent"
      <4>1. CASE ForgeRemoves(seen["boot"].agent) /\ task'["boot"] = "mark"
        BY <3>2, <4>1, ForgeCalls
      <4>2. CASE /\ ForgeUnauthorized(seen["boot"].agent) /\ task'["boot"] = "mark"
                 /\ unasked' = (unasked \/ forge # "absent")
        BY <4>2, ForgeCalls
      <4>3. CASE ForgeRefuses(seen["boot"].agent) /\ task'["boot"] = "idle"
        BY <4>3, ForgeCalls
      <4> QED
        BY <1>1, <2>3, <4>1, <4>2, <4>3 DEF BootRemove, Finish, Goto, Lanes
    <3>4. ~unasked' /\ task'["boot"] \in Queuing => Given'
      BY <3>1, <3>2, <3>3 DEF Given, Queuing
    <3> QED
      BY <2>1, <3>1, <3>3, <3>4, BusyKept DEF Lanes, Asking
  <2>4. CASE BootMark
    <3>1. /\ task["boot"] = "mark" /\ task'["boot"] = "idle" /\ forge' = forge
          /\ ForceStatus("pending_delete")
      BY <1>1, <2>4 DEF BootMark, Finish, Goto, outside, Lanes
    <3>2. ~unasked => forge = "absent"
      BY <3>1 DEF BusyInv, ForgeFirst, Given, Queuers, Askers, Queuing
    <3>3. row' = row \/ (Exists /\ row'.agent = row.agent /\ row'.status # "none")
      BY <1>1, <3>1, WrittenRow
    <3> QED
      BY <2>1, <3>1, <3>2, <3>3, BusyKept DEF Lanes, Asking, Queuing
  <2> QED
    BY <1>3, <2>2, <2>3, <2>4
<1> QED
  BY <1>2, <1>3 DEF Boot

LEMMA BusyEnd == ASSUME JIT = TRUE, Inv, BusyInv, Stop \/ Crash \/ Exit PROVE BusyInv'
<1>1. CASE Stop
  BY <1>1, BusyIdle DEF Stop, outside, hist, BusyInv, Early
<1>2. CASE Crash \/ Exit
  <2>1. /\ UNCHANGED <<row, forge, hooks, unasked>> /\ \A l \in Lanes : task'[l] = "idle"
    BY <1>2 DEF Crash, Exit, ProcessEnds, hist
  <2>2. row.status = "none" => prov' = "absent"
    BY <1>2 DEF Crash, Exit, ProcessEnds, Inv, Kept, Exists, BusyInv, Early
  <2>3. Early'
    BY <2>1, <2>2 DEF BusyInv, Early
  <2>4. AgentKnown'
    BY <2>1 DEF BusyInv, AgentKnown, Exists, Askers, Asking, Lanes
  <2>5. ForgeFirst'
    BY <2>1 DEF BusyInv, ForgeFirst, Given, Queuers, Askers, Queuing, Lanes
  <2> QED
    BY <2>3, <2>4, <2>5 DEF BusyInv
<1> QED
  BY <1>1, <1>2

LEMMA BusyWorld == ASSUME JIT = TRUE, Inv, BusyInv, World PROVE BusyInv'
<1>1. row \in Rows /\ UNCHANGED <<task, seen, unasked>>
  BY DEF World, Machine, MachineBoots, RunnerOnline, JobEnds, RunnerLost, MachineFails, JobStarts,
     MachineReports, MachineReportsAgent, HookLost, hist, Inv, TypeOK
<1>2. CASE MachineBoots \/ MachineFails
  <2>1. row.status # "none" /\ UNCHANGED <<row, forge, hooks>>
    BY <1>2 DEF MachineBoots, MachineFails, Inv, Kept, Exists, BusyInv, Early
  <2> QED
    BY <1>1, <2>1, BusyIdle
<1>3. CASE RunnerOnline \/ RunnerLost
  <2>1. forge # "absent" /\ row.status # "none" /\ UNCHANGED <<row, hooks>>
    BY <1>3 DEF RunnerOnline, RunnerLost, BusyInv, Early
  <2> QED
    BY <1>1, <2>1, BusyIdle
<1>4. CASE JobStarts
  <2>1. /\ forge # "absent" /\ row.status # "none" /\ UNCHANGED <<row, prov>>
        /\ hooks' = hooks \cup {"in_progress"}
    BY <1>4 DEF JobStarts, BusyInv, Early
  <2>2. ~Given /\ (~unasked => "completed" \notin hooks')
    BY <2>1 DEF Given, BusyInv, ForgeFirst
  <2>3. ForgeFirst'
    BY <1>1, <2>1, <2>2 DEF BusyInv, ForgeFirst, Given
  <2> QED
    BY <1>1, <2>1, <2>3 DEF BusyInv, Early, AgentKnown, Exists
<1>5. CASE JobEnds
  <2>1. forge' = "absent" /\ row.status # "none" /\ UNCHANGED <<row, prov>>
    BY <1>5 DEF JobEnds, BusyInv, Early
  <2>2. Given'
    BY <2>1 DEF Given
  <2>3. ForgeFirst'
    BY <2>1, <2>2 DEF ForgeFirst
  <2> QED
    BY <1>1, <2>1, <2>3 DEF BusyInv, Early, AgentKnown, Exists
<1>6. CASE HookLost
  BY <1>1, <1>6, BusyIdle DEF HookLost, BusyInv, Early
<1>7. CASE MachineReportsAgent \/ \E s \in {"installing", "idle", "failed"} : MachineReports(s)
  <2>1. /\ UNCHANGED <<prov, forge, hooks>>
        /\ Exists /\ row'.agent \in {row.agent, TRUE} /\ row'.status = row.status
    BY <1>1, <1>7 DEF MachineReportsAgent, MachineReports, outside, Rows
  <2> QED
    BY <1>1, <2>1, BusyIdle DEF BusyInv, Early
<1> QED
  BY <1>2, <1>3, <1>4, <1>5, <1>6, <1>7 DEF World, Machine

LEMMA BusyNext == ASSUME JIT = TRUE, Inv, BusyInv, [Next]_vars PROVE BusyInv'
<1>1. CASE UNCHANGED vars
  BY <1>1, BusyIdle DEF vars, outside, hist, BusyInv, Early
<1>2. CASE Next
  BY <1>2, BusyBirth, BusyAdd, BusyDel, BusyRetry, BusyDown, BusyReap, BusyOrphan, BusyGh, BusyApi,
     BusyHook, BusyAgent, BusyBoot, BusyEnd, BusyWorld DEF Next, Clean
<1> QED
  BY <1>1, <1>2

\* deletePendingInstances never asks the provider to destroy the machine of a JIT runner
\* that executes a job, unless its row was queued for deletion while the forge still had
\* the runner: for every set of lanes, every fault of the provider and of the forge and
\* any number of crashes. Only the bypass of the API, an unauthorized answer to Start and
\* the list of the orphan pass queue a row like that (ApiRemove, BootRemove, OrphanCheck).
THEOREM BusyMachineIsKept ==
  ASSUME JIT = TRUE
  PROVE  Spec => []BusyMachineKept
<1>1. Init => BusyInv
  BY BusyInit
<1>2. Inv /\ BusyInv /\ [Next]_vars => BusyInv'
  BY BusyNext
<1>3. BusyInv => BusyMachineKept
  BY DEF BusyInv, ForgeFirst, Given, BusyMachineKept
<1> QED
  BY <1>1, <1>2, <1>3, Invariance, PTL DEF Spec
=============================================================================
