---------------------------- MODULE PoolInstance ----------------------------
(***************************************************************************)
(* The life of ONE instance of a pool: its row in the store, the machine   *)
(* the provider runs for it, the runner the forge knows under its name,    *)
(* and every code path that touches them: the loops of basePoolManager     *)
(* (runner/pool/pool.go), the webhooks, the API, the agent and the start   *)
(* of the manager after a crash.                                           *)
(*                                                                         *)
(* Each code path is a lane.  A lane lists rows, may take the instance's   *)
(* lock, then works in several steps; what it read from the store and uses *)
(* later stays in seen[lane] and may be stale by then.  A transaction of   *)
(* the store, a call of the provider and a call of the forge are one step  *)
(* each.  TryLock and the update that follows it, or the last update and   *)
(* the Unlock, are one step when nothing can be observed in between.       *)
(*                                                                         *)
(* Timeouts (RunnerTimeout, the five minutes of grace, the delete backoff) *)
(* may have passed or not at every step that tests them.                   *)
(***************************************************************************)
EXTENDS Naturals, InstanceStatus

CONSTANTS
    JIT,                \* the runner is registered with a JIT configuration
    MaxCreateAttempts,  \* maxCreateAttempts
    MaxCrashes,         \* bound: how often the process dies or is stopped
    Faults,             \* what may go wrong outside; "bypass": the operator
                        \* passes bypassGHUnauthorized; "jobs": the store cannot
                        \* list the queued jobs
    Active              \* bound: the lanes that take part

\* The loops, AddRunner ("birth"), the API, the webhooks of a job that starts
\* and of one that is done, the agent worker, and Start ("boot").
Lanes == {"birth", "add", "del", "retry", "down", "clean",
          "api", "start", "done", "agent", "boot"}

ASSUME PoolInstanceAssumption ==
    /\ JIT \in BOOLEAN
    /\ MaxCreateAttempts \in Nat
    /\ MaxCrashes \in Nat
    /\ Faults \subseteq {"provider", "forge", "unauthorized", "bypass", "vanish", "losthook",
                          "jobs"}
    /\ Active \subseteq Lanes

VARIABLES
    row,        \* the row of the instance in the store
    prov,       \* the machine at the provider
    forge,      \* the runner at the forge
    hooks,      \* workflow_job deliveries about this runner on their way
    job,        \* the action stored for the job this runner runs
    lock,       \* the lane that holds the instance's lock, "free", or "leaked"
    task,       \* the step each lane is at
    seen,       \* what each lane still uses of the row it read
    seenForge,  \* the runner in the forge's list the clean-up loop works with
    seenProv,   \* the machine in the provider's list it works with
    mode,       \* "down", "boot" (Start before the tools are there), "up" or
                \* "stopping" (the loops end, what they started goes on)
    running,    \* managerIsRunning
    crashes,    \* how often the process died
    removedBy,  \* history: which path deleted the row
    unasked     \* history: the row was queued for deletion while the forge
                \* still had the runner

outside == <<prov, forge, hooks, job>>
lists == <<seenForge, seenProv>>
process == <<mode, running, crashes>>
hist == <<removedBy, unasked>>
vars == <<row, outside, lock, task, seen, lists, process, hist>>

\* "none": not inserted yet, "gone": deleted.  Names are never reused.
Rows == [status : Statuses \cup {"none", "gone"}, runner : RunnerStatuses,
         attempt : 0..MaxCreateAttempts, agent : BOOLEAN]

NoRow == [status |-> "none", runner |-> "pending", attempt |-> 0, agent |-> FALSE]

\* The steps at which a lane holds the lock, and the others it has.
LockedSteps ==
    [l \in Lanes |->
        CASE l = "add" -> {"create", "record", "record_error", "undo", "undo_last", "fail"}
          [] l = "del" -> {"jitter", "delete", "drop", "restore"}
          [] l = "retry" -> {"clean", "requeue"}
          [] l = "down" -> {"remove", "mark"}
          [] l = "clean" -> {"remove", "mark", "gh_remove", "gh_drop", "gh_start"}
          [] OTHER -> {}]
UnlockedSteps ==
    [l \in Lanes |->
        CASE l \in {"add", "del", "retry"} -> {"idle", "seen"}
          [] l = "down" -> {"idle", "seen", "remove_late", "mark_late"}
          [] l = "clean" -> {"idle", "reap", "reap_seen", "orphan", "orphan_seen", "gh", "gh_read"}
          [] l = "birth" -> {"idle", "insert"}
          [] l = "api" -> {"idle", "remove", "remove_force", "mark", "mark_force"}
          [] l = "start" -> {"idle", "activate"}
          [] l = "done" -> {"idle", "terminate", "mark"}
          [] l = "agent" -> {"idle", "mark"}
          [] l = "boot" -> {"idle", "remove", "mark"}]
Steps == UNION {LockedSteps[l] \cup UnlockedSteps[l] : l \in Lanes}

Init ==
    /\ row = NoRow
    /\ prov = "absent"
    /\ forge = "absent"
    /\ hooks = {}
    /\ job = "none"
    /\ lock = "free"
    /\ task = [l \in Lanes |-> "idle"]
    /\ seen = [l \in Lanes |-> NoRow]
    /\ seenForge = "absent"
    /\ seenProv = "unknown"
    /\ mode = "up"
    /\ running = TRUE
    /\ crashes = 0
    /\ removedBy = "nobody"
    /\ unasked = FALSE

-----------------------------------------------------------------------------
\* What the lanes share.

Exists == row.status \notin {"none", "gone"}

\* UpdateInstance(status): refused, without effect, when the row is gone or the
\* transition is not in the table.
Accepts(s) == Exists /\ InstanceMayBecome(row.status, s)
UpdateStatus(s) == row' = IF Accepts(s) THEN [row EXCEPT !.status = s] ELSE row

\* ForceUpdateInstance(status): only a missing row refuses it.
ForceStatus(s) == row' = IF Exists THEN [row EXCEPT !.status = s] ELSE row

\* DeleteInstance
DropRow == row' = IF Exists THEN [row EXCEPT !.status = "gone"] ELSE row

Free(l) == l \in Active /\ task[l] = "idle"
Goto(l, step) == task' = [task EXCEPT ![l] = step]
Remember(l, r) == seen' = [seen EXCEPT ![l] = r]
Finish(l) == Goto(l, "idle") /\ Remember(l, NoRow)
Unlock == lock' = "free"
Release(l) == lock' = IF lock = l THEN "free" ELSE lock

\* TryLock(name): go on with the lock, or leave the row for the next pass.
TryLock(l, step) ==
    \/ lock = "free" /\ lock' = l /\ Goto(l, step) /\ UNCHANGED seen
    \/ lock # "free" /\ Finish(l) /\ UNCHANGED lock

\* Mutant: a pass that ends early keeps the lock.
EndPassKeepsLock ==
    /\ Finish("clean")
    /\ UNCHANGED lock
    /\ seenForge' = "absent" /\ seenProv' = "unknown"

\* The clean-up loop is done with this pass: it forgets the lists it fetched.
EndPass ==
    /\ Finish("clean")
    /\ Release("clean")
    /\ seenForge' = "absent" /\ seenProv' = "unknown"

\* provider.DeleteInstance, by provider ID or by name
ProviderDeletes == prov' = "absent"
ProviderRefuses == "provider" \in Faults /\ UNCHANGED prov

\* ghcli.RemoveEntityRunner(agentID): not called when the agent ID is unknown.
\* "Not found" counts as removed; the forge refuses to remove a busy runner.
ForgeRemoves(agent) ==
    /\ agent => forge # "busy"
    /\ forge' = IF agent THEN "absent" ELSE forge
ForgeRefuses(agent) ==
    agent /\ (forge = "busy" \/ "forge" \in Faults) /\ UNCHANGED forge
ForgeUnauthorized(agent) ==
    agent /\ "unauthorized" \in Faults /\ UNCHANGED forge

\* The call fails in a loop, which stops the manager when it is unauthorized.
ForgeFailsLoop(agent) ==
    \/ ForgeRefuses(agent) /\ UNCHANGED running
    \/ ForgeUnauthorized(agent) /\ running' = FALSE

\* A loop that is not alwaysRun starts an iteration.
LoopsRun == mode = "up" /\ running

-----------------------------------------------------------------------------
\* AddRunner: register with the forge (JIT), then insert the row.

\* GetEntityJITConfig
AddRunnerRegister ==
    /\ LoopsRun
    /\ Free("birth") /\ row.status = "none" /\ forge = "absent"
    /\ forge' = IF JIT THEN "offline" ELSE forge
    /\ Goto("birth", "insert")
    /\ UNCHANGED <<row, prov, hooks, job, lock, seen, lists, process, hist>>

\* CreateInstance; the deferred function removes the runner when it fails.
\* The row starts at attempt 0: CreateInstance does not store CreateAttempt.
AddRunnerInsert ==
    /\ task["birth"] = "insert"
    /\ \/ /\ row' = [status |-> "pending_create", runner |-> "pending",
                     attempt |-> 0, agent |-> JIT]
          /\ UNCHANGED forge
       \/ /\ ForgeRemoves(JIT) \/ ForgeRefuses(JIT) \/ ForgeUnauthorized(JIT)
          /\ row' = [NoRow EXCEPT !.status = "gone"]
    /\ Finish("birth")
    /\ UNCHANGED <<prov, hooks, job, lock, lists, process, hist>>

-----------------------------------------------------------------------------
\* addPendingInstances and addInstanceToProvider

AddList ==
    /\ LoopsRun
    /\ Free("add") /\ row.status = "pending_create"
    /\ Goto("add", "seen")
    /\ UNCHANGED <<row, outside, lock, seen, lists, process, hist>>

\* TryLock, then UpdateInstance(creating) before the goroutine is started.
AddBegin ==
    /\ task["add"] = "seen"
    /\ \/ /\ lock = "free" /\ Accepts("creating")
          /\ lock' = "add"
          /\ UpdateStatus("creating")
          /\ Goto("add", "create")
       \/ /\ lock # "free" \/ ~Accepts("creating")
          /\ Goto("add", "idle")
          /\ UNCHANGED <<row, lock>>
    /\ UNCHANGED <<outside, seen, lists, process, hist>>

\* provider.CreateInstance returned: a machine, a machine in error, or an error.
\* The machine may be alive long before the call returns (see MachineBoots).
CreateReturns ==
    /\ task["add"] = "create"
    /\ \/ prov # "absent" /\ Goto("add", "record")
       \/ "provider" \in Faults /\ Goto("add", "record_error")
       \/ "provider" \in Faults /\ Goto("add", "undo")
    /\ UNCHANGED <<row, outside, lock, seen, lists, process, hist>>

\* UpdateInstance with what the provider returned
AddRecord ==
    /\ task["add"] = "record"
    /\ UpdateStatus("running")
    /\ \/ Accepts("running") /\ Goto("add", "idle") /\ Unlock
       \/ ~Accepts("running") /\ Goto("add", "fail") /\ UNCHANGED lock
    /\ UNCHANGED <<outside, seen, lists, process, hist>>

AddRecordError ==
    /\ task["add"] = "record_error"
    /\ UpdateStatus("error")
    /\ Goto("add", IF Accepts("error") THEN "undo_last" ELSE "undo")
    /\ UNCHANGED <<outside, lock, seen, lists, process, hist>>

\* the deferred provider.DeleteInstance, whose failure is only logged
AddUndo ==
    /\ \/ task["add"] = "undo" /\ Goto("add", "fail") /\ UNCHANGED lock
       \/ task["add"] = "undo_last" /\ Goto("add", "idle") /\ Unlock
    /\ ProviderDeletes \/ ProviderRefuses
    /\ UNCHANGED <<row, forge, hooks, job, seen, lists, process, hist>>

\* setInstanceStatus(error), not forced
AddFail ==
    /\ task["add"] = "fail"
    /\ UpdateStatus("error")
    /\ Goto("add", "idle") /\ Unlock
    /\ UNCHANGED <<outside, seen, lists, process, hist>>

-----------------------------------------------------------------------------
\* deletePendingInstances: runs even when the manager does not.

DelList ==
    /\ mode = "up"
    /\ Free("del") /\ row.status \in {"pending_delete", "pending_force_delete"}
    /\ Goto("del", "seen") /\ Remember("del", [NoRow EXCEPT !.status = row.status])
    /\ UNCHANGED <<row, outside, lock, lists, process, hist>>

\* Mutant: the result of TryLock is not looked at.
DelBeginUnlocked ==
    /\ task["del"] = "seen"
    /\ lock' = "del" /\ Goto("del", "jitter") /\ UNCHANGED seen
    /\ UNCHANGED <<row, outside, lists, process, hist>>

\* TryLock; the backoff of an earlier failure may still be in effect
DelBegin ==
    /\ task["del"] = "seen"
    /\ \/ TryLock("del", "jitter")
       \/ "provider" \in Faults /\ Finish("del") /\ UNCHANGED lock
    /\ UNCHANGED <<row, outside, lists, process, hist>>

\* after up to two seconds of jitter: ForceUpdateInstance(deleting).  A jitter that the
\* end of the manager cuts short returns before the Unlock is deferred.  (rand.Int
\* returns there too, but crypto/rand no longer fails.)
DelMark ==
    /\ task["del"] = "jitter"
    /\ \/ /\ ForceStatus("deleting")
          /\ \/ Exists /\ Goto("del", "delete") /\ UNCHANGED <<seen, lock>>
             \/ ~Exists /\ Finish("del") /\ Unlock
       \/ mode = "stopping" /\ Finish("del") /\ lock' = "leaked" /\ UNCHANGED row
    /\ UNCHANGED <<outside, lists, process, hist>>

\* Mutant: every delete ignores the provider's error.
DelProviderUnchecked ==
    /\ task["del"] = "delete"
    /\ ProviderDeletes \/ ProviderRefuses
    /\ Goto("del", "drop")
    /\ UNCHANGED <<row, forge, hooks, job, lock, seen, lists, process, hist>>

\* deleteInstanceFromProvider; a forced delete ignores its error
DelProvider ==
    /\ task["del"] = "delete"
    /\ \/ ProviderDeletes /\ Goto("del", "drop")
       \/ /\ ProviderRefuses
          /\ Goto("del", IF seen["del"].status = "pending_force_delete"
                         THEN "drop" ELSE "restore")
    /\ UNCHANGED <<row, forge, hooks, job, lock, seen, lists, process, hist>>

\* DeleteInstance, then Unlock(remove)
DelDrop ==
    /\ task["del"] = "drop"
    /\ DropRow
    /\ removedBy' = IF ~Exists THEN removedBy
                    ELSE IF seen["del"].status = "pending_force_delete"
                         THEN "force" ELSE "delete"
    /\ Finish("del") /\ Unlock
    /\ UNCHANGED <<outside, lists, process, unasked>>

\* Mutant: a failed delete is recorded as an error of the instance, which is what the
\* comment of InstanceIsBeingDeleted says of it (README, section 5).
DelRestoreError ==
    /\ task["del"] = "restore"
    /\ ForceStatus("error")
    /\ Finish("del") /\ Unlock
    /\ UNCHANGED <<outside, lists, process, hist>>

\* the deferred function puts back the status that was listed
DelRestore ==
    /\ task["del"] = "restore"
    /\ ForceStatus(seen["del"].status)
    /\ Finish("del") /\ Unlock
    /\ UNCHANGED <<outside, lists, process, hist>>

-----------------------------------------------------------------------------
\* retryFailedInstancesForOnePool

\* Mutant: the number of attempts is not looked at.
RetryListUnbounded ==
    /\ LoopsRun
    /\ Free("retry") /\ row.status = "error"
    /\ Goto("retry", "seen") /\ Remember("retry", [NoRow EXCEPT !.attempt = row.attempt])
    /\ UNCHANGED <<row, outside, lock, lists, process, hist>>

RetryList ==
    /\ LoopsRun
    /\ Free("retry") /\ row.status = "error" /\ row.attempt < MaxCreateAttempts
    /\ Goto("retry", "seen") /\ Remember("retry", [NoRow EXCEPT !.attempt = row.attempt])
    /\ UNCHANGED <<row, outside, lock, lists, process, hist>>

RetryBegin ==
    /\ task["retry"] = "seen"
    /\ TryLock("retry", "clean")
    /\ UNCHANGED <<row, outside, lists, process, hist>>

RetryClean ==
    /\ task["retry"] = "clean"
    /\ \/ ProviderDeletes /\ Goto("retry", "requeue") /\ UNCHANGED <<seen, lock>>
       \/ ProviderRefuses /\ Finish("retry") /\ Unlock
    /\ UNCHANGED <<row, forge, hooks, job, lists, process, hist>>

\* ForceUpdateInstance with the attempt computed from the row that was listed
RetryRequeue ==
    /\ task["retry"] = "requeue"
    /\ row' = IF Exists
              THEN [row EXCEPT !.status = "pending_create", !.runner = "pending",
                               !.attempt = seen["retry"].attempt + 1]
              ELSE row
    /\ Finish("retry") /\ Unlock
    /\ UNCHANGED <<outside, lists, process, hist>>

-----------------------------------------------------------------------------
\* scaleDownOnePool (which idle runners are surplus is PoolScaling's subject)

DownList ==
    /\ LoopsRun
    /\ Free("down") /\ row.status = "running" /\ row.runner = "idle"
    /\ Goto("down", "seen") /\ Remember("down", [NoRow EXCEPT !.agent = row.agent])
    /\ UNCHANGED <<row, outside, lock, lists, process, hist>>

DownBegin ==
    /\ task["down"] = "seen"
    /\ TryLock("down", "remove")
    /\ UNCHANGED <<row, outside, lists, process, hist>>

\* Mutant: the runner is marked although the forge refused to remove it.
DeleteRunnerAnyway(l, done) ==
    /\ task[l] \in {"remove", "remove_late"}
    /\ \/ ForgeRemoves(seen[l].agent) \/ ForgeRefuses(seen[l].agent)
    /\ Goto(l, IF task[l] = "remove" THEN "mark" ELSE "mark_late")
    /\ UNCHANGED <<seen, lock, running, lists>>
    /\ UNCHANGED <<row, prov, hooks, job, mode, crashes, hist>>

\* DeleteRunner, first half: remove the runner from the forge.  done stands for
\* what the caller does with an error.
DeleteRunnerForge(l, done) ==
    /\ task[l] \in {"remove", "remove_late"}
    /\ \/ /\ running /\ ForgeRemoves(seen[l].agent)
          /\ Goto(l, IF task[l] = "remove" THEN "mark" ELSE "mark_late")
          /\ UNCHANGED <<seen, lock, running, lists>>
       \/ ~running /\ UNCHANGED <<forge, running>> /\ done
       \/ running /\ ForgeFailsLoop(seen[l].agent) /\ done
    /\ UNCHANGED <<row, prov, hooks, job, mode, crashes, hist>>

DownRemove == DeleteRunnerForge("down", Finish("down") /\ Release("down") /\ UNCHANGED lists)

\* DeleteRunner, second half: ForceUpdateInstance(pending_delete)
DownMark ==
    /\ task["down"] \in {"mark", "mark_late"}
    /\ ForceStatus("pending_delete")
    /\ Finish("down") /\ Release("down")
    /\ UNCHANGED <<outside, lists, process, hist>>

\* scaleDownOnePool cannot list the queued jobs and returns: its deferred Unlocks run
\* while the goroutine is still at work.  (The next pass is modelled after its end.)
DownReturnsEarly ==
    /\ "jobs" \in Faults
    /\ task["down"] \in {"remove", "mark"}
    /\ Goto("down", IF task["down"] = "remove" THEN "remove_late" ELSE "mark_late")
    /\ Unlock
    /\ UNCHANGED <<row, outside, seen, lists, process, hist>>

-----------------------------------------------------------------------------
\* runnerCleanup: one pass of GetGithubRunners, reapTimedOutRunners,
\* cleanupOrphanedProviderRunners and cleanupOrphanedGithubRunners, all three
\* working with the list of runners fetched first.

CleanList ==
    /\ LoopsRun
    /\ Free("clean")
    /\ seenForge' = forge
    /\ Goto("clean", "reap")
    /\ UNCHANGED <<row, outside, lock, seen, seenProv, process, hist>>

\* reapTimedOutRunners lists the rows ...
ReapList ==
    /\ task["clean"] = "reap"
    /\ \/ /\ Exists /\ Goto("clean", "reap_seen")
          /\ Remember("clean", [NoRow EXCEPT !.agent = row.agent])
       \/ ~Exists /\ Goto("clean", "orphan") /\ UNCHANGED seen
    /\ UNCHANGED <<row, outside, lock, lists, process, hist>>

\* ... and calls DeleteRunner for one that timed out, whatever its status is
ReapCheck ==
    /\ task["clean"] = "reap_seen"
    /\ \/ Goto("clean", "orphan") /\ UNCHANGED lock
       \/ /\ lock = "free" /\ seenForge \in {"absent", "offline"}
          /\ lock' = "clean"
          /\ Goto("clean", "remove")
    /\ UNCHANGED <<row, outside, seen, lists, process, hist>>

ReapRemove == DeleteRunnerForge("clean", EndPass)

ReapMark ==
    /\ task["clean"] = "mark"
    /\ ForceStatus("pending_delete")
    /\ Unlock
    /\ Goto("clean", "orphan")
    /\ UNCHANGED <<outside, seen, lists, process, hist>>

\* cleanupOrphanedProviderRunners lists the rows ...
OrphanList ==
    /\ task["clean"] = "orphan"
    /\ Goto("clean", IF Exists THEN "orphan_seen" ELSE "gh")
    /\ Remember("clean", [NoRow EXCEPT !.status = row.status, !.runner = row.runner])
    /\ UNCHANGED <<row, outside, lock, lists, process, hist>>

\* Mutant: a row in running is never an orphan.
OrphanWaitsRunning == {"pending_create", "pending_delete", "pending_force_delete", "running"}

\* ... and forces pending_delete on a row whose runner is not in the list.  A
\* runner that is still installing is only left alone while it is young.
OrphanWaits == {"pending_create", "pending_delete", "pending_force_delete"}
OrphanCheck ==
    /\ task["clean"] = "orphan_seen"
    /\ \/ /\ \/ lock # "free"
             \/ seen["clean"].status \in OrphanWaits
             \/ seen["clean"].runner \in {"pending", "installing"}
             \/ seenForge # "absent"
          /\ Goto("clean", "gh")
          /\ UNCHANGED <<row, seen, lock, lists, unasked>>
       \/ /\ lock = "free" /\ seen["clean"].status \notin OrphanWaits
          /\ seenForge = "absent"
          /\ ForceStatus("pending_delete")
          /\ unasked' = (unasked \/ forge # "absent")
          /\ \/ Exists /\ Goto("clean", "gh") /\ UNCHANGED <<seen, lock, lists>>
             \/ ~Exists /\ EndPass
    /\ UNCHANGED <<outside, process, removedBy>>

\* cleanupOrphanedGithubRunners: only runners listed as offline matter.  The
\* provider's list is fetched once per pool and pass, before or after the row
\* is read.
GhListProvider ==
    /\ task["clean"] \in {"gh", "gh_read"}
    /\ seenForge = "offline" /\ seenProv = "unknown"
    /\ seenProv' = prov
    /\ UNCHANGED <<row, outside, lock, task, seen, seenForge, process, hist>>

\* "running" is skipped only when the row was updated less than 5 minutes ago
GhWaits == {"pending_delete", "deleting", "pending_create", "creating"}
GhRead ==
    /\ task["clean"] = "gh"
    /\ \/ /\ seenForge # "offline" \/ row.status \in GhWaits \cup {"running"}
          /\ EndPass
          /\ UNCHANGED <<forge, running>>
       \/ /\ seenForge = "offline" /\ ~Exists
          /\ (ForgeRemoves(TRUE) /\ UNCHANGED running) \/ ForgeFailsLoop(TRUE)
          /\ EndPass
       \/ /\ seenForge = "offline" /\ Exists /\ row.status \notin GhWaits
          /\ Goto("clean", "gh_read")
          /\ Remember("clean", [NoRow EXCEPT !.status = row.status])
          /\ UNCHANGED <<forge, running, lock, lists>>
    /\ UNCHANGED <<row, prov, hooks, job, mode, crashes, hist>>

\* TryLock, then act on the provider's list
GhBegin ==
    /\ task["clean"] = "gh_read" /\ seenProv # "unknown"
    /\ \/ (lock # "free" \/ seenProv = "running") /\ EndPass
       \/ /\ lock = "free" /\ seenProv # "running"
          /\ lock' = "clean"
          /\ Goto("clean", IF seenProv = "absent" THEN "gh_remove" ELSE "gh_start")
          /\ UNCHANGED <<seen, lists>>
    /\ UNCHANGED <<row, outside, process, hist>>

GhRemove ==
    /\ task["clean"] = "gh_remove"
    /\ \/ /\ ForgeRemoves(TRUE)
          /\ Goto("clean", "gh_drop")
          /\ UNCHANGED <<seen, lock, lists, running>>
       \/ ForgeFailsLoop(TRUE) /\ EndPass
    /\ UNCHANGED <<row, prov, hooks, job, mode, crashes, hist>>

\* DeleteInstance
GhDrop ==
    /\ task["clean"] = "gh_drop"
    /\ DropRow
    /\ removedBy' = IF Exists THEN "orphan" ELSE removedBy
    /\ EndPass
    /\ UNCHANGED <<outside, process, unasked>>

\* provider.Start
GhStart ==
    /\ task["clean"] = "gh_start"
    /\ \/ prov' = IF prov = "stopped" THEN "running" ELSE prov
       \/ ProviderRefuses
    /\ EndPass
    /\ UNCHANGED <<row, forge, hooks, job, process, hist>>

-----------------------------------------------------------------------------
\* Runner.DeleteRunner (API): no lock

ApiRead(force) ==
    /\ mode # "down"
    /\ Free("api") /\ row.status \in {"running", "error", "pending_force_delete", "pending_delete"}
    /\ Goto("api", IF force THEN "remove_force" ELSE "remove")
    /\ Remember("api", [NoRow EXCEPT !.agent = row.agent])
    /\ UNCHANGED <<row, outside, lock, lists, process, hist>>

\* bypassGithubUnauthorized ignores every error, not only an unauthorized one.
ApiRemove ==
    /\ task["api"] \in {"remove", "remove_force"}
    /\ \/ /\ \/ ForgeRemoves(seen["api"].agent) /\ UNCHANGED <<running, unasked>>
             \/ /\ "bypass" \in Faults /\ ForgeFailsLoop(seen["api"].agent)
                /\ unasked' = (unasked \/ forge # "absent")
          /\ Goto("api", IF task["api"] = "remove" THEN "mark" ELSE "mark_force")
          /\ UNCHANGED seen
       \/ ForgeFailsLoop(seen["api"].agent) /\ Finish("api") /\ UNCHANGED unasked
    /\ UNCHANGED <<row, prov, hooks, job, lock, lists, mode, crashes, removedBy>>

\* UpdateInstance, not forced
ApiMark ==
    /\ \/ task["api"] = "mark" /\ UpdateStatus("pending_delete")
       \/ task["api"] = "mark_force" /\ UpdateStatus("pending_force_delete")
    /\ Finish("api")
    /\ UNCHANGED <<outside, lock, lists, process, hist>>

-----------------------------------------------------------------------------
\* HandleWorkflowJob, as far as it touches the instance: no lock.  Deliveries
\* are handled concurrently.

\* persistJobToDB refuses to go back from completed
HookStart ==
    /\ mode # "down"
    /\ Free("start") /\ "in_progress" \in hooks
    /\ hooks' = hooks \ {"in_progress"}
    /\ \/ job # "completed" /\ job' = "in_progress" /\ Goto("start", "activate")
       \/ job = "completed" /\ UNCHANGED <<job, task>>
    /\ UNCHANGED <<row, prov, forge, lock, seen, lists, process, hist>>

\* handleInProgressJob: ForceUpdateInstance(runner active)
HookActivate ==
    /\ task["start"] = "activate"
    /\ row' = IF Exists THEN [row EXCEPT !.runner = "active"] ELSE row
    /\ Goto("start", "idle")
    /\ UNCHANGED <<outside, lock, seen, lists, process, hist>>

HookDone ==
    /\ mode # "down"
    /\ Free("done") /\ "completed" \in hooks
    /\ hooks' = hooks \ {"completed"}
    /\ job' = "completed"
    /\ Goto("done", "terminate")
    /\ UNCHANGED <<row, prov, forge, lock, seen, lists, process, hist>>

\* handleCompletedJob: ForceUpdateInstance(runner terminated) ...
HookTerminate ==
    /\ task["done"] = "terminate"
    /\ row' = IF Exists THEN [row EXCEPT !.runner = "terminated"] ELSE row
    /\ Goto("done", IF Exists THEN "mark" ELSE "idle")
    /\ UNCHANGED <<outside, lock, seen, lists, process, hist>>

\* ... then UpdateInstance(pending_delete), not forced
HookMark ==
    /\ task["done"] = "mark"
    /\ UpdateStatus("pending_delete")
    /\ Goto("done", "idle")
    /\ UNCHANGED <<outside, lock, seen, lists, process, hist>>

-----------------------------------------------------------------------------
\* The agent on the machine reports that the runner is done: handleStatusMessage
\* of the agent worker, then SetInstanceToPendingDelete under the lock.

AgentTerminated ==
    /\ mode # "down"
    /\ Free("agent")
    /\ Exists /\ prov = "running" /\ forge = "absent" /\ row.runner \in {"idle", "active"}
    /\ row' = [row EXCEPT !.runner = "terminated"]
    /\ Goto("agent", "mark")
    /\ UNCHANGED <<outside, lock, seen, lists, process, hist>>

AgentMark ==
    /\ task["agent"] = "mark"
    /\ lock = "free"
    /\ UpdateStatus("pending_delete")
    /\ Goto("agent", "idle")
    /\ UNCHANGED <<outside, lock, seen, lists, process, hist>>

-----------------------------------------------------------------------------
\* Runner.Stop: the managers' loops start no new pass.
Stop ==
    /\ mode \in {"boot", "up"} /\ crashes < MaxCrashes
    /\ crashes' = crashes + 1
    /\ mode' = "stopping"
    /\ UNCHANGED <<row, outside, lock, task, seen, lists, running, hist>>

\* The process ends.  A provider call it was making takes effect now or never.
ProcessEnds ==
    /\ mode' = "down"
    /\ running' = FALSE
    /\ lock' = "free"
    /\ task' = [l \in Lanes |-> "idle"]
    /\ seen' = [l \in Lanes |-> NoRow]
    /\ seenForge' = "absent" /\ seenProv' = "unknown"
    /\ \/ UNCHANGED prov
       \/ task["add"] = "create" /\ prov' = "running"
       \/ task["del"] = "delete" /\ prov' = "absent"
    /\ UNCHANGED <<row, forge, hooks, job, hist>>

Crash ==
    /\ mode \in {"boot", "up"} /\ crashes < MaxCrashes
    /\ crashes' = crashes + 1
    /\ ProcessEnds

\* A process that was stopped ends whatever its lanes are at.
Exit == mode = "stopping" /\ UNCHANGED crashes /\ ProcessEnds

\* Mutant: only interrupted deletions are cleaned up.
BootStartDeleting ==
    /\ mode = "down"
    /\ mode' = "boot"
    /\ \/ /\ row.status = "deleting"
          /\ Goto("boot", "remove") /\ Remember("boot", [NoRow EXCEPT !.agent = row.agent])
       \/ row.status # "deleting" /\ UNCHANGED <<task, seen>>
    /\ UNCHANGED <<row, outside, lock, lists, running, crashes, hist>>

\* Start: cleanupRunnersInterruptedInFlight calls DeleteRunner, ignoring an
\* unauthorized forge, for a row left in creating or deleting
BootStart ==
    /\ mode = "down"
    /\ mode' = "boot"
    /\ \/ /\ row.status \in {"creating", "deleting"}
          /\ Goto("boot", "remove") /\ Remember("boot", [NoRow EXCEPT !.agent = row.agent])
       \/ row.status \notin {"creating", "deleting"} /\ UNCHANGED <<task, seen>>
    /\ UNCHANGED <<row, outside, lock, lists, running, crashes, hist>>

\* Mutant: any error of the forge is ignored.
BootRemoveAnyway ==
    /\ task["boot"] = "remove"
    /\ ForgeRemoves(seen["boot"].agent) \/ ForgeRefuses(seen["boot"].agent)
    /\ Goto("boot", "mark")
    /\ UNCHANGED <<row, prov, hooks, job, seen, lock, lists, process, hist>>

BootRemove ==
    /\ task["boot"] = "remove"
    /\ \/ /\ \/ ForgeRemoves(seen["boot"].agent) /\ UNCHANGED unasked
             \/ /\ ForgeUnauthorized(seen["boot"].agent)
                /\ unasked' = (unasked \/ forge # "absent")
          /\ Goto("boot", "mark")
          /\ UNCHANGED seen
       \/ ForgeRefuses(seen["boot"].agent) /\ Finish("boot") /\ UNCHANGED unasked
    /\ UNCHANGED <<row, prov, hooks, job, lock, lists, process, removedBy>>

BootMark ==
    /\ task["boot"] = "mark"
    /\ ForceStatus("pending_delete")
    /\ Finish("boot")
    /\ UNCHANGED <<outside, lock, lists, process, hist>>

\* the tools are cached: the loops start
BootTools ==
    /\ mode = "boot" /\ task["boot"] = "idle"
    /\ mode' = "up" /\ running' = TRUE
    /\ UNCHANGED <<row, outside, lock, task, seen, lists, crashes, hist>>

\* updateTools re-enables a manager that an unauthorized answer stopped
UpdateTools ==
    /\ mode = "up" /\ ~running
    /\ running' = TRUE
    /\ UNCHANGED <<row, outside, lock, task, seen, lists, mode, crashes, hist>>

-----------------------------------------------------------------------------
\* The world outside: the machine, the runner on it, and the forge.

MachineBoots ==
    /\ task["add"] = "create" /\ prov = "absent"
    /\ prov' = "running"
    /\ UNCHANGED <<row, forge, hooks, job, lock, task, seen, lists, process, hist>>

MachineFails ==
    /\ "vanish" \in Faults /\ prov = "running"
    /\ prov' \in {"absent", "stopped"}
    /\ UNCHANGED <<row, forge, hooks, job, lock, task, seen, lists, process, hist>>

RunnerOnline ==
    /\ prov = "running"
    /\ \/ JIT /\ forge = "offline"
       \/ /\ ~JIT /\ forge = "absent"
          /\ Exists /\ row.runner \in {"pending", "installing"} /\ ~row.agent
    /\ forge' = "idle"
    /\ UNCHANGED <<row, prov, hooks, job, lock, task, seen, lists, process, hist>>

JobStarts ==
    /\ prov = "running" /\ forge = "idle"
    /\ forge' = "busy"
    /\ hooks' = hooks \cup {"in_progress"}
    /\ UNCHANGED <<row, prov, job, lock, task, seen, lists, process, hist>>

\* the runner is ephemeral: the forge forgets it after its job
JobEnds ==
    /\ forge = "busy"
    /\ forge' = "absent"
    /\ hooks' = hooks \cup {"completed"}
    /\ UNCHANGED <<row, prov, job, lock, task, seen, lists, process, hist>>

RunnerLost ==
    /\ prov # "running" /\ forge = "idle"
    /\ forge' = "offline"
    /\ UNCHANGED <<row, prov, hooks, job, lock, task, seen, lists, process, hist>>

\* AddInstanceStatusMessage: UpdateInstance(runner status), not forced
MachineReports(s) ==
    /\ mode # "down"
    /\ Exists /\ prov = "running"
    /\ s = "idle" => forge \in {"idle", "busy"}
    /\ row.runner # s /\ RunnerMayBecome(row.runner, s)
    /\ row' = [row EXCEPT !.runner = s]
    /\ UNCHANGED <<outside, lock, task, seen, lists, process, hist>>

\* UpdateSystemInfo with the agent ID
MachineReportsAgent ==
    /\ mode # "down"
    /\ Exists /\ prov = "running" /\ forge \in {"idle", "busy"}
    /\ row' = [row EXCEPT !.agent = TRUE]
    /\ UNCHANGED <<outside, lock, task, seen, lists, process, hist>>

HookLost ==
    /\ "losthook" \in Faults \/ mode = "down"
    /\ \E h \in hooks : hooks' = hooks \ {h}
    /\ UNCHANGED <<row, prov, forge, job, lock, task, seen, lists, process, hist>>

-----------------------------------------------------------------------------
Birth == AddRunnerRegister \/ AddRunnerInsert
Add == AddList \/ AddBegin \/ CreateReturns \/ AddRecord \/ AddRecordError
       \/ AddUndo \/ AddFail
Del == DelList \/ DelBegin \/ DelMark \/ DelProvider \/ DelDrop \/ DelRestore
Retry == RetryList \/ RetryBegin \/ RetryClean \/ RetryRequeue
Down == DownList \/ DownBegin \/ DownRemove \/ DownMark \/ DownReturnsEarly
Reap == CleanList \/ ReapList \/ ReapCheck \/ ReapRemove \/ ReapMark
Orphan == OrphanList \/ OrphanCheck
GhLook == GhListProvider \/ GhRead \/ GhBegin
GhAct == GhRemove \/ GhDrop \/ GhStart
Clean == Reap \/ Orphan \/ GhLook \/ GhAct
Api == (\E force \in BOOLEAN : ApiRead(force)) \/ ApiRemove \/ ApiMark
Hook == HookStart \/ HookActivate \/ HookDone \/ HookTerminate \/ HookMark
Agent == AgentTerminated \/ AgentMark
Boot == BootStart \/ BootRemove \/ BootMark \/ BootTools \/ UpdateTools
Machine == MachineBoots \/ RunnerOnline \/ JobEnds \/ RunnerLost
World == Machine \/ MachineFails \/ JobStarts
         \/ (\E s \in {"installing", "idle", "failed"} : MachineReports(s))
         \/ MachineReportsAgent \/ HookLost

Next == Birth \/ Add \/ Del \/ Retry \/ Down \/ Clean \/ Api \/ Hook \/ Agent
        \/ Boot \/ Stop \/ Crash \/ Exit \/ World

Spec == Init /\ [][Next]_vars

\* Goroutines run, loops tick and the world outside moves on.  The call that creates
\* a machine has a deadline, also when the machine fails again and again.  A row that is
\* tried often enough while its lock is free is locked, and a timeout that is
\* tested often enough has passed.
Fairness ==
    /\ WF_vars(Birth) /\ SF_vars(Add) /\ WF_vars(Del) /\ WF_vars(Retry)
    /\ WF_vars(Clean) /\ WF_vars(Boot) /\ WF_vars(Exit) /\ WF_vars(Hook)
    /\ WF_vars(MachineBoots) /\ WF_vars(RunnerOnline) /\ WF_vars(JobEnds) /\ WF_vars(RunnerLost)
    /\ SF_vars(DelList /\ lock = "free") /\ SF_vars(DelBegin /\ lock' = "del")
    /\ SF_vars(OrphanCheck /\ row' # row)

FairSpec == Spec /\ Fairness

-----------------------------------------------------------------------------
TaskOK ==
    /\ task \in [Lanes -> Steps]
    /\ \A l \in Lanes : task[l] \in LockedSteps[l] \cup UnlockedSteps[l]
OutsideOK ==
    /\ prov \in {"absent", "running", "stopped"}
    /\ forge \in {"absent", "offline", "idle", "busy"}
    /\ hooks \subseteq {"in_progress", "completed"}
    /\ job \in {"none", "in_progress", "completed"}
ProcessOK ==
    /\ lock \in Lanes \cup {"free", "leaked"}
    /\ seenForge \in {"absent", "offline", "idle", "busy"}
    /\ seenProv \in {"unknown", "absent", "running", "stopped"}
    /\ mode \in {"down", "boot", "up", "stopping"}
    /\ running \in BOOLEAN
    /\ crashes \in 0..MaxCrashes
HistoryOK ==
    /\ removedBy \in {"nobody", "delete", "force", "orphan"}
    /\ unasked \in BOOLEAN

\* The row, the lanes and the lists hold what they may hold; no row counts more
\* create attempts than maxCreateAttempts.
TypeOK ==
    /\ row \in Rows
    /\ seen \in [Lanes -> Rows]
    /\ TaskOK
    /\ OutsideOK
    /\ ProcessOK
    /\ HistoryOK

\* The lane is inside a call of the provider for this instance.
CallsProvider(l) ==
    \/ l = "add" /\ task[l] \in {"create", "undo", "undo_last"}
    \/ l = "del" /\ task[l] = "delete"
    \/ l = "retry" /\ task[l] = "clean"
    \/ l = "clean" /\ task[l] = "gh_start"

\* No two code paths are inside a provider call for one instance: a create, a
\* retry's clean-up, a delete and a start exclude each other, although each of
\* them decided to act on a row it read before it had the lock.
OneProviderCall ==
    \A l, k \in Lanes : CallsProvider(l) /\ CallsProvider(k) => l = k

\* The lock of the instance is held by the lane that is at one of its locked steps,
\* and by nobody otherwise: no lane gives up a lock that another one holds, and every
\* early return of the loops unlocks, except one of a process that is about to end, so
\* that no instance is ever skipped for a lock that nobody will release.
LockOwned ==
    /\ \A l \in Lanes : lock = l <=> task[l] \in LockedSteps[l]
    /\ lock = "leaked" => mode = "stopping"

\* When deletePendingInstances deletes a row that no one asked to force, the
\* machine is gone, and nothing brings it back: no machine is left without a row.
NoLeakByDelete == removedBy = "delete" => prov = "absent"

\* deletePendingInstances does not destroy the machine of a runner that executes
\* a job: whoever queued the deletion had the forge give up the runner before, unless
\* the API bypassed it, Start got no authorized answer, or the orphan pass judged by a
\* list of runners that was no longer true.
BusyMachineKept == task["del"] = "delete" /\ ~unasked => forge # "busy"

StaysInDeletion ==
    row.status \in DeletionLane => row'.status \in DeletionLane \cup {"gone"}

\* A row queued for deletion is only ever deleted: no late update of another code
\* path takes it back to life, except for the retry loop, which forces pending_create
\* on a row that was in error when it was listed.
OnlyRetryUndeletes == [][StaysInDeletion \/ task["retry"] = "requeue"]_vars

\* A row does not stay in creating or deleting, also when the process died while
\* it was there.
InFlightResolved ==
    row.status \in {"creating", "deleting"} ~> row.status \notin {"creating", "deleting"}

\* The row of a runner that finished its job is deleted, also when the webhook
\* came while the store refused pending_delete, or was lost half-way in a crash.
FinishedRunnerRemoved == (Exists /\ row.runner = "terminated") ~> ~Exists
=============================================================================
