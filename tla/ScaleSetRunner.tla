--------------------------- MODULE ScaleSetRunner ---------------------------
(***************************************************************************)
(* The life of ONE runner of a scale set.  Unlike a pool, a scale set      *)
(* splits the work between two workers that share nothing but the row:     *)
(*                                                                         *)
(*   the scale set worker (workers/scaleset) creates the row, decides that *)
(*     a runner must go and removes rows in "deleted".  All it does holds  *)
(*     w.mux; it decides by a cache of rows that watcher events refresh;   *)
(*   the provider worker (workers/provider) has one instance manager per   *)
(*     runner, which creates and deletes the machine.  It acts on a copy   *)
(*     of the row that watcher events refresh.                             *)
(*                                                                         *)
(* The listener handles job messages under the instance's lock; the API    *)
(* may delete the runner.  Each transaction, call of the provider and call *)
(* of the forge is a step.  Timeouts may have passed or not.  Events come  *)
(* in the order of the transactions; Watcher shows what may reorder them.  *)
(***************************************************************************)
EXTENDS Naturals, Sequences, InstanceStatus

CONSTANTS
    MaxFaults,      \* bound: how often something fails or the API is called
    MaxApi,         \* bound: deletions by the API
    MaxLag,         \* bound: events on their way to the scale set worker
    MaxProvLag,     \* bound: events on their way to the provider worker
    Faults          \* "provider", "forge", "client" (no forge client yet),
                    \* "store", "crash"

ASSUME ScaleSetRunnerAssumption ==
    /\ MaxFaults \in Nat /\ MaxApi \in Nat /\ MaxLag \in Nat /\ MaxProvLag \in Nat
    /\ Faults \subseteq {"provider", "forge", "client", "store", "crash"}

VARIABLES
    row,        \* the row in the store
    prov,       \* the machine: "absent" or "alive"
    forge,      \* the runner at the forge
    msgs,       \* job messages about this runner, oldest first
    wev, pev,   \* watcher events on their way to the two workers
    cache,      \* w.runners: the row as the scale set worker knows it
    wpc,        \* what the scale set worker does while it holds w.mux
    seen,       \* this runner in the list of the forge or of the provider it works with
    lock,       \* the instance's lock: "free", "worker", or "leaked"
    entry,      \* the provider worker's runnerEntry: the row, or NoRow
    mgr,        \* the instance manager
    api,        \* DeleteRunner of the API
    up,         \* the process runs
    calls, faults,
    missed,     \* history: an event was lost to the scale set worker
    forced,     \* history: a forced delete went past an error of the provider
    bypassed,   \* history: a delete by the API went past an error of the forge
    failed,     \* history: the create failed, or was taken for interrupted
    kept        \* history: Start left the row in "creating"

outside == <<prov, forge, msgs>>
workerState == <<cache, wpc, seen, lock>>
provState == <<entry, mgr>>
db == <<row, wev, pev, missed>>
hist == <<forced, bypassed, failed, kept>>
vars == <<db, outside, workerState, provState, api, up, calls, faults, hist>>

\* "gone_early": the event about a row that was removed in another status than deleted
RunnerRows == [status : Statuses \cup {"none", "gone", "gone_early"}, runner : RunnerStatuses]
NoRow == [status |-> "none", runner |-> "pending"]
ForgeStates == {"absent", "offline", "idle", "busy"}
StartSteps == {"start", "start_get", "start_run", "start_force", "register"}
WorkerSteps == {"down", "idle", "insert", "judge", "mark", "list", "provider", "provider_mark",
                "down_mark"} \cup StartSteps
ManagerSteps == {"idle", "create", "persist", "persist_error", "undo", "undo_error", "fail",
                 "backoff", "delete", "restore", "deleted"}
\* on: running; inst: i.instance; snap: the snapshot consolidateState works on
NoManager == [on |-> FALSE, inst |-> NoRow, snap |-> NoRow, pc |-> "idle"]

Init ==
    /\ row = NoRow /\ prov = "absent" /\ forge = "absent" /\ msgs = <<>>
    /\ wev = <<>> /\ pev = <<>>
    /\ cache = NoRow /\ wpc = "idle" /\ seen = "none" /\ lock = "free"
    /\ entry = NoRow /\ mgr = NoManager
    /\ api = "idle" /\ up = TRUE /\ calls = 0 /\ faults = 0
    /\ missed = FALSE /\ forced = FALSE /\ bypassed = FALSE /\ failed = FALSE /\ kept = FALSE

-----------------------------------------------------------------------------
\* What the actors share.

MayDisturb == faults + calls < MaxFaults
Fails(kind) == kind \in Faults /\ MayDisturb /\ faults' = faults + 1
Works == UNCHANGED faults

Exists == row.status \notin {"none", "gone", "gone_early"}
Accepts(s) == Exists /\ InstanceMayBecome(row.status, s)

Listening == wpc \notin {"down"} \cup StartSteps

\* A transaction commits a row and sends one event about it.
Commit(r) ==
    /\ row' = r
    /\ pev' = IF up THEN Append(pev, r) ELSE pev
    /\ wev' = IF Listening THEN Append(wev, r) ELSE wev

\* The holder of w.mux writes.  Start takes the row it wrote into its cache, so
\* that nothing that happened before is lost to it.
WorkerWrite(r) == Commit(r) /\ missed' = (missed /\ wpc \notin StartSteps)

\* Everyone else does.  The bounds hold them up, and neither the holder of w.mux, who
\* would never drain wev, nor a manager that was stopped, whose end pev waits for.
Write(r) ==
    /\ Len(wev) < MaxLag
    /\ Len(pev) < MaxProvLag \/ (~mgr.on /\ mgr.pc # "idle")
    /\ Commit(r)
    /\ missed' = (missed \/ wpc \in StartSteps)

SetStatus(s) == Write([row EXCEPT !.status = s])

\* UpdateInstance(status) and ForceUpdateInstance(status), when refused without effect
UpdateStatus(s) == IF Accepts(s) THEN SetStatus(s) ELSE UNCHANGED db
ForceStatus(s) == IF Exists THEN SetStatus(s) ELSE UNCHANGED db

\* RemoveRunner: "not found" counts as removed; a busy runner is refused
ForgeRemoves == forge # "busy" /\ forge' = "absent" /\ Works
ForgeRefuses == UNCHANGED forge /\ ((forge = "busy" /\ Works) \/ Fails("forge"))

Leaving == DeletionLane

-----------------------------------------------------------------------------
\* The machine and the forge.

\* The runner comes up, registers and reports that it is idle (metadata callback,
\* UpdateInstance of the runner status only).
RunnerBoots ==
    /\ prov = "alive" /\ forge = "offline"
    /\ forge' = "idle"
    /\ IF up /\ Exists /\ RunnerMayBecome(row.runner, "installing")
       THEN Write([row EXCEPT !.runner = "idle"]) ELSE UNCHANGED db
    /\ UNCHANGED <<prov, msgs, workerState, provState, api, up, calls, faults, hist>>

\* A job is assigned; a message about it is queued.
JobStarts ==
    /\ prov = "alive" /\ forge = "idle"
    /\ forge' = "busy" /\ msgs' = Append(msgs, "started")
    /\ UNCHANGED <<db, prov, workerState, provState, api, up, calls, faults, hist>>

\* The job is done: the forge drops the ephemeral runner.
JobEnds ==
    /\ forge = "busy"
    /\ forge' = "absent" /\ msgs' = Append(msgs, "completed")
    /\ UNCHANGED <<db, prov, workerState, provState, api, up, calls, faults, hist>>

-----------------------------------------------------------------------------
\* The listener's handlers.  Lock blocks; the update is one transaction.

\* The message is acknowledged; after an error of the store it is delivered again.
Handled == msgs' = Tail(msgs) /\ Works

\* HandleJobsStarted: runner status active, refused when terminal
HandleJobsStarted ==
    /\ Listening /\ lock = "free" /\ msgs # <<>> /\ Head(msgs) = "started"
    /\ Handled
    /\ IF Exists /\ RunnerMayBecome(row.runner, "active")
       THEN Write([row EXCEPT !.runner = "active"]) ELSE UNCHANGED db
    /\ UNCHANGED <<prov, forge, workerState, provState, api, up, calls, hist>>

\* HandleJobsCompleted: pending_delete and terminated, in one update; a row that is
\* gone, being deleted or provisioning is left alone
HandleJobsCompleted ==
    /\ Listening /\ lock = "free" /\ msgs # <<>> /\ Head(msgs) = "completed"
    /\ \/ /\ Accepts("pending_delete") \/ row.status \in Leaving \cup ProvisioningLane \/ ~Exists
          /\ Handled
          /\ IF Accepts("pending_delete")
             THEN Write([row EXCEPT !.status = "pending_delete", !.runner = "terminated"])
             ELSE UNCHANGED db
       \/ Fails("store") /\ UNCHANGED <<msgs, db>>
    /\ UNCHANGED <<prov, forge, workerState, provState, api, up, calls, hist>>

-----------------------------------------------------------------------------
\* DeleteRunner of the API, forced or not.  With bypassGithubUnauthorized it goes on
\* after any error of the forge, the refusal to remove a busy runner included.

ApiRemove ==
    /\ up /\ api = "idle" /\ calls < MaxApi /\ MayDisturb
    /\ row.status \in {"running", "error", "pending_delete", "pending_force_delete"}
    /\ calls' = calls + 1
    /\ \/ ForgeRemoves /\ api' \in {"pending_delete", "pending_force_delete"}
          /\ UNCHANGED bypassed
       \/ ForgeRefuses /\ api' = "idle" /\ UNCHANGED bypassed
       \/ ForgeRefuses /\ api' \in {"pending_delete", "pending_force_delete"}
          /\ bypassed' = TRUE
    /\ UNCHANGED <<db, prov, msgs, workerState, provState, up, forced, failed, kept>>

ApiMark ==
    /\ api # "idle"
    /\ UpdateStatus(api)
    /\ api' = "idle"
    /\ UNCHANGED <<outside, workerState, provState, up, calls, faults, hist>>

-----------------------------------------------------------------------------
\* The scale set worker.  wpc = "idle": w.mux is free.

WorkerGoto(step) == wpc' = step
Unlock == lock' = IF lock = "worker" THEN "free" ELSE lock
EndPass == wpc' = "idle" /\ seen' = "none"

\* handleScaleUp: GenerateJitRunnerConfig, then the row, then the cache
ScaleUpRegister ==
    /\ wpc = "idle" /\ row.status = "none" /\ forge = "absent"
    /\ forge' = "offline"
    /\ WorkerGoto("insert")
    /\ UNCHANGED <<db, prov, msgs, cache, seen, lock, provState, api, up, calls,
                   faults, hist>>

ScaleUpInsert ==
    /\ wpc = "insert"
    /\ \/ /\ Write([status |-> "pending_create", runner |-> "pending"])
          /\ cache' = row'
          /\ UNCHANGED forge /\ Works
       \/ /\ Fails("store")
          /\ forge' = "absent"
          /\ row' = [NoRow EXCEPT !.status = "gone"]
          /\ UNCHANGED <<wev, pev, missed, cache>>
    /\ WorkerGoto("idle")
    /\ UNCHANGED <<prov, msgs, seen, lock, provState, api, up, calls, hist>>

\* handleScaleDown: an idle runner, when the target is below the count
ScaleDown ==
    /\ wpc = "idle" /\ cache.status = "running" /\ cache.runner = "idle" /\ lock = "free"
    /\ \/ ForgeRemoves /\ lock' = "worker" /\ WorkerGoto("down_mark")
       \/ ForgeRefuses /\ UNCHANGED <<wpc, lock>>
    /\ UNCHANGED <<db, prov, msgs, cache, seen, provState, api, up, calls, hist>>

\* UpdateInstance(pending_delete); the cache follows, except when refused
MarkPendingDelete ==
    /\ IF Accepts("pending_delete") THEN WorkerWrite([row EXCEPT !.status = "pending_delete"])
       ELSE UNCHANGED db
    /\ cache' = IF Accepts("pending_delete") THEN row'
                ELSE IF ~Exists THEN NoRow ELSE cache

ScaleDownMark ==
    /\ wpc = "down_mark"
    /\ MarkPendingDelete
    /\ lock' = "free" /\ WorkerGoto("idle")
    /\ UNCHANGED <<outside, seen, provState, api, up, calls, faults, hist>>

\* The entity worker lists the forge's runners, without w.mux.  A row that did not
\* exist then is not judged by the list: seen stays "none".
ListRunners ==
    /\ wpc = "idle" /\ seen = "none"
    /\ seen' = IF row.status = "none" THEN "none" ELSE forge
    /\ UNCHANGED <<db, outside, cache, wpc, lock, provState, api, up, calls,
                   faults, hist>>

\* consolidateRunnerState: a runner of the forge without a row is removed unless
\* it is online
ConsolidateUnknown ==
    /\ wpc = "idle" /\ seen # "none"
    /\ \/ /\ cache = NoRow /\ seen = "offline"
          /\ ForgeRemoves \/ ForgeRefuses
       \/ (cache # NoRow \/ seen # "offline") /\ Works /\ UNCHANGED forge
    /\ WorkerGoto("judge")
    /\ UNCHANGED <<db, prov, msgs, cache, seen, lock, provState, api, up, calls, hist>>

\* reapTimedOutRunners and the loop after it: who has to go, by cache and list
Reapable ==
    /\ cache.status \notin Leaving \cup ProvisioningLane
    /\ cache.runner \in {"pending", "installing", "failed"}
    /\ seen \in {"absent", "offline"}

Orphaned == cache.status \notin Leaving \cup {"creating"} /\ seen = "absent"

\* Mutant: the error of RemoveRunner, the guard of a busy runner, is ignored.
RemoveIgnoringErrors ==
    /\ wpc = "judge" /\ cache # NoRow /\ (Reapable \/ Orphaned) /\ lock = "free"
    /\ ForgeRemoves \/ ForgeRefuses
    /\ lock' = "worker" /\ WorkerGoto("mark") /\ seen' = "none"
    /\ UNCHANGED <<db, prov, msgs, cache, provState, api, up, calls, hist>>

\* TryLock and RemoveRunner
ConsolidateRemove ==
    /\ wpc = "judge" /\ cache # NoRow /\ (Reapable \/ Orphaned) /\ lock = "free"
    /\ \/ ForgeRemoves /\ lock' = "worker" /\ WorkerGoto("mark")
       \/ ForgeRefuses /\ WorkerGoto("list") /\ UNCHANGED lock
    /\ seen' = "none"
    /\ UNCHANGED <<db, prov, msgs, cache, provState, api, up, calls, hist>>

\* Nobody has to go: too young, not yet timed out, locked, or fine
ConsolidateSkip ==
    /\ wpc = "judge"
    /\ WorkerGoto("list") /\ seen' = "none"
    /\ UNCHANGED <<db, outside, cache, lock, provState, api, up, calls,
                   faults, hist>>

ConsolidateMark ==
    /\ wpc = "mark"
    /\ MarkPendingDelete
    /\ WorkerGoto("list")
    /\ UNCHANGED <<outside, seen, lock, provState, api, up, calls, faults, hist>>

\* consolidateProviderState: ListInstances
ProviderList ==
    /\ wpc = "list"
    /\ \/ seen' = prov /\ WorkerGoto("provider") /\ Works /\ UNCHANGED lock
       \/ Fails("provider") /\ EndPass /\ Unlock
    /\ UNCHANGED <<db, outside, cache, provState, api, up, calls, hist>>

\* A machine without a row is deleted; a row without a machine has to go.
ProviderJudge ==
    /\ wpc = "provider"
    /\ \/ /\ cache = NoRow /\ seen = "alive"
          /\ \/ prov' = "absent" /\ Works
             \/ Fails("provider") /\ UNCHANGED prov
          /\ EndPass /\ Unlock /\ UNCHANGED forge
       \/ /\ cache # NoRow /\ cache.status \notin Leaving \cup ProvisioningLane
          /\ seen = "absent" /\ lock = "free"
          /\ \/ /\ ForgeRemoves /\ lock' = "worker" /\ WorkerGoto("provider_mark")
                /\ UNCHANGED seen
             \/ ForgeRefuses /\ EndPass /\ UNCHANGED lock
          /\ UNCHANGED prov
       \/ /\ \/ cache = NoRow /\ seen = "absent"
             \/ cache # NoRow /\ (cache.status \in Leaving \cup ProvisioningLane
                                  \/ seen = "alive" \/ lock # "free")
          /\ EndPass /\ Unlock
          /\ Works /\ UNCHANGED <<prov, forge>>
    /\ UNCHANGED <<db, msgs, cache, provState, api, up, calls, hist>>

ProviderMark ==
    /\ wpc = "provider_mark"
    /\ MarkPendingDelete
    /\ EndPass /\ lock' = "free"
    /\ UNCHANGED <<outside, provState, api, up, calls, faults, hist>>

\* DeleteInstanceByName; the event carries the status the row had
Dropped == [row EXCEPT !.status = IF row.status = "deleted" THEN "gone" ELSE "gone_early"]

\* Mutant: a row in "deleted" leaves the cache only.
EventsNeverDrop ==
    /\ wpc = "idle" /\ wev # <<>> /\ wev' = Tail(wev)
    /\ cache' = IF Head(wev).status \in {"gone", "gone_early", "deleted"} THEN NoRow
                ELSE Head(wev)
    /\ UNCHANGED <<row, pev, missed, outside, wpc, seen, lock, provState, api, up, calls,
                   faults, hist>>

\* handleInstanceEntityEvent.  A row in "deleted" is removed; when that fails the
\* cache keeps what it had.
WorkerEvent ==
    /\ wpc = "idle" /\ wev # <<>>
    /\ LET e == Head(wev)
           rest == Tail(wev)
       IN  \/ /\ e.status = "deleted" /\ Works
              /\ cache' = NoRow
              /\ row' = IF Exists THEN Dropped ELSE row
              /\ wev' = IF Exists THEN Append(rest, row') ELSE rest
              /\ pev' = IF Exists THEN Append(pev, row') ELSE pev
              /\ UNCHANGED missed
           \/ /\ e.status = "deleted" /\ Fails("store")
              /\ wev' = rest /\ missed' = TRUE
              /\ UNCHANGED <<cache, row, pev>>
           \/ /\ e.status # "deleted" /\ Works
              /\ cache' = IF e.status \in {"gone", "gone_early"} THEN NoRow ELSE e
              /\ wev' = rest /\ UNCHANGED <<row, pev, missed>>
    /\ UNCHANGED <<outside, wpc, seen, lock, provState, api, up, calls, hist>>

-----------------------------------------------------------------------------
\* Worker.Start: what the previous process left behind.  It holds w.mux, but no
\* event reaches it before RegisterConsumer, its last step.

\* Mutant: an interrupted delete is not taken up again.
StartIgnoringDeleting ==
    /\ up /\ wpc = "down" /\ row.status # "creating"
    /\ missed' = FALSE
    /\ cache' = (IF Exists THEN row ELSE NoRow)
    /\ WorkerGoto("register")
    /\ UNCHANGED <<row, wev, pev, outside, seen, lock, provState, api, up, calls, faults, hist>>

\* ListScaleSetInstances.  For a row in "creating" it takes the lock, and blocks
\* when it is held; any other row but one in "deleted" it unlocks, whoever locked it.
\* cache is the listed copy until Start is done with the row.
StartList ==
    /\ up /\ wpc = "down"
    /\ missed' = FALSE
    /\ \/ /\ row.status = "creating" /\ lock = "free" /\ Works
          /\ cache' = row /\ lock' = "worker"
          /\ WorkerGoto("start") /\ UNCHANGED <<row, wev, pev>>
       \/ /\ row.status = "deleting" /\ Works
          /\ cache' = row
          /\ WorkerGoto("start_force") /\ UNCHANGED <<row, wev, pev, lock>>
       \/ /\ row.status = "deleted" /\ Works
          /\ row' = Dropped /\ pev' = Append(pev, row') /\ cache' = NoRow
          /\ WorkerGoto("register") /\ UNCHANGED <<wev, lock>>
       \/ /\ row.status \notin {"creating", "deleting", "deleted"} /\ Works
          /\ cache' = (IF Exists THEN row ELSE NoRow)
          /\ lock' = (IF Exists THEN "free" ELSE lock)
          /\ WorkerGoto("register") /\ UNCHANGED <<row, wev, pev>>
       \/ Fails("store") /\ UNCHANGED <<row, wev, pev, cache, wpc, lock>>
    /\ UNCHANGED <<outside, seen, provState, api, up, calls, hist>>

\* What GetRunner returns as Status of a runner
RawStatus(f) == IF f \in {"idle", "busy"} THEN "online" ELSE f

\* The row is kept as it was listed, for a later pass.
StartKeep == kept' = TRUE /\ lock' = "free" /\ WorkerGoto("register")

\* "creating": the runner is removed at the forge.  Without a client Start returns
\* with the lock held; unauthorized, the row is kept; after any other error but "not
\* found" the forge is asked about the runner.
StartRemove ==
    /\ wpc = "start"
    /\ \/ ForgeRemoves /\ WorkerGoto("start_force") /\ UNCHANGED <<lock, kept>>
       \/ ForgeRefuses /\ WorkerGoto("start_get") /\ UNCHANGED <<lock, kept>>
       \/ Fails("forge") /\ StartKeep /\ UNCHANGED forge
       \/ /\ Fails("client") /\ lock' = "leaked" /\ WorkerGoto("down")
          /\ UNCHANGED <<forge, kept>>
    /\ UNCHANGED <<db, prov, msgs, cache, seen, provState, api, up, calls, forced, bypassed,
                   failed>>

\* GetRunner: a runner whose status is "idle" or "active" is kept as running, an
\* unreadable one as it was, any other has to go
StartGet ==
    /\ wpc = "start_get"
    /\ \/ /\ WorkerGoto(IF RawStatus(forge) \in {"idle", "active"} THEN "start_run"
                        ELSE "start_force")
          /\ Works /\ UNCHANGED <<lock, kept>>
       \/ Fails("forge") /\ StartKeep
    /\ UNCHANGED <<db, outside, cache, seen, provState, api, up, calls, forced, bypassed,
                   failed>>

\* ForceUpdateInstance, of "creating" and of "deleting"; only this worker drops rows, so
\* it is found.  On an error of the store Start returns.  The assignment has emptied
\* instance by then: it unlocks the empty name, and a lock it took stays locked.
StartForce ==
    /\ wpc \in {"start_run", "start_force"}
    /\ \/ /\ WorkerWrite([row EXCEPT !.status = IF wpc = "start_run" THEN "running"
                                               ELSE "pending_delete"])
          /\ failed' = (failed \/ (wpc = "start_force" /\ lock = "worker"))
          /\ cache' = row' /\ lock' = "free" /\ WorkerGoto("register") /\ Works
       \/ /\ Fails("store")
          /\ lock' = (IF lock = "worker" THEN "leaked" ELSE lock) /\ WorkerGoto("down")
          /\ UNCHANGED <<db, cache, failed>>
    /\ UNCHANGED <<outside, seen, provState, api, up, calls, forced, bypassed, kept>>

\* ensureScaleSetInGitHub, then RegisterConsumer; an error ends Start
StartRegister ==
    /\ wpc = "register"
    /\ \/ WorkerGoto("idle") /\ Works
       \/ WorkerGoto("down") /\ Fails("forge")
    /\ UNCHANGED <<db, outside, cache, seen, lock, provState, api, up, calls, hist>>

-----------------------------------------------------------------------------
\* The instance manager.  A tick works on a snapshot of i.instance.

ManagerAt(step) == mgr.pc = step
Tick == mgr.on /\ mgr.pc = "idle"
Goto(step) == mgr' = [mgr EXCEPT !.pc = step]
Sleep == Goto("idle")
ByManager == UNCHANGED <<msgs, workerState, entry, api, up, calls>>

\* pending_create: UpdateInstance(creating) and the provider's CreateInstance
ManagerCreate ==
    /\ Tick /\ mgr.inst.status = "pending_create" /\ Accepts("creating")
    /\ SetStatus("creating")
    /\ Goto("create")
    /\ UNCHANGED <<prov, forge, faults, hist>> /\ ByManager

ManagerCreateCall ==
    /\ ManagerAt("create")
    /\ \/ prov' = "alive" /\ Works /\ Goto("persist")
       \/ Fails("provider") /\ prov' \in {prov, "alive"} /\ Goto("undo")
       \/ Fails("provider") /\ prov' = "alive" /\ Goto("persist_error")
    /\ failed' = (failed \/ mgr'.pc # "persist")
    /\ UNCHANGED <<db, forge, forced, bypassed, kept>> /\ ByManager

\* persistProviderInstanceState; i.instance is the row it returns.  When it fails
\* the machine stays: nothing names it for deletion.
ManagerPersist ==
    /\ ManagerAt("persist") \/ ManagerAt("persist_error")
    /\ LET s == IF ManagerAt("persist") THEN "running" ELSE "error"
       IN  \/ /\ Accepts(s) /\ SetStatus(s) /\ Works
              /\ mgr' = [mgr EXCEPT !.inst = row',
                                    !.pc = IF s = "running" THEN "idle" ELSE "undo_error"]
           \/ /\ (~Accepts(s) /\ Works) \/ Fails("store")
              /\ Goto(IF s = "running" THEN "fail" ELSE "undo")
              /\ UNCHANGED db
    /\ UNCHANGED <<prov, forge, hist>> /\ ByManager

\* The deferred DeleteInstance of handleCreateInstanceInProvider; its error is logged
ManagerUndo ==
    /\ ManagerAt("undo") \/ ManagerAt("undo_error")
    /\ \/ prov' = "absent" /\ Works
       \/ Fails("provider") /\ UNCHANGED prov
    /\ Goto(IF ManagerAt("undo") THEN "fail" ELSE "idle")
    /\ UNCHANGED <<db, forge, hist>> /\ ByManager

ManagerFail ==
    /\ ManagerAt("fail")
    /\ \/ ForceStatus("error") /\ Works
       \/ Fails("store") /\ UNCHANGED db
    /\ failed' = TRUE
    /\ Sleep
    /\ UNCHANGED <<prov, forge, forced, bypassed, kept>> /\ ByManager

\* creating: a create without outcome is failed, if the store lets it
ManagerInterrupted ==
    /\ Tick /\ mgr.inst.status = "creating" /\ Accepts("error")
    /\ SetStatus("error")
    /\ failed' = TRUE
    /\ UNCHANGED <<prov, forge, mgr, faults, forced, bypassed, kept>> /\ ByManager

\* error: ForceUpdateInstance(pending_delete)
ManagerError ==
    /\ Tick /\ mgr.inst.status = "error" /\ Exists
    /\ SetStatus("pending_delete")
    /\ UNCHANGED <<prov, forge, mgr, faults, hist>> /\ ByManager

\* The deletion lane: the back-off of a delete that is not forced, then
\* ForceUpdateInstance(deleting)
ManagerBackoff ==
    /\ Tick /\ mgr.inst.status \in {"pending_delete", "pending_force_delete", "deleting"}
    /\ mgr' = [mgr EXCEPT !.pc = "backoff", !.snap = mgr.inst]
    /\ UNCHANGED <<db, prov, forge, faults, hist>> /\ ByManager

ManagerDelete ==
    /\ ManagerAt("backoff")
    /\ IF Exists /\ mgr.on THEN SetStatus("deleting") /\ Goto("delete")
       ELSE UNCHANGED db /\ Sleep
    /\ UNCHANGED <<prov, forge, faults, hist>> /\ ByManager

\* Mutant: every delete goes past an error of the provider.
DeleteCallForced ==
    /\ ManagerAt("delete")
    /\ \/ prov' = "absent" /\ Works
       \/ Fails("provider") /\ UNCHANGED prov
    /\ Goto("deleted")
    /\ UNCHANGED <<db, forge, hist>> /\ ByManager

ManagerDeleteCall ==
    /\ ManagerAt("delete")
    /\ \/ prov' = "absent" /\ Works /\ Goto("deleted") /\ UNCHANGED forced
       \/ /\ Fails("provider") /\ UNCHANGED prov
          /\ forced' = (forced \/ mgr.snap.status = "pending_force_delete")
          /\ Goto(IF mgr.snap.status = "pending_force_delete" THEN "deleted" ELSE "restore")
    /\ UNCHANGED <<db, forge, bypassed, failed, kept>> /\ ByManager

ManagerRestore ==
    /\ ManagerAt("restore")
    /\ \/ ForceStatus("pending_delete") /\ Works
       \/ Fails("store") /\ UNCHANGED db
    /\ Sleep
    /\ UNCHANGED <<prov, forge, hist>> /\ ByManager

\* UpdateInstance(deleted), forced when the row moved within the deletion lane
WriteDeleted ==
    \/ row.status \in DeletionLane /\ SetStatus("deleted")
    \/ row.status \notin DeletionLane /\ UNCHANGED db

\* ErrInstanceDeleted ends the manager's loops, an error does not
ManagerDeleted ==
    /\ ManagerAt("deleted")
    /\ \/ /\ WriteDeleted /\ Works
          /\ mgr' = [mgr EXCEPT !.pc = "idle",
                                !.on = @ /\ Exists /\ row.status \notin DeletionLane]
       \/ Fails("store") /\ UNCHANGED db /\ Sleep
    /\ UNCHANGED <<prov, forge, hist>> /\ ByManager

-----------------------------------------------------------------------------
\* The provider worker.  Its consumer is registered before anything is loaded.

\* Mutant: the entry is dropped and its manager goes on.
EventWithoutStop ==
    /\ up /\ pev # <<>>
    /\ pev' = Tail(pev)
    /\ LET e == Head(pev)
       IN  /\ entry' = IF e.status \in {"deleted", "gone", "gone_early"} THEN NoRow ELSE e
           /\ mgr' = IF e.status \in {"deleted", "gone", "gone_early"} THEN mgr
                     ELSE IF entry = NoRow THEN [NoManager EXCEPT !.on = TRUE, !.inst = e]
                     ELSE [mgr EXCEPT !.inst = e]
    /\ UNCHANGED <<row, wev, missed, outside, workerState, api, up, calls, faults, hist>>

\* handleInstanceEvent.  An update about an unknown row starts a manager for it.
ProviderEvent ==
    /\ up /\ pev # <<>>
    /\ pev' = Tail(pev)
    /\ LET e == Head(pev)
       IN  \/ e.status = "gone_early" /\ UNCHANGED provState
           \/ /\ e.status \in {"deleted", "gone"}
              /\ entry' = NoRow
              /\ mgr' = IF entry = NoRow THEN mgr ELSE [mgr EXCEPT !.on = FALSE]
           \/ /\ e.status \notin {"deleted", "gone", "gone_early"}
              /\ entry' = e
              /\ \/ /\ entry = NoRow /\ ManagerAt("idle")
                    /\ mgr' = [NoManager EXCEPT !.on = TRUE, !.inst = e]
                 \/ /\ entry # NoRow
                    /\ mgr' = IF mgr.on THEN [mgr EXCEPT !.inst = e] ELSE mgr
    /\ UNCHANGED <<row, wev, missed, outside, workerState, api, up, calls, faults, hist>>

\* retryFailedRunners: an entry without a running manager is dropped when its row
\* was being deleted; otherwise its manager starts again with the copy it had
RetryFailedRunner ==
    /\ up /\ entry # NoRow /\ ~mgr.on /\ ManagerAt("idle")
    /\ IF entry.status \in {"deleted", "deleting"}
       THEN entry' = NoRow /\ UNCHANGED mgr
       ELSE mgr' = [mgr EXCEPT !.on = TRUE] /\ UNCHANGED entry
    /\ UNCHANGED <<db, outside, workerState, api, up, calls, faults, hist>>

-----------------------------------------------------------------------------
\* The process ends, at any point, and starts again.

\* The call of CreateInstance that was under way may still have its effect.
Crash ==
    /\ up /\ Fails("crash")
    /\ up' = FALSE
    /\ prov' \in IF ManagerAt("create") THEN {prov, "alive"} ELSE {prov}
    /\ wev' = <<>> /\ pev' = <<>> /\ cache' = NoRow /\ wpc' = "down"
    /\ seen' = "none" /\ lock' = "free"
    /\ entry' = NoRow /\ mgr' = NoManager /\ api' = "idle"
    /\ row' = IF wpc = "insert" THEN [row EXCEPT !.status = "gone"] ELSE row
    /\ UNCHANGED <<missed, forge, msgs, calls, hist>>

\* loadAllRunners; rows in "creating", "deleting" and "deleted" are left to the
\* scale set worker
Boot ==
    /\ ~up /\ up' = TRUE
    /\ IF Exists /\ row.status \notin {"creating", "deleting", "deleted"}
       THEN entry' = row /\ mgr' = [NoManager EXCEPT !.on = TRUE, !.inst = row]
       ELSE UNCHANGED provState
    /\ UNCHANGED <<db, outside, workerState, api, calls, faults, hist>>

-----------------------------------------------------------------------------
Outside == RunnerBoots \/ JobStarts \/ JobEnds \/ ApiRemove \/ Crash

Listener == HandleJobsStarted \/ HandleJobsCompleted

\* What the scale set worker does by itself: a step of what it is at, or the next pass
Worker ==
    \/ ScaleUpInsert \/ ScaleDownMark
    \/ ListRunners \/ ConsolidateUnknown \/ ConsolidateSkip \/ ConsolidateMark
    \/ ProviderList \/ ProviderJudge \/ ProviderMark
    \/ StartList \/ StartRemove \/ StartGet \/ StartForce \/ StartRegister \/ Boot

Manager ==
    \/ ManagerCreate \/ ManagerCreateCall \/ ManagerPersist \/ ManagerUndo \/ ManagerFail
    \/ ManagerInterrupted \/ ManagerError \/ ManagerBackoff \/ ManagerDelete
    \/ ManagerDeleteCall \/ ManagerRestore \/ ManagerDeleted

Next ==
    \/ Outside \/ Listener \/ ApiMark \/ Worker \/ Manager \/ ProviderEvent
    \/ RetryFailedRunner \/ WorkerEvent \/ ConsolidateRemove
    \/ ScaleUpRegister \/ ScaleDown

Spec == Init /\ [][Next]_vars

\* Every goroutine of the process goes on, and the process is restarted when it ended.
\* An event gets w.mux in the end, although passes take it again and again (a
\* sync.Mutex does not starve), and a runner is not too young to be judged for ever.
FairSpec ==
    /\ Spec
    /\ WF_vars(Listener) /\ WF_vars(ApiMark) /\ WF_vars(Worker) /\ WF_vars(Manager)
    /\ WF_vars(ProviderEvent) /\ WF_vars(RetryFailedRunner)
    /\ SF_vars(WorkerEvent) /\ SF_vars(ConsolidateRemove)

-----------------------------------------------------------------------------
\* The types of the variables; a manager that runs is known to the provider worker,
\* so that it gets the updates of its row.
TypeOK ==
    /\ mgr.on => entry # NoRow
    /\ row \in RunnerRows
    /\ prov \in {"absent", "alive"} /\ forge \in ForgeStates
    /\ msgs \in Seq({"started", "completed"})
    /\ wev \in Seq(RunnerRows) /\ pev \in Seq(RunnerRows)
    /\ cache \in RunnerRows /\ wpc \in WorkerSteps
    /\ seen \in ForgeStates \cup {"alive", "none"}
    /\ lock \in {"free", "worker", "leaked"}
    /\ entry \in RunnerRows
    /\ mgr \in [on : BOOLEAN, inst : RunnerRows, snap : RunnerRows, pc : ManagerSteps]
    /\ api \in {"idle", "pending_delete", "pending_force_delete"}
    /\ up \in BOOLEAN /\ calls \in 0..MaxApi /\ faults \in 0..MaxFaults
    /\ missed \in BOOLEAN /\ forced \in BOOLEAN /\ bypassed \in BOOLEAN
    /\ failed \in BOOLEAN /\ kept \in BOOLEAN

\* No machine outlives its row: once the row is in "deleted" or removed, the machine
\* is gone, whatever copy of the row the manager acted on, unless the user forced the
\* delete and the provider failed.
NoLeakByDelete ==
    row.status \in {"deleted", "gone", "gone_early"} /\ ~forced => prov = "absent"

\* A machine whose runner executes a job is deleted only when its create failed or was
\* found interrupted after a restart, or when the API was told to go past the refusal of
\* the forge.
BusyMachineKept ==
    [][forge = "busy" /\ prov = "alive" /\ prov' = "absent" => failed \/ bypassed]_vars

\* The cache of the scale set worker converges: with no event on its way and none
\* lost, it holds the row of the store, so what the worker decides next is right.
CacheConverges ==
    wpc = "idle" /\ wev = <<>> /\ ~missed =>
        IF Exists THEN cache = row ELSE cache = NoRow

\* A runner that finished its job is removed for good, row and machine, whatever of
\* restarts, failed calls and refused updates comes in between.  Lost: a lock that
\* was never released, a row Start left in "creating", an event the scale set worker
\* never got, a forced delete.
FinishedRunnerRemoved ==
    msgs # <<>> /\ msgs[Len(msgs)] = "completed" ~>
        \/ ~Exists /\ prov = "absent"
        \/ lock = "leaked" \/ kept \/ missed \/ forced
=============================================================================
