# GARM in TLA+

TLA+ models of the core of GARM, the GitHub Actions Runner Manager: the pool
manager that creates, watches and deletes runner instances and the workflow jobs
it reacts to; the scale sets, with the message queue that drives them, the two
workers that share the life of a runner, and the tree of controllers above them;
the database watcher that connects all of these; and the lock registry everything
relies on. Each module is translated from the Go source; `PROJECT.json` ("map")
names the lines behind every definition.

## 1. Inventory

| Component | State | Operations | Interacts through |
|---|---|---|---|
| Lock registry (`locking/`) | map from key to `{mutex, isLocked, ident}` | TryLock, Lock, LockWithContext, Unlock(remove), LockedBy, Delete | called by every loop that touches an instance |
| Instance rows (`database/sql/instances.go`, `params/params.go`) | status, runner status, create attempt, agent flag | CreateInstance (checks MaxRunners in its transaction), UpdateInstance (checks the transition tables), ForceUpdateInstance, DeleteInstance | transactions; an event per commit |
| Pool manager (`runner/pool/pool.go`) | `managerIsRunning`, the delete back-off, the job cache | ten loops, webhooks, DeleteRunner, Start/Stop | store, provider, forge client, lock registry |
| Job rows (`database/sql/jobs.go`) | status, LockedBy, UpdatedAt | CreateOrUpdateJob, LockJob, UnlockJob, BreakLockJobIsQueued, DeleteJob, DeleteInactionableJobs | transactions; an event per commit |
| Job cache (`runner/pool/watcher.go`) | jobs by ID, tombstones | handleWatcherEvent, reapJobTombstones, seeding at start | watcher events |
| Database watcher (`database/watcher/`) | producers, consumers, one unbounded queue each | Notify (gives up after a second), Send, filters | between the store and all caches and workers |
| Pool balancer (`runner/pool/cache.go`) | a cursor per set of labels | Next, Reset | consumeQueuedJobs |
| Provider worker (`workers/provider/`) | `runners`: one entry and one instance manager per scale set instance | handleInstanceEvent, retryFailedRunners, consolidateState, Start/Stop | watcher events, provider, store |
| Scale set worker (`workers/scaleset/scaleset*.go`) | `runners`, a cache of rows; `authFailed` | Start, handleScaleUp/Down, both consolidations, reaper, job messages, keepListenerAlive | watcher events, forge, store, lock registry |
| Scale set listener (`scaleset_listener.go`) | last message ID, session, `quit`, `loopExited` | Start, Stop, Wait, poll loop | message queue of the forge, store |
| Scale set controller (`workers/scaleset/controller*.go`) | a worker per scale set | event handlers, retry loop, Start/Stop | watcher events, called by the entity worker |
| Entity controller and worker (`workers/entity/`) | a worker per entity, its client and credentials | event handlers, retry loop, Start/Stop, listing of runners | watcher events |
| Pool manager registry (`runner/runner.go`, `poolManagerCtrl`) | a pool manager per entity | create, delete, retryFailedEntity | API, store |
| API (`runner/runner.go`), agent worker, retention worker | none of their own | DeleteRunner, status callbacks, DispatchWorkflowJob, DeleteInactionableJobs | store, pool managers |
| Caches, tool downloads, metadata, authentication, API server, CLI, web application | derived or none | see `PROJECT.json` | |

What is hard in this code:

* **Interleaving.** The loops of one manager, the webhooks, the API and the
  agent all change the same row. Only some hold the instance's lock, and the API,
  the webhooks, the agent and the start-up do not.
* **Stale reads.** A loop lists rows, then acts on the copy. The clean-up loop
  uses one list of the forge for three passes. The job consumer uses a cache.
* **Failure.** Provider and forge calls fail, hang or succeed unseen; webhooks
  are lost; the watcher drops an event after a second; the process dies between
  any two steps.
* **Ordering.** A transaction commits before its event is queued, so events of
  two writers arrive in another order than their commits.
* **Limits.** Three paths add instances against one MaxRunners; the create
  counter; scale-down by halves.
* **Two owners.** A runner of a scale set is created and judged by one worker and
  given its machine by another; they share only the row and its events, and each
  acts on a copy of it.
* **Redelivery.** A message of the forge's queue is handled, then its ID is
  stored, then the desired count, then it is deleted: four steps, each may fail.
* **Supervision.** Starting a tree of workers takes blocking calls under mutexes,
  while events, deletions and the shutdown want the same mutexes.
* **Liveness.** Nothing retries a row in `creating` or `deleting` but the
  start-up and the clean-up loop; the top-up and scale-down loops count
  different things and must not chase each other.

The properties that make the components correct are in section 3, hazard by
hazard in `PROJECT.json`.

## 2. Modules

### KeyMutex: the lock registry

One key of `keyMutex`, used by the goroutines `Procs`. Every `sync.Map`,
`sync.Mutex` and `atomic.Bool` call and the write of `ident` is a step, so two
functions interleave as the Go code allows. `Mux` are identities of
`lockWithIdent` values; an action that stores a new one takes one nobody
references, so `Mux` must be larger than `Procs`. `Removers` are the goroutines
that may call `Unlock(key, true)`. `removed` is a history variable.

### InstanceStatus: the tables

The transition tables of `params/params.go` and the predicates of
`internal/errors/errors.go`. No state; used by PoolInstance.

### PoolInstance: the life of one instance

The row, the machine at the provider, the runner at the forge, and every code
path that touches them, each a *lane* with a program counter `task[lane]` and the
copy `seen[lane]` of the row it read:

| Lane | Code |
|---|---|
| `birth` | `AddRunner` |
| `add` | `addPendingInstances`, `addInstanceToProvider` |
| `del` | `deletePendingInstances`, `deleteInstanceFromProvider` |
| `retry` | `retryFailedInstancesForOnePool` |
| `down` | `scaleDownOnePool`, `DeleteRunner`; when the pass returns early, its goroutine goes on without the lock |
| `clean` | `runnerCleanup`: `reapTimedOutRunners`, `cleanupOrphanedProviderRunners`, `cleanupOrphanedGithubRunners` |
| `api` | `Runner.DeleteRunner` |
| `start`, `done` | `HandleWorkflowJob` of in_progress and completed |
| `agent` | the agent's terminated message, `SetInstanceToPendingDelete` |
| `boot` | `Start`, `cleanupRunnersInterruptedInFlight`, and `updateTools` |

A transaction, a provider call and a forge call are one step each, except that
a step that only the lock holder can notice is joined with its neighbour.
Abstractions:

* Timeouts (RunnerTimeout, the five minutes, the back-off, the jitter) may have
  passed or not whenever they are tested.
* The instance's lock is an exact lock. KeyMutex shows that this is what the
  registry gives as long as no entry is removed under a waiter; the pool manager
  only uses TryLock and removes the entry once the row is gone.
* Names are never reused (AddRunner makes a random one), so a deleted row does
  not come back.
* The reaper and the orphan pass release their locks when they return (a
  deferred Unlock in a loop); here after each instance. Holding it longer makes
  other loops skip a turn, which they may do anyway.
* A provider call during which the process dies took effect or did not.
* A process is stopped (`Stop`, no new pass starts, a jitter is cut short) or
  dies at once. A delete goroutine whose jitter is cut short returns before its
  Unlock is deferred (`pool.go:1783`): its lock is `leaked` for the rest of that
  process. `rand.Int`, which would return there too, cannot fail since go 1.24
  (`go.mod` has 1.26).
* Errors of the store are left out but for one: the list of queued jobs of
  `scaleDownOnePool` (`"jobs"`, `pool.go:1445`), whose early return releases locks
  in use. A row is updated or is refused by the tables.
* `unasked` is a history variable: the row was queued for deletion while the forge
  still had the runner, by a bypass, by a start without an authorized answer, or by
  the orphan pass.
* The reads and writes of the job's row in `persistJobToDB` are one step here;
  JobQueue splits them.
* `Active`, the lanes that take part, is a bound: with all eleven lanes the
  model has more than ten million states. Every lane is in a passing run, next
  to those it interferes with.

### JobQueue: the life of one workflow job

The row, the managers of the repository, the organization and the enterprise,
all told about the job, their caches with tombstones, and the writers: webhook
handlers, consumers, clean-ups and the webhook of another job. Several handlers
may work on one job at once, between the check of its status and the write. A
writer commits in one step and notifies in a later one; `queue[m]` is the
consumer's FIFO. `UpdatedAt` is the number of the write. Two history variables
name what the caches cannot know: `amiss`, the rows an event of which was given
up or that came back after they were completed, and `broken`, the rows whose lock
the webhook of another job broke. Abstractions:

* The choice of a pool by labels is "a runner is created, or not".
* A tombstone is reaped only when no event of its row is under way: its life of
  ten minutes is taken to be longer than an event needs.
* A delivery that is never taken from `hooks` is a lost one.
* The row with the highest ID is not deleted (`MaxRows`).

### PoolScaling: the size of one pool

The instances of one pool, each reduced to its runner status and whether it is
queued for deletion; the jobs the manager knows; the three paths that add
instances (`ensureIdleRunnersForOnePool` by the loop and by the webhook,
`consumeQueuedJobs`), scale-down with its pruning of stale jobs, the sweep of
runners without a row, and the reaper. A path counts first and inserts later,
and only the transaction of `CreateInstance` counts again. The deletion of an
instance is one step here and the subject of PoolInstance. `minIdle` is fixed in
the first state, and a runner that came up for a job may be taken by a job GARM
never hears of (`TakenByOther`). A name that has no row, no registration and is
referred to by nobody stands for a new one.

### ScaleSetListener: messages of one scale set

The forge's queue, the row of the scale set, `scaleSetListener` with its poll
loop, and `keepListenerAlive`, which starts it again for ever. A message is its
ID, and its statistics are identified with it, so `dbDesired` names the message
the stored count comes from. Start makes a context, a session and two channels,
kept in fields that a loop reads without the mutex: a *generation* stands for
the four, `cur` is the one in the fields, and an old loop may meet those of a
later one, as its deferred Stop does. `Gens` bounds the generations alive at
once; one nobody refers to is used again. A repeated event that changes nothing is left
out. Messages in `Garbled` have a body that does not parse, those in `Other` are
not job messages. `missed` is a history variable: the store failed on the count, or
the process died between the two writes.

### ScaleSetRunner: the life of one runner of a scale set

The row between the scale set worker and the provider worker:

| Part | Code |
|---|---|
| `ScaleUp*`, `ScaleDown*` | `handleScaleUp`, `handleScaleDown` |
| `ListRunners`, `Consolidate*`, `Provider*` | `consolidateRunnerState` with `reapTimedOutRunners`, `consolidateProviderState`; the forge is listed by the entity worker before the mutex is taken |
| `Start*` | `Worker.Start`: what to do with rows left in `creating`, `deleting`, `deleted` |
| `WorkerEvent` | `handleInstanceEntityEvent`, `handleInstanceCleanup` |
| `HandleJobs*` | the job messages, under the runner's lock |
| `Manager*` | `instanceManager.consolidateState`, with the snapshot it works on |
| `ProviderEvent`, `RetryFailedRunner`, `Boot` | the provider worker around it |
| `Api*` | `Runner.DeleteRunner` |

`wpc` is what the scale set worker does while it holds `w.mux`. Events arrive in
the order of the commits; `MaxLag` and `MaxProvLag` bound how many are under way,
by making a writer wait. When to scale up or down is a free choice, so every
order in which the autoscaler could act is included, and its arithmetic is not.
History variables say what went wrong on the way: `failed` (a create failed or was
found interrupted), `bypassed` (DeleteRunner went on after the forge refused),
`kept` (Start left the row as it was), `missed` (a write of somebody else during
Start), `forced`; `lock = "leaked"` is the lock `Worker.Start` returned with.
`MaxFaults` bounds failing calls and API calls together. There is one instance
manager at a time, although `instanceManager.Stop` does not wait for its loop, and
the row that `Worker.Start` updates is there (only this worker drops rows).

### Watcher and EventFeed: the database watcher

Watcher has the writers (commit, read back, Notify, which gives up when the
channel is full for a second), `serviceProducer` with its fan-out under `w.mux`,
`consumer.Send` and `dispatch`, the `UnboundedChan` of the worker behind it, and
registration and shutdown. An event is its position in `log`. Consumers differ
in what they filter for, in whether they load their rows before or after they
register, and in whether their handler ever returns (`Slow`). EventFeed is the
abstract specification: one log, a place per subscriber, every event of its
filter from there on in order. Watcher implements it with `received <- cache`
and `phase` read off the state of the registration.

### Supervision: the tree of workers of one entity

The entity controller, the entity worker with its scale set controller, and the
workers of its scale sets: event handlers, retry loops, starts split at the calls
that may fail, and stops. Rows are versions, so that "the worker knows the
current one" can be stated. `mux` is the mutex of the entity controller and the
one of the worker below it, `todo` and `current` the retry pass that holds that
of the scale set controller. `leaked[s]`: an earlier Start left a runner of `s`
locked, which takes a runner in `creating`, so only a scale set that had a worker,
now or before a restart (`ran`), can have one. What a scale set worker does once
it runs is the subject of ScaleSetRunner and ScaleSetListener.

### How they relate

KeyMutex justifies the lock of PoolInstance and ScaleSetRunner. PoolInstance
justifies the one-step deletion, and JobQueue the one-step job lock, of
PoolScaling. Watcher says what the event queues of JobQueue, ScaleSetRunner,
ScaleSetListener and Supervision may do: they are FIFO (`FeedSpec`), may lose an
event, and carry the order of Notify rather than of the commits. JobQueue models
loss and reordering itself; the scale set modules take the order of the commits.
ScaleSetListener delivers what ScaleSetRunner takes from `msgs`: a message is
handled at least once and in order. Supervision starts and stops the workers the
other two modules are about. The MC modules add symmetry and the filters of
the consumers.

## 3. Runs

| Run | Bounds | Checks | Shows |
|---|---|---|---|
| `keymutex` | 3 goroutines, 4 entries, all may remove (705k states) | `TypeOK`, `MutualExclusion`, `NoFatalUnlock`, `LockedByIsHolder` | Until an entry is removed it is a lock and LockedBy names its holder; even with removals no Unlock hits an unlocked mutex, which Go answers by ending the process. Three goroutines are a holder, a waiter and a newcomer. |
| `pool_main` | 1 retry, provider and forge failures, expired credentials, the bypass, machines that vanish, early returns of scale-down (929k) | `TypeOK`, `OneProviderCall`, `NoLeakByDelete`, `BusyMachineKept`, `OnlyRetryUndeletes` | Creating, retrying, deleting, scaling down, webhooks, agent and API around one instance. |
| `pool_crash` | the clean-up passes, one crash or stop, lost webhooks, machines that vanish or stop, fairness (225k) | `LockOwned`, `BusyMachineKept`, `InFlightResolved`, `FinishedRunnerRemoved` | Recovery, a lock that always has a lane that will release it, and clean-up passes that do not delete a busy machine but by the list of the orphan pass. |
| `job_cache` | 1 manager, 2 handlers, 4 writes, 2 rows, 1 crash, lost events, broken locks (1.7M) | `TypeOK`, `CacheAgrees` | The cache agrees with the store when nothing is under way. Four writes are queued, locked, completed and a second life of the job, or a handler that writes behind another one. |
| `job_lock` | 2 managers, 4 writes, lost events, broken locks (3.1M) | `OneCreator` | The lock in the row keeps two managers apart although both decide by caches. |
| `scale_bound` | 3 names, MaxRunners 2, 1 job, failures (287k) | `TypeOK`, `RowsBounded`, `RegistrationOwned` | Three adders race for two slots. |
| `scale_settle` | 2 names, MinIdle 0 and 1, 1 job, runners that fail or are taken by others, fairness (116k) | `PoolSettles`, `JobServed` | The loops converge. With MinIdle 0 nothing but the job brings a runner. |
| `listener` | 3 messages: one that does not parse, one with jobs to acquire, one of another type; 2 generations, 1 update, 1 fault of any kind, a crash or a stop among them, fairness (565k) | `TypeOK`, `NoMessageSkipped`, `CountIsLatest`, `MessageHandled` | One message is handled behind and in front of others; two generations are a loop that ends while its successor runs. |
| `scaleset_runner` | 2 faults of any kind or 1 and a delete by the API with or without bypass, 1 event under way per worker, fairness (862k) | `TypeOK`, `NoLeakByDelete`, `CacheConverges`, `BusyMachineKept`, `FinishedRunnerRemoved` | Two workers on two copies of one row. |
| `watcher` | 2 writers, 2 rows, 2 commits, buffers of 1, a prompt consumer that loads after registering and a slow one that loads before, fairness (235k) | `TypeOK`, `CacheCurrent`, `FeedSpec`, `Received`, `ShutsDown` | The watcher implements EventFeed; a slow consumer holds up nobody; it shuts down in the middle of a fan-out. A buffer of 1 is full after one event, as 128 is after 128. |
| `supervision` | 1 scale set, there from before or new, 2 versions, 2 faults, fairness (25k) | `TypeOK`, `NoOrphan`, `Stops`, `Served`, `Responsive` | Failing starts, deletions and a shutdown in every order. |
| `supervision_stale` | same, no faults | `WorkersCurrent` (violated) | An update committed during the start of a worker reaches nobody. |

Larger instances, explored without an error: PoolScaling with 4 names, and, before
the early returns were added, all clean-up passes of PoolInstance with every fault
(2.8 million, `LockOwned`). The theorems of section 4 are about all instances.

Deadlock is checked only in `keymutex`: elsewhere every job may be done, every bound used up and
every loop idle, which is how the program rests. That nobody is blocked for ever is
`Responsive`, `ShutsDown` and `Received`.

The properties, in words:

* `MutualExclusion`: at most one goroutine is between a successful lock and its
  Unlock, until an entry is removed.
* `NoFatalUnlock`, `LockedByIsHolder`: see above.
* `OneProviderCall`: no two lanes are in a provider call for one instance.
* `NoLeakByDelete` (PoolInstance): when a normal delete drops a row, the machine
  is gone. (ScaleSetRunner): a row in `deleted`, or removed, has no machine.
* `BusyMachineKept`: the machine of a runner that runs a job is not deleted. It
  needs the forge's refusal to remove a busy runner. PoolInstance exempts a row
  that was queued for deletion while the forge still had the runner (`unasked`: by
  `bypassGHUnauthorized`, a start after a crash that
  meets an expired credential, or by the orphan pass with its old list), ScaleSetRunner
  an instance whose create failed or was found interrupted after a restart, or
  whose refusal the API bypassed. Without an exemption TLC shows the machine
  deleted under its job: the code does it.
* `OnlyRetryUndeletes`: a row queued for deletion stays in deletion until it is
  dropped, unless the retry loop forces it back.
* `LockOwned`: the lock belongs to a lane exactly while that lane is at a step
  that holds it; only a process that is about to end may leave it locked.
* `InFlightResolved`: `creating` and `deleting` are left again, also when the
  process died there. `FinishedRunnerRemoved`: a finished runner's row, and in a
  scale set its machine, goes; there unless Start left the row in `creating` or
  its lock taken, an event was lost to a worker that was starting, or a delete was
  forced.
* `CacheAgrees`: with no writer, event or seeding under way, a job is queued in
  a manager's cache exactly if the row is, with the same lock. Exempt are rows an
  event of which was given up, and rows that were completed and came back: their
  tombstone hides them.
* `OneCreator`: no two managers create a runner for the same row at once, unless
  the webhook of another job broke its lock.
* `RowsBounded`: at most MaxRunners rows.
* `RegistrationOwned`: a runner at the forge has a row, is about to get one, or
  is a stray one whose removal failed after a refused insert.
* `PoolSettles`: when no more jobs come, the pool comes to exactly MinIdleRunners
  idle runners and stays there. `JobServed`: a known queued job is run, also when
  no idle runner is kept and others take the runners made for it, unless scale-down
  deletes it as stale.
* `NoMessageSkipped`: a message that was deleted, or that the listener tells the
  queue it has seen, was handled, or its body could not be parsed. `MessageHandled`:
  every readable message is, in the end, unless the scale set is disabled, its
  worker stopped, or a message of another type lies before it.
* `CountIsLatest`: with no message under way, the stored count is that of the
  newest one.
* `CacheConverges`: with no event under way and none lost, the scale set worker's
  copy is the row.
* `FeedSpec`: every step of the watcher is a step of EventFeed. `CacheCurrent`: a
  consumer that registers before it loads ends up with the rows of the store, if
  no event was lost and no two writers of a row overlapped. `Received`: what was
  put into the channel reaches every consumer that is not slow or closed.
  `ShutsDown`: closing the watcher ends its goroutines.
* `NoOrphan`: whatever runs has a node above it that will stop it. `Stops`: after
  a deletion or a shutdown nothing runs any more, for good. `Served`: a scale set
  gets a worker. `Responsive`: the mutex of the entity controller is given back.
  The three exempt one state, `Stuck`: a Start waits for a lock that an earlier one
  leaked (section 5). Without the exemption each of them fails.

### Fairness

Loops tick for ever (`startLoopForFunction`), and every call of the provider and
of the forge is taken to return: the create call has a deadline
(`addInstanceToProvider`), the others rely on the provider's own. Hence weak
fairness of each lane, strong for `Add`, whose call returns also when its machine
keeps failing. Machines
boot, runners connect and jobs end: weak fairness of the world. Strong fairness
stands for an infinitely repeated attempt that meets its condition now and then:

* PoolInstance: the delete loop meets a free lock (`DelList`, `DelBegin`: other
  holders release it, and the back-off has a cap), and the orphan pass finds a
  runner that is past its timeout (`OrphanCheck`).
* PoolScaling: `ConsumeJob` and `UnlockJob` find capacity and the age of ten
  minutes, a delivery is handled when the webhook path is free, an insert beats
  the sweep now and then (the sweep runs every few minutes, the insert follows
  the registration at once), some runner comes up, a job that waits finds a runner
  that others have left idle (`JobStarts`), and scale-down finds its victims. A job
  does not come of age between the count and the pruning of one pass of scale-down.

* ScaleSetRunner: an event gets `w.mux` in the end, because a `sync.Mutex` does
  not starve (`WorkerEvent`), and a runner does not stay too young to be judged
  (`ConsolidateRemove`).
* Watcher: `serviceProducer` picks `quit` in the end (a `select` is fair), and
  `RemoveConsumer` gets `w.mux`. The handler of a slow consumer has no fairness.
* Supervision: handlers, retry loops and stops that wait for a mutex get it.

ScaleSetListener needs weak fairness only: its loops, `keepListenerAlive`, event
handling, the passing of the authentication interval, and the restart of the
process. Faults are bounded in the scale set modules: what fails, fails
`MaxFaults` times. `pool_crash` assumes that the provider and the forge answer;
with calls that fail for ever, nothing can be promised. `PoolSettles` and
`JobServed` are checked with MinIdle 0 and 1.

The PoolInstance runs have JIT runners. A machine that registers itself may do so
again after its job, and its row then stays, or after its row was queued for
deletion, and be deleted while it runs a job. The theorems hold for both kinds,
except `BusyMachineIsKept`, which assumes JIT.

## 4. Proofs

TLAPS proves, for every value of the constants that meets the ASSUME of the
module:

| Theorem | Says | Inductive invariant |
|---|---|---|
| `KeepingUnlockExcludes` | `MutualExclusion` for any number of goroutines | `MutexInv`: while nothing was removed, every pointer in use is the entry, one goroutine is critical, its mutex is locked, and its flag is set while it holds. Exclusion alone is not inductive: it is the pointers that make the mutex of one goroutine that of the other. |
| `MutexTypeCorrect`, `UnlockIsNeverFatal` | `TypeOK`, `NoFatalUnlock`, entries removed under a holder included | `OneRight`: per mutex at most one goroutine has locked it and not set the flag, or has swapped the flag back; the mutex is then locked and the flag unset. It does not depend on `removed`. |
| `LockedByNamesHolder` | `LockedByIsHolder` | `MutexInv` and `IdentIsHolder`: the stored name is of a goroutine that has the mutex. |
| `TypeCorrect`, `LocksAreOwned`, `ProviderCallsExclude`, `DeletedLeavesNoMachine` | `TypeOK`, `LockOwned`, `OneProviderCall`, `NoLeakByDelete` for all faults, any number of crashes and attempts, all lanes | `Inv`: the types, `LockOwned`, and `Kept`: what the lanes remember of earlier steps (a create is under way only while the row exists, a normal delete reaches the row only after the machine is gone, a retry's copy has an attempt below the bound). `NoLeakByDelete` is not inductive alone: a create under way would bring the machine back, and it is the lock that excludes one. One lemma per lane. |
| `DeletionIsOneWay` | `OnlyRetryUndeletes`, for all faults and lanes | `Inv` and `AddInv`: the row stays in `creating` while addInstanceToProvider works on it. Its late writes `running` and `error` are what could take a row out of deletion; every other one is refused by the table. |
| `BusyMachineIsKept` | `BusyMachineKept` of PoolInstance for JIT runners, with all lanes and faults and any number of crashes | `BusyInv`: the row has the ID of the agent, and whoever is about to queue it for deletion, or has, comes after the forge gave up the runner, or has set `unasked`. |
| `JobTypeCorrect` | `TypeOK` of JobQueue | `Typed`: also the copies of the consumers and the work of the handlers. |
| `OneCreatorHolds` | `OneCreator` for any number of managers, handlers, rows, writes and crashes, with lost events and broken locks | `Inv`: the shape of the state, `SeenRow` (a creating manager's copy is of a row that was recorded), `AddHolds` (it holds the lock of that row, if the row is still there and was not broken). `OneCreator` alone does not say why the next LockJob is refused. |
| `CachesAgree` | `CacheAgrees` for any number of managers, handlers, rows, writes and crashes, with lost events | `CacheInv`: no event or cache is ahead of the store (`Behind`), and per manager: the row of the store is in its cache or the event of its last write is on its way (`Follows`), a row that is over is out of the cache or will be (`Past`: an event that retires it is on its way, or its tombstone is there, or no event is), nothing is known of a row to come (`Future`) or of one it does not own (`Strange`). All of it is per row, for the rows that are not in `amiss`. Events arrive in another order than the commits; the argument is that the newest stamp wins and that a tombstone outlives the events of its row. |
| `ScalingTypeCorrect`, `PoolNeverExceedsMax` | `TypeOK`, `RowsBounded` for every pool size | `TypeInv`: `TypeOK` and "an adder that adds has one left"; the bound needs that only the insert makes a row, after counting. |
| `NoStrayRegistration` | `RegistrationOwned` for every pool size, whatever calls fail | `OwnerInv`: also "what is marked for deletion was removed at the forge first", "a runner that runs a job has its row" and "an adder at the insert has a name". |
| `ListenerTypeCorrect` | `TypeOK` of ScaleSetListener | `ListenerInv`: a loop that runs belongs to a generation that was started. |
| `NoMessageIsSkipped`, `CountIsOfLatestMessage` | `NoMessageSkipped`, `CountIsLatest` for any number of messages, generations and faults, if the scale set is not created again at the forge (`"recreate"` not in `Faults`; see section 5) | `MessageInv`: every position from which the queue is asked, or would be after a restart, ends a prefix of handled messages, per step of each loop (`Garbled` aside); `l.mux` is held by the one loop that handles; the count of the newest message is stored, will be, or its message comes again. |
| `RunnerTypeCorrect`, `NoMachineIsLeaked`, `RunnerCacheConverges`, `BusyMachineIsKept` | `TypeOK`, `NoLeakByDelete`, `CacheConverges`, `BusyMachineKept` of ScaleSetRunner for any number of faults and of events under way | `Inv`: a row never gets early again once it is late (`error` and the deletion statuses), so that an old event or copy of a late row is still right (`EventsTold`, `Copies`); no create is under way for a row that was found without machine (`Machine`); the last event under way is the row (`CacheFollows`); who takes the row to deletion comes after the forge (`ForgeFirst`). |
| `WatcherTypeCorrect`, `WatcherIsEventFeed` | `TypeOK` and the refinement `FeedSpec` for any number of writers, rows, consumers and buffers | `FeedInv`: the four queues of a consumer, joined, list in order exactly the events it wants between the last it handled and the last it was offered. A step of dispatch or of the worker's loop moves an event within the joined queue: a stutter of EventFeed. |
| `RegisterFirstIsCurrent` | `CacheCurrent` | `FeedInv` and `CurrentInv`: the last event about a row that nobody is writing has the row's version, and so has the cache of a consumer that handled it. |
| `SupervisionTypeCorrect`, `NoWorkerIsOrphaned` | `TypeOK`, `NoOrphan` for any number of scale sets and faults | `SupInv`: a worker that is being started is in the table and does not run yet, and the retry pass starts only a worker that the table holds. |

Every theorem is about `Spec`, whose fairness it does not use, and the runs that
check the same property meet its hypotheses. What a property exempts (`unasked`,
`bypassed`, `amiss`, `broken`, `Garbled`) is in the models and in the runs: it is
what the code does, not a case left out.

Every invariant, every action property and the refinement of a passing run is
proved. Only model-checked are the liveness properties, because the prover has
neither ENABLED nor rules for fairness: `InFlightResolved`,
`FinishedRunnerRemoved`, `PoolSettles`, `JobServed`, `MessageHandled`,
`Received`, `ShutsDown`, `Stops`, `Served`, `Responsive`.

The inductive invariants were checked by TLC on the instances of section 3 before
they were proved. The proofs of ScaleSetRunner showed one mistake in the model, since
corrected: a create that fails may find a machine that is already there, and leaves
it.

## 5. Disagreements between code and text

One run ends in a violation, `supervision_stale`; `PROJECT.json` ("findings")
quotes the text. The controllers leave the update of an entity, of its
credentials and of a scale set to the worker, because it "watches for updates to
its own entity"; an update that is committed before the worker registers its
consumer, and handled by the controller once the worker runs, is seen by neither.

Others, and how TLC shows them:

* `Unlock(key, true)` where a waiter may be blocked lets two goroutines hold the
  lock: `MutualExclusion` without its `removed` condition fails in `keymutex`.
  `scaleset_helper.go:121` gives the reason itself; its line 107, and
  `pool.go:948`, do remove.
* The retry loop's forced `pending_create` on a row the API queued for deletion:
  `OnlyRetryUndeletes` without its exception fails in `pool_main`. The comment at
  `pool.go:1600` relies on no other code path.
* The forward check and the write of a job are two transactions, and webhooks are
  handled concurrently: one that passed the check as queued writes after the one
  that completed the job, and the row is queued again (PersistRead, PersistWrite in
  JobQueue). The comment at `pool.go:268` allows only forward transitions. In the
  run `job_cache`, `CacheAgrees` without `amiss` fails: no cache takes the row up
  again, and no manager makes a runner for it.
* `errors.go:60` ("a failed provider delete moves the instance from deleting to
  error") and `scaleset_helper.go:114` ("deleting can bounce to error") describe
  what no code does: `deletePendingInstances` puts back the status it listed
  (`pool.go:1798`), and the instance manager goes back to `pending_delete`
  (`instance_manager.go:487`). `OnlyRetryUndeletes`, which holds, says so of pools,
  and the mutant `DelRestoreError` is what the comments say. The conclusion the
  comments draw, that a refused `pending_delete` may be skipped, is right all the
  more.
* The sweep of runners "for which we no longer have a local instance"
  (`pool.go:837`) removes a JIT registration before its row is inserted: that a
  pending row not queued for deletion is registered fails in `scale_bound`.
* A scale set that vanished at the forge is created again with a new queue; the
  store's last message ID is reset, the listener's copy is not
  (`scaleset.go:183`): `NoMessageSkipped` fails with `"recreate"` in `Faults`.
* `Worker.Start` returns with the lock of a runner in `creating` when
  GetScaleSetClient fails (`scaleset.go:250`), and when ForceUpdateInstance does:
  the assignment at 305 has replaced `instance` with an empty one, so the Unlock
  at 308 is of the empty name. (A row that is gone gets to 340 the same way, and
  an empty instance into `w.runners`.) The next Start blocks at 247, under the
  mutexes of its controllers, and with it the retry loop, deletions and the shutdown:
  `Stops`, `Served` and `Responsive` fail without `Stuck`. `retryFailedScaleSets`
  is written to repeat a failed Start.

Seen while modelling:

* After a restart, a scale set runner that runs a job and whose row is in
  `creating` is queued for deletion: the raw status of the forge, `online`, is
  compared with `idle` and `active` (`scaleset.go:283`).
* A row in `creating` whose runner cannot be removed because of a 401 or 403, or
  not be read, stays in `creating`; the "later pass" of the comment does not come
  (`kept`).
* `Worker.Start` unlocks every runner it lists (`scaleset.go:340`), whoever locked
  it.
* A message whose body does not parse is logged, stored as processed and deleted
  (`scaleset_listener.go:171`, 250, 260): its jobs are never handled. A message that
  is not a job message (165) is never acknowledged and comes again for ever, before
  all others.
* `scaleDownOnePool` deletes every job of its labels that is older than ten minutes and
  queued, when it removes a runner (`pool.go:1449`), served or not.
* When the list of jobs fails there, the pass returns and unlocks while its
  goroutines still delete runners (`pool.go:1445`); another loop may then work on
  the same instance. A jitter cut short returns with the lock (`pool.go:1783`),
  which matters only while a stopped manager and its process are ending.
* `keepListenerAlive` calls Start without `w.mux`: after Worker.Stop a listener
  may poll on. The deferred calls of an ending loop stop whatever listener runs
  by then, and may close `loopExited` a second time.
* A scale set created between loadAllScaleSets and RegisterConsumer gets its
  worker only with its next update.
* Two writers of one row may announce in the other order (`instances.go:465`),
  and a cache keeps the older copy until the next write.
* `DeleteRepository` deletes the pool manager before the row, and retryFailedEntity
  may make one for a repository that is being deleted.
* `AddRunner` passes `CreateAttempt: 1`, `CreateInstance` does not store it: the
  provider is asked to create once more than `maxCreateAttempts`.
* The delete loop uses the status it listed. A forced delete accepted in between
  is written over with `deleting` and, after a provider error, comes back as a
  normal one.
* The orphan pass compares fresh rows with the forge's list from the start of
  the loop: a runner that came up in between is queued for deletion.
* `cleanupOrphanedGithubRunners` drops a row because the provider's list, cached
  for the pass, lacks the machine.
* `bypassGHUnauthorized` ignores every error of the forge, the refusal to remove
  a busy runner included, for runners of pools and of scale sets (`runner.go:1239`).
* `cleanupRunnersInterruptedInFlight` passes it too: after a crash, a runner that
  came up in `creating` is queued for deletion under its job when the forge answers
  401.
* A consumer whose cache has not seen its own lock locks the row again, and
  creates a second runner for the job.
* A runner made for one job that takes another breaks the first one's lock; with
  a stale cache two managers then create (`OneCreator` fails with `"otherjob"`
  from 5 writes on).
* The comment on scale-down speaks of runners idle for five minutes; the
  condition has no time in it.

## 6. Not modelled

* When the autoscaler of a scale set acts: `targetRunners` against `runnerCount`.
  ScaleSetRunner lets it act at any time.
* The balancer, the back-off intervals, the refresh of a session token: they
  decide which pool comes first, or when, and no property depends on it.
* The registry of pool managers (`poolManagerCtrl`, `runner.go` 458-763): a map
  under a mutex that the API and retryFailedEntity fill. Its two races are in
  section 5; Supervision has the same shape with more of the hard parts.
* Several scale sets of one entity, several entities: nothing is shared between
  them but mutexes that Supervision has.
* In-memory caches fed by events: Watcher says what they may miss.
* Credential management, webhook installation, tool downloads, metadata,
  authentication, the API server, the CLI, the web application, the generated
  client and the configuration are input, output or generated code. They are most
  of the repository's lines; the state the properties are about is not in them.

## 7. Plan

Done: all modules above, with the proofs of their safety properties and of the
refinement. Left, in this order:

1. The safety lemmas behind the liveness properties: that the step each of them
   waits for is always possible (`LockOwned` is one: whoever holds the lock is at a
   step that releases it), as leads-to arguments need them.
2. The size of a scale set (`handleAutoScale`) beside PoolScaling.
3. Shorter proofs: the lanes of PoolInstance and the actions of ScaleSetRunner
   have many steps that leave most of the invariant alone.
