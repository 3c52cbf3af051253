------------------------------ MODULE JobQueue ------------------------------
(***************************************************************************)
(* The life of ONE workflow job in garm: its row in the store, the pool    *)
(* managers (repository, organization, enterprise) that may all be told    *)
(* about it and may all create a runner for it, the lock in the row that   *)
(* keeps them apart, and the copy of the job each manager keeps in memory  *)
(* and decides by (runner/pool/pool.go, runner/pool/watcher.go,            *)
(* database/sql/jobs.go).                                                  *)
(*                                                                         *)
(* A write of the store commits first and notifies afterwards, so the      *)
(* actor that wrote is at a step of its own until its event is in the      *)
(* queues of the managers: the events of two actors may be queued in       *)
(* another order than they were committed in.  UpdatedAt is the number of  *)
(* the write.  A row that is deleted and recorded again has a new ID.      *)
(***************************************************************************)
EXTENDS Naturals, Sequences, FiniteSets

CONSTANTS
    Managers,       \* the pool managers whose entity owns the job
    Handlers,       \* bound: the webhooks handled at the same time
    MaxWrites,      \* bound: writes of the job's row
    MaxSpare,       \* bound: runners created for the job and waiting
    MaxRows,        \* bound: rows the job gets; the last one is not deleted
    MaxCrashes,     \* bound: how often the process dies
    Faults          \* "lostevent": Notify times out; "otherjob": a runner
                    \* created for this job takes another one

ASSUME JobQueueAssumption ==
    /\ MaxWrites \in Nat /\ MaxSpare \in Nat /\ MaxRows \in Nat \ {0} /\ MaxCrashes \in Nat
    /\ Faults \subseteq {"lostevent", "otherjob"}
    /\ Managers \cap (Handlers \cup {"cleaner", "otherhook", "nobody"}) = {}
    /\ Handlers \cap {"cleaner", "otherhook"} = {}

Nobody == "nobody"
Actions == {"queued", "in_progress", "completed"}

\* statusRank of persistJobToDB; a job without a row comes before all
Rank == [none |-> 0, queued |-> 1, in_progress |-> 2, completed |-> 3]

\* Who writes the row: webhook handlers, the managers' job consumers, the
\* clean-ups, and the webhook of another job that got a runner of this one.
Cleaner == "cleaner"
OtherHook == "otherhook"
Writers == Managers \cup Handlers \cup {Cleaner, OtherHook}

VARIABLES
    db,         \* the row of the job
    wfJob,      \* the job at the forge
    hooks,      \* webhook deliveries on their way, one per manager and action
    step,       \* the step each writer is at
    work,       \* the delivery a handler works on
    copy,       \* the cached job a consumer works on
    event,      \* what a writer has committed and not yet notified
    queue,      \* the watcher events each manager has yet to handle
    jobs,       \* each manager's cache, by row ID
    tombs,      \* the IDs each manager retired
    seeded,     \* the managers whose watcher listed the jobs at its start
    runners,    \* runners created for the job that have no job yet
    crashes,
    amiss,      \* history: a manager was not told of a write of a row, or the row
                \* came back after it was completed
    broken      \* history: the rows whose lock the webhook of another job broke

store == <<db, event, broken>>
managers == <<queue, jobs, tombs, seeded, amiss>>
vars == <<db, wfJob, hooks, step, work, copy, event, queue, jobs, tombs, seeded,
          runners, crashes, amiss, broken>>

Ids == 1..MaxRows
JobRows == [id : 0..MaxRows, status : Actions \cup {"none"}, lockedBy : Managers \cup {Nobody},
            owners : SUBSET Managers, stamp : 0..MaxWrites]
NoJob == [id |-> 0, status |-> "none", lockedBy |-> Nobody, owners |-> {}, stamp |-> 0]
NoEvent == [op |-> "none", job |-> NoJob]
NoWork == [to |-> Nobody, action |-> "queued"]
Deliveries == [to : Managers, action : Actions]

Init ==
    /\ db = NoJob
    /\ wfJob = "none"
    /\ hooks = {}
    /\ step = [a \in Writers |-> "idle"]
    /\ work = [h \in Handlers |-> NoWork]
    /\ copy = [m \in Managers |-> NoJob]
    /\ event = [a \in Writers |-> NoEvent]
    /\ queue = [m \in Managers |-> <<>>]
    /\ jobs = [m \in Managers |-> [i \in Ids |-> NoJob]]
    /\ tombs = [m \in Managers |-> {}]
    /\ seeded = Managers
    /\ runners = 0
    /\ crashes = 0
    /\ amiss = {}
    /\ broken = {}

-----------------------------------------------------------------------------
\* The store.

Recorded == db.status # "none"
Goto(a, s) == step' = [step EXCEPT ![a] = s]

\* A transaction that changes the row; its writer still has to notify.
Commit(a, op, row) ==
    /\ db.stamp < MaxWrites
    /\ db' = [row EXCEPT !.stamp = db.stamp + 1]
    /\ event' = [event EXCEPT ![a] = [op |-> op, job |-> db']]
    /\ broken' = IF a = OtherHook THEN broken \cup {db.id} ELSE broken

\* DeleteJob: the event carries the row as it was.
CommitDelete(a) ==
    /\ db.id < MaxRows
    /\ db' = [db EXCEPT !.status = "none", !.lockedBy = Nobody, !.owners = {}]
    /\ event' = [event EXCEPT ![a] = [op |-> "delete", job |-> db]]
    /\ UNCHANGED broken

\* sendNotify: the event enters the queue of every manager the job belongs to,
\* or Notify gives up after a second.
Notify(a) ==
    /\ event[a] # NoEvent
    /\ event' = [event EXCEPT ![a] = NoEvent]
    /\ \/ /\ queue' = [m \in Managers |-> IF m \in event[a].job.owners
                                          THEN Append(queue[m], event[a]) ELSE queue[m]]
          /\ UNCHANGED amiss
       \/ /\ "lostevent" \in Faults
          /\ amiss' = amiss \cup {<<m, event[a].job.id>> : m \in event[a].job.owners}
          /\ UNCHANGED queue
    /\ UNCHANGED <<db, wfJob, hooks, step, work, copy, jobs, tombs, seeded, runners, crashes,
                   broken>>

\* A writer goes on once its event is notified.
Ready(a, s) == step[a] = s /\ event[a] = NoEvent

\* UnlockJob by m: refused when there is no row or when another one holds it.
MayUnlock(m) == Recorded /\ db.lockedBy \in {Nobody, m}
UnlockJob(m) ==
    \/ MayUnlock(m) /\ db.lockedBy = m /\ Commit(m, "update", [db EXCEPT !.lockedBy = Nobody])
    \/ (MayUnlock(m) => db.lockedBy = Nobody) /\ UNCHANGED store

-----------------------------------------------------------------------------
\* HandleWorkflowJob and persistJobToDB, in the handler h.

\* GetJobByID, the check that the job only moves forward, and shouldRecordJob: a
\* job without a row is recorded when it is queued, or when its runner is ours.  Two
\* handlers may pass the check before either writes: the row can go back.
PersistRead(h) ==
    /\ step[h] = "idle" /\ event[h] = NoEvent
    /\ \E d \in hooks :
        /\ hooks' = hooks \ {d}
        /\ \/ /\ Rank[d.action] >= Rank[db.status]
              /\ work' = [work EXCEPT ![h] = d]
              /\ Goto(h, "write")
           \/ /\ Rank[d.action] < Rank[db.status] \/ (~Recorded /\ d.action # "queued")
              /\ UNCHANGED <<work, step>>
    /\ UNCHANGED <<store, wfJob, copy, managers, runners, crashes>>

\* CreateOrUpdateJob: looks for the row again, leaves its lock alone, and does not look at
\* its status: of two webhooks handled at a time, one may bring a completed row back.
PersistWrite(h) ==
    LET a == work[h].action
        m == work[h].to
    IN /\ step[h] = "write"
       /\ \/ /\ Recorded
             /\ Commit(h, "update", [db EXCEPT !.status = a, !.owners = @ \cup {m}])
          \/ /\ ~Recorded
             /\ Commit(h, "create", [NoJob EXCEPT !.id = db.id + 1, !.status = a, !.owners = {m}])
       /\ amiss' = IF db.status = "completed" /\ a # "completed"
                   THEN amiss \cup (Managers \X {db.id}) ELSE amiss
       /\ Goto(h, "idle")
       /\ work' = [work EXCEPT ![h] = NoWork]
       /\ UNCHANGED <<wfJob, hooks, copy, queue, jobs, tombs, seeded, runners, crashes>>

\* A runner created for this job took another one: its in_progress webhook
\* breaks the lock, whoever holds it, while the job is queued.
BreakLockJobIsQueued ==
    /\ "otherjob" \in Faults /\ event[OtherHook] = NoEvent
    /\ runners > 0 /\ runners' = runners - 1
    /\ \/ db.status = "queued" /\ db.lockedBy # Nobody
          /\ Commit(OtherHook, "update", [db EXCEPT !.lockedBy = Nobody])
       \/ ~(db.status = "queued" /\ db.lockedBy # Nobody) /\ UNCHANGED store
    /\ UNCHANGED <<wfJob, hooks, step, work, copy, managers, crashes>>

-----------------------------------------------------------------------------
\* consumeQueuedJobs of the manager m, as far as it concerns this job.

Done(m) == Goto(m, "idle") /\ copy' = [copy EXCEPT ![m] = NoJob]

\* getQueuedJobs gives a copy; a job locked by someone else is left alone.  Ten
\* minutes after its last update the lock is given up first.
ConsumeRead(m) ==
    /\ Ready(m, "idle") /\ m \in seeded
    /\ \E i \in Ids :
        /\ jobs[m][i].status = "queued" /\ jobs[m][i].lockedBy \in {Nobody, m}
        /\ copy' = [copy EXCEPT ![m] = [NoJob EXCEPT !.id = i, !.lockedBy = jobs[m][i].lockedBy]]
    /\ Goto(m, "unlock") \/ (copy'[m].lockedBy = Nobody /\ Goto(m, "lock"))
    /\ UNCHANGED <<store, wfJob, hooks, work, managers, runners, crashes>>

\* The copy still says that the job was ours: it is skipped until the next round.
ConsumeUnlock(m) ==
    /\ step[m] = "unlock"
    /\ UnlockJob(m)
    /\ IF MayUnlock(m) /\ copy[m].lockedBy # m
       THEN Goto(m, "lock") /\ UNCHANGED copy ELSE Done(m)
    /\ UNCHANGED <<wfJob, hooks, work, managers, runners, crashes>>

\* The runner is created for the row that was locked.
ForRow(m) == Goto(m, "add") /\ copy' = [copy EXCEPT ![m] = [NoJob EXCEPT !.id = db.id]]

\* Mutant: the holder of the lock is not looked at.
LockJobAnyway(m) ==
    /\ Ready(m, "lock")
    /\ \/ /\ Recorded
          /\ Commit(m, "update", [db EXCEPT !.lockedBy = m])
          /\ ForRow(m)
       \/ /\ ~Recorded
          /\ Done(m) /\ UNCHANGED store
    /\ UNCHANGED <<wfJob, hooks, work, managers, runners, crashes>>

\* Mutant: a job without a row is locked, which saves a new one.
LockJobMissing(m) ==
    /\ Ready(m, "lock")
    /\ \/ /\ db.lockedBy \in {Nobody, m}
          /\ Commit(m, "update", [db EXCEPT !.lockedBy = m])
          /\ ForRow(m)
       \/ /\ db.lockedBy \notin {Nobody, m}
          /\ Done(m) /\ UNCHANGED store
    /\ UNCHANGED <<wfJob, hooks, work, managers, runners, crashes>>

\* LockJob: "already locked by us" is no error, and the status is not looked at.
LockJob(m) ==
    /\ Ready(m, "lock")
    /\ \/ /\ Recorded /\ db.lockedBy = Nobody
          /\ Commit(m, "update", [db EXCEPT !.lockedBy = m])
          /\ ForRow(m)
       \/ /\ Recorded /\ db.lockedBy = m
          /\ ForRow(m) /\ UNCHANGED store
       \/ /\ ~Recorded \/ db.lockedBy \notin {Nobody, m}
          /\ Done(m) /\ UNCHANGED store
    /\ UNCHANGED <<wfJob, hooks, work, managers, runners, crashes>>

\* addRunnerToPool: a runner is created in one of the pools, or in none
ConsumeAdd(m) ==
    /\ Ready(m, "add")
    /\ \/ runners < MaxSpare /\ runners' = runners + 1 /\ Done(m)
       \/ UNCHANGED <<runners, copy>> /\ Goto(m, "giveup")
    /\ UNCHANGED <<store, wfJob, hooks, work, managers, crashes>>

ConsumeGiveUp(m) ==
    /\ step[m] = "giveup"
    /\ UnlockJob(m)
    /\ Done(m)
    /\ UNCHANGED <<wfJob, hooks, work, managers, runners, crashes>>

-----------------------------------------------------------------------------
\* The clean-ups: scaleDownOnePool and reconcileStaleJobs list queued jobs and
\* delete one later, whatever it is by then; the retention worker deletes a
\* completed one.

CleanList ==
    /\ Ready(Cleaner, "idle") /\ db.status = "queued"
    /\ Goto(Cleaner, "delete")
    /\ UNCHANGED <<store, wfJob, hooks, work, copy, managers, runners, crashes>>

DeleteJob ==
    /\ step[Cleaner] = "delete"
    /\ \/ Recorded /\ CommitDelete(Cleaner)
       \/ ~Recorded /\ UNCHANGED store
    /\ Goto(Cleaner, "idle")
    /\ UNCHANGED <<wfJob, hooks, work, copy, managers, runners, crashes>>

DeleteInactionableJobs ==
    /\ Ready(Cleaner, "idle") /\ db.status = "completed"
    /\ CommitDelete(Cleaner)
    /\ UNCHANGED <<wfJob, hooks, step, work, copy, managers, runners, crashes>>

-----------------------------------------------------------------------------
\* The watcher of the manager m.

\* Mutant: an update is taken whatever is known of the job.
JobUpdateNeverStale(m, j) == FALSE

JobUpdateIsStale(m, j) ==
    IF jobs[m][j.id] # NoJob THEN j.stamp < jobs[m][j.id].stamp ELSE j.id \in tombs[m]

\* handleWatcherEvent
HandleWatcherEvent(m) ==
    /\ m \in seeded /\ queue[m] # <<>>
    /\ queue' = [queue EXCEPT ![m] = Tail(@)]
    /\ LET e == Head(queue[m])
           j == e.job
       IN \/ /\ e.op # "delete" /\ j.status # "completed"
             /\ jobs' = IF JobUpdateIsStale(m, j) THEN jobs ELSE [jobs EXCEPT ![m][j.id] = j]
             /\ UNCHANGED tombs
          \/ /\ e.op = "delete" \/ j.status = "completed"
             /\ jobs' = [jobs EXCEPT ![m][j.id] = NoJob]
             /\ tombs' = [tombs EXCEPT ![m] = @ \cup {j.id}]
    /\ UNCHANGED <<store, wfJob, hooks, step, work, copy, seeded, runners, crashes, amiss>>

\* An event about the row i is on its way to m.
InFlight(m, i) ==
    \/ \E a \in Writers : event[a] # NoEvent /\ event[a].job.id = i
    \/ \E k \in 1..Len(queue[m]) : queue[m][k].job.id = i

\* reapJobTombstones: no event takes the ten minutes of jobTombstoneTTL
ReapJobTombstones(m) ==
    /\ \E i \in tombs[m] :
        /\ ~InFlight(m, i)
        /\ tombs' = [tombs EXCEPT ![m] = @ \ {i}]
    /\ UNCHANGED <<store, wfJob, hooks, step, work, copy, queue, jobs, seeded, runners, crashes,
                   amiss>>

\* runWatcher starts with the jobs the store lists as queued; events may be waiting
RunWatcher(m) ==
    /\ m \notin seeded
    /\ seeded' = seeded \cup {m}
    /\ jobs' = IF db.status = "queued" /\ m \in db.owners
               THEN [jobs EXCEPT ![m][db.id] = db] ELSE jobs
    /\ UNCHANGED <<store, wfJob, hooks, step, work, copy, queue, tombs, runners, crashes, amiss>>

-----------------------------------------------------------------------------
\* The forge, and the end of the process.

\* The job moves on at the forge, which tells every manager.  A delivery that is
\* never taken is a lost one.
ForgeMoves ==
    /\ \/ wfJob = "none" /\ wfJob' = "queued"
       \/ wfJob = "queued" /\ wfJob' \in {"in_progress", "completed"}
       \/ wfJob = "in_progress" /\ wfJob' = "completed"
    /\ hooks' = hooks \cup {[to |-> m, action |-> wfJob'] : m \in Managers}
    /\ UNCHANGED <<store, step, work, copy, managers, runners, crashes>>

Crash ==
    /\ crashes < MaxCrashes
    /\ crashes' = crashes + 1
    /\ step' = [a \in Writers |-> "idle"]
    /\ work' = [h \in Handlers |-> NoWork]
    /\ copy' = [m \in Managers |-> NoJob]
    /\ event' = [a \in Writers |-> NoEvent]
    /\ queue' = [m \in Managers |-> <<>>]
    /\ jobs' = [m \in Managers |-> [i \in Ids |-> NoJob]]
    /\ tombs' = [m \in Managers |-> {}]
    /\ seeded' = {}
    /\ amiss' = {}
    /\ UNCHANGED <<db, wfJob, hooks, runners, broken>>

-----------------------------------------------------------------------------
Consume(m) == ConsumeRead(m) \/ ConsumeUnlock(m) \/ LockJob(m) \/ ConsumeAdd(m)
              \/ ConsumeGiveUp(m)
Watch(m) == HandleWatcherEvent(m) \/ ReapJobTombstones(m) \/ RunWatcher(m)

Next ==
    \/ \E a \in Writers : Notify(a)
    \/ \E h \in Handlers : PersistRead(h) \/ PersistWrite(h)
    \/ \E m \in Managers : Consume(m) \/ Watch(m)
    \/ BreakLockJobIsQueued
    \/ CleanList \/ DeleteJob \/ DeleteInactionableJobs
    \/ ForgeMoves \/ Crash

Spec == Init /\ [][Next]_vars

-----------------------------------------------------------------------------
\* The variables hold what they may hold; a job without a row is nobody's.
TypeOK ==
    /\ db \in JobRows
    /\ ~Recorded => db.lockedBy = Nobody /\ db.owners = {}
    /\ wfJob \in Actions \cup {"none"}
    /\ hooks \subseteq Deliveries
    /\ step \in [Writers -> {"idle", "write", "unlock", "lock", "add", "giveup", "delete"}]
    /\ \A h \in Handlers : work[h] # NoWork =>
           work[h] \in Deliveries
    /\ copy \in [Managers -> JobRows]
    /\ \A a \in Writers : event[a].op \in {"none", "create", "update", "delete"}
                          /\ event[a].job \in JobRows
    /\ jobs \in [Managers -> [Ids -> JobRows]]
    /\ tombs \in [Managers -> SUBSET Ids]
    /\ seeded \subseteq Managers
    /\ runners \in 0..MaxSpare
    /\ crashes \in 0..MaxCrashes
    /\ amiss \subseteq Managers \X Ids
    /\ broken \subseteq Ids

\* When no event is on its way, every manager that owns the job believes it is
\* queued, and locked by whom, exactly when the store says so: no order of
\* commits, notifications, deletions and restarts leaves a ghost in a cache, or a job
\* that a manager never sees.  Only a row that came back after it was completed, and one
\* whose event Notify gave up, may be seen wrongly, until the process starts again.
Quiet == /\ seeded = Managers
         /\ \A a \in Writers : event[a] = NoEvent
         /\ \A m \in Managers : queue[m] = <<>>
CacheAgrees ==
    Quiet => \A m \in Managers : \A i \in Ids : <<m, i>> \notin amiss =>
        LET here == i = db.id /\ db.status = "queued" /\ m \in db.owners
        IN /\ (jobs[m][i].status = "queued") <=> here
           /\ here => jobs[m][i].lockedBy = db.lockedBy

\* Two managers are never both creating a runner for the same row of the job, unless the
\* webhook of another job broke its lock.
OneCreator ==
    \A m, k \in Managers :
        step[m] = "add" /\ step[k] = "add" /\ copy[m].id = copy[k].id /\ copy[m].id \notin broken
        => m = k
=============================================================================
