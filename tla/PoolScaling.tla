---------------------------- MODULE PoolScaling -----------------------------
(***************************************************************************)
(* The size of ONE pool: the instances it has, the jobs its manager knows, *)
(* the three code paths that add instances at the same time (the loop that *)
(* keeps MinIdleRunners, the in_progress webhook that tops the pool up,    *)
(* and the consumer of queued jobs), the scale-down loop, and the clean-up *)
(* of runners that have no row (runner/pool/pool.go).                      *)
(*                                                                         *)
(* Each path counts or lists rows first and acts on the count later; only  *)
(* the transaction of CreateInstance looks at MaxRunners again.  What the  *)
(* delete loop, the provider and the locks do to one instance is the       *)
(* subject of PoolInstance; here an instance that is queued for deletion   *)
(* ("leaving") goes away in one step.  A name without a row and without a  *)
(* registration stands for a new one.                                      *)
(***************************************************************************)
EXTENDS Integers, FiniteSets

CONSTANTS
    Names,          \* instance names
    MaxRunners,     \* pool.MaxRunners
    MinIdles,       \* the values pool.MinIdleRunners may have
    Jobs,           \* workflow jobs
    Faults          \* what may happen: "forge" (a call of it fails), "boot"
                    \* (a runner never comes up), "losthook", "taken" (a job
                    \* GARM never hears of takes an idle runner)

Adders == {"idle", "hook", "queue"}
NoJob == "nojob"
NoName == "noname"

ASSUME PoolScalingAssumption ==
    /\ MaxRunners \in Nat /\ MinIdles \subseteq 0..MaxRunners
    /\ IsFiniteSet(Names) /\ NoName \notin Names /\ NoJob \notin Jobs
    /\ Faults \subseteq {"forge", "boot", "losthook", "taken"}

VARIABLES
    inst,       \* the rows of the pool
    forge,      \* the runners the forge knows; "stray": offline, and AddRunner
                \* failed to remove it after a refused insert
    job,        \* the jobs: at the forge, and as the manager knows them
    adder,      \* how far each adding path is
    victims,    \* what scaleDown chose and has not removed at the forge yet
    removed,    \* what it removed at the forge and has not marked yet
    pruning,    \* scaleDown has yet to delete jobs that look stale
    offline,    \* runners the clean-up loop saw offline at the forge
    minIdle     \* pool.MinIdleRunners

down == <<victims, removed, pruning>>
vars == <<inst, forge, job, adder, down, offline, minIdle>>

NoInst == [runner |-> "none", leaving |-> FALSE, for |-> NoJob]
Fresh(j) == [runner |-> "pending", leaving |-> FALSE, for |-> j]
Path(s, l, j) == [step |-> s, left |-> l, name |-> NoName, for |-> j]
Idle == Path("idle", 0, NoJob)

Init ==
    /\ inst = [n \in Names |-> NoInst]
    /\ forge = [n \in Names |-> "absent"]
    /\ job = [j \in Jobs |-> [at |-> "none", on |-> NoName, known |-> "no", old |-> FALSE,
                              hooks |-> {}]]
    /\ adder = [a \in Adders |-> Idle]
    /\ victims = {} /\ removed = {} /\ pruning = FALSE
    /\ offline = {}
    /\ minIdle \in MinIdles

-----------------------------------------------------------------------------
Rows == {n \in Names : inst[n].runner # "none"}
IdleWorkers == {n \in Rows : inst[n].runner = "idle" /\ ~inst[n].leaving}
QueuedJobs == {j \in Jobs : job[j].known \in {"queued", "locked"}}

\* What ensureIdleRunnersForOnePool counts: any runner that is neither active
\* nor terminated, one that failed or is being deleted included.
IdleOrPending == {n \in Rows : inst[n].runner \notin {"active", "terminated"}}

\* Nothing remembers the name: it can stand for a new one.
Unused(n) ==
    /\ inst[n] = NoInst /\ forge[n] = "absent"
    /\ n \notin victims \cup removed \cup offline
    /\ \A a \in Adders : adder[a].name # n
    /\ \A j \in Jobs : job[j].on = n => job[j].at = "ended" /\ job[j].hooks = {}

Know(j, k) == job' = [job EXCEPT ![j].known = k]

-----------------------------------------------------------------------------
\* Adding instances.

\* Mutant: the pool is filled past its maximum.
RequiredOffByOne == MaxRunners + 1 - Cardinality(IdleOrPending)

\* how many instances are missing, clipped at MaxRunners
Required ==
    LET missing == minIdle - Cardinality(IdleOrPending)
        excess == Cardinality(Rows) + missing - MaxRunners
    IN IF excess > 0 THEN missing - excess ELSE missing

\* ensureIdleRunnersForOnePool, from the loop or from the in_progress webhook
EnsureIdle(a) ==
    /\ (a = "idle" /\ adder[a].step = "idle") \/ (a = "hook" /\ adder[a].step = "list")
    /\ IF minIdle > 0 /\ Cardinality(Rows) < MaxRunners /\ Required > 0
       THEN adder' = [adder EXCEPT ![a] = Path("register", Required, NoJob)]
       ELSE a = "hook" /\ adder' = [adder EXCEPT ![a] = Idle]
    /\ UNCHANGED <<inst, forge, job, down, offline, minIdle>>

\* consumeQueuedJobs locks a job ...
ConsumeJob(j) ==
    /\ adder["queue"].step = "idle" /\ job[j].known = "queued"
    /\ Know(j, "locked")
    /\ adder' = [adder EXCEPT !["queue"] = Path("count", 0, j)]
    /\ UNCHANGED <<inst, forge, down, offline, minIdle>>

\* The path is done; the consumer unlocks a job it could not create a runner for.
GiveUp(a) ==
    /\ adder' = [adder EXCEPT ![a] = Idle]
    /\ LET j == adder[a].for
       IN job' = IF j # NoJob /\ job[j].known = "locked"
                 THEN [job EXCEPT ![j].known = "queued"] ELSE job

\* ... and addRunnerToPool counts the instances
AddRunnerToPool ==
    /\ adder["queue"].step = "count"
    /\ IF Cardinality(Rows) >= MaxRunners
       THEN GiveUp("queue")
       ELSE /\ adder' = [adder EXCEPT !["queue"].step = "register", !["queue"].left = 1]
            /\ UNCHANGED job
    /\ UNCHANGED <<inst, forge, down, offline, minIdle>>

\* AddRunner: GetEntityJITConfig registers a new name
AddRunnerRegister(a) ==
    /\ adder[a].step = "register"
    /\ \/ \E n \in Names :
            /\ Unused(n)
            /\ forge' = [forge EXCEPT ![n] = "offline"]
            /\ adder' = [adder EXCEPT ![a].step = "insert", ![a].name = n]
            /\ UNCHANGED job
       \/ "forge" \in Faults /\ GiveUp(a) /\ UNCHANGED forge
    /\ UNCHANGED <<inst, down, offline, minIdle>>

\* Mutant: the transaction does not count again.
InsertUncounted(a) ==
    LET n == adder[a].name
    IN /\ adder[a].step = "insert"
       /\ inst' = [inst EXCEPT ![n] = Fresh(adder[a].for)]
       /\ adder' = [adder EXCEPT ![a] = IF @.left = 1 THEN Idle
                        ELSE Path("register", @.left - 1, @.for)]
       /\ UNCHANGED <<forge, job, down, offline, minIdle>>

\* Mutant: the runner of a refused insert stays registered.
InsertNoCleanup(a) ==
    LET n == adder[a].name
    IN /\ adder[a].step = "insert"
       /\ \/ /\ Cardinality(Rows) < MaxRunners
             /\ inst' = [inst EXCEPT ![n] = Fresh(adder[a].for)]
             /\ adder' = [adder EXCEPT ![a] = IF @.left = 1 THEN Idle
                              ELSE Path("register", @.left - 1, @.for)]
             /\ UNCHANGED job
          \/ /\ Cardinality(Rows) >= MaxRunners
             /\ GiveUp(a)
             /\ UNCHANGED inst
       /\ UNCHANGED <<forge, down, offline, minIdle>>

\* CreateInstance counts in its transaction.  When it refuses, AddRunner removes
\* the runner it registered and the path gives up.
AddRunnerInsert(a) ==
    LET n == adder[a].name
    IN /\ adder[a].step = "insert"
       /\ \/ /\ Cardinality(Rows) < MaxRunners
             /\ inst' = [inst EXCEPT ![n] = Fresh(adder[a].for)]
             /\ adder' = [adder EXCEPT ![a] = IF @.left = 1 THEN Idle
                              ELSE Path("register", @.left - 1, @.for)]
             /\ UNCHANGED <<forge, job>>
          \/ /\ Cardinality(Rows) >= MaxRunners
             /\ GiveUp(a)
             /\ \/ forge' = [forge EXCEPT ![n] = "absent"]
                \/ /\ "forge" \in Faults
                   /\ forge' = [forge EXCEPT ![n] = IF @ = "absent" THEN @ ELSE "stray"]
             /\ UNCHANGED inst
       /\ UNCHANGED <<down, offline, minIdle>>

\* Mutant: the comparison with the ten minutes is the wrong way round.
UnlockJobEarly(j) ==
    /\ adder["queue"].step = "idle" /\ job[j].known = "locked" /\ ~job[j].old
    /\ Know(j, "queued")
    /\ UNCHANGED <<inst, forge, adder, down, offline, minIdle>>

\* consumeQueuedJobs, ten minutes after the job was locked
UnlockJob(j) ==
    /\ adder["queue"].step = "idle" /\ job[j].known = "locked" /\ job[j].old
    /\ Know(j, "queued")
    /\ UNCHANGED <<inst, forge, adder, down, offline, minIdle>>

-----------------------------------------------------------------------------
\* scaleDownOnePool

\* Mutant: the half is rounded down.
NumScaleDownFloor ==
    LET surplus == Cardinality(IdleWorkers) - (minIdle + Cardinality(QueuedJobs))
    IN IF surplus > 0 THEN surplus \div 2 ELSE 0

\* math.Ceil(surplus * 0.5)
NumScaleDown ==
    LET surplus == Cardinality(IdleWorkers) - (minIdle + Cardinality(QueuedJobs))
    IN IF surplus > 0 THEN (surplus + 1) \div 2 ELSE 0

\* TryLock may fail for any of the chosen ones.
DownList ==
    /\ victims = {} /\ removed = {} /\ ~pruning
    /\ NumScaleDown > 0
    /\ \E v \in SUBSET IdleWorkers :
        /\ Cardinality(v) = NumScaleDown
        /\ victims' \in SUBSET v
    /\ pruning' = TRUE
    /\ UNCHANGED <<inst, forge, job, adder, removed, offline, minIdle>>

\* queued jobs older than ten minutes are taken for stale
DownPrune ==
    /\ pruning
    /\ job' = [j \in Jobs |-> IF j \in QueuedJobs /\ job[j].old
                               THEN [job[j] EXCEPT !.known = "pruned"] ELSE job[j]]
    /\ pruning' = FALSE
    /\ UNCHANGED <<inst, forge, adder, victims, removed, offline, minIdle>>

\* DeleteRunner: the forge gives up the runner unless it is busy, ...
DownRemove(n) ==
    /\ n \in victims
    /\ victims' = victims \ {n}
    /\ \/ /\ forge[n] # "busy"
          /\ forge' = [forge EXCEPT ![n] = "absent"]
          /\ removed' = removed \cup {n}
       \/ /\ forge[n] = "busy" \/ "forge" \in Faults
          /\ UNCHANGED <<forge, removed>>
    /\ UNCHANGED <<inst, job, adder, pruning, offline, minIdle>>

\* ... then the row is queued for deletion
DownMark(n) ==
    /\ n \in removed
    /\ removed' = removed \ {n}
    /\ inst' = IF n \in Rows THEN [inst EXCEPT ![n].leaving = TRUE] ELSE inst
    /\ UNCHANGED <<forge, job, adder, victims, pruning, offline, minIdle>>

-----------------------------------------------------------------------------
\* The clean-up loop, and the delete loop.

\* runnerCleanup fetches the forge's list ...
GhList ==
    /\ offline = {}
    /\ offline' = {n \in Names : forge[n] \in {"offline", "stray"}}
    /\ offline' # {}
    /\ UNCHANGED <<inst, forge, job, adder, down, minIdle>>

\* ... and cleanupOrphanedGithubRunners removes the offline ones without a row;
\* an error ends the pass
GhRemove(n) ==
    /\ n \in offline
    /\ \/ /\ n \in Rows
          /\ offline' = offline \ {n}
          /\ UNCHANGED forge
       \/ /\ n \notin Rows /\ forge[n] # "busy"
          /\ offline' = offline \ {n}
          /\ forge' = [forge EXCEPT ![n] = "absent"]
       \/ /\ n \notin Rows /\ (forge[n] = "busy" \/ "forge" \in Faults)
          /\ offline' = {}
          /\ UNCHANGED forge
    /\ UNCHANGED <<inst, job, adder, down, minIdle>>

\* reapTimedOutRunners (a runner that did not come up) and
\* cleanupOrphanedProviderRunners (one the forge forgot) queue the deletion
Reap(n) ==
    /\ n \in Rows /\ ~inst[n].leaving
    /\ forge[n] = "absent" \/ (forge[n] = "offline" /\ inst[n].runner \in {"pending", "failed"})
    /\ forge' = [forge EXCEPT ![n] = "absent"]
    /\ inst' = [inst EXCEPT ![n].leaving = TRUE]
    /\ UNCHANGED <<job, adder, down, offline, minIdle>>

\* deletePendingInstances
DeletePending(n) ==
    /\ n \in Rows /\ inst[n].leaving
    /\ inst' = [inst EXCEPT ![n] = NoInst]
    /\ UNCHANGED <<forge, job, adder, down, offline, minIdle>>

-----------------------------------------------------------------------------
\* Webhooks.

HookQueued(j) ==
    /\ "queued" \in job[j].hooks
    /\ job' = [job EXCEPT ![j].hooks = @ \ {"queued"},
                          ![j].known = IF @ = "no" THEN "queued" ELSE @]
    /\ UNCHANGED <<inst, forge, adder, down, offline, minIdle>>

\* handleInProgressJob, then the lock of the job this runner was created for is
\* broken, if that is another one.  Nothing happens when the job is completed.
HookInProgress(j) ==
    LET n == job[j].on
        ours == n \in Rows
        first == IF ours THEN inst[n].for ELSE NoJob
    IN /\ "in_progress" \in job[j].hooks /\ adder["hook"].step = "idle"
       /\ IF job[j].known = "done"
          THEN job' = [job EXCEPT ![j].hooks = @ \ {"in_progress"}] /\ UNCHANGED <<inst, adder>>
          ELSE /\ inst' = IF ours THEN [inst EXCEPT ![n].runner = "active"] ELSE inst
               /\ adder' = IF ours THEN [adder EXCEPT !["hook"].step = "list"] ELSE adder
               /\ job' = [k \in Jobs |->
                     IF k = j THEN [job[k] EXCEPT !.hooks = @ \ {"in_progress"}, !.known = "started"]
                     ELSE IF k = first /\ job[k].known = "locked" THEN [job[k] EXCEPT !.known = "queued"]
                     ELSE job[k]]
       /\ UNCHANGED <<forge, down, offline, minIdle>>

\* handleCompletedJob
HookCompleted(j) ==
    LET n == job[j].on
    IN /\ "completed" \in job[j].hooks
       /\ inst' = IF n \in Rows THEN [inst EXCEPT ![n].runner = "terminated", ![n].leaving = TRUE]
                  ELSE inst
       /\ job' = [job EXCEPT ![j].hooks = @ \ {"completed"}, ![j].known = "done"]
       /\ UNCHANGED <<forge, adder, down, offline, minIdle>>

HookLost(j) ==
    /\ "losthook" \in Faults
    /\ \E h \in job[j].hooks : job' = [job EXCEPT ![j].hooks = @ \ {h}]
    /\ UNCHANGED <<inst, forge, adder, down, offline, minIdle>>

-----------------------------------------------------------------------------
\* The forge and the machines.

JobArrives(j) ==
    /\ job[j].at = "none"
    /\ job' = [job EXCEPT ![j].at = "waiting", ![j].hooks = {"queued"}]
    /\ UNCHANGED <<inst, forge, adder, down, offline, minIdle>>

\* Ten minutes have passed since the job's row was created (what scaleDown looks at), and
\* since it was locked (what the consumer looks at).  They do not pass between
\* scaleDown's count and its listing.
JobAges(j) ==
    /\ j \in QueuedJobs /\ ~job[j].old /\ ~pruning
    /\ job' = [job EXCEPT ![j].old = TRUE]
    /\ UNCHANGED <<inst, forge, adder, down, offline, minIdle>>

\* the runner comes up and reports that it is idle
RunnerUp(n) ==
    /\ n \in Rows /\ inst[n].runner = "pending" /\ ~inst[n].leaving /\ forge[n] = "offline"
    /\ forge' = [forge EXCEPT ![n] = "idle"]
    /\ inst' = [inst EXCEPT ![n].runner = "idle"]
    /\ UNCHANGED <<job, adder, down, offline, minIdle>>

RunnerFails(n) ==
    /\ "boot" \in Faults
    /\ n \in Rows /\ inst[n].runner = "pending"
    /\ inst' = [inst EXCEPT ![n].runner = "failed"]
    /\ UNCHANGED <<forge, job, adder, down, offline, minIdle>>

JobStarts(j) ==
    /\ job[j].at = "waiting"
    /\ \E n \in Names :
        /\ forge[n] = "idle"
        /\ forge' = [forge EXCEPT ![n] = "busy"]
        /\ job' = [job EXCEPT ![j].at = "running", ![j].on = n, ![j].hooks = @ \cup {"in_progress"}]
    /\ UNCHANGED <<inst, adder, down, offline, minIdle>>

\* A job of which no webhook ever arrives takes the runner a job is waiting for,
\* and ends.
TakenByOther(n) ==
    /\ "taken" \in Faults
    /\ forge[n] = "idle" /\ \E j \in Jobs : job[j].at = "waiting"
    /\ forge' = [forge EXCEPT ![n] = "absent"]
    /\ UNCHANGED <<inst, job, adder, down, offline, minIdle>>

JobEnds(j) ==
    /\ job[j].at = "running"
    /\ job' = [job EXCEPT ![j].at = "ended", ![j].hooks = @ \cup {"completed"}]
    /\ forge' = [forge EXCEPT ![job[j].on] = "absent"]
    /\ UNCHANGED <<inst, adder, down, offline, minIdle>>

-----------------------------------------------------------------------------
AddRunner(a) == AddRunnerRegister(a) \/ AddRunnerInsert(a)
Down == DownList \/ DownPrune \/ (\E n \in Names : DownRemove(n) \/ DownMark(n))
Clean == GhList \/ (\E n \in Names : GhRemove(n) \/ Reap(n) \/ DeletePending(n))
Hook(j) == HookQueued(j) \/ HookInProgress(j) \/ HookCompleted(j)
Outside == \/ \E j \in Jobs : JobArrives(j) \/ JobAges(j) \/ JobStarts(j) \/ JobEnds(j) \/ HookLost(j)
           \/ \E n \in Names : RunnerUp(n) \/ RunnerFails(n) \/ TakenByOther(n)

Next ==
    \/ \E a \in {"idle", "hook"} : EnsureIdle(a)
    \/ \E a \in Adders : AddRunner(a)
    \/ AddRunnerToPool
    \/ \E j \in Jobs : ConsumeJob(j) \/ UnlockJob(j) \/ Hook(j)
    \/ Down \/ Clean \/ Outside

Spec == Init /\ [][Next]_vars

\* Loops tick and webhooks are handled.  Every queued job is looked at in every
\* round of the consumer; a runner that is registered over and over is inserted
\* before a clean-up removes it, and comes up before its timeout at some time; a
\* runner that is to be scaled down is not locked forever; and of the runners that
\* come up for a job over and over, others do not take every one.
Fairness ==
    /\ \A a \in {"idle", "hook"} : WF_vars(EnsureIdle(a))
    /\ \A a \in Adders : WF_vars(AddRunner(a))
    /\ SF_vars(\E a \in Adders : AddRunnerInsert(a) /\ inst' # inst /\ forge[adder[a].name] = "offline")
    /\ WF_vars(AddRunnerToPool)
    /\ \A j \in Jobs : /\ SF_vars(ConsumeJob(j)) /\ SF_vars(UnlockJob(j))
                       /\ WF_vars(HookQueued(j)) /\ SF_vars(HookInProgress(j)) /\ WF_vars(HookCompleted(j))
                       /\ WF_vars(JobAges(j)) /\ SF_vars(JobStarts(j)) /\ WF_vars(JobEnds(j))
    /\ WF_vars(Down) /\ SF_vars(DownList /\ victims' # {})
    /\ WF_vars(\E n \in Names : GhRemove(n)) /\ WF_vars(\E n \in Names : Reap(n))
    /\ WF_vars(\E n \in Names : DeletePending(n)) /\ SF_vars(\E n \in Names : RunnerUp(n))

FairSpec == Spec /\ Fairness

-----------------------------------------------------------------------------
Insts == [runner : {"none", "pending", "idle", "active", "failed", "terminated"},
          leaving : BOOLEAN, for : Jobs \cup {NoJob}]
JobRecs == [at : {"none", "waiting", "running", "ended"}, on : Names \cup {NoName},
            known : {"no", "queued", "locked", "started", "done", "pruned"}, old : BOOLEAN,
            hooks : SUBSET {"queued", "in_progress", "completed"}]
AdderRecs == [step : {"idle", "list", "count", "register", "insert"}, left : 0..MaxRunners,
              name : Names \cup {NoName}, for : Jobs \cup {NoJob}]
\* The variables hold what they may hold.
TypeOK ==
    /\ inst \in [Names -> Insts]
    /\ forge \in [Names -> {"absent", "offline", "stray", "idle", "busy"}]
    /\ job \in [Jobs -> JobRecs]
    /\ adder \in [Adders -> AdderRecs]
    /\ victims \subseteq Names /\ removed \subseteq Names /\ pruning \in BOOLEAN
    /\ offline \subseteq Names /\ minIdle \in MinIdles

\* The pool never has more instances than MaxRunners, although three paths add
\* instances at once and each decided to on a count that is stale by then.
RowsBounded == Cardinality(Rows) <= MaxRunners

\* A runner the forge knows has a row, or AddRunner is about to insert it, or the
\* forge refused to give it up: what a refused insert registered is removed, and
\* a row is only deleted after the forge gave up its runner.
RegistrationOwned ==
    \A n \in Names : forge[n] \notin {"absent", "stray"} /\ n \notin Rows =>
                        \E a \in Adders : adder[a].name = n

\* Once the jobs are over, the pool settles at exactly minIdle idle runners:
\* adding and scaling down do not chase each other, and an overshoot of two
\* concurrent top-ups is taken back.
PoolSettles ==
    <>[](\A j \in Jobs : job[j].at \in {"none", "ended"}) =>
        <>[](Cardinality(IdleWorkers) = minIdle /\ Rows = IdleWorkers)

\* A queued job the manager knows is run sooner or later, also when no idle runner is
\* kept and jobs GARM never hears of take the runners that come up for it: the
\* consumer takes the job up again ten minutes later.  Not so when scaleDown deleted
\* the job as stale.
JobServed ==
    \A j \in Jobs : (job[j].known = "queued") ~>
        (job[j].at \in {"running", "ended"} \/ job[j].known = "pruned")
=============================================================================
