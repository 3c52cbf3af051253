-------------------------- MODULE PoolScalingProofs --------------------------
(***************************************************************************)
(* Whatever the number of names and jobs and the limits of the pool: its   *)
(* state keeps its type, it never has more rows than MaxRunners, and no    *)
(* registration is left without an owner that the forge would give up.     *)
(*                                                                         *)
(* The bound follows from the one step that adds a row, which counts in    *)
(* its own transaction.  Ownership is not inductive: the proof adds that   *)
(* whatever is about to give up a row (a deletion, a scale-down, a         *)
(* completed job) has seen its registration go.                            *)
(***************************************************************************)
EXTENDS PoolScaling, FiniteSetTheorems, TLAPS

\* A path that is adding has something left to add.
LeftPositive == \A a \in Adders : adder[a].step \in {"register", "insert"} => adder[a].left > 0

TypeInv == TypeOK /\ LeftPositive

LEMMA RowsFinite == IsFiniteSet(Rows) /\ Cardinality(Rows) \in Nat
<1>1. Rows \in SUBSET Names
  BY DEF Rows
<1>2. IsFiniteSet(Rows)
  BY <1>1, FS_Subset, PoolScalingAssumption
<1> QED
  BY <1>2, FS_CardinalityType

\* The number that is required never exceeds MaxRunners.
LEMMA RequiredBounded ==
    ASSUME minIdle \in MinIdles, Required > 0
    PROVE  Required \in 1..MaxRunners
<1>1. IsFiniteSet(IdleOrPending)
  <2>1. IdleOrPending \in SUBSET Rows
    BY DEF IdleOrPending
  <2> QED
    BY <2>1, RowsFinite, FS_Subset
<1>2. Cardinality(IdleOrPending) \in Nat
  BY <1>1, FS_CardinalityType
<1> QED
  BY <1>2, RowsFinite, PoolScalingAssumption DEF Required

LEMMA TypeInvInit == Init => TypeInv
<1> SUFFICES ASSUME Init PROVE TypeInv
  OBVIOUS
<1>1. inst \in [Names -> Insts]
  BY DEF Init, NoInst, Insts
<1>2. adder \in [Adders -> AdderRecs] /\ LeftPositive
  BY PoolScalingAssumption DEF Init, Idle, Path, AdderRecs, LeftPositive
<1>3. job \in [Jobs -> JobRecs]
  BY DEF Init, JobRecs
<1>4. pruning \in BOOLEAN
  BY Zenon DEF Init
<1> QED
  BY <1>1, <1>2, <1>3, <1>4 DEF Init, TypeInv, TypeOK

\* What the paths that add leave behind is well formed.
LEMMA IdleType ==
    ASSUME TypeInv, NEW a \in Adders, adder' = [adder EXCEPT ![a] = Idle]
    PROVE  adder' \in [Adders -> AdderRecs] /\ LeftPositive'
<1>1. Idle \in AdderRecs /\ Idle.step = "idle"
  BY PoolScalingAssumption DEF Idle, Path, AdderRecs
<1> QED
  BY <1>1 DEF TypeInv, TypeOK, LeftPositive

LEMMA GiveUpType ==
    ASSUME TypeInv, NEW a \in Adders, GiveUp(a)
    PROVE  job' \in [Jobs -> JobRecs] /\ adder' \in [Adders -> AdderRecs] /\ LeftPositive'
<1>1. adder' = [adder EXCEPT ![a] = Idle]
  BY DEF GiveUp
<1>2. adder[a].for \in Jobs \cup {NoJob}
  BY DEF TypeInv, TypeOK, AdderRecs
<1>3. job' \in [Jobs -> JobRecs]
  BY <1>2 DEF GiveUp, TypeInv, TypeOK, JobRecs
<1> QED
  BY <1>1, <1>3, IdleType

LEMMA TypeInvNext ==
    ASSUME TypeInv, [Next]_vars
    PROVE  TypeInv'
<1>a. adder \in [Adders -> AdderRecs]
  BY DEF TypeInv, TypeOK
<1>i. inst \in [Names -> Insts]
  BY DEF TypeInv, TypeOK
<1>j. job \in [Jobs -> JobRecs]
  BY DEF TypeInv, TypeOK
<1>1. CASE UNCHANGED vars
  BY <1>1 DEF vars, down, LeftPositive, TypeInv, TypeOK
<1>2. ASSUME NEW a \in {"idle", "hook"}, EnsureIdle(a) PROVE TypeInv'
  <2>1. a \in Adders
    BY DEF Adders
  <2>2. ASSUME adder' = [adder EXCEPT ![a] = Idle] PROVE TypeInv'
    BY <1>2, <2>1, <2>2, IdleType DEF EnsureIdle, down, TypeInv, TypeOK
  <2>3. ASSUME Required > 0,
               adder' = [adder EXCEPT ![a] = Path("register", Required, NoJob)]
        PROVE  TypeInv'
    <3>1. Required \in 1..MaxRunners
      BY <2>3, RequiredBounded DEF TypeInv, TypeOK
    <3> DEFINE rec == Path("register", Required, NoJob)
    <3>3. rec \in AdderRecs /\ rec.left > 0
      BY <3>1, PoolScalingAssumption DEF Path, AdderRecs
    <3>4. adder' = [adder EXCEPT ![a] = rec]
      BY <2>3
    <3> HIDE DEF rec
    <3>5. adder' \in [Adders -> AdderRecs] /\ LeftPositive'
      BY <1>a, PoolScalingAssumption, <2>1, <3>3, <3>4 DEF LeftPositive, TypeInv
    <3> QED
      BY <1>2, <3>5 DEF EnsureIdle, down, TypeInv, TypeOK
  <2> QED
    BY <1>2, <2>2, <2>3 DEF EnsureIdle
<1>3. ASSUME NEW a \in Adders, AddRunnerRegister(a) PROVE TypeInv'
  <2>1. CASE GiveUp(a) /\ UNCHANGED forge
    BY <1>3, <2>1, GiveUpType DEF AddRunnerRegister, down, TypeInv, TypeOK
  <2>2. ASSUME NEW n \in Names, forge' = [forge EXCEPT ![n] = "offline"], UNCHANGED job,
               adder' = [adder EXCEPT ![a].step = "insert", ![a].name = n]
        PROVE  TypeInv'
    <3>1. adder' \in [Adders -> AdderRecs] /\ LeftPositive'
      <4> DEFINE rec == [adder[a] EXCEPT !.step = "insert", !.name = n]
      <4>1. rec \in AdderRecs /\ rec.left = adder[a].left
        BY <1>a DEF AdderRecs
      <4>2. adder' = [adder EXCEPT ![a] = rec]
        BY <1>a, <2>2
      <4>3. adder[a].left > 0
        BY <1>3 DEF AddRunnerRegister, LeftPositive, TypeInv
      <4> HIDE DEF rec
      <4> QED
        BY <1>a, <4>1, <4>2, <4>3 DEF LeftPositive, TypeInv
    <3> QED
      BY <1>3, <2>2, <3>1 DEF AddRunnerRegister, down, TypeInv, TypeOK
  <2> QED
    BY <1>3, <2>1, <2>2 DEF AddRunnerRegister
<1>4. ASSUME NEW a \in Adders, AddRunnerInsert(a) PROVE TypeInv'
  <2>1. CASE GiveUp(a) /\ UNCHANGED inst
    <3>1. forge' \in [Names -> {"absent", "offline", "stray", "idle", "busy"}]
      BY <1>4 DEF AddRunnerInsert, TypeInv, TypeOK
    <3> QED
      BY <1>4, <2>1, <3>1, GiveUpType DEF AddRunnerInsert, down, TypeInv, TypeOK
  <2>2. ASSUME inst' = [inst EXCEPT ![adder[a].name] = Fresh(adder[a].for)],
               adder' = [adder EXCEPT ![a] = IF @.left = 1 THEN Idle
                           ELSE Path("register", @.left - 1, @.for)],
               UNCHANGED <<forge, job>>
        PROVE  TypeInv'
    <3>1. Fresh(adder[a].for) \in Insts
      BY <1>a DEF AdderRecs, Fresh, Insts
    <3>2. inst' \in [Names -> Insts]
      BY <1>i, <2>2, <3>1
    <3>3. CASE adder[a].left = 1
      BY <1>4, <2>2, <3>2, <3>3, IdleType DEF AddRunnerInsert, down, TypeInv, TypeOK
    <3>4. CASE adder[a].left # 1
      <4>1. adder[a].left - 1 \in 1..MaxRunners
        BY <1>a, PoolScalingAssumption, <1>4, <3>4 DEF AddRunnerInsert, LeftPositive, AdderRecs, TypeInv
      <4> DEFINE rec == Path("register", adder[a].left - 1, adder[a].for)
      <4>2. rec \in AdderRecs /\ rec.left > 0
        BY <1>a, <4>1 DEF Path, AdderRecs
      <4>3. adder' = [adder EXCEPT ![a] = rec]
        BY <1>a, <2>2, <3>4
      <4> HIDE DEF rec
      <4>4. adder' \in [Adders -> AdderRecs] /\ LeftPositive'
        BY <1>a, <4>2, <4>3 DEF LeftPositive, TypeInv
      <4> QED
        BY <1>4, <2>2, <3>2, <4>4 DEF AddRunnerInsert, down, TypeInv, TypeOK
    <3> QED
      BY <3>3, <3>4 DEF TypeInv, TypeOK
  <2> QED
    BY <1>4, <2>1, <2>2 DEF AddRunnerInsert
<1>5. CASE AddRunnerToPool
  <2> "queue" \in Adders
    BY DEF Adders
  <2>1. CASE GiveUp("queue")
    BY <1>5, <2>1, GiveUpType DEF AddRunnerToPool, down, TypeInv, TypeOK
  <2>2. CASE ~GiveUp("queue")
    <3>1. MaxRunners >= 1
      BY PoolScalingAssumption, <1>5, <2>2, RowsFinite DEF AddRunnerToPool
    <3>2. adder' \in [Adders -> AdderRecs] /\ LeftPositive'
      BY <1>a, PoolScalingAssumption, <1>5, <2>2, <3>1 DEF AddRunnerToPool, AdderRecs, LeftPositive, TypeInv
    <3> QED
      BY <1>5, <2>2, <3>2 DEF AddRunnerToPool, down, TypeInv, TypeOK
  <2> QED
    BY <2>1, <2>2 DEF TypeInv, TypeOK
<1>6. ASSUME NEW j \in Jobs, ConsumeJob(j) \/ UnlockJob(j) PROVE TypeInv'
  <2>1. job' \in [Jobs -> JobRecs]
    BY <1>j, <1>6 DEF ConsumeJob, UnlockJob, Know, JobRecs
  <2>2. adder' \in [Adders -> AdderRecs] /\ LeftPositive'
    <3>2. CASE ConsumeJob(j)
      <4>1. Path("count", 0, j) \in AdderRecs /\ Path("count", 0, j).step = "count"
        BY PoolScalingAssumption DEF Path, AdderRecs
      <4> QED
        BY <1>a, <3>2, <4>1 DEF ConsumeJob, LeftPositive, TypeInv
    <3> QED
      BY <1>6, <3>2 DEF UnlockJob, LeftPositive, TypeInv, TypeOK
  <2> QED
    BY <1>6, <2>1, <2>2 DEF ConsumeJob, UnlockJob, down, TypeInv, TypeOK
<1>7. ASSUME NEW j \in Jobs, Hook(j) PROVE TypeInv'
  <2>1. CASE HookQueued(j)
    <3> DEFINE rec == [job[j] EXCEPT !.hooks = @ \ {"queued"},
                                     !.known = IF @ = "no" THEN "queued" ELSE @]
    <3>2. rec \in JobRecs
      BY <1>j DEF JobRecs
    <3>3. job' = [job EXCEPT ![j] = rec]
      BY <1>j, <2>1 DEF HookQueued
    <3>1. job' \in [Jobs -> JobRecs]
      BY <1>j, <3>2, <3>3
    <3> QED
      BY <2>1, <3>1 DEF HookQueued, down, LeftPositive, TypeInv, TypeOK
  <2>2. CASE HookInProgress(j)
    <3>1. inst' \in [Names -> Insts]
      <4>1. ASSUME NEW n \in Names PROVE [inst[n] EXCEPT !.runner = "active"] \in Insts
        BY <1>i DEF Insts
      <4>2. \/ inst' = inst
            \/ \E n \in Names : inst' = [inst EXCEPT ![n] = [inst[n] EXCEPT !.runner = "active"]]
        BY <1>i, <2>2 DEF HookInProgress, Rows
      <4> QED
        BY <1>i, <4>1, <4>2
    <3>2. adder' \in [Adders -> AdderRecs] /\ LeftPositive'
      <4>1. [adder["hook"] EXCEPT !.step = "list"] \in AdderRecs
        BY <1>a DEF AdderRecs, Adders
      <4>2. [adder["hook"] EXCEPT !.step = "list"].step = "list"
        BY <1>a DEF AdderRecs, Adders
      <4>3. adder' = adder \/ adder' = [adder EXCEPT !["hook"] = [adder["hook"] EXCEPT !.step = "list"]]
        BY <1>a, <2>2 DEF HookInProgress
      <4> QED
        BY <1>a, <4>1, <4>2, <4>3 DEF LeftPositive, TypeInv
    <3>3. job' \in [Jobs -> JobRecs]
      <4> DEFINE first == IF job[j].on \in Rows THEN inst[job[j].on].for ELSE NoJob
                 off == [job[j] EXCEPT !.hooks = @ \ {"in_progress"}]
                 started == [job[j] EXCEPT !.hooks = @ \ {"in_progress"}, !.known = "started"]
                 freed(k) == [job[k] EXCEPT !.known = "queued"]
      <4>1. off \in JobRecs /\ started \in JobRecs
        BY <1>j DEF JobRecs
      <4>2. ASSUME NEW k \in Jobs PROVE freed(k) \in JobRecs
        BY <1>j DEF JobRecs
      <4>3. \/ job' = [job EXCEPT ![j] = off]
            \/ job' = [k \in Jobs |->
                  IF k = j THEN started
                  ELSE IF k = first /\ job[k].known = "locked" THEN freed(k) ELSE job[k]]
        BY <1>j, <2>2 DEF HookInProgress
      <4> HIDE DEF first, off, started, freed
      <4> QED
        BY <1>j, <4>1, <4>2, <4>3
    <3> QED
      BY <2>2, <3>1, <3>2, <3>3 DEF HookInProgress, down, TypeInv, TypeOK
  <2>3. CASE HookCompleted(j)
    <3>1. inst' \in [Names -> Insts]
      BY <1>i, <2>3, ZenonT(30) DEF HookCompleted, Insts
    <3>2. job' \in [Jobs -> JobRecs]
      <4> DEFINE rec == [job[j] EXCEPT !.hooks = @ \ {"completed"}, !.known = "done"]
      <4>1. rec \in JobRecs
        BY <1>j, ZenonT(30) DEF JobRecs
      <4>2. job' = [job EXCEPT ![j] = rec]
        BY <1>j, <2>3 DEF HookCompleted
      <4> QED
        BY <1>j, <4>1, <4>2
    <3> QED
      BY <2>3, <3>1, <3>2 DEF HookCompleted, down, LeftPositive, TypeInv, TypeOK
  <2> QED
    BY <1>7, <2>1, <2>2, <2>3 DEF Hook
<1>8. CASE Down
  <2>1. CASE DownList
    BY <2>1 DEF DownList, IdleWorkers, Rows, LeftPositive, TypeInv, TypeOK
  <2>2. CASE DownPrune
    <3>1. job' \in [Jobs -> JobRecs]
      BY <1>j, <2>2 DEF DownPrune, JobRecs
    <3>2. pruning' \in BOOLEAN
      BY <2>2, Zenon DEF DownPrune
    <3> QED
      BY <2>2, <3>1, <3>2 DEF DownPrune, LeftPositive, TypeInv, TypeOK
  <2>3. ASSUME NEW n \in Names, DownRemove(n) PROVE TypeInv'
    BY <2>3 DEF DownRemove, LeftPositive, TypeInv, TypeOK
  <2>4. ASSUME NEW n \in Names, DownMark(n) PROVE TypeInv'
    <3>1. inst' \in [Names -> Insts]
      BY <1>i, <2>4 DEF DownMark, Insts
    <3> QED
      BY <2>4, <3>1 DEF DownMark, LeftPositive, TypeInv, TypeOK
  <2> QED
    BY <1>8, <2>1, <2>2, <2>3, <2>4 DEF Down
<1>9. CASE Clean
  <2>1. CASE GhList
    BY <2>1 DEF GhList, down, LeftPositive, TypeInv, TypeOK
  <2>2. ASSUME NEW n \in Names, GhRemove(n) PROVE TypeInv'
    BY <2>2 DEF GhRemove, down, LeftPositive, TypeInv, TypeOK
  <2>3. ASSUME NEW n \in Names, Reap(n) \/ DeletePending(n) PROVE TypeInv'
    <3>1. NoInst \in Insts
      BY DEF NoInst, Insts
    <3>2. inst' \in [Names -> Insts]
      <4>1. [inst[n] EXCEPT !.leaving = TRUE] \in Insts
        BY <1>i DEF Insts
      <4>2. \/ inst' = [inst EXCEPT ![n] = [inst[n] EXCEPT !.leaving = TRUE]]
            \/ inst' = [inst EXCEPT ![n] = NoInst]
        BY <1>i, <2>3 DEF Reap, DeletePending
      <4> QED
        BY <1>i, <3>1, <4>1, <4>2
    <3> QED
      BY <2>3, <3>2 DEF Reap, DeletePending, down, LeftPositive, TypeInv, TypeOK
  <2> QED
    BY <1>9, <2>1, <2>2, <2>3 DEF Clean
<1>10. CASE Outside
  <2>1. ASSUME NEW j \in Jobs, JobArrives(j) \/ JobAges(j) \/ HookLost(j) \/ JobEnds(j) \/ JobStarts(j)
        PROVE  TypeInv'
    <3>1. job' \in [Jobs -> JobRecs]
      <4>1. CASE JobArrives(j)
        <5> DEFINE rec == [job[j] EXCEPT !.at = "waiting", !.hooks = {"queued"}]
        <5>1. rec \in JobRecs
          BY <1>j DEF JobRecs
        <5>2. job' = [job EXCEPT ![j] = rec]
          BY <1>j, <4>1 DEF JobArrives
        <5> QED
          BY <1>j, <5>1, <5>2
      <4>2. CASE JobAges(j)
        <5> DEFINE rec == [job[j] EXCEPT !.old = TRUE]
        <5>1. rec \in JobRecs
          BY <1>j DEF JobRecs
        <5>2. job' = [job EXCEPT ![j] = rec]
          BY <1>j, <4>2 DEF JobAges
        <5> QED
          BY <1>j, <5>1, <5>2
      <4>3. CASE HookLost(j)
        BY <1>j, <4>3 DEF HookLost, JobRecs
      <4>4. CASE JobEnds(j)
        <5> DEFINE rec == [job[j] EXCEPT !.at = "ended", !.hooks = @ \cup {"completed"}]
        <5>1. rec \in JobRecs
          BY <1>j DEF JobRecs
        <5>2. job' = [job EXCEPT ![j] = rec]
          BY <1>j, <4>4 DEF JobEnds
        <5> QED
          BY <1>j, <5>1, <5>2
      <4>5. CASE JobStarts(j)
        <5> DEFINE rec(n) == [job[j] EXCEPT !.at = "running", !.on = n, !.hooks = @ \cup {"in_progress"}]
        <5>1. ASSUME NEW n \in Names PROVE rec(n) \in JobRecs
          BY <1>j DEF JobRecs
        <5>2. PICK n \in Names : job' = [job EXCEPT ![j] = rec(n)]
          BY <1>j, <4>5 DEF JobStarts
        <5> QED
          BY <1>j, <5>1, <5>2
      <4> QED
        BY <2>1, <4>1, <4>2, <4>3, <4>4, <4>5 DEF TypeInv, TypeOK
    <3>2. forge' \in [Names -> {"absent", "offline", "stray", "idle", "busy"}]
      BY <2>1 DEF JobArrives, JobAges, HookLost, JobEnds, JobStarts, TypeInv, TypeOK
    <3>3. UNCHANGED <<inst, adder, down, offline, minIdle>>
      BY <2>1 DEF JobArrives, JobAges, HookLost, JobEnds, JobStarts
    <3> QED
      BY <3>1, <3>2, <3>3 DEF down, LeftPositive, TypeInv, TypeOK
  <2>2. ASSUME NEW n \in Names, RunnerUp(n) \/ RunnerFails(n)
        PROVE  TypeInv'
    <3>1. inst' \in [Names -> Insts]
      <4>1. CASE RunnerUp(n)
        BY <1>i, <4>1 DEF RunnerUp, Insts
      <4>2. CASE RunnerFails(n)
        BY <1>i, <4>2 DEF RunnerFails, Insts
      <4> QED
        BY <2>2, <4>1, <4>2 DEF TypeInv, TypeOK
    <3> QED
      BY <2>2, <3>1 DEF RunnerUp, RunnerFails, down, LeftPositive, TypeInv, TypeOK
  <2>3. ASSUME NEW n \in Names, TakenByOther(n) PROVE TypeInv'
    BY <2>3 DEF TakenByOther, down, LeftPositive, TypeInv, TypeOK
  <2> QED
    BY <1>10, <2>1, <2>2, <2>3 DEF Outside
<1> QED
  BY <1>1, <1>2, <1>3, <1>4, <1>5, <1>6, <1>7, <1>8, <1>9, <1>10 DEF Next, AddRunner

\* The state of a pool keeps its type: in particular no path ever has more
\* instances left to add than the pool may have (ensureIdleRunnersForOnePool).
THEOREM ScalingTypeCorrect == Spec => []TypeOK
<1>1. TypeInv /\ [Next]_vars => TypeInv'
  BY TypeInvNext
<1>2. TypeInv => TypeOK
  BY DEF TypeInv
<1> QED
  BY TypeInvInit, <1>1, <1>2, PTL DEF Spec

-----------------------------------------------------------------------------
\* A step adds at most one row, and then after counting in the same step.
LEMMA RowsStep ==
    ASSUME TypeInv, [Next]_vars
    PROVE  \/ Rows' \subseteq Rows
           \/ Cardinality(Rows) < MaxRunners /\ \E n \in Names : Rows' \subseteq Rows \cup {n}
<1> USE DEF Rows
<1>i. inst \in [Names -> Insts]
  BY DEF TypeInv, TypeOK
<1>1. ASSUME NEW a \in Adders, AddRunnerInsert(a)
      PROVE  Rows' \subseteq Rows \/ (Cardinality(Rows) < MaxRunners /\ \E n \in Names : Rows' \subseteq Rows \cup {n})
  <2>1. CASE inst' = inst
    BY <2>1
  <2>2. CASE inst' # inst
    <3>1. Cardinality(Rows) < MaxRunners /\ inst' = [inst EXCEPT ![adder[a].name] = Fresh(adder[a].for)]
      BY <1>1, <2>2 DEF AddRunnerInsert
    <3>2. adder[a].name \in Names
      BY <1>i, <2>2, <3>1
    <3>3. Rows' \subseteq Rows \cup {adder[a].name}
      BY <1>i, <3>1, <3>2
    <3> QED
      BY <3>1, <3>2, <3>3
  <2> QED
    BY <2>1, <2>2
<1>2. ASSUME inst' = inst PROVE Rows' \subseteq Rows
  BY <1>2
<1>3. ASSUME NEW n \in Names, n \in Rows, NEW r, inst' = [inst EXCEPT ![n] = r]
      PROVE  Rows' \subseteq Rows
  BY <1>i, <1>3
<1>4. ASSUME NEW j \in Jobs, Hook(j) PROVE Rows' \subseteq Rows
  <2>1. CASE HookQueued(j)
    BY <2>1 DEF HookQueued
  <2>2. CASE HookInProgress(j)
    <3>1. CASE inst' = inst
      BY <3>1
    <3>2. CASE inst' # inst
      <4>1. job[j].on \in Rows /\ inst' = [inst EXCEPT ![job[j].on].runner = "active"]
        BY <2>2, <3>2 DEF HookInProgress
      <4> QED
        BY <1>i, <4>1
    <3> QED
      BY <3>1, <3>2
  <2>3. CASE HookCompleted(j)
    BY <1>i, <2>3 DEF HookCompleted
  <2> QED
    BY <1>4, <2>1, <2>2, <2>3 DEF Hook
<1>5. ASSUME NEW n \in Names, DownMark(n) \/ Reap(n) \/ DeletePending(n) \/ RunnerUp(n) \/ RunnerFails(n)
      PROVE  Rows' \subseteq Rows
  <2>1. \/ inst' = inst
        \/ n \in Rows /\ inst' = [inst EXCEPT ![n] = inst'[n]]
    BY <1>i, <1>5 DEF DownMark, Reap, DeletePending, RunnerUp, RunnerFails
  <2> QED
    BY <1>2, <1>3, <2>1
<1>6. ASSUME NEW n \in Names, DownRemove(n) \/ GhRemove(n) \/ TakenByOther(n)
      PROVE  inst' = inst
  BY <1>6 DEF DownRemove, GhRemove, TakenByOther
<1>7. ASSUME NEW j \in Jobs, ConsumeJob(j) \/ UnlockJob(j) \/ JobArrives(j) \/ JobAges(j) \/ JobStarts(j) \/ JobEnds(j) \/ HookLost(j)
      PROVE  inst' = inst
  BY <1>7 DEF ConsumeJob, UnlockJob, JobArrives, JobAges, JobStarts, JobEnds, HookLost
<1>8. ASSUME NEW a \in Adders, EnsureIdle(a) \/ AddRunnerRegister(a) PROVE inst' = inst
  BY <1>8 DEF EnsureIdle, AddRunnerRegister
<1>9. ASSUME DownList \/ DownPrune \/ GhList \/ AddRunnerToPool \/ UNCHANGED vars PROVE inst' = inst
  BY <1>9 DEF DownList, DownPrune, GhList, AddRunnerToPool, vars
<1> HIDE DEF Rows
<1> QED
  BY <1>1, <1>2, <1>4, <1>5, <1>6, <1>7, <1>8, <1>9 DEF Next, AddRunner, Down, Clean, Outside, Adders

\* A pool never has more instances than MaxRunners, however the loop, the
\* webhook and the consumer of queued jobs interleave: CreateInstance counts in
\* the transaction that inserts.
THEOREM PoolNeverExceedsMax == Spec => []RowsBounded
<1>1. Init => RowsBounded
  <2>1. Init => Rows = {}
    BY DEF Init, Rows, NoInst
  <2> QED
    BY <2>1, FS_EmptySet, PoolScalingAssumption DEF RowsBounded
<1>2. ASSUME TypeInv, RowsBounded, [Next]_vars PROVE RowsBounded'
  <2>1. IsFiniteSet(Rows) /\ Cardinality(Rows) \in Nat
    BY RowsFinite
  <2>2. CASE Rows' \subseteq Rows
    <3>1. Cardinality(Rows') <= Cardinality(Rows) /\ IsFiniteSet(Rows')
      BY <2>1, <2>2, FS_Subset
    <3>2. Cardinality(Rows') \in Nat
      BY <3>1, FS_CardinalityType
    <3> QED
      BY <1>2, <2>1, <3>1, <3>2, PoolScalingAssumption DEF RowsBounded
  <2>3. ASSUME Cardinality(Rows) < MaxRunners, NEW n \in Names, Rows' \subseteq Rows \cup {n}
        PROVE  RowsBounded'
    <3>1. IsFiniteSet(Rows \cup {n}) /\ Cardinality(Rows \cup {n}) <= Cardinality(Rows) + 1
      BY <2>1, FS_AddElement
    <3>2. IsFiniteSet(Rows') /\ Cardinality(Rows') <= Cardinality(Rows \cup {n})
      BY <2>3, <3>1, FS_Subset
    <3>3. Cardinality(Rows') \in Nat /\ Cardinality(Rows \cup {n}) \in Nat
      BY <3>1, <3>2, FS_CardinalityType
    <3> QED
      BY <2>1, <2>3, <3>1, <3>2, <3>3, PoolScalingAssumption DEF RowsBounded
  <2> QED
    BY <1>2, <2>2, <2>3, RowsStep
<1>3. TypeInv /\ RowsBounded /\ [Next]_vars => (TypeInv /\ RowsBounded)'
  BY <1>2, TypeInvNext
<1> QED
  BY TypeInvInit, <1>1, <1>3, PTL DEF Spec

-----------------------------------------------------------------------------
\* What gives up a row has seen the registration of its runner go.
DeletionFollowsForge ==
    /\ \A n \in Rows : inst[n].leaving => forge[n] = "absent"
    /\ \A n \in removed : forge[n] = "absent"
    /\ \A j \in Jobs : "completed" \in job[j].hooks => job[j].at = "ended" /\ forge[job[j].on] = "absent"

\* A running job is on a runner.
RunningHasRunner == \A j \in Jobs : job[j].at \in {"running", "ended"} => job[j].on \in Names

\* A path holds a name exactly while it is about to insert the row.
NameWhileInserting ==
    \A a \in Adders : IF adder[a].step = "insert" THEN adder[a].name \in Names ELSE adder[a].name = NoName

OwnerInv == TypeInv /\ DeletionFollowsForge /\ RunningHasRunner /\ NameWhileInserting /\ RegistrationOwned

LEMMA OwnerInvInit == Init => OwnerInv
<1> SUFFICES ASSUME Init PROVE OwnerInv
  OBVIOUS
<1>1. Rows = {}
  BY DEF Init, Rows, NoInst
<1>2. NameWhileInserting
  BY DEF Init, NameWhileInserting, Idle, Path
<1>3. DeletionFollowsForge /\ RunningHasRunner /\ RegistrationOwned
  BY <1>1 DEF Init, DeletionFollowsForge, RunningHasRunner, RegistrationOwned
<1> QED
  BY <1>2, <1>3, TypeInvInit DEF OwnerInv

\* Steps that leave alone what ownership is about.
LEMMA OwnerInvSame ==
    ASSUME OwnerInv, TypeInv', UNCHANGED <<forge, removed>>,
           \A n \in Names : /\ (inst'[n].runner = "none") = (inst[n].runner = "none")
                            /\ inst'[n].leaving => inst[n].leaving,
           \A j \in Jobs : /\ job'[j].at = job[j].at /\ job'[j].on = job[j].on
                           /\ job'[j].hooks \subseteq job[j].hooks \cup {"queued", "in_progress"},
           \A a \in Adders : adder'[a].name = adder[a].name /\ (adder'[a].step = "insert") = (adder[a].step = "insert")
    PROVE  OwnerInv'
BY DEF OwnerInv, DeletionFollowsForge, RunningHasRunner, NameWhileInserting, RegistrationOwned, Rows

LEMMA OwnerInvNext ==
    ASSUME OwnerInv, [Next]_vars
    PROVE  OwnerInv'
<1>t. TypeInv /\ TypeInv'
  BY TypeInvNext DEF OwnerInv
<1>a. adder \in [Adders -> AdderRecs]
  BY <1>t DEF TypeInv, TypeOK
<1>i. inst \in [Names -> Insts] /\ forge \in [Names -> {"absent", "offline", "stray", "idle", "busy"}]
  BY <1>t DEF TypeInv, TypeOK
<1>j. job \in [Jobs -> JobRecs]
  BY <1>t DEF TypeInv, TypeOK
<1>r. removed \subseteq Names
  BY <1>t DEF TypeInv, TypeOK
<1> USE DEF OwnerInv, DeletionFollowsForge, RunningHasRunner, NameWhileInserting, RegistrationOwned
<1>1. CASE UNCHANGED vars
  BY <1>1, <1>t DEF vars, down, Rows
<1>2. ASSUME NEW a \in {"idle", "hook"}, EnsureIdle(a) PROVE OwnerInv'
  <2>1. a \in Adders /\ adder[a].name = NoName /\ adder[a].step # "insert"
    BY <1>2 DEF EnsureIdle, Adders
  <2>2. adder'[a].name = NoName /\ adder'[a].step # "insert" /\ \A b \in Adders \ {a} : adder'[b] = adder[b]
    <3>1. \/ adder' = [adder EXCEPT ![a] = Idle]
          \/ adder' = [adder EXCEPT ![a] = Path("register", Required, NoJob)]
      BY <1>2 DEF EnsureIdle
    <3> QED
      BY <1>a, <2>1, <3>1 DEF Idle, Path
  <2>3. UNCHANGED <<inst, forge, job, removed>>
    BY <1>2 DEF EnsureIdle, down
  <2> QED
    BY <1>t, <1>a, <2>1, <2>2, <2>3, OwnerInvSame
<1>g. ASSUME NEW a \in Adders, GiveUp(a), adder[a].step # "insert", UNCHANGED <<inst, forge, removed>>
      PROVE  OwnerInv'
  <2>1. adder[a].name = NoName
    BY <1>g
  <2>2. \A b \in Adders : adder'[b].name = adder[b].name /\ (adder'[b].step = "insert") = (adder[b].step = "insert")
    BY <1>a, <1>g, <2>1 DEF GiveUp, Idle, Path, AdderRecs
  <2>3. \A j \in Jobs : job'[j].at = job[j].at /\ job'[j].on = job[j].on /\ job'[j].hooks = job[j].hooks
    BY <1>j, <1>g DEF GiveUp, JobRecs
  <2> QED
    BY <1>t, <1>g, <2>2, <2>3, OwnerInvSame
<1>3. ASSUME NEW a \in Adders, AddRunnerRegister(a), NEW n \in Names, Unused(n),
             forge' = [forge EXCEPT ![n] = "offline"], UNCHANGED job,
             adder' = [adder EXCEPT ![a].step = "insert", ![a].name = n]
      PROVE  OwnerInv'
  <2>1. /\ Unused(n)
        /\ forge' = [forge EXCEPT ![n] = "offline"]
        /\ adder' = [adder EXCEPT ![a].step = "insert", ![a].name = n]
        /\ UNCHANGED <<inst, job, removed>>
    BY <1>3 DEF AddRunnerRegister, down
  <2>2. adder'[a].step = "insert" /\ adder'[a].name = n
    BY <1>a, <2>1 DEF AdderRecs
  <2>3. \A b \in Adders \ {a} : adder'[b] = adder[b]
    BY <1>a, <2>1
  <2>4. adder[a].name = NoName
    BY <1>3 DEF AddRunnerRegister
  <2>5. NameWhileInserting'
    BY <2>2, <2>3
  <2>6. n \notin Rows /\ n \notin removed
    BY <2>1 DEF Unused, NoInst, Rows
  <2>7. \A j \in Jobs : "completed" \in job[j].hooks => job[j].on # n
    BY <2>1 DEF Unused
  <2>8. DeletionFollowsForge'
    BY <1>i, <1>r, <2>1, <2>6, <2>7 DEF Rows
  <2>9. RegistrationOwned'
    <3>1. ASSUME NEW m \in Names, forge'[m] \notin {"absent", "stray"}, m \notin Rows' PROVE \E b \in Adders : adder'[b].name = m
      <4>1. CASE m = n
        BY <2>2, <4>1
      <4>2. CASE m # n
        <5>1. forge[m] \notin {"absent", "stray"} /\ m \notin Rows
          BY <1>i, <2>1, <3>1, <4>2 DEF Rows
        <5>2. PICK b \in Adders : adder[b].name = m
          BY <5>1
        <5>3. b # a
          BY <2>4, <5>2, PoolScalingAssumption
        <5> QED
          BY <2>3, <5>2, <5>3
      <4> QED
        BY <4>1, <4>2
    <3> QED
      BY <3>1
  <2> QED
    BY <1>t, <2>1, <2>5, <2>8, <2>9
<1>4. ASSUME NEW a \in Adders, AddRunnerInsert(a) PROVE OwnerInv'
  <2> DEFINE n == adder[a].name
  <2>1. n \in Names
    BY <1>4 DEF AddRunnerInsert
  <2>2. \E r : adder' = [adder EXCEPT ![a] = r] /\ r.name = NoName /\ r.step # "insert"
    BY <1>a, <1>4 DEF AddRunnerInsert, GiveUp, Idle, Path
  <2>3. adder'[a].name = NoName /\ \A b \in Adders \ {a} : adder'[b] = adder[b]
    BY <1>a, <2>2
  <2>4. NameWhileInserting'
    BY <1>a, <2>2
  <2>5. \A j \in Jobs : job'[j].at = job[j].at /\ job'[j].on = job[j].on /\ job'[j].hooks = job[j].hooks
    BY <1>j, <1>4 DEF AddRunnerInsert, GiveUp, JobRecs
  <2>6. CASE inst' = [inst EXCEPT ![n] = Fresh(adder[a].for)] /\ forge' = forge
    <3>1. Rows' = Rows \cup {n} /\ ~inst'[n].leaving /\ \A m \in Names \ {n} : inst'[m] = inst[m]
      BY <1>i, <2>1, <2>6 DEF Rows, Fresh
    <3> QED
      BY <1>t, <1>4, <2>3, <2>4, <2>5, <2>6, <3>1 DEF AddRunnerInsert, down
  <2>7. CASE /\ inst' = inst
             /\ \/ forge' = [forge EXCEPT ![n] = "absent"]
                \/ forge' = [forge EXCEPT ![n] = IF @ = "absent" THEN @ ELSE "stray"]
    <3>1. /\ forge'[n] \in {"absent", "stray"}
          /\ \A m \in Names : forge[m] = "absent" => forge'[m] = "absent"
          /\ \A m \in Names \ {n} : forge'[m] = forge[m]
      BY <1>i, <2>1, <2>7
    <3>2. DeletionFollowsForge'
      BY <1>r, <1>4, <2>1, <2>5, <2>7, <3>1 DEF AddRunnerInsert, down, Rows
    <3>3. RegistrationOwned'
      BY <2>1, <2>3, <2>7, <3>1 DEF Rows
    <3> QED
      BY <1>t, <2>4, <2>5, <3>2, <3>3
  <2> QED
    BY <1>4, <2>6, <2>7 DEF AddRunnerInsert
<1>5. CASE AddRunnerToPool
  <2>1. adder["queue"].name = NoName /\ "queue" \in Adders
    BY <1>5 DEF AddRunnerToPool, Adders
  <2>2. \A a \in Adders : adder'[a].name = adder[a].name /\ (adder'[a].step = "insert") = (adder[a].step = "insert")
    BY <1>a, <1>5, <2>1 DEF AddRunnerToPool, GiveUp, Idle, Path, AdderRecs
  <2>3. \A j \in Jobs : job'[j].at = job[j].at /\ job'[j].on = job[j].on /\ job'[j].hooks = job[j].hooks
    BY <1>j, <1>5 DEF AddRunnerToPool, GiveUp, JobRecs
  <2>4. UNCHANGED <<inst, forge, removed>>
    BY <1>5 DEF AddRunnerToPool, down
  <2> QED
    BY <1>t, <2>2, <2>3, <2>4, OwnerInvSame
<1>6. ASSUME NEW j \in Jobs, ConsumeJob(j) \/ UnlockJob(j) PROVE OwnerInv'
  <2>1. \A k \in Jobs : job'[k].at = job[k].at /\ job'[k].on = job[k].on /\ job'[k].hooks = job[k].hooks
    BY <1>j, <1>6 DEF ConsumeJob, UnlockJob, Know, JobRecs
  <2>2. \A a \in Adders : adder'[a].name = adder[a].name /\ (adder'[a].step = "insert") = (adder[a].step = "insert")
    BY <1>a, <1>6 DEF ConsumeJob, UnlockJob, Path, AdderRecs
  <2>3. UNCHANGED <<inst, forge, removed>>
    BY <1>6 DEF ConsumeJob, UnlockJob, down
  <2> QED
    BY <1>t, <2>1, <2>2, <2>3, OwnerInvSame
<1>7. ASSUME NEW j \in Jobs, Hook(j) PROVE OwnerInv'
  <2>0. UNCHANGED <<forge, removed>>
    BY <1>7 DEF Hook, HookQueued, HookInProgress, HookCompleted, down
  <2>1. CASE HookQueued(j)
    <3>1. \A k \in Jobs : job'[k].at = job[k].at /\ job'[k].on = job[k].on /\ job'[k].hooks \subseteq job[k].hooks
      BY <1>j, <2>1 DEF HookQueued, JobRecs
    <3> QED
      BY <1>t, <2>0, <2>1, <3>1, OwnerInvSame DEF HookQueued
  <2>2. CASE HookInProgress(j)
    <3>1. \A k \in Jobs : job'[k].at = job[k].at /\ job'[k].on = job[k].on /\ job'[k].hooks \subseteq job[k].hooks
      <4>1. CASE job[j].known = "done"
        BY <1>j, <2>2, <4>1 DEF HookInProgress, JobRecs
      <4>2. CASE job[j].known # "done"
        <5> DEFINE first == IF job[j].on \in Rows THEN inst[job[j].on].for ELSE NoJob
        <5>1. job' = [k \in Jobs |->
                 IF k = j THEN [job[k] EXCEPT !.hooks = @ \ {"in_progress"}, !.known = "started"]
                 ELSE IF k = first /\ job[k].known = "locked" THEN [job[k] EXCEPT !.known = "queued"]
                 ELSE job[k]]
          BY <2>2, <4>2 DEF HookInProgress
        <5> HIDE DEF first
        <5>2. ASSUME NEW k \in Jobs
              PROVE  job'[k].at = job[k].at /\ job'[k].on = job[k].on /\ job'[k].hooks \subseteq job[k].hooks
          <6>1. CASE k = j
            <7>1. job'[k] = [job[k] EXCEPT !.hooks = @ \ {"in_progress"}, !.known = "started"]
              BY <5>1, <6>1
            <7> QED
              BY <1>j, <7>1 DEF JobRecs
          <6>2. CASE k # j
            <7>1. job'[k] = [job[k] EXCEPT !.known = "queued"] \/ job'[k] = job[k]
              BY <5>1, <6>2
            <7> QED
              BY <1>j, <7>1 DEF JobRecs
          <6> QED
            BY <6>1, <6>2
        <5> QED
          BY <5>2
      <4> QED
        BY <4>1, <4>2
    <3>2. \A n \in Names : /\ (inst'[n].runner = "none") = (inst[n].runner = "none")
                           /\ inst'[n].leaving => inst[n].leaving
      <4>1. inst' = inst \/ (job[j].on \in Rows /\ inst' = [inst EXCEPT ![job[j].on].runner = "active"])
        BY <2>2 DEF HookInProgress
      <4> QED
        BY <1>i, <4>1 DEF Insts, Rows
    <3>3. \A a \in Adders : adder'[a].name = adder[a].name /\ (adder'[a].step = "insert") = (adder[a].step = "insert")
      <4>1. adder' = adder \/ adder' = [adder EXCEPT !["hook"].step = "list"]
        BY <2>2 DEF HookInProgress
      <4>2. adder["hook"].step = "idle"
        BY <2>2 DEF HookInProgress
      <4> QED
        BY <1>a, <4>1, <4>2 DEF AdderRecs
    <3> QED
      BY <1>t, <2>0, <3>1, <3>2, <3>3, OwnerInvSame
  <2>3. CASE HookCompleted(j)
    <3>1. \A k \in Jobs : job'[k].at = job[k].at /\ job'[k].on = job[k].on /\ job'[k].hooks \subseteq job[k].hooks
      BY <1>j, <2>3 DEF HookCompleted, JobRecs
    <3>2. Rows' = Rows /\ \A n \in Rows : inst'[n].leaving => inst[n].leaving \/ n = job[j].on
      BY <1>i, <2>3 DEF HookCompleted, Insts, Rows
    <3>3. forge[job[j].on] = "absent"
      BY <2>3 DEF HookCompleted
    <3> QED
      <4>1. DeletionFollowsForge'
        BY <2>0, <3>1, <3>2, <3>3
      <4>2. RunningHasRunner'
        BY <3>1
      <4>3. RegistrationOwned' /\ NameWhileInserting'
        BY <2>0, <2>3, <3>2 DEF HookCompleted
      <4> QED
        BY <1>t, <4>1, <4>2, <4>3
  <2> QED
    BY <1>7, <2>1, <2>2, <2>3 DEF Hook
<1>8. CASE Down
  <2>1. CASE DownList
    BY <1>t, <2>1, OwnerInvSame DEF DownList
  <2>2. CASE DownPrune
    <3>1. \A k \in Jobs : job'[k].at = job[k].at /\ job'[k].on = job[k].on /\ job'[k].hooks = job[k].hooks
      BY <1>j, <2>2 DEF DownPrune, JobRecs
    <3> QED
      BY <1>t, <2>2, <3>1, OwnerInvSame DEF DownPrune
  <2>3. ASSUME NEW n \in Names, DownRemove(n) PROVE OwnerInv'
    <3>1. CASE forge' = [forge EXCEPT ![n] = "absent"] /\ removed' = removed \cup {n}
      BY <1>t, <1>i, <1>r, <2>3, <3>1 DEF DownRemove, Rows
    <3>2. CASE UNCHANGED <<forge, removed>>
      BY <1>t, <2>3, <3>2, OwnerInvSame DEF DownRemove
    <3> QED
      BY <2>3, <3>1, <3>2 DEF DownRemove
  <2>4. ASSUME NEW n \in Names, DownMark(n) PROVE OwnerInv'
    <3>1. Rows' = Rows /\ \A m \in Rows : inst'[m].leaving => inst[m].leaving \/ m = n
      BY <1>i, <2>4 DEF DownMark, Insts, Rows
    <3>2. forge[n] = "absent"
      BY <2>4 DEF DownMark
    <3> QED
      BY <1>t, <2>4, <3>1, <3>2 DEF DownMark
  <2> QED
    BY <1>8, <2>1, <2>2, <2>3, <2>4 DEF Down
<1>9. CASE Clean
  <2>1. CASE GhList
    BY <1>t, <2>1, OwnerInvSame DEF GhList, down
  <2>2. ASSUME NEW n \in Names, GhRemove(n) PROVE OwnerInv'
    <3>1. forge' = forge \/ forge' = [forge EXCEPT ![n] = "absent"]
      BY <2>2 DEF GhRemove
    <3> QED
      BY <1>t, <1>i, <1>r, <2>2, <3>1 DEF GhRemove, Rows, down
  <2>3. ASSUME NEW n \in Names, Reap(n) PROVE OwnerInv'
    <3>1. Rows' = Rows /\ \A m \in Rows : inst'[m].leaving => inst[m].leaving \/ m = n
      BY <1>i, <2>3 DEF Reap, Insts, Rows
    <3>2. forge' = [forge EXCEPT ![n] = "absent"] /\ UNCHANGED <<job, adder, removed>>
      BY <2>3 DEF Reap, down
    <3>3. \A m \in Names : forge[m] = "absent" => forge'[m] = "absent"
      BY <1>i, <3>2
    <3>4. DeletionFollowsForge'
      BY <1>i, <1>r, <3>1, <3>2, <3>3 DEF Rows
    <3>5. RegistrationOwned'
      BY <1>i, <3>1, <3>2
    <3> QED
      BY <1>t, <3>2, <3>4, <3>5
  <2>4. ASSUME NEW n \in Names, DeletePending(n) PROVE OwnerInv'
    <3>1. Rows' = Rows \ {n} /\ \A m \in Rows' : inst'[m] = inst[m]
      BY <1>i, <2>4 DEF DeletePending, NoInst, Rows
    <3>2. forge[n] = "absent"
      BY <2>4 DEF DeletePending
    <3> QED
      BY <1>t, <2>4, <3>1, <3>2 DEF DeletePending, down
  <2> QED
    BY <1>9, <2>1, <2>2, <2>3, <2>4 DEF Clean
<1>10. CASE Outside
  <2>1. ASSUME NEW j \in Jobs, JobArrives(j) PROVE OwnerInv'
    <3>1. job' = [job EXCEPT ![j] = [job[j] EXCEPT !.at = "waiting", !.hooks = {"queued"}]]
      BY <1>j, <2>1 DEF JobArrives
    <3>2. job'[j].on = job[j].on /\ job'[j].at = "waiting" /\ job'[j].hooks = {"queued"}
      BY <1>j, <3>1 DEF JobRecs
    <3>3. \A k \in Jobs \ {j} : job'[k] = job[k]
      BY <1>j, <3>1
    <3>4. UNCHANGED <<inst, forge, adder, removed>> /\ Rows' = Rows
      BY <2>1 DEF JobArrives, down, Rows
    <3>5. RunningHasRunner' /\ DeletionFollowsForge'
      <4>1. \A k \in Jobs : "completed" \in job'[k].hooks => job'[k] = job[k]
        BY <3>2, <3>3
      <4>2. \A k \in Jobs : job'[k].at \in {"running", "ended"} => job'[k] = job[k]
        BY <3>2, <3>3
      <4> QED
        BY <3>4, <4>1, <4>2
    <3> QED
      BY <1>t, <3>4, <3>5
  <2>2. ASSUME NEW j \in Jobs, JobAges(j) \/ HookLost(j) PROVE OwnerInv'
    <3>1. \A k \in Jobs : job'[k].at = job[k].at /\ job'[k].on = job[k].on /\ job'[k].hooks \subseteq job[k].hooks
      BY <1>j, <2>2 DEF JobAges, HookLost, JobRecs
    <3> QED
      BY <1>t, <2>2, <3>1, OwnerInvSame DEF JobAges, HookLost, down
  <2>3. ASSUME NEW j \in Jobs, JobStarts(j) PROVE OwnerInv'
    <3>1. PICK n \in Names :
            /\ forge[n] = "idle" /\ forge' = [forge EXCEPT ![n] = "busy"]
            /\ job' = [job EXCEPT ![j].at = "running", ![j].on = n, ![j].hooks = @ \cup {"in_progress"}]
      BY <2>3 DEF JobStarts
    <3>2. job'[j].on = n /\ job'[j].hooks = job[j].hooks \cup {"in_progress"} /\ \A k \in Jobs \ {j} : job'[k] = job[k]
      BY <1>j, <3>1 DEF JobRecs
    <3>3. "completed" \notin job'[j].hooks
      BY <2>3, <3>2 DEF JobStarts
    <3>4. \A m \in Names : /\ forge[m] = "absent" <=> forge'[m] = "absent"
                           /\ forge[m] = "stray" <=> forge'[m] = "stray"
      BY <1>i, <3>1
    <3>5. RunningHasRunner' /\ DeletionFollowsForge'
      <4>1. UNCHANGED <<inst, removed>> /\ Rows' = Rows
        BY <2>3 DEF JobStarts, down, Rows
      <4>2. \A k \in Jobs : "completed" \in job'[k].hooks =>
                 job'[k].at = "ended" /\ job'[k].on \in Names /\ forge[job'[k].on] = "absent"
        BY <3>2, <3>3
      <4>3. RunningHasRunner'
        BY <3>2
      <4>4. Rows \subseteq Names
        BY DEF Rows
      <4> QED
        BY <1>r, <3>4, <4>1, <4>2, <4>3, <4>4
    <3> QED
      BY <1>t, <2>3, <3>4, <3>5, ZenonT(30) DEF JobStarts, Rows
  <2>4. ASSUME NEW j \in Jobs, JobEnds(j) PROVE OwnerInv'
    <3>1. job'[j].at = "ended" /\ job'[j].on = job[j].on /\ \A k \in Jobs \ {j} : job'[k] = job[k]
      BY <1>j, <2>4 DEF JobEnds, JobRecs
    <3>2. job[j].on \in Names
      BY <2>4 DEF JobEnds
    <3>3. forge' = [forge EXCEPT ![job[j].on] = "absent"]
      BY <2>4 DEF JobEnds
    <3>4. forge'[job[j].on] = "absent" /\ \A m \in Names : forge'[m] = forge[m] \/ forge'[m] = "absent"
      BY <1>i, <3>2, <3>3
    <3>5. RunningHasRunner' /\ DeletionFollowsForge'
      <4>1. UNCHANGED <<inst, removed>> /\ Rows' = Rows /\ Rows \subseteq Names
        BY <2>4 DEF JobEnds, down, Rows
      <4>2. \A k \in Jobs : "completed" \in job'[k].hooks =>
                 job'[k].at = "ended" /\ job'[k].on \in Names /\ forge'[job'[k].on] = "absent"
        BY <3>1, <3>2, <3>4
      <4>3. RunningHasRunner'
        BY <3>1, <3>2
      <4> QED
        BY <1>r, <3>4, <4>1, <4>2, <4>3
    <3> QED
      <4>1. RegistrationOwned'
        BY <2>4, <3>4 DEF JobEnds, Rows
      <4>2. NameWhileInserting'
        BY <2>4 DEF JobEnds
      <4> QED
        BY <1>t, <3>5, <4>1, <4>2
  <2>5. ASSUME NEW n \in Names, RunnerUp(n) PROVE OwnerInv'
    <3>1. \A m \in Names : /\ (inst'[m].runner = "none") = (inst[m].runner = "none")
                           /\ inst'[m].leaving = inst[m].leaving
                           /\ (forge'[m] = "absent") = (forge[m] = "absent")
      BY <1>i, <2>5 DEF RunnerUp, Insts
    <3>2. DeletionFollowsForge'
      BY <1>r, <2>5, <3>1 DEF RunnerUp, down, Rows
    <3> QED
      BY <1>t, <2>5, <3>1, <3>2 DEF RunnerUp, Rows
  <2>6. ASSUME NEW n \in Names, RunnerFails(n) PROVE OwnerInv'
    <3>1. \A m \in Names : /\ (inst'[m].runner = "none") = (inst[m].runner = "none")
                           /\ inst'[m].leaving = inst[m].leaving
      BY <1>i, <2>6 DEF RunnerFails, Insts, Rows
    <3> QED
      BY <1>t, <2>6, <3>1, OwnerInvSame DEF RunnerFails, down
  <2>7. ASSUME NEW n \in Names, TakenByOther(n) PROVE OwnerInv'
    <3>1. forge' = [forge EXCEPT ![n] = "absent"] /\ UNCHANGED <<inst, job, adder, removed>>
      BY <2>7 DEF TakenByOther, down
    <3>2. \A m \in Names : forge'[m] = "absent" \/ forge'[m] = forge[m]
      BY <1>i, <3>1
    <3>3. DeletionFollowsForge'
      BY <1>r, <3>1, <3>2 DEF Rows
    <3>4. RegistrationOwned' /\ RunningHasRunner' /\ NameWhileInserting'
      BY <3>1, <3>2 DEF Rows
    <3> QED
      BY <1>t, <3>3, <3>4
  <2> QED
    BY <1>10, <2>1, <2>2, <2>3, <2>4, <2>5, <2>6, <2>7 DEF Outside
<1> QED
  <2>1. ASSUME NEW a \in Adders, AddRunner(a) PROVE OwnerInv'
    <3>1. CASE AddRunnerInsert(a)
      BY <1>4, <3>1
    <3>2. CASE AddRunnerRegister(a)
      <4>1. UNCHANGED <<inst, removed>> /\ adder[a].step = "register"
        BY <3>2 DEF AddRunnerRegister, down
      <4>2. CASE GiveUp(a) /\ UNCHANGED forge
        BY <1>g, <4>1, <4>2
      <4> QED
        BY <1>3, <3>2, <4>2 DEF AddRunnerRegister
    <3> QED
      BY <2>1, <3>1, <3>2 DEF AddRunner
  <2> QED
    BY <1>1, <1>2, <1>5, <1>6, <1>7, <1>8, <1>9, <1>10, <2>1 DEF Next

\* Every runner the forge knows has a row, is about to get it, or was refused to
\* AddRunner's deferred removal: a refused insert removes what AddRunner registered, and no
\* deletion, scale-down or completed job drops a row before its registration.
THEOREM NoStrayRegistration == Spec => []RegistrationOwned
<1>1. OwnerInv /\ [Next]_vars => OwnerInv'
  BY OwnerInvNext
<1>2. OwnerInv => RegistrationOwned
  BY DEF OwnerInv
<1> QED
  BY OwnerInvInit, <1>1, <1>2, PTL DEF Spec
==============================================================================
