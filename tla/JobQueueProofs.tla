--------------------------- MODULE JobQueueProofs ---------------------------
(***************************************************************************)
(* Three results about a job, for any number of managers, webhook handlers,*)
(* writes, rows and crashes, with and without lost events and broken locks,*)
(* and although every manager decides by a cache that may be stale and     *)
(* LockJob accepts a lock the manager already has.                         *)
(*                                                                         *)
(* TypeOK (Typed).                                                         *)
(*                                                                         *)
(* OneCreator: no two managers create a runner for the same row of the     *)
(* job, unless the webhook of another job broke its lock (Inv).            *)
(*                                                                         *)
(* CacheAgrees: a cache agrees with the row once nothing is under way,     *)
(* unless the manager was not told of a write of that row or the row came  *)
(* back after it was completed (CacheInv: for each manager, the events     *)
(* that were not sent or not handled yet bring its cache to the row).      *)
(***************************************************************************)
EXTENDS JobQueue, SequenceTheorems, TLAPS

StepNames == {"idle", "write", "unlock", "lock", "add", "giveup", "delete"}
DbShape == [id : Nat, status : Actions \cup {"none"}, lockedBy : Managers \cup {Nobody},
            owners : SUBSET (Managers \cup {Nobody}), stamp : Nat]

\* The shape of the variables the argument is about.
Shape ==
    /\ db \in DbShape
    /\ step \in [Writers -> StepNames]
    /\ copy = [m \in Managers |-> copy[m]]
    /\ work \in [Handlers -> [to : Managers \cup {Nobody}, action : Actions]]
    /\ hooks \subseteq Deliveries

\* Rows are numbered, and a manager is creating a runner for one it has seen.
SeenRow == \A m \in Managers : step[m] = "add" => copy[m].id \in Nat /\ copy[m].id <= db.id

\* A manager that creates a runner has the lock of the row, if it still exists and its
\* lock was not broken.
AddHolds == \A m \in Managers :
    step[m] = "add" /\ copy[m].id = db.id /\ Recorded => db.lockedBy = m \/ db.id \in broken

Inv == Shape /\ SeenRow /\ AddHolds /\ OneCreator

\* Inv holds at the start.
LEMMA InitInv == Init => Inv
BY JobQueueAssumption
   DEF Init, Inv, Shape, SeenRow, AddHolds, OneCreator, DbShape, StepNames, NoJob, NoWork,
       Nobody, Actions, Writers

\* A step that leaves the row, the managers' steps and their copies alone, or
\* only takes managers out of "add", keeps the invariant.
LEMMA Quieter ==
    ASSUME Inv, db' = db, broken' = broken, Shape',
           \A m \in Managers : step'[m] = "add" => step[m] = "add" /\ copy'[m] = copy[m]
    PROVE  Inv'
BY DEF Inv, SeenRow, AddHolds, OneCreator, Recorded

\* The handlers, the clean-ups and the webhooks of other jobs are no managers.
LEMMA Apart ==
    /\ \A h \in Handlers : h \notin Managers /\ h \in Writers
    /\ Cleaner \notin Managers /\ OtherHook \notin Managers
    /\ Cleaner \notin Handlers /\ OtherHook \notin Handlers /\ OtherHook # Cleaner
    /\ Cleaner \in Writers /\ OtherHook \in Writers
    /\ Nobody \notin Managers
    /\ \A m \in Managers : m \in Writers
BY JobQueueAssumption DEF Cleaner, OtherHook, Nobody, Writers

\* A webhook handler keeps Inv: CreateOrUpdateJob does not touch the lock of a
\* row, and a new row has a new number.
LEMMA HandlerKeeps ==
    ASSUME Inv, NEW h \in Handlers, PersistRead(h) \/ PersistWrite(h)
    PROVE  Inv'
<1> USE DEF Goto
<1>1. CASE PersistRead(h)
  <2>1. Shape'
    BY <1>1, Apart DEF PersistRead, Inv, Shape, store, managers, StepNames, Deliveries, Actions
  <2>2. /\ db' = db /\ broken' = broken
        /\ \A m \in Managers : step'[m] = step[m] /\ copy'[m] = copy[m]
    BY <1>1, Apart DEF PersistRead, Inv, Shape, store
  <2> QED BY <2>1, <2>2, Quieter
<1>2. CASE PersistWrite(h)
  <2>1. broken' = broken /\ \A m \in Managers : step'[m] = step[m] /\ copy'[m] = copy[m]
    BY <1>2, Apart DEF PersistWrite, Commit, Inv, Shape
  <2>2. /\ step' \in [Writers -> StepNames] /\ copy' = [m \in Managers |-> copy'[m]]
        /\ work' \in [Handlers -> [to : Managers \cup {Nobody}, action : Actions]]
        /\ hooks' \subseteq Deliveries
    BY <1>2, Apart DEF PersistWrite, Inv, Shape, StepNames, NoWork, Actions
  <2>a. /\ db \in DbShape /\ db.id \in Nat /\ db.stamp + 1 \in Nat
        /\ work[h].action \in Actions /\ work[h].to \in Managers \cup {Nobody}
    BY DEF Inv, Shape, DbShape
  <2>3. CASE Recorded
    <3>1. db' \in DbShape /\ db'.id = db.id /\ db'.lockedBy = db.lockedBy
      <4>1. db' = [[db EXCEPT !.status = work[h].action, !.owners = @ \cup {work[h].to}]
                   EXCEPT !.stamp = db.stamp + 1]
        BY <1>2, <2>3 DEF PersistWrite, Commit
      <4> QED BY <2>a, <4>1 DEF DbShape
    <3> QED BY <2>1, <2>2, <2>3, <3>1 DEF Inv, Shape, SeenRow, AddHolds, OneCreator, Recorded
  <2>4. CASE ~Recorded
    <3>1. db' \in DbShape /\ db'.id = db.id + 1
      <4>1. db' = [[NoJob EXCEPT !.id = db.id + 1, !.status = work[h].action,
                                 !.owners = {work[h].to}]
                   EXCEPT !.stamp = db.stamp + 1]
        BY <1>2, <2>4 DEF PersistWrite, Commit
      <4>2. db' = [id |-> db.id + 1, status |-> work[h].action, lockedBy |-> Nobody,
                   owners |-> {work[h].to}, stamp |-> db.stamp + 1]
        BY <4>1 DEF NoJob
      <4> QED BY <2>a, <4>2 DEF DbShape
    <3> QED BY <2>1, <2>2, <3>1 DEF Inv, Shape, DbShape, SeenRow, AddHolds, OneCreator
  <2> QED BY <2>3, <2>4
<1> QED BY <1>1, <1>2

\* A consumer keeps Inv: it enters "add" only for a row nobody else holds.
LEMMA ConsumerKeeps ==
    ASSUME Inv, NEW m \in Managers, Consume(m)
    PROVE  Inv'
<1> USE DEF Goto, Done, Ready, Commit
<1>a. /\ db \in DbShape /\ db.stamp + 1 \in Nat
      /\ m \in Managers \cup {Nobody} /\ Nobody \in Managers \cup {Nobody}
  BY DEF Inv, Shape, DbShape
<1>b. broken' = broken
  BY Apart DEF Consume, ConsumeRead, ConsumeUnlock, LockJob, ConsumeAdd, ConsumeGiveUp, UnlockJob,
               store
<1>1. CASE ConsumeRead(m)
  <2>1. Shape' /\ db' = db
    BY <1>1, Apart DEF ConsumeRead, Inv, Shape, store, managers, StepNames
  <2>2. \A k \in Managers : step'[k] = "add" => step[k] = "add" /\ copy'[k] = copy[k]
    BY <1>1, Apart DEF ConsumeRead, Inv, Shape
  <2> QED BY <1>b, <2>1, <2>2, Quieter
<1>2. CASE ConsumeUnlock(m) \/ ConsumeGiveUp(m)
  <2>1. \A k \in Managers : step'[k] = "add" => step[k] = "add" /\ copy'[k] = copy[k] /\ k # m
    BY <1>2, Apart DEF ConsumeUnlock, ConsumeGiveUp, Inv, Shape
  <2>2. Shape' /\ db'.id = db.id /\ db'.status = db.status
        /\ (db' = db \/ (db.lockedBy = m /\ db'.lockedBy = Nobody))
    <3>1. step' \in [Writers -> StepNames] /\ copy' = [k \in Managers |-> copy'[k]]
          /\ UNCHANGED <<work, hooks>>
      BY <1>2, Apart DEF ConsumeUnlock, ConsumeGiveUp, Inv, Shape, StepNames
    <3>2. \/ db' = db
          \/ db.lockedBy = m /\ db' = [[db EXCEPT !.lockedBy = Nobody] EXCEPT !.stamp = db.stamp + 1]
      BY <1>2 DEF ConsumeUnlock, ConsumeGiveUp, UnlockJob, store
    <3>3. db' \in DbShape /\ db'.id = db.id /\ db'.status = db.status
          /\ (db' = db \/ (db.lockedBy = m /\ db'.lockedBy = Nobody))
      BY <1>a, <3>2 DEF DbShape
    <3> QED BY <3>1, <3>3 DEF Inv, Shape
  <2> QED BY <1>b, <2>1, <2>2, Apart DEF Inv, SeenRow, AddHolds, OneCreator, Recorded
<1>3. CASE LockJob(m)
  <2>b. \/ db' = db /\ (step'[m] = "add" => db.lockedBy = m)
        \/ db' = [[db EXCEPT !.lockedBy = m] EXCEPT !.stamp = db.stamp + 1]
    BY <1>3, Apart DEF LockJob, ForRow, store, Inv, Shape
  <2>c. db' \in DbShape /\ db'.id = db.id /\ db'.status = db.status
        /\ (step'[m] = "add" => db'.lockedBy = m)
    BY <1>a, <2>b DEF DbShape
  <2>1. Shape' /\ db'.id = db.id /\ db'.status = db.status
    BY <1>3, <2>c, Apart DEF LockJob, ForRow, Inv, Shape, StepNames
  <2>2. \A k \in Managers \ {m} : step'[k] = step[k] /\ copy'[k] = copy[k]
    BY <1>3, Apart DEF LockJob, ForRow, Inv, Shape
  <2>3. step'[m] = "add" => /\ copy'[m].id = db.id /\ db'.lockedBy = m
                            /\ Recorded /\ db.lockedBy \in {Nobody, m}
    BY <1>3, <2>c, Apart DEF LockJob, ForRow, NoJob, Inv, Shape
  <2>4. step'[m] # "add" => db' = db
    BY <1>3, Apart DEF LockJob, ForRow, Inv, Shape, store
  <2>5. step[m] = "lock"
    BY <1>3 DEF LockJob
  <2>6. CASE step'[m] # "add"
    BY <1>b, <2>1, <2>2, <2>4, <2>6, Quieter
  <2>7. CASE step'[m] = "add"
    <3>1. \A k \in Managers \ {m} : step[k] = "add" => copy[k].id # db.id \/ db.id \in broken
      BY <2>3, <2>7, Apart DEF Inv, AddHolds
    <3> QED BY <1>b, <2>1, <2>2, <2>3, <2>7, <3>1
            DEF Inv, Shape, DbShape, SeenRow, AddHolds, OneCreator, Recorded
  <2> QED BY <2>6, <2>7
<1>4. CASE ConsumeAdd(m)
  <2>1. Shape' /\ db' = db
    BY <1>4, Apart DEF ConsumeAdd, Inv, Shape, store, StepNames
  <2>2. \A k \in Managers : step'[k] = "add" => step[k] = "add" /\ copy'[k] = copy[k]
    BY <1>4, Apart DEF ConsumeAdd, Inv, Shape
  <2> QED BY <1>b, <2>1, <2>2, Quieter
<1> QED BY <1>1, <1>2, <1>3, <1>4 DEF Consume

\* The clean-ups keep Inv: a row that is deleted is nobody's.
LEMMA CleanerKeeps ==
    ASSUME Inv, CleanList \/ DeleteJob \/ DeleteInactionableJobs
    PROVE  Inv'
<1>1. broken' = broken /\ \A m \in Managers : step'[m] = step[m] /\ copy'[m] = copy[m]
  BY Apart DEF CleanList, DeleteJob, DeleteInactionableJobs, CommitDelete, Goto, Ready, Inv, Shape,
               store
<1>2. Shape' /\ db'.id = db.id /\ (db' = db \/ db'.status = "none")
  <2>1. db' = db \/ \E a \in {Cleaner} : CommitDelete(a)
    BY DEF CleanList, DeleteJob, DeleteInactionableJobs, store
  <2>2. db' \in DbShape /\ db'.id = db.id /\ (db' = db \/ db'.status = "none")
    BY <2>1 DEF CommitDelete, Inv, Shape, DbShape
  <2>3. step' \in [Writers -> StepNames]
    BY Apart DEF CleanList, DeleteJob, DeleteInactionableJobs, Goto, Inv, Shape, StepNames
  <2>4. UNCHANGED <<copy, work, hooks>>
    BY DEF CleanList, DeleteJob, DeleteInactionableJobs
  <2> QED
    BY <2>2, <2>3, <2>4 DEF Inv, Shape
<1> QED BY <1>1, <1>2 DEF Inv, SeenRow, AddHolds, OneCreator, Recorded

\* The webhook of another job keeps Inv: it puts the row whose lock it breaks on record.
LEMMA BreakKeeps ==
    ASSUME Inv, BreakLockJobIsQueued
    PROVE  Inv'
<1>1. UNCHANGED <<hooks, step, work, copy>>
  BY DEF BreakLockJobIsQueued
<1>2. CASE UNCHANGED store
  BY <1>1, <1>2, Quieter DEF Inv, Shape, store
<1>3. CASE Commit(OtherHook, "update", [db EXCEPT !.lockedBy = Nobody])
  <2>1. /\ db' = [[db EXCEPT !.lockedBy = Nobody] EXCEPT !.stamp = db.stamp + 1]
        /\ broken' = broken \cup {db.id}
    BY <1>3 DEF Commit
  <2>2. db' \in DbShape /\ db'.id = db.id
    <3>1. db \in DbShape /\ db.stamp + 1 \in Nat
      BY DEF Inv, Shape, DbShape
    <3> QED
      BY <2>1, <3>1 DEF DbShape
  <2> QED
    BY <1>1, <2>1, <2>2 DEF Inv, Shape, SeenRow, AddHolds, OneCreator
<1> QED
  BY <1>2, <1>3 DEF BreakLockJobIsQueued

\* Everything else leaves the row, or the managers' steps, as they are.
LEMMA OthersKeep ==
    ASSUME Inv,
           \/ \E a \in Writers : Notify(a)
           \/ \E m \in Managers : Watch(m)
           \/ ForgeMoves \/ Crash \/ UNCHANGED vars
    PROVE  Inv'
<1>1. CASE \/ \E a \in Writers : Notify(a)
           \/ \E m \in Managers : Watch(m)
           \/ UNCHANGED vars
  BY <1>1, Quieter DEF Notify, Watch, HandleWatcherEvent, ReapJobTombstones, RunWatcher, Inv, Shape,
                       vars, store
<1>2. CASE ForgeMoves
  <2>1. hooks' \subseteq Deliveries
    BY <1>2 DEF ForgeMoves, Deliveries, Actions, Inv, Shape
  <2> QED BY <1>2, <2>1, Quieter DEF ForgeMoves, Inv, Shape, store, managers
<1>3. CASE Crash
  BY <1>3, Quieter DEF Crash, Inv, Shape, StepNames, NoWork, Actions, Writers
<1> QED BY <1>1, <1>2, <1>3

\* OneCreator (CreateOrUpdateJob, LockJob, UnlockJob, consumeQueuedJobs, and
\* BreakLockJobIsQueued through the webhook of another job): two managers are never both
\* creating a runner for the same row, unless the webhook of another job broke its lock,
\* whatever the number of managers, handlers and crashes and whichever events are lost.
THEOREM OneCreatorHolds == Spec => []OneCreator
<1>1. Inv /\ [Next]_vars => Inv'
  BY HandlerKeeps, ConsumerKeeps, CleanerKeeps, BreakKeeps, OthersKeep DEF Next
<1>2. Inv => OneCreator
  BY DEF Inv
<1> QED BY InitInv, <1>1, <1>2, PTL DEF Spec

-----------------------------------------------------------------------------
(***************************************************************************)
(* The types, and the caches of the managers.                              *)
(***************************************************************************)

\* An event is about a row that was recorded.
JobEvents == [op : {"create", "update", "delete"}, job : {r \in JobRows : r.id \in Ids}]

\* The types, with what they need to be inductive: the IDs of rows and of events, and
\* that an actor that is about to write has nothing left to notify.
RowTyped ==
    /\ db \in JobRows
    /\ Recorded => db.id \in Ids
    /\ ~Recorded => db.id < MaxRows /\ db.lockedBy = Nobody /\ db.owners = {}
    /\ event \in [Writers -> JobEvents \cup {NoEvent}]
    /\ broken \subseteq Ids
StepTyped ==
    /\ step \in [Writers -> StepNames] /\ step[OtherHook] = "idle"
    /\ work \in [Handlers -> Deliveries \cup {NoWork}]
    /\ \A h \in Handlers : step[h] = "write" => work[h] \in Deliveries
    /\ \A a \in Writers : step[a] \in {"write", "unlock", "giveup", "delete"} =>
           event[a] = NoEvent
CacheTyped ==
    /\ queue \in [Managers -> Seq(JobEvents)]
    /\ jobs \in [Managers -> [Ids -> JobRows]]
    /\ tombs \in [Managers -> SUBSET Ids]
    /\ seeded \subseteq Managers
RestTyped ==
    /\ wfJob \in Actions \cup {"none"} /\ hooks \subseteq Deliveries
    /\ copy \in [Managers -> JobRows]
    /\ runners \in 0..MaxSpare /\ crashes \in 0..MaxCrashes
    /\ amiss \subseteq Managers \X Ids
Typed == RowTyped /\ StepTyped /\ CacheTyped /\ RestTyped

\* What a step does to the store: a writer that has nothing left to notify writes the row,
\* or deletes it.
Told(a, op, row) ==
    /\ event[a] = NoEvent
    /\ event' = [event EXCEPT ![a] = [op |-> op, job |-> row]]
    /\ event' \in [Writers -> JobEvents \cup {NoEvent}]
    /\ broken' \subseteq Ids
Written(a) ==
    /\ db' \in JobRows /\ db'.id \in Ids /\ db'.status # "none" /\ db'.stamp = db.stamp + 1
    /\ \E op \in {"create", "update"} : Told(a, op, db')
    /\ \/ Recorded /\ db'.id = db.id /\ db.owners \subseteq db'.owners
       \/ ~Recorded /\ db'.id = db.id + 1
    /\ db'.status = db.status \/ \E h \in Handlers : PersistWrite(h)
Deleted(a) ==
    /\ Recorded /\ db'.status = "none" /\ Told(a, "delete", db)
    /\ db' \in JobRows /\ db'.id = db.id /\ db.id < MaxRows /\ db'.stamp = db.stamp
    /\ db'.lockedBy = Nobody /\ db'.owners = {}
StoreStep == UNCHANGED store \/ \E a \in Writers : Written(a) \/ Deleted(a)

\* The events in a queue.
Seen(q) == {q[k] : k \in 1..Len(q)}

\* The events on their way to m, and those about the row i.
EventsTo(m) ==
    {event[a] : a \in {b \in Writers : event[b] # NoEvent /\ m \in event[b].job.owners}}
        \cup Seen(queue[m])
About(m, i) == {e \in EventsTo(m) : e.job.id = i}

\* Handling the event takes the job out of the cache.
Retires(e) == e.op = "delete" \/ e.job.status = "completed"

\* The row is one the caches are to hold.
Alive == db.status \in {"queued", "in_progress"}

\* No event and no cache is ahead of the store, and the event of the last write says
\* what the row says.
Behind ==
    /\ \A m \in Managers : \A e \in EventsTo(m) :
        /\ e.job.id <= db.id /\ e.job.stamp <= db.stamp
        /\ Alive /\ e.job.id = db.id /\ ~Retires(e) /\ e.job.stamp = db.stamp => e.job = db
    /\ \A m \in Managers : \A i \in Ids : jobs[m][i].stamp <= db.stamp
    /\ \A m \in Managers \ seeded : jobs[m] = [i \in Ids |-> NoJob] /\ tombs[m] = {}

\* A manager that owns a row the caches are to hold, and was told of all its writes, has
\* it, or the event of its last write is on its way; or it was recorded before the process
\* started.
Follows(m) ==
    Alive /\ m \in db.owners /\ <<m, db.id>> \notin amiss =>
        /\ db.id \notin tombs[m]
        /\ \A e \in About(m, db.id) : ~Retires(e)
        /\ \/ jobs[m][db.id] = db
           \/ \E e \in EventsTo(m) : e.job = db /\ ~Retires(e)
           \/ /\ jobs[m][db.id] = NoJob /\ About(m, db.id) = {}
              /\ db.status = "queued" => m \notin seeded

\* A manager that does not own it was never told of it.
Untold(m, i) == jobs[m][i] = NoJob /\ About(m, i) = {} /\ i \notin tombs[m]
Strange(m) == Alive /\ m \notin db.owners /\ <<m, db.id>> \notin amiss => Untold(m, db.id)

\* A row that is completed or deleted is out of the cache for good, or will be.
Over(m, i) ==
    \/ \E e \in About(m, i) : Retires(e)
    \/ jobs[m][i] = NoJob /\ (i \in tombs[m] \/ About(m, i) = {})

Past(m) ==
    \A i \in Ids : <<m, i>> \notin amiss /\ (i < db.id \/ (i = db.id /\ ~Alive)) => Over(m, i)

\* Of a row to come nothing is known.
Future(m) == \A i \in Ids : i > db.id => Untold(m, i)

Kept(m) == Follows(m) /\ Strange(m) /\ Past(m) /\ Future(m)
CacheInv == Behind /\ \A m \in Managers : Kept(m)

-----------------------------------------------------------------------------
\* Queues of events.

LEMMA SeenAppend ==
  ASSUME NEW S, NEW q \in Seq(S), NEW x \in S
  PROVE  Append(q, x) \in Seq(S) /\ Seen(Append(q, x)) = Seen(q) \cup {x}
<1>1. /\ Append(q, x) \in Seq(S) /\ Len(Append(q, x)) = Len(q) + 1
      /\ \A i \in 1..Len(q) : Append(q, x)[i] = q[i]
      /\ Append(q, x)[Len(q) + 1] = x
  BY AppendProperties
<1>2. Len(q) \in Nat
  BY LenProperties
<1>3. 1..(Len(q) + 1) = (1..Len(q)) \cup {Len(q) + 1}
  BY <1>2
<1> DEFINE a == Append(q, x)
<1>4. Len(a) = Len(q) + 1 /\ (\A i \in 1..Len(q) : a[i] = q[i]) /\ a[Len(q) + 1] = x
  BY <1>1
<1> HIDE DEF a
<1>5. Seen(a) = Seen(q) \cup {x}
  BY <1>2, <1>3, <1>4 DEF Seen
<1> QED
  BY <1>1, <1>5 DEF a

LEMMA SeenTail ==
  ASSUME NEW S, NEW q \in Seq(S), q # <<>>
  PROVE  /\ Head(q) \in S /\ Tail(q) \in Seq(S)
         /\ Seen(q) = Seen(Tail(q)) \cup {Head(q)}
<1>1. /\ Head(q) \in S /\ Tail(q) \in Seq(S)
      /\ Len(Tail(q)) = Len(q) - 1
      /\ \A i \in 1..Len(Tail(q)) : Tail(q)[i] = q[i + 1]
  BY HeadTailProperties
<1>2. Len(q) \in Nat \ {0} /\ Head(q) = q[1]
  BY EmptySeq, LenProperties
<1> DEFINE a == Tail(q)
           h == Head(q)
<1>3. h = q[1] /\ Len(a) = Len(q) - 1 /\ \A i \in 1..Len(a) : a[i] = q[i + 1]
  BY <1>1, <1>2
<1> HIDE DEF a, h
<1>4. Seen(a) \cup {h} \subseteq Seen(q)
  BY <1>2, <1>3 DEF Seen
<1>5. ASSUME NEW k \in 1..Len(q) PROVE q[k] \in Seen(a) \cup {h}
  <2>1. CASE k = 1
    BY <1>3, <2>1
  <2>2. CASE k # 1
    <3>1. k - 1 \in 1..Len(a) /\ (k - 1) + 1 = k
      BY <1>2, <1>3, <2>2
    <3>2. a[k - 1] = q[k]
      BY <1>3, <3>1
    <3> QED
      BY <3>1, <3>2 DEF Seen
  <2> QED
    BY <2>1, <2>2
<1>6. Seen(q) \subseteq Seen(a) \cup {h}
  BY <1>5 DEF Seen
<1> QED
  BY <1>1, <1>4, <1>6 DEF a, h

-----------------------------------------------------------------------------
\* Rows and events.

LEMMA NoJobFields ==
    /\ NoJob \in JobRows /\ NoJob.id = 0 /\ NoJob.status = "none" /\ NoJob.stamp = 0
    /\ NoJob.lockedBy = Nobody
BY JobQueueAssumption DEF NoJob, JobRows

LEMMA NoEventFields == NoEvent \notin JobEvents /\ NoEvent.op = "none" /\ NoEvent.job = NoJob
BY DEF NoEvent, JobEvents

\* A transaction on a row writes the row with the next stamp, and its writer has an
\* event of it to notify.
LEMMA Committed ==
  ASSUME Typed, NEW a \in Writers, NEW op \in {"create", "update"}, NEW r \in JobRows,
         r.id \in Ids, Commit(a, op, r)
  PROVE  /\ db' \in JobRows /\ db'.id = r.id /\ db'.status = r.status
         /\ db'.lockedBy = r.lockedBy /\ db'.owners = r.owners /\ db'.stamp = db.stamp + 1
         /\ event' = [event EXCEPT ![a] = [op |-> op, job |-> db']]
         /\ event' \in [Writers -> JobEvents \cup {NoEvent}]
         /\ broken \subseteq Ids
         /\ broken' = IF a = OtherHook THEN broken \cup {db.id} ELSE broken
<1>1. db.stamp \in 0..MaxWrites /\ db.stamp < MaxWrites
  BY DEF Typed, RowTyped, JobRows, Commit
<1>2. db.stamp + 1 \in 0..MaxWrites
  BY <1>1, JobQueueAssumption
<1>3. db' = [r EXCEPT !.stamp = db.stamp + 1]
  BY DEF Commit
<1>4. /\ db' \in JobRows /\ db'.id = r.id /\ db'.status = r.status
      /\ db'.lockedBy = r.lockedBy /\ db'.owners = r.owners /\ db'.stamp = db.stamp + 1
  BY <1>2, <1>3 DEF JobRows
<1>5. event' = [event EXCEPT ![a] = [op |-> op, job |-> db']]
  BY DEF Commit
<1> DEFINE e == [op |-> op, job |-> db']
<1>6. e \in JobEvents
  BY <1>4 DEF JobEvents
<1>7. event' = [event EXCEPT ![a] = e]
  BY <1>5
<1> HIDE DEF e
<1>8. event' \in [Writers -> JobEvents \cup {NoEvent}]
  BY <1>6, <1>7 DEF Typed, RowTyped
<1>9. broken \subseteq Ids /\ broken' = IF a = OtherHook THEN broken \cup {db.id} ELSE broken
  BY DEF Commit, Typed, RowTyped
<1> QED
  BY <1>4, <1>5, <1>8, <1>9

\* A deletion leaves the number of the row and of its last write.
LEMMA CommittedDelete ==
  ASSUME Typed, NEW a \in Writers, Recorded, CommitDelete(a)
  PROVE  /\ db' \in JobRows /\ db'.id = db.id /\ db'.status = "none" /\ db.id < MaxRows
         /\ db'.lockedBy = Nobody /\ db'.owners = {} /\ db'.stamp = db.stamp
         /\ event' = [event EXCEPT ![a] = [op |-> "delete", job |-> db]]
         /\ event' \in [Writers -> JobEvents \cup {NoEvent}]
         /\ broken' \subseteq Ids
<1>1. db \in JobRows /\ db.id \in Ids
  BY DEF Typed, RowTyped
<1>2. db' = [db EXCEPT !.status = "none", !.lockedBy = Nobody, !.owners = {}]
      /\ db.id < MaxRows
  BY DEF CommitDelete
<1>3. /\ db' \in JobRows /\ db'.id = db.id /\ db'.status = "none"
      /\ db'.lockedBy = Nobody /\ db'.owners = {} /\ db'.stamp = db.stamp
  BY <1>1, <1>2 DEF JobRows
<1> DEFINE e == [op |-> "delete", job |-> db]
<1>4. e \in JobEvents
  BY <1>1 DEF JobEvents
<1>5. event' = [event EXCEPT ![a] = e]
  BY DEF CommitDelete
<1>6. event' \in [Writers -> JobEvents \cup {NoEvent}]
  <2> HIDE DEF e
  <2> QED
    BY <1>4, <1>5 DEF Typed, RowTyped
<1>7. broken' \subseteq Ids
  BY DEF CommitDelete, Typed, RowTyped
<1> QED
  BY <1>2, <1>3, <1>5, <1>6, <1>7

\* The rows the writers commit.
LEMMA RowsWritten ==
  ASSUME Typed
  PROVE  /\ \A m \in Managers \cup {Nobody} :
                LET r == [db EXCEPT !.lockedBy = m]
                IN  r \in JobRows /\ r.id = db.id /\ r.status = db.status /\ r.lockedBy = m
                    /\ r.owners = db.owners
         /\ \A d \in Deliveries :
                LET r == [db EXCEPT !.status = d.action, !.owners = @ \cup {d.to}]
                IN  r \in JobRows /\ r.id = db.id /\ r.status = d.action
                    /\ r.lockedBy = db.lockedBy /\ r.owners = db.owners \cup {d.to}
         /\ \A d \in Deliveries : ~Recorded =>
                LET r == [NoJob EXCEPT !.id = db.id + 1, !.status = d.action, !.owners = {d.to}]
                IN  r \in JobRows /\ r.id = db.id + 1 /\ r.id \in Ids /\ r.status = d.action
                    /\ r.lockedBy = Nobody /\ r.owners = {d.to}
<1>1. db \in JobRows /\ (~Recorded => db.id < MaxRows)
  BY DEF Typed, RowTyped
<1>2. ASSUME NEW m \in Managers \cup {Nobody}
      PROVE  LET r == [db EXCEPT !.lockedBy = m]
             IN  r \in JobRows /\ r.id = db.id /\ r.status = db.status /\ r.lockedBy = m
                 /\ r.owners = db.owners
  BY <1>1 DEF JobRows
<1>3. ASSUME NEW d \in Deliveries
      PROVE  LET r == [db EXCEPT !.status = d.action, !.owners = @ \cup {d.to}]
             IN  r \in JobRows /\ r.id = db.id /\ r.status = d.action
                 /\ r.lockedBy = db.lockedBy /\ r.owners = db.owners \cup {d.to}
  <2>1. d.to \in Managers /\ d.action \in Actions
    BY DEF Deliveries
  <2> QED
    BY <1>1, <2>1 DEF JobRows
<1>4. ASSUME NEW d \in Deliveries, ~Recorded
      PROVE  LET r == [NoJob EXCEPT !.id = db.id + 1, !.status = d.action, !.owners = {d.to}]
             IN  r \in JobRows /\ r.id = db.id + 1 /\ r.id \in Ids /\ r.status = d.action
                 /\ r.lockedBy = Nobody /\ r.owners = {d.to}
  <2>1. d.to \in Managers /\ d.action \in Actions
    BY DEF Deliveries
  <2>2. db.id \in 0..MaxRows
    BY <1>1 DEF JobRows
  <2>3. db.id + 1 \in 0..MaxRows /\ db.id + 1 \in 1..MaxRows
    BY <1>1, <1>4, <2>2, JobQueueAssumption
  <2> QED
    BY <2>1, <2>3, NoJobFields DEF JobRows, Ids, NoJob
<1> QED
  BY <1>2, <1>3, <1>4

-----------------------------------------------------------------------------
\* The types are kept by every step.

LEMMA TypedIsTypeOK == Typed => TypeOK
<1> SUFFICES ASSUME Typed PROVE TypeOK
  OBVIOUS
<1>1. \A a \in Writers : /\ event[a].op \in {"none", "create", "update", "delete"}
                         /\ event[a].job \in JobRows
  BY NoEventFields, NoJobFields DEF Typed, RowTyped, JobEvents
<1> QED
  BY <1>1 DEF Typed, RowTyped, StepTyped, CacheTyped, RestTyped, TypeOK, StepNames

LEMMA TypedInit == Init => Typed
<1> SUFFICES ASSUME Init PROVE Typed
  OBVIOUS
<1>1. RowTyped
  BY NoJobFields, JobQueueAssumption DEF Init, RowTyped, Recorded, NoJob
<1>2. StepTyped
  <2>1. step = [a \in Writers |-> "idle"] /\ work = [h \in Handlers |-> NoWork]
    BY DEF Init
  <2>2. step \in [Writers -> StepNames] /\ work \in [Handlers -> Deliveries \cup {NoWork}]
    BY <2>1 DEF StepNames
  <2>3. \A a \in Writers : step[a] \notin {"write", "unlock", "giveup", "delete"}
    BY <2>1
  <2>4. step[OtherHook] = "idle" /\ \A h \in Handlers : step[h] # "write"
    BY <2>1, <2>3, Apart
  <2> QED
    BY <2>2, <2>3, <2>4 DEF StepTyped
<1>3. CacheTyped
  <2>1. <<>> \in Seq(JobEvents)
    OBVIOUS
  <2> QED
    BY <2>1, NoJobFields DEF Init, CacheTyped
<1>4. RestTyped
  BY NoJobFields, JobQueueAssumption DEF Init, RestTyped
<1> QED
  BY <1>1, <1>2, <1>3, <1>4 DEF Typed

\* A writer that commits, or leaves the store alone, ends at a step without a write to come.
LEMMA StepTypedAfter ==
  ASSUME Typed, NEW a \in Writers, NEW s \in {"idle", "add", "lock"}, Goto(a, s), a # OtherHook,
         \A b \in Writers \ {a} : event'[b] = event[b],
         \/ UNCHANGED work
         \/ a \in Handlers /\ work' = [work EXCEPT ![a] = NoWork]
  PROVE  StepTyped'
<1>1. step' = [step EXCEPT ![a] = s]
  BY DEF Goto
<1>2. step' \in [Writers -> StepNames] /\ step'[OtherHook] = "idle"
  BY <1>1, Apart DEF Typed, StepTyped, StepNames
<1>3. work' \in [Handlers -> Deliveries \cup {NoWork}]
  BY DEF Typed, StepTyped
<1>4. ASSUME NEW h \in Handlers, step'[h] = "write" PROVE work'[h] \in Deliveries
  <2>1. h # a /\ step[h] = "write"
    BY <1>1, <1>4, Apart DEF Typed, StepTyped
  <2>2. work'[h] = work[h]
    BY <2>1 DEF Typed, StepTyped
  <2> QED
    BY <2>1, <2>2 DEF Typed, StepTyped
<1>5. ASSUME NEW b \in Writers, step'[b] \in {"write", "unlock", "giveup", "delete"}
      PROVE  event'[b] = NoEvent
  BY <1>1, <1>5 DEF Typed, StepTyped
<1> QED
  BY <1>2, <1>3, <1>4, <1>5 DEF StepTyped

LEMMA PersistReadTyped ==
  ASSUME Typed, NEW h \in Handlers, PersistRead(h)
  PROVE  Typed'
<1>1. UNCHANGED <<db, event, wfJob, copy, queue, jobs, tombs, seeded, runners, crashes, amiss,
                  broken>>
  BY DEF PersistRead, store, managers
<1>2. PICK d \in hooks : /\ hooks' = hooks \ {d}
                         /\ \/ work' = [work EXCEPT ![h] = d] /\ Goto(h, "write")
                            \/ UNCHANGED <<work, step>>
  BY DEF PersistRead
<1>3. d \in Deliveries /\ hooks' \subseteq Deliveries
  BY <1>2 DEF Typed, RestTyped
<1>4. event[h] = NoEvent /\ h \in Writers
  BY Apart DEF PersistRead
<1>5. StepTyped'
  <2>1. CASE work' = [work EXCEPT ![h] = d] /\ Goto(h, "write")
    <3>1. step' = [step EXCEPT ![h] = "write"]
      BY <2>1 DEF Goto
    <3>2. /\ step' \in [Writers -> StepNames] /\ step'[OtherHook] = "idle"
          /\ work' \in [Handlers -> Deliveries \cup {NoWork}]
      BY <1>3, <2>1, <3>1, Apart DEF Typed, StepTyped, StepNames
    <3>3. \A g \in Handlers : step'[g] = "write" => work'[g] \in Deliveries
      BY <1>3, <1>4, <2>1, <3>1, Apart DEF Typed, StepTyped
    <3>4. \A a \in Writers : step'[a] \in {"write", "unlock", "giveup", "delete"} =>
              event'[a] = NoEvent
      BY <1>1, <1>4, <3>1 DEF Typed, StepTyped
    <3> QED
      BY <3>2, <3>3, <3>4 DEF StepTyped
  <2>2. CASE UNCHANGED <<work, step>>
    BY <1>1, <2>2 DEF Typed, StepTyped
  <2> QED
    BY <1>2, <2>1, <2>2
<1> QED
  BY <1>1, <1>3, <1>5 DEF Typed, RowTyped, CacheTyped, RestTyped, Recorded

\* What CreateOrUpdateJob leaves in the row.
LEMMA PersistWriteRow ==
  ASSUME Typed, NEW h \in Handlers, PersistWrite(h)
  PROVE  \E op \in {"create", "update"} :
            /\ db' \in JobRows /\ db'.stamp = db.stamp + 1 /\ db'.id \in Ids
            /\ db'.status = work[h].action /\ work[h] \in Deliveries
            /\ event' = [event EXCEPT ![h] = [op |-> op, job |-> db']]
            /\ event' \in [Writers -> JobEvents \cup {NoEvent}] /\ broken' \subseteq Ids
            /\ \/ Recorded /\ db'.id = db.id /\ db'.owners = db.owners \cup {work[h].to}
               \/ ~Recorded /\ db'.id = db.id + 1 /\ db'.owners = {work[h].to}
<1>1. work[h] \in Deliveries /\ h \in Writers /\ h # OtherHook
  BY Apart DEF Typed, StepTyped, PersistWrite
<1> DEFINE d == work[h]
           u == [db EXCEPT !.status = d.action, !.owners = @ \cup {d.to}]
           c == [NoJob EXCEPT !.id = db.id + 1, !.status = d.action, !.owners = {d.to}]
<1>2. \/ Recorded /\ Commit(h, "update", u)
      \/ ~Recorded /\ Commit(h, "create", c)
  BY DEF PersistWrite
<1>3. CASE Recorded
  <2>1. u \in JobRows /\ u.id = db.id /\ u.status = d.action /\ u.owners = db.owners \cup {d.to}
    BY <1>1, RowsWritten
  <2>2. u.id \in Ids
    BY <1>3, <2>1 DEF Typed, RowTyped
  <2>3. Commit(h, "update", u)
    BY <1>2, <1>3
  <2> HIDE DEF u
  <2>4. /\ db' \in JobRows /\ db'.id = u.id /\ db'.status = u.status
        /\ db'.owners = u.owners /\ db'.stamp = db.stamp + 1
        /\ event' = [event EXCEPT ![h] = [op |-> "update", job |-> db']]
        /\ event' \in [Writers -> JobEvents \cup {NoEvent}] /\ broken' \subseteq Ids
    BY <1>1, <2>1, <2>2, <2>3, Committed
  <2> QED
    BY <1>1, <1>3, <2>1, <2>2, <2>4
<1>4. CASE ~Recorded
  <2>1. c \in JobRows /\ c.id = db.id + 1 /\ c.id \in Ids /\ c.status = d.action
        /\ c.owners = {d.to}
    BY <1>1, <1>4, RowsWritten
  <2>2. Commit(h, "create", c)
    BY <1>2, <1>4
  <2> HIDE DEF c
  <2>3. /\ db' \in JobRows /\ db'.id = c.id /\ db'.status = c.status
        /\ db'.owners = c.owners /\ db'.stamp = db.stamp + 1
        /\ event' = [event EXCEPT ![h] = [op |-> "create", job |-> db']]
        /\ event' \in [Writers -> JobEvents \cup {NoEvent}] /\ broken' \subseteq Ids
    BY <1>1, <2>1, <2>2, Committed
  <2> QED
    BY <1>1, <1>4, <2>1, <2>3
<1> QED
  BY <1>3, <1>4

\* A change of the lock leaves the rest of the row.
LEMMA LockWritten ==
  ASSUME Typed, NEW a \in Writers, NEW m \in Managers \cup {Nobody}, Recorded,
         Commit(a, "update", [db EXCEPT !.lockedBy = m])
  PROVE  /\ db' \in JobRows /\ db'.stamp = db.stamp + 1 /\ db'.id = db.id /\ db'.id \in Ids
         /\ db'.status = db.status /\ db'.owners = db.owners /\ db'.lockedBy = m
         /\ event' = [event EXCEPT ![a] = [op |-> "update", job |-> db']]
         /\ event' \in [Writers -> JobEvents \cup {NoEvent}] /\ broken' \subseteq Ids
<1> DEFINE r == [db EXCEPT !.lockedBy = m]
<1>1. r \in JobRows /\ r.id = db.id /\ r.status = db.status /\ r.lockedBy = m
      /\ r.owners = db.owners
  BY RowsWritten
<1>2. db.id \in Ids /\ Commit(a, "update", r)
  BY DEF Typed, RowTyped
<1> HIDE DEF r
<1> QED
  BY <1>1, <1>2, Committed

LEMMA StoreStepTyped ==
  ASSUME Typed, StoreStep
  PROVE  RowTyped'
<1>1. CASE UNCHANGED store
  BY <1>1 DEF Typed, RowTyped, Recorded, store
<1>2. ASSUME NEW a \in Writers, Written(a) PROVE RowTyped'
  BY <1>2 DEF Written, Told, RowTyped, Recorded
<1>3. ASSUME NEW a \in Writers, Deleted(a) PROVE RowTyped'
  BY <1>3 DEF Deleted, Told, RowTyped, Recorded
<1> QED
  BY <1>1, <1>2, <1>3 DEF StoreStep

\* A change of the lock, by a writer that has nothing left to notify.
LEMMA LockStep ==
  ASSUME Typed, NEW a \in Writers, NEW m \in Managers \cup {Nobody}, Recorded,
         event[a] = NoEvent, Commit(a, "update", [db EXCEPT !.lockedBy = m])
  PROVE  StoreStep /\ \A b \in Writers \ {a} : event'[b] = event[b]
<1>1. /\ db' \in JobRows /\ db'.stamp = db.stamp + 1 /\ db'.id = db.id /\ db'.id \in Ids
      /\ db'.status = db.status /\ db'.owners = db.owners
      /\ event' = [event EXCEPT ![a] = [op |-> "update", job |-> db']]
      /\ event' \in [Writers -> JobEvents \cup {NoEvent}] /\ broken' \subseteq Ids
  BY LockWritten
<1>2. db'.status # "none"
  BY <1>1 DEF Recorded
<1>3. Told(a, "update", db')
  BY <1>1 DEF Told
<1>4. Written(a)
  BY <1>1, <1>2, <1>3 DEF Written
<1>5. \A b \in Writers \ {a} : event'[b] = event[b]
  BY <1>1 DEF Typed, RowTyped
<1> QED
  BY <1>4, <1>5 DEF StoreStep

LEMMA PersistWriteStep ==
  ASSUME Typed, NEW h \in Handlers, PersistWrite(h)
  PROVE  Written(h) /\ \A b \in Writers \ {h} : event'[b] = event[b]
<1>1. PICK op \in {"create", "update"} :
            /\ db' \in JobRows /\ db'.stamp = db.stamp + 1 /\ db'.id \in Ids
            /\ db'.status = work[h].action /\ work[h] \in Deliveries
            /\ event' = [event EXCEPT ![h] = [op |-> op, job |-> db']]
            /\ event' \in [Writers -> JobEvents \cup {NoEvent}] /\ broken' \subseteq Ids
            /\ \/ Recorded /\ db'.id = db.id /\ db'.owners = db.owners \cup {work[h].to}
               \/ ~Recorded /\ db'.id = db.id + 1 /\ db'.owners = {work[h].to}
  BY PersistWriteRow
<1>2. step[h] = "write" /\ h \in Writers
  BY Apart DEF PersistWrite
<1>3. event[h] = NoEvent
  BY <1>2 DEF Typed, StepTyped
<1>4. db'.status # "none"
  BY <1>1 DEF Deliveries, Actions
<1>5. Told(h, op, db')
  BY <1>1, <1>3 DEF Told
<1>6. Written(h)
  BY <1>1, <1>2, <1>4, <1>5 DEF Written
<1> QED
  BY <1>1, <1>6 DEF Typed, RowTyped

LEMMA DeleteStep ==
  ASSUME Typed, Recorded, event[Cleaner] = NoEvent, CommitDelete(Cleaner)
  PROVE  Deleted(Cleaner) /\ \A b \in Writers \ {Cleaner} : event'[b] = event[b]
<1>1. Cleaner \in Writers
  BY Apart
<1>2. /\ db' \in JobRows /\ db'.id = db.id /\ db'.status = "none" /\ db.id < MaxRows
      /\ db'.lockedBy = Nobody /\ db'.owners = {} /\ db'.stamp = db.stamp
      /\ event' = [event EXCEPT ![Cleaner] = [op |-> "delete", job |-> db]]
      /\ event' \in [Writers -> JobEvents \cup {NoEvent}] /\ broken' \subseteq Ids
  BY <1>1, CommittedDelete
<1> QED
  BY <1>2 DEF Deleted, Told, Typed, RowTyped

\* UnlockJob, by a manager that has nothing left to notify.
LEMMA UnlockStep ==
  ASSUME Typed, NEW m \in Managers, event[m] = NoEvent, UnlockJob(m)
  PROVE  StoreStep /\ \A b \in Writers \ {m} : event'[b] = event[b]
<1>1. CASE UNCHANGED store
  BY <1>1 DEF StoreStep, store
<1>2. CASE Recorded /\ Commit(m, "update", [db EXCEPT !.lockedBy = Nobody])
  BY <1>2, LockStep, Apart
<1> QED
  BY <1>1, <1>2 DEF UnlockJob, MayUnlock

\* The steps that leave the managers' caches alone change the store as StoreStep says.
LEMMA PersistStep ==
  ASSUME Typed, NEW h \in Handlers, PersistRead(h) \/ PersistWrite(h)
  PROVE  Typed' /\ StoreStep /\ UNCHANGED <<queue, jobs, tombs, seeded>> /\ amiss \subseteq amiss'
<1>1. CASE PersistRead(h)
  BY <1>1, PersistReadTyped DEF PersistRead, StoreStep, managers
<1>2. CASE PersistWrite(h)
  <2>1. Written(h) /\ \A b \in Writers \ {h} : event'[b] = event[b]
    BY <1>2, PersistWriteStep
  <2>2. StoreStep /\ h \in Writers
    BY <2>1, Apart DEF StoreStep
  <2>3. /\ Goto(h, "idle") /\ work' = [work EXCEPT ![h] = NoWork]
        /\ UNCHANGED <<wfJob, hooks, copy, queue, jobs, tombs, seeded, runners, crashes>>
        /\ \/ amiss' = amiss
           \/ db.status = "completed" /\ amiss' = amiss \cup (Managers \X {db.id})
    BY <1>2 DEF PersistWrite
  <2>4. StepTyped'
    BY <2>1, <2>2, <2>3, Apart, StepTypedAfter
  <2>5. RowTyped'
    BY <2>2, StoreStepTyped
  <2>6. amiss \subseteq amiss' /\ amiss' \subseteq Managers \X Ids
    <3>1. amiss \subseteq Managers \X Ids /\ (db.status = "completed" => db.id \in Ids)
      BY DEF Typed, RowTyped, RestTyped, Recorded
    <3> QED
      BY <2>3, <3>1
  <2> QED
    BY <2>2, <2>3, <2>4, <2>5, <2>6 DEF Typed, CacheTyped, RestTyped
<1> QED
  BY <1>1, <1>2

LEMMA BreakLockStep ==
  ASSUME Typed, BreakLockJobIsQueued
  PROVE  Typed' /\ StoreStep /\ UNCHANGED managers
<1>1. OtherHook \in Writers /\ event[OtherHook] = NoEvent
  BY Apart DEF BreakLockJobIsQueued
<1>2. StoreStep /\ \A b \in Writers \ {OtherHook} : event'[b] = event[b]
  <2>1. CASE UNCHANGED store
    BY <2>1 DEF StoreStep, store
  <2>2. CASE db.status = "queued" /\ Commit(OtherHook, "update", [db EXCEPT !.lockedBy = Nobody])
    BY <1>1, <2>2, LockStep DEF Recorded
  <2> QED
    BY <2>1, <2>2 DEF BreakLockJobIsQueued
<1>3. UNCHANGED <<wfJob, hooks, step, work, copy, managers, crashes>>
  BY DEF BreakLockJobIsQueued
<1>4. runners' \in 0..MaxSpare
  BY JobQueueAssumption DEF BreakLockJobIsQueued, Typed, RestTyped
<1>5. StepTyped'
  <2>1. step[OtherHook] = "idle"
    BY DEF Typed, StepTyped
  <2>2. \A a \in Writers : step[a] \in {"write", "unlock", "giveup", "delete"} => a # OtherHook
    BY <2>1
  <2> QED
    BY <1>2, <1>3, <2>2 DEF Typed, StepTyped
<1> QED
  BY <1>2, <1>3, <1>4, <1>5, StoreStepTyped DEF Typed, CacheTyped, RestTyped, managers

\* consumeQueuedJobs.
LEMMA ConsumeStep ==
  ASSUME Typed, NEW m \in Managers, Consume(m)
  PROVE  Typed' /\ StoreStep /\ UNCHANGED managers
<1>1. m \in Writers /\ m # OtherHook /\ m \notin Handlers
  BY Apart
<1>2. \A i \in 0..MaxRows, l \in Managers \cup {Nobody} :
          [NoJob EXCEPT !.id = i, !.lockedBy = l] \in JobRows
          /\ [NoJob EXCEPT !.id = i] \in JobRows
  BY NoJobFields DEF JobRows
<1>3. db.id \in 0..MaxRows
  BY DEF Typed, RowTyped, JobRows
<1>4. /\ copy \in [Managers -> JobRows]
      /\ \A r \in JobRows : [copy EXCEPT ![m] = r] \in [Managers -> JobRows]
  BY DEF Typed, RestTyped
<1>5. Done(m) => Goto(m, "idle") /\ copy' \in [Managers -> JobRows]
  BY <1>4, NoJobFields DEF Done
<1>6. ForRow(m) => Goto(m, "add") /\ copy' \in [Managers -> JobRows]
  BY <1>2, <1>3, <1>4, JobQueueAssumption DEF ForRow
<1>7. ASSUME StoreStep, UNCHANGED <<wfJob, hooks, work, managers, crashes>>,
             runners' \in 0..MaxSpare, copy' \in [Managers -> JobRows], StepTyped'
      PROVE  Typed' /\ StoreStep /\ UNCHANGED managers
  BY <1>7, StoreStepTyped DEF Typed, CacheTyped, RestTyped, managers
<1>8. CASE ConsumeRead(m)
  <2>1. event[m] = NoEvent /\ UNCHANGED <<store, wfJob, hooks, work, managers, runners, crashes>>
    BY <1>8 DEF ConsumeRead, Ready
  <2>2. copy' \in [Managers -> JobRows]
    <3>1. PICK i \in Ids : copy' = [copy EXCEPT ![m] =
                               [NoJob EXCEPT !.id = i, !.lockedBy = jobs[m][i].lockedBy]]
      BY <1>8 DEF ConsumeRead
    <3>2. i \in 0..MaxRows /\ jobs[m][i].lockedBy \in Managers \cup {Nobody}
      BY JobQueueAssumption DEF Ids, Typed, CacheTyped, JobRows
    <3> QED
      BY <1>2, <1>4, <3>1, <3>2
  <2>3. Goto(m, "unlock") \/ Goto(m, "lock")
    BY <1>8 DEF ConsumeRead
  <2>4. step' \in [Writers -> StepNames] /\ step'[OtherHook] = "idle"
    BY <1>1, <2>3, Apart DEF Goto, Typed, StepTyped, StepNames
  <2>5. \A a \in Writers : a # m => step'[a] = step[a]
    BY <2>3 DEF Goto, Typed, StepTyped
  <2>6. \A h \in Handlers : step'[h] = "write" => work[h] \in Deliveries
    BY <1>1, <2>5, Apart DEF Typed, StepTyped
  <2>7. StepTyped'
    BY <2>1, <2>4, <2>5, <2>6 DEF Typed, StepTyped, store
  <2> QED
    BY <1>7, <2>1, <2>2, <2>7 DEF StoreStep, Typed, RestTyped
<1>9. CASE ConsumeUnlock(m)
  <2>1. /\ step[m] = "unlock" /\ UnlockJob(m)
        /\ UNCHANGED <<wfJob, hooks, work, managers, runners, crashes>>
        /\ (Goto(m, "lock") /\ UNCHANGED copy) \/ Done(m)
    BY <1>9 DEF ConsumeUnlock
  <2>2. event[m] = NoEvent
    BY <1>1, <2>1 DEF Typed, StepTyped
  <2>3. StoreStep /\ \A b \in Writers \ {m} : event'[b] = event[b]
    BY <2>1, <2>2, UnlockStep
  <2>4. copy' \in [Managers -> JobRows] /\ (Goto(m, "lock") \/ Goto(m, "idle"))
    BY <1>4, <1>5, <2>1
  <2>5. StepTyped'
    BY <1>1, <2>1, <2>3, <2>4, StepTypedAfter
  <2> QED
    BY <1>7, <2>1, <2>3, <2>4, <2>5 DEF Typed, RestTyped
<1>10. CASE LockJob(m)
  <2>1. event[m] = NoEvent /\ UNCHANGED <<wfJob, hooks, work, managers, runners, crashes>>
    BY <1>10 DEF LockJob, Ready
  <2>2. StoreStep /\ \A b \in Writers \ {m} : event'[b] = event[b]
    <3>1. CASE UNCHANGED store
      BY <3>1 DEF StoreStep, store
    <3>2. CASE Recorded /\ Commit(m, "update", [db EXCEPT !.lockedBy = m])
      BY <1>1, <2>1, <3>2, LockStep
    <3> QED
      BY <1>10, <3>1, <3>2 DEF LockJob
  <2>3. copy' \in [Managers -> JobRows] /\ (Goto(m, "add") \/ Goto(m, "idle"))
    BY <1>5, <1>6, <1>10 DEF LockJob
  <2>4. StepTyped'
    BY <1>1, <2>1, <2>2, <2>3, StepTypedAfter
  <2> QED
    BY <1>7, <2>1, <2>2, <2>3, <2>4 DEF Typed, RestTyped
<1>11. CASE ConsumeAdd(m)
  <2>1. event[m] = NoEvent /\ UNCHANGED <<store, wfJob, hooks, work, managers, crashes>>
    BY <1>11 DEF ConsumeAdd, Ready
  <2>2. copy' \in [Managers -> JobRows] /\ (Goto(m, "giveup") \/ Goto(m, "idle"))
    BY <1>4, <1>5, <1>11 DEF ConsumeAdd
  <2>3. runners' \in 0..MaxSpare
    BY <1>11, JobQueueAssumption DEF ConsumeAdd, Typed, RestTyped
  <2>4. step' \in [Writers -> StepNames] /\ step'[OtherHook] = "idle"
    BY <1>1, <2>2, Apart DEF Goto, Typed, StepTyped, StepNames
  <2>5. \A a \in Writers : a # m => step'[a] = step[a]
    BY <2>2 DEF Goto, Typed, StepTyped
  <2>6. \A h \in Handlers : step'[h] = "write" => work[h] \in Deliveries
    BY <1>1, <2>5, Apart DEF Typed, StepTyped
  <2>7. StepTyped'
    BY <2>1, <2>4, <2>5, <2>6 DEF Typed, StepTyped, store
  <2> QED
    BY <1>7, <2>1, <2>2, <2>3, <2>7 DEF StoreStep
<1>12. CASE ConsumeGiveUp(m)
  <2>1. /\ step[m] = "giveup" /\ UnlockJob(m) /\ Done(m)
        /\ UNCHANGED <<wfJob, hooks, work, managers, runners, crashes>>
    BY <1>12 DEF ConsumeGiveUp
  <2>2. event[m] = NoEvent
    BY <1>1, <2>1 DEF Typed, StepTyped
  <2>3. StoreStep /\ \A b \in Writers \ {m} : event'[b] = event[b]
    BY <2>1, <2>2, UnlockStep
  <2>4. StepTyped'
    BY <1>1, <1>5, <2>1, <2>3, StepTypedAfter
  <2> QED
    BY <1>5, <1>7, <2>1, <2>3, <2>4 DEF Typed, RestTyped
<1> QED
  BY <1>8, <1>9, <1>10, <1>11, <1>12 DEF Consume

\* The clean-ups.
LEMMA CleanStep ==
  ASSUME Typed, CleanList \/ DeleteJob \/ DeleteInactionableJobs
  PROVE  Typed' /\ StoreStep /\ UNCHANGED managers
<1>1. Cleaner \in Writers /\ Cleaner # OtherHook /\ Cleaner \notin Handlers
  BY Apart
<1>2. UNCHANGED <<wfJob, hooks, work, copy, managers, runners, crashes>>
  BY DEF CleanList, DeleteJob, DeleteInactionableJobs
<1>3. ASSUME StoreStep, StepTyped'
      PROVE  Typed' /\ StoreStep /\ UNCHANGED managers
  BY <1>2, <1>3, StoreStepTyped DEF Typed, CacheTyped, RestTyped, managers
<1>4. CASE CleanList
  <2>1. /\ event[Cleaner] = NoEvent /\ step' = [step EXCEPT ![Cleaner] = "delete"]
        /\ UNCHANGED store
    BY <1>4 DEF CleanList, Ready, Goto
  <2>2. step' \in [Writers -> StepNames] /\ step'[OtherHook] = "idle"
    BY <1>1, <2>1, Apart DEF Typed, StepTyped, StepNames
  <2>3. \A a \in Writers : a # Cleaner => step'[a] = step[a]
    BY <2>1 DEF Typed, StepTyped
  <2>4. \A h \in Handlers : step'[h] = "write" => work[h] \in Deliveries
    BY <1>1, <2>3, Apart DEF Typed, StepTyped
  <2>5. StepTyped'
    BY <1>2, <2>1, <2>2, <2>3, <2>4 DEF Typed, StepTyped, store
  <2> QED
    BY <1>3, <2>1, <2>5 DEF StoreStep
<1>5. CASE DeleteJob
  <2>1. step[Cleaner] = "delete" /\ Goto(Cleaner, "idle")
    BY <1>5 DEF DeleteJob
  <2>2. event[Cleaner] = NoEvent
    BY <1>1, <2>1 DEF Typed, StepTyped
  <2>3. StoreStep /\ \A b \in Writers \ {Cleaner} : event'[b] = event[b]
    BY <1>1, <1>5, <2>2, DeleteStep DEF DeleteJob, StoreStep, store
  <2>4. StepTyped'
    BY <1>1, <1>2, <2>1, <2>3, StepTypedAfter
  <2> QED
    BY <1>3, <2>3, <2>4
<1>6. CASE DeleteInactionableJobs
  <2>1. /\ step[Cleaner] = "idle" /\ event[Cleaner] = NoEvent /\ UNCHANGED step
        /\ db.status = "completed" /\ CommitDelete(Cleaner)
    BY <1>6 DEF DeleteInactionableJobs, Ready
  <2>2. Recorded
    BY <2>1 DEF Recorded
  <2>3. StoreStep /\ \A b \in Writers \ {Cleaner} : event'[b] = event[b]
    BY <1>1, <2>1, <2>2, DeleteStep DEF StoreStep
  <2>4. \A a \in Writers : step[a] \in {"write", "unlock", "giveup", "delete"} => a # Cleaner
    BY <2>1
  <2>5. StepTyped'
    BY <1>2, <2>1, <2>3, <2>4 DEF Typed, StepTyped
  <2> QED
    BY <1>3, <2>3, <2>5
<1> QED
  BY <1>4, <1>5, <1>6

LEMMA ForgeStep ==
  ASSUME Typed, ForgeMoves
  PROVE  Typed' /\ StoreStep /\ UNCHANGED managers
<1>1. wfJob' \in Actions
  BY DEF ForgeMoves, Actions
<1>2. hooks' \subseteq Deliveries
  BY <1>1 DEF ForgeMoves, Typed, RestTyped, Deliveries
<1>3. UNCHANGED <<store, step, work, copy, managers, runners, crashes>>
  BY DEF ForgeMoves
<1>4. StoreStep
  BY <1>3 DEF StoreStep
<1> QED
  BY <1>1, <1>2, <1>3, <1>4, StoreStepTyped
     DEF Typed, StepTyped, CacheTyped, RestTyped, managers, store

-----------------------------------------------------------------------------
\* The steps of the notifications and of the watchers.

LEMMA NotifyTyped ==
  ASSUME Typed, NEW a \in Writers, Notify(a)
  PROVE  Typed'
<1>1. /\ event[a] # NoEvent /\ event' = [event EXCEPT ![a] = NoEvent]
      /\ UNCHANGED <<db, wfJob, hooks, step, work, copy, jobs, tombs, seeded, runners, crashes,
                     broken>>
  BY DEF Notify
<1>2. event[a] \in JobEvents /\ event' \in [Writers -> JobEvents \cup {NoEvent}]
  BY <1>1 DEF Typed, RowTyped
<1>3. RowTyped'
  BY <1>1, <1>2 DEF Typed, RowTyped, Recorded
<1>4. \A b \in Writers : event[b] = NoEvent => event'[b] = NoEvent
  BY <1>1, <1>2 DEF Typed, RowTyped
<1>5. StepTyped'
  BY <1>1, <1>4 DEF Typed, StepTyped
<1>6. queue' \in [Managers -> Seq(JobEvents)]
  <2>1. \A m \in Managers : queue[m] \in Seq(JobEvents)
    BY DEF Typed, CacheTyped
  <2>2. \A m \in Managers : Append(queue[m], event[a]) \in Seq(JobEvents)
    BY <1>2, <2>1, SeenAppend
  <2>3. CASE UNCHANGED queue
    BY <2>3 DEF Typed, CacheTyped
  <2>4. CASE queue' = [m \in Managers |-> IF m \in event[a].job.owners
                                          THEN Append(queue[m], event[a]) ELSE queue[m]]
    <3> DEFINE f(m) == IF m \in event[a].job.owners THEN Append(queue[m], event[a]) ELSE queue[m]
    <3>1. \A m \in Managers : f(m) \in Seq(JobEvents)
      BY <2>1, <2>2
    <3>2. queue' = [m \in Managers |-> f(m)]
      BY <2>4
    <3> HIDE DEF f
    <3> QED
      BY <3>1, <3>2
  <2> QED
    BY <2>3, <2>4 DEF Notify
<1>7. amiss' \subseteq Managers \X Ids
  <2>1. amiss \subseteq Managers \X Ids /\ event[a].job.owners \subseteq Managers
        /\ event[a].job.id \in Ids
    BY <1>2 DEF JobEvents, JobRows, Typed, RestTyped
  <2> QED
    BY <2>1 DEF Notify
<1> QED
  BY <1>1, <1>3, <1>5, <1>6, <1>7 DEF Typed, CacheTyped, RestTyped

\* What a watcher takes from its queue.
LEMMA WatcherTakes ==
  ASSUME Typed, NEW m \in Managers, HandleWatcherEvent(m)
  PROVE  /\ Head(queue[m]) \in JobEvents /\ Tail(queue[m]) \in Seq(JobEvents)
         /\ Head(queue[m]).job \in JobRows /\ Head(queue[m]).job.id \in Ids
         /\ Seen(queue[m]) = Seen(Tail(queue[m])) \cup {Head(queue[m])}
         /\ queue' = [queue EXCEPT ![m] = Tail(queue[m])]
<1>1. queue[m] \in Seq(JobEvents) /\ queue[m] # <<>>
  BY DEF Typed, CacheTyped, HandleWatcherEvent
<1>2. /\ Head(queue[m]) \in JobEvents /\ Tail(queue[m]) \in Seq(JobEvents)
      /\ Seen(queue[m]) = Seen(Tail(queue[m])) \cup {Head(queue[m])}
  BY <1>1, SeenTail
<1>3. Head(queue[m]).job \in JobRows /\ Head(queue[m]).job.id \in Ids
  BY <1>2 DEF JobEvents
<1>4. queue' = [queue EXCEPT ![m] = Tail(queue[m])]
  BY DEF HandleWatcherEvent
<1> QED
  BY <1>2, <1>3, <1>4

LEMMA HandleTyped ==
  ASSUME Typed, NEW m \in Managers, HandleWatcherEvent(m)
  PROVE  Typed'
<1> DEFINE j == Head(queue[m]).job
<1>1. j \in JobRows /\ j.id \in Ids /\ Tail(queue[m]) \in Seq(JobEvents)
      /\ queue' = [queue EXCEPT ![m] = Tail(queue[m])]
  BY WatcherTakes
<1>2. UNCHANGED <<store, wfJob, hooks, step, work, copy, seeded, runners, crashes, amiss>>
  BY DEF HandleWatcherEvent
<1>3. queue' \in [Managers -> Seq(JobEvents)]
  <2> DEFINE q == Tail(queue[m])
  <2>1. q \in Seq(JobEvents) /\ queue' = [queue EXCEPT ![m] = q]
    BY <1>1
  <2> HIDE DEF q
  <2> QED
    BY <2>1 DEF Typed, CacheTyped
<1>4. jobs' \in [Managers -> [Ids -> JobRows]] /\ tombs' \in [Managers -> SUBSET Ids]
  <2>1. \/ UNCHANGED <<jobs, tombs>>
        \/ jobs' = [jobs EXCEPT ![m][j.id] = j] /\ UNCHANGED tombs
        \/ /\ jobs' = [jobs EXCEPT ![m][j.id] = NoJob]
           /\ tombs' = [tombs EXCEPT ![m] = @ \cup {j.id}]
    BY DEF HandleWatcherEvent
  <2>2. jobs \in [Managers -> [Ids -> JobRows]] /\ tombs \in [Managers -> SUBSET Ids]
    BY DEF Typed, CacheTyped
  <2>3. \A i \in Ids, r \in JobRows :
            [jobs EXCEPT ![m][i] = r] \in [Managers -> [Ids -> JobRows]]
    BY <2>2
  <2>4. \A i \in Ids : [tombs EXCEPT ![m] = @ \cup {i}] \in [Managers -> SUBSET Ids]
    BY <2>2
  <2> HIDE DEF j
  <2>5. CASE jobs' = [jobs EXCEPT ![m][j.id] = j] /\ UNCHANGED tombs
    BY <1>1, <2>2, <2>3, <2>5
  <2>6. CASE /\ jobs' = [jobs EXCEPT ![m][j.id] = NoJob]
             /\ tombs' = [tombs EXCEPT ![m] = @ \cup {j.id}]
    BY <1>1, <2>3, <2>4, <2>6, NoJobFields
  <2> QED
    BY <2>1, <2>2, <2>5, <2>6
<1> QED
  BY <1>2, <1>3, <1>4, StoreStepTyped
     DEF Typed, StepTyped, CacheTyped, RestTyped, StoreStep, store

LEMMA WatchTyped ==
  ASSUME Typed, NEW m \in Managers, ReapJobTombstones(m) \/ RunWatcher(m)
  PROVE  Typed'
<1>1. UNCHANGED <<store, wfJob, hooks, step, work, copy, queue, runners, crashes, amiss>>
  BY DEF ReapJobTombstones, RunWatcher
<1>2. CASE ReapJobTombstones(m)
  <2>1. tombs' \in [Managers -> SUBSET Ids] /\ UNCHANGED <<jobs, seeded>>
    BY <1>2 DEF ReapJobTombstones, Typed, CacheTyped
  <2> QED
    BY <1>1, <2>1, StoreStepTyped DEF Typed, StepTyped, CacheTyped, RestTyped, StoreStep, store
<1>3. CASE RunWatcher(m)
  <2>1. jobs' \in [Managers -> [Ids -> JobRows]]
    BY <1>3 DEF RunWatcher, Typed, RowTyped, CacheTyped, Recorded
  <2>2. seeded' \subseteq Managers /\ UNCHANGED tombs
    BY <1>3 DEF RunWatcher, Typed, CacheTyped
  <2> QED
    BY <1>1, <2>1, <2>2, StoreStepTyped
       DEF Typed, StepTyped, CacheTyped, RestTyped, StoreStep, store
<1> QED
  BY <1>2, <1>3

LEMMA CrashTyped ==
  ASSUME Typed, Crash
  PROVE  Typed'
<1>1. RowTyped'
  BY DEF Crash, Typed, RowTyped, Recorded
<1>2. StepTyped'
  <2>1. step' = [a \in Writers |-> "idle"] /\ work' = [h \in Handlers |-> NoWork]
    BY DEF Crash
  <2>2. step' \in [Writers -> StepNames] /\ work' \in [Handlers -> Deliveries \cup {NoWork}]
    BY <2>1 DEF StepNames
  <2>3. \A a \in Writers : step'[a] \notin {"write", "unlock", "giveup", "delete"}
    BY <2>1
  <2>4. step'[OtherHook] = "idle" /\ \A h \in Handlers : step'[h] # "write"
    BY <2>1, <2>3, Apart
  <2> QED
    BY <2>2, <2>3, <2>4 DEF StepTyped
<1>3. CacheTyped'
  <2>1. <<>> \in Seq(JobEvents)
    OBVIOUS
  <2> QED
    BY <2>1, NoJobFields DEF Crash, CacheTyped
<1>4. RestTyped'
  BY NoJobFields, JobQueueAssumption DEF Crash, Typed, RestTyped
<1> QED
  BY <1>1, <1>2, <1>3, <1>4 DEF Typed

LEMMA TypedNext == Typed /\ [Next]_vars => Typed'
<1> SUFFICES ASSUME Typed, [Next]_vars PROVE Typed'
  OBVIOUS
<1>1. CASE UNCHANGED vars
  BY <1>1 DEF vars, Typed, RowTyped, StepTyped, CacheTyped, RestTyped, Recorded
<1>2. ASSUME NEW a \in Writers, Notify(a) PROVE Typed'
  BY <1>2, NotifyTyped
<1>3. ASSUME NEW h \in Handlers, PersistRead(h) \/ PersistWrite(h) PROVE Typed'
  BY <1>3, PersistStep
<1>4. ASSUME NEW m \in Managers, Consume(m) PROVE Typed'
  BY <1>4, ConsumeStep
<1>5. ASSUME NEW m \in Managers, Watch(m) PROVE Typed'
  BY <1>5, HandleTyped, WatchTyped DEF Watch
<1>6. CASE BreakLockJobIsQueued
  BY <1>6, BreakLockStep
<1>7. CASE CleanList \/ DeleteJob \/ DeleteInactionableJobs
  BY <1>7, CleanStep
<1>8. CASE ForgeMoves
  BY <1>8, ForgeStep
<1>9. CASE Crash
  BY <1>9, CrashTyped
<1> QED
  BY <1>1, <1>2, <1>3, <1>4, <1>5, <1>6, <1>7, <1>8, <1>9 DEF Next

LEMMA TypedAlways == Spec => []Typed
BY TypedInit, TypedNext, PTL DEF Spec

\* The row, the events and the managers' caches hold what they may hold, whatever the
\* webhooks, the consumers, the clean-ups and the watchers do (params.Job, jobs.go and
\* runner/pool/pool.go).
THEOREM JobTypeCorrect == Spec => []TypeOK
BY TypedAlways, TypedIsTypeOK, PTL

-----------------------------------------------------------------------------
\* The kinds of step there are.
LEMMA KindsOfStep ==
  ASSUME Typed, [Next]_vars
  PROVE  \/ StoreStep /\ UNCHANGED <<queue, jobs, tombs, seeded>> /\ amiss \subseteq amiss'
         \/ \E a \in Writers : Notify(a)
         \/ \E m \in Managers : Watch(m)
         \/ Crash
<1>1. CASE UNCHANGED vars
  BY <1>1 DEF vars, StoreStep, store, managers
<1>2. CASE Next
  BY <1>2, PersistStep, ConsumeStep, BreakLockStep, CleanStep, ForgeStep DEF Next, managers
<1> QED
  BY <1>1, <1>2

-----------------------------------------------------------------------------
\* The events on their way to a manager.

LEMMA EventsTyped ==
  ASSUME Typed, NEW m \in Managers
  PROVE  EventsTo(m) \subseteq JobEvents
<1>1. queue[m] \in Seq(JobEvents)
  BY DEF Typed, CacheTyped
<1>2. Seen(queue[m]) \subseteq JobEvents
  <2> DEFINE q == queue[m]
  <2>1. q \in Seq(JobEvents)
    BY <1>1
  <2> HIDE DEF q
  <2>2. \A k \in 1..Len(q) : q[k] \in JobEvents
    BY <2>1, ElementOfSeq
  <2>3. Seen(q) \subseteq JobEvents
    BY <2>2 DEF Seen
  <2> QED
    BY <2>3 DEF q
<1>3. \A a \in Writers : event[a] # NoEvent => event[a] \in JobEvents
  BY DEF Typed, RowTyped
<1> QED
  BY <1>2, <1>3 DEF EventsTo

\* The event of a write is on its way to the managers that own the row.
LEMMA EventsTold ==
  ASSUME Typed, NEW a \in Writers, NEW op, NEW row, Told(a, op, row), UNCHANGED queue,
         [op |-> op, job |-> row] \in JobEvents, NEW m \in Managers
  PROVE  EventsTo(m)' = IF m \in row.owners
                        THEN EventsTo(m) \cup {[op |-> op, job |-> row]} ELSE EventsTo(m)
<1> DEFINE e == [op |-> op, job |-> row]
           to == {b \in Writers : event[b] # NoEvent /\ m \in event[b].job.owners}
           after == {b \in Writers : event'[b] # NoEvent /\ m \in event'[b].job.owners}
<1>1. /\ event[a] = NoEvent /\ event \in [Writers -> JobEvents \cup {NoEvent}]
      /\ event' = [event EXCEPT ![a] = e] /\ e # NoEvent /\ e.job = row
  BY NoEventFields DEF Told, Typed, RowTyped
<1>2. /\ EventsTo(m) = {event[b] : b \in to} \cup Seen(queue[m])
      /\ EventsTo(m)' = {event'[b] : b \in after} \cup Seen(queue[m])
  BY DEF EventsTo, Seen
<1> HIDE DEF e
<1>3. a \notin to /\ event'[a] = e /\ \A b \in Writers : b # a => event'[b] = event[b]
  BY <1>1
<1>4. CASE m \in row.owners
  <2>1. after = to \cup {a}
    BY <1>1, <1>3, <1>4
  <2>2. {event'[b] : b \in after} = {event[b] : b \in to} \cup {e}
    <3> HIDE DEF after
    <3> QED
      BY <1>3, <2>1
  <2> QED
    BY <1>2, <1>4, <2>2 DEF e
<1>5. CASE m \notin row.owners
  <2>1. after = to
    BY <1>1, <1>3, <1>5
  <2>2. {event'[b] : b \in after} = {event[b] : b \in to}
    <3> HIDE DEF after
    <3> QED
      BY <1>3, <2>1
  <2> QED
    BY <1>2, <1>5, <2>2
<1> QED
  BY <1>4, <1>5

\* A notification that is not given up moves the event into the queues of those managers.
LEMMA EventsMoved ==
  ASSUME Typed, NEW a \in Writers, Notify(a), NEW m \in Managers,
         queue' = [k \in Managers |-> IF k \in event[a].job.owners
                                      THEN Append(queue[k], event[a]) ELSE queue[k]]
  PROVE  EventsTo(m)' = EventsTo(m)
<1> DEFINE e == event[a]
           to == {b \in Writers : event[b] # NoEvent /\ m \in event[b].job.owners}
           after == {b \in Writers : event'[b] # NoEvent /\ m \in event'[b].job.owners}
<1>1. /\ event \in [Writers -> JobEvents \cup {NoEvent}]
      /\ event' = [event EXCEPT ![a] = NoEvent] /\ e # NoEvent /\ e \in JobEvents
  BY DEF Notify, Typed, RowTyped
<1>2. after = to \ {a}
  BY <1>1
<1>3. queue[m] \in Seq(JobEvents)
  BY DEF Typed, CacheTyped
<1>4. queue'[m] = IF m \in e.job.owners THEN Append(queue[m], e) ELSE queue[m]
  OBVIOUS
<1>5. Seen(queue'[m]) = IF m \in e.job.owners THEN Seen(queue[m]) \cup {e} ELSE Seen(queue[m])
  <2>1. Seen(Append(queue[m], e)) = Seen(queue[m]) \cup {e}
    BY <1>1, <1>3, SeenAppend
  <2>2. CASE m \in e.job.owners
    <3>1. queue'[m] = Append(queue[m], e)
      BY <1>4, <2>2
    <3>2. Seen(queue'[m]) = Seen(queue[m]) \cup {e}
      BY <2>1, <3>1
    <3> QED
      BY <2>2, <3>2
  <2>3. CASE m \notin e.job.owners
    <3>1. queue'[m] = queue[m]
      BY <1>4, <2>3
    <3>2. Seen(queue'[m]) = Seen(queue[m])
      BY <3>1
    <3> QED
      BY <2>3, <3>2
  <2> QED
    BY <2>2, <2>3
<1>6. /\ EventsTo(m) = {event[b] : b \in to} \cup Seen(queue[m])
      /\ EventsTo(m)' = {event'[b] : b \in after} \cup Seen(queue'[m])
  BY DEF EventsTo, Seen
<1>7. \A b \in Writers : b # a => event'[b] = event[b]
  BY <1>1
<1>8. {event'[b] : b \in after} = {event[b] : b \in to \ {a}}
  <2> HIDE DEF after
  <2> QED
    BY <1>2, <1>7
<1>9. CASE m \in e.job.owners
  <2>1. a \in to
    BY <1>1, <1>9
  <2>2. {event[b] : b \in to} = {event[b] : b \in to \ {a}} \cup {e}
    <3> HIDE DEF to
    <3> QED
      BY <2>1
  <2> QED
    BY <1>5, <1>6, <1>8, <1>9, <2>2
<1>10. CASE m \notin e.job.owners
  <2>1. a \notin to
    BY <1>10
  <2>2. to \ {a} = to
    BY <2>1
  <2> QED
    BY <1>5, <1>6, <1>8, <1>10, <2>2
<1> QED
  BY <1>9, <1>10

\* Whether it is given up or not, what a manager is no longer told of is on record.
LEMMA EventsNotified ==
  ASSUME Typed, NEW a \in Writers, Notify(a), NEW m \in Managers
  PROVE  /\ EventsTo(m)' \subseteq EventsTo(m) /\ amiss \subseteq amiss'
         /\ \A e \in EventsTo(m) : <<m, e.job.id>> \notin amiss' => e \in EventsTo(m)'
<1>1. CASE queue' = [k \in Managers |-> IF k \in event[a].job.owners
                                        THEN Append(queue[k], event[a]) ELSE queue[k]]
           /\ UNCHANGED amiss
  BY <1>1, EventsMoved
<1>2. CASE /\ UNCHANGED queue
           /\ amiss' = amiss \cup {<<k, event[a].job.id>> : k \in event[a].job.owners}
  <2>1. \A b \in Writers : event'[b] = IF b = a THEN NoEvent ELSE event[b]
    BY DEF Notify, Typed, RowTyped
  <2>2. Seen(queue'[m]) = Seen(queue[m])
    BY <1>2
  <2>3. EventsTo(m)' \subseteq EventsTo(m)
    BY <2>1, <2>2 DEF EventsTo, Seen
  <2>4. ASSUME NEW e \in EventsTo(m), <<m, e.job.id>> \notin amiss' PROVE e \in EventsTo(m)'
    <3>1. CASE e \in Seen(queue[m])
      BY <2>2, <3>1 DEF EventsTo, Seen
    <3>2. CASE \E b \in Writers : event[b] # NoEvent /\ m \in event[b].job.owners /\ e = event[b]
      <4>1. PICK b \in Writers : event[b] # NoEvent /\ m \in event[b].job.owners /\ e = event[b]
        BY <3>2
      <4>2. b # a
        BY <1>2, <2>4, <4>1
      <4>3. event'[b] = event[b]
        BY <2>1, <4>2
      <4> QED
        BY <4>1, <4>3 DEF EventsTo
    <3> QED
      BY <3>1, <3>2 DEF EventsTo
  <2> QED
    BY <1>2, <2>3, <2>4
<1> QED
  BY <1>1, <1>2 DEF Notify

\* A watcher takes one event.
LEMMA EventsTaken ==
  ASSUME Typed, NEW k \in Managers, HandleWatcherEvent(k), NEW m \in Managers
  PROVE  /\ EventsTo(m) = IF m = k THEN EventsTo(m)' \cup {Head(queue[k])} ELSE EventsTo(m)'
         /\ m = k => Head(queue[k]) \in EventsTo(m)
<1> DEFINE told == {event[b] : b \in {b \in Writers :
                                      event[b] # NoEvent /\ m \in event[b].job.owners}}
<1>1. UNCHANGED event
  BY DEF HandleWatcherEvent, store
<1>2. EventsTo(m) = told \cup Seen(queue[m]) /\ EventsTo(m)' = told \cup Seen(queue'[m])
  BY <1>1 DEF EventsTo, Seen
<1>3. /\ Seen(queue[k]) = Seen(Tail(queue[k])) \cup {Head(queue[k])}
      /\ queue' = [queue EXCEPT ![k] = Tail(queue[k])] /\ queue \in [Managers -> Seq(JobEvents)]
  BY WatcherTakes DEF Typed, CacheTyped
<1> HIDE DEF told
<1>4. CASE m = k
  <2>1. queue'[m] = Tail(queue[k])
    BY <1>3, <1>4
  <2> QED
    BY <1>2, <1>3, <1>4, <2>1
<1>5. CASE m # k
  <2>1. queue'[m] = queue[m]
    BY <1>3, <1>5
  <2> QED
    BY <1>2, <1>5, <2>1
<1> QED
  BY <1>4, <1>5

\* Without an event in flight about a row, none is on its way.
LEMMA NoneInFlight ==
  ASSUME NEW m \in Managers, NEW i, ~InFlight(m, i)
  PROVE  About(m, i) = {}
BY DEF InFlight, About, EventsTo, Seen

-----------------------------------------------------------------------------
\* The caches follow the row.

LEMMA DbFields ==
  ASSUME Typed
  PROVE  /\ db.id \in Nat /\ db.stamp \in Nat /\ Ids \subseteq Nat
         /\ (Recorded => db.id \in Ids) /\ (Alive => Recorded /\ db # NoJob)
BY JobQueueAssumption, NoJobFields DEF Typed, RowTyped, JobRows, Ids, Alive, Recorded

\* A step that leaves the row and the caches, and the events on their way but for those that
\* go on record as lost.
LEMMA StillKeeps ==
  ASSUME CacheInv, UNCHANGED <<db, jobs, tombs, seeded>>, amiss \subseteq amiss',
         \A m \in Managers :
             /\ EventsTo(m)' \subseteq EventsTo(m)
             /\ \A e \in EventsTo(m) : <<m, e.job.id>> \notin amiss' => e \in EventsTo(m)'
  PROVE  CacheInv'
<1>1. \A m \in Managers : \A i :
          /\ About(m, i)' \subseteq About(m, i)
          /\ <<m, i>> \notin amiss' => About(m, i)' = About(m, i) /\ <<m, i>> \notin amiss
  BY DEF About
<1>2. Behind'
  BY DEF CacheInv, Behind, Alive
<1>3. ASSUME NEW m \in Managers PROVE Kept(m)'
  <2>1. Follows(m) /\ Strange(m) /\ Past(m) /\ Future(m) /\ (Alive' <=> Alive)
    BY DEF CacheInv, Kept, Alive
  <2>2. Follows(m)'
    <3> SUFFICES ASSUME Alive, m \in db.owners, <<m, db.id>> \notin amiss'
                 PROVE  /\ db.id \notin tombs[m]
                        /\ \A e \in About(m, db.id)' : ~Retires(e)
                        /\ \/ jobs[m][db.id] = db
                           \/ \E e \in EventsTo(m)' : e.job = db /\ ~Retires(e)
                           \/ /\ jobs[m][db.id] = NoJob /\ About(m, db.id)' = {}
                              /\ db.status = "queued" => m \notin seeded
      BY DEF Follows, Alive
    <3>1. About(m, db.id)' = About(m, db.id) /\ <<m, db.id>> \notin amiss
      BY DEF About
    <3>2. \A e \in EventsTo(m) : e.job = db => e \in EventsTo(m)'
      OBVIOUS
    <3> QED
      BY <2>1, <3>1, <3>2 DEF Follows
  <2>3. \A i : Untold(m, i) => Untold(m, i)'
    BY <1>1 DEF Untold
  <2>4. \A i : <<m, i>> \notin amiss' /\ Over(m, i) => Over(m, i)'
    BY <1>1 DEF Over
  <2>5. Strange(m)'
    <3>1. Untold(m, db.id) => Untold(m, db.id)'
      BY <2>3
    <3> QED
      BY <2>1, <3>1 DEF Strange
  <2>6. Past(m)' /\ Future(m)'
    BY <2>1, <2>3, <2>4 DEF Past, Future
  <2> QED
    BY <2>2, <2>5, <2>6 DEF Kept
<1> QED
  BY <1>2, <1>3 DEF CacheInv

\* A write of the row: its event tells every owner, also one that is new.  A write that takes
\* a completed row back is on record for every manager.
LEMMA WrittenKeeps ==
  ASSUME Typed, CacheInv, NEW a \in Writers, Written(a),
         UNCHANGED <<queue, jobs, tombs, seeded>>, amiss \subseteq amiss'
  PROVE  CacheInv'
<1>1. PICK op \in {"create", "update"} : Told(a, op, db')
  BY DEF Written
<1> DEFINE e == [op |-> op, job |-> db']
<1>2. e \in JobEvents /\ e.job = db' /\ e.op \in {"create", "update"}
  BY DEF Written, JobEvents
<1>3. \A m \in Managers : EventsTo(m)' = IF m \in db'.owners THEN EventsTo(m) \cup {e}
                                         ELSE EventsTo(m)
  BY <1>1, <1>2, EventsTold
<1>4. Retires(e) <=> db'.status = "completed"
  BY <1>2 DEF Retires
<1>5. /\ db'.id \in Ids /\ db'.id \in Nat /\ db'.stamp = db.stamp + 1 /\ db'.stamp \in Nat
      /\ db'.status \in Actions /\ db.id \in Nat /\ db.stamp \in Nat /\ Ids \subseteq Nat
      /\ (Alive' <=> db'.status # "completed") /\ UNCHANGED <<jobs, tombs, seeded>>
  BY DbFields DEF Written, JobRows, Actions, Alive
<1> HIDE DEF e
<1>6. \/ Recorded /\ db'.id = db.id /\ db.owners \subseteq db'.owners
      \/ ~Recorded /\ db'.id = db.id + 1
  BY DEF Written
<1>7. ASSUME NEW m \in Managers, NEW f \in EventsTo(m)
      PROVE  f.job.id \in Nat /\ f.job.stamp \in Nat /\ f.job.id <= db.id
             /\ f.job.stamp <= db.stamp
  <2>1. f \in JobEvents
    BY EventsTyped
  <2> QED
    BY <2>1, DbFields, JobQueueAssumption DEF JobEvents, JobRows, CacheInv, Behind
<1>8. Behind'
  <2>1. ASSUME NEW m \in Managers, NEW f \in EventsTo(m)'
        PROVE  /\ f.job.id <= db'.id /\ f.job.stamp <= db'.stamp
               /\ f.job.stamp = db'.stamp => f.job = db'
    <3>1. CASE f = e
      BY <1>2, <1>5, <3>1
    <3>2. CASE f \in EventsTo(m)
      BY <1>5, <1>6, <1>7, <3>2
    <3> QED
      BY <1>3, <3>1, <3>2
  <2>2. \A m \in Managers : \A i \in Ids : jobs[m][i].stamp <= db'.stamp
    BY <1>5, JobQueueAssumption DEF CacheInv, Behind, Typed, CacheTyped, JobRows
  <2> QED
    BY <1>5, <2>1, <2>2 DEF CacheInv, Behind
<1>9. ASSUME NEW m \in Managers, NEW i \in Ids
      PROVE  About(m, i)' = IF i = db'.id /\ m \in db'.owners THEN About(m, i) \cup {e}
                            ELSE About(m, i)
  BY <1>2, <1>3 DEF About
<1>10. CASE Recorded
  <2>1. db'.id = db.id /\ db.owners \subseteq db'.owners
    BY <1>6, <1>10
  <2>2. ASSUME Alive', NEW m \in Managers, <<m, db.id>> \notin amiss' PROVE Alive
    <3>1. db.status \in Actions
      BY <1>10 DEF Typed, RowTyped, JobRows, Recorded
    <3>2. CASE db.status # "completed"
      BY <3>1, <3>2 DEF Alive, Actions
    <3>3. CASE db.status = "completed"
      <4>1. db'.status # "completed"
        BY <1>5, <2>2
      <4>2. PICK h \in Handlers : PersistWrite(h)
        BY <3>3, <4>1 DEF Written
      <4>3. db'.status = work[h].action
        BY <4>2, PersistWriteRow
      <4> QED
        BY <2>2, <3>3, <4>1, <4>2, <4>3 DEF PersistWrite
    <3> QED
      BY <3>2, <3>3
  <2>3. ASSUME NEW m \in Managers PROVE Kept(m)'
    <3>1. Follows(m) /\ Strange(m) /\ Past(m) /\ Future(m)
      BY DEF CacheInv, Kept
    <3>2. Follows(m)'
      <4> SUFFICES ASSUME Alive', m \in db'.owners, <<m, db.id>> \notin amiss'
                   PROVE  /\ db.id \notin tombs[m]
                          /\ \A f \in About(m, db.id)' : ~Retires(f)
                          /\ \E f \in EventsTo(m)' : f.job = db' /\ ~Retires(f)
        BY <1>5, <2>1 DEF Follows
      <4>1. db.id \notin tombs[m] /\ \A f \in About(m, db.id) : ~Retires(f)
        BY <2>2, <3>1 DEF Follows, Strange, Untold
      <4>2. ~Retires(e) /\ e \in EventsTo(m)'
        BY <1>3, <1>4, <1>5
      <4> QED
        BY <1>2, <1>5, <1>9, <2>1, <4>1, <4>2
    <3>3. Strange(m)'
      BY <1>5, <1>9, <2>1, <2>2, <3>1 DEF Strange, Untold
    <3>4. Past(m)'
      <4>1. ASSUME NEW i \in Ids, i < db.id, <<m, i>> \notin amiss' PROVE Over(m, i)'
        <5>1. Over(m, i) /\ About(m, i)' = About(m, i)
          BY <1>5, <1>9, <2>1, <3>1, <4>1 DEF Past
        <5> QED
          BY <1>5, <5>1 DEF Over
      <4>2. ASSUME ~Alive', <<m, db.id>> \notin amiss' PROVE Over(m, db.id)'
        <5>1. CASE m \in db'.owners
          BY <1>4, <1>5, <1>9, <2>1, <4>2, <5>1 DEF Over
        <5>2. CASE m \notin db'.owners
          <6>1. About(m, db.id)' = About(m, db.id)
            BY <1>5, <1>9, <2>1, <5>2
          <6>2. Over(m, db.id)
            BY <1>5, <2>1, <3>1, <4>2, <5>2 DEF Strange, Past, Untold, Over
          <6> QED
            BY <1>5, <2>1, <6>1, <6>2 DEF Over
        <5> QED
          BY <5>1, <5>2
      <4> QED
        BY <2>1, <4>1, <4>2 DEF Past
    <3>5. Future(m)'
      <4>1. ASSUME NEW i \in Ids, i > db'.id PROVE Untold(m, i)'
        <5>1. Untold(m, i) /\ About(m, i)' = About(m, i)
          BY <1>5, <1>9, <2>1, <3>1, <4>1 DEF Future
        <5> QED
          BY <1>5, <5>1 DEF Untold
      <4> QED
        BY <4>1 DEF Future
    <3> QED
      BY <3>2, <3>3, <3>4, <3>5 DEF Kept
  <2> QED
    BY <1>8, <2>3 DEF CacheInv
<1>11. CASE ~Recorded
  <2>1. db'.id = db.id + 1 /\ ~Alive
    BY <1>6, <1>11, DbFields
  <2>2. ASSUME NEW m \in Managers PROVE Kept(m)'
    <3>1. Untold(m, db'.id) /\ Past(m) /\ Future(m)
      BY <1>5, <2>1 DEF CacheInv, Kept, Future
    <3>2. Follows(m)'
      <4> SUFFICES ASSUME Alive', m \in db'.owners
                   PROVE  /\ db'.id \notin tombs[m]
                          /\ \A f \in About(m, db.id)' : ~Retires(f)
                          /\ \E f \in EventsTo(m)' : f.job = db' /\ ~Retires(f)
        BY <1>5 DEF Follows
      <4>1. db'.id \notin tombs[m] /\ About(m, db'.id) = {}
        BY <3>1 DEF Untold
      <4>2. ~Retires(e) /\ e \in EventsTo(m)'
        BY <1>3, <1>4, <1>5
      <4>3. \A f \in About(m, db.id)' : f = e
        BY <1>5, <1>9, <4>1
      <4> QED
        BY <1>2, <4>1, <4>2, <4>3
    <3>3. Strange(m)'
      BY <1>5, <1>9, <3>1 DEF Strange, Untold, About
    <3>4. Past(m)'
      <4>1. ASSUME NEW i \in Ids, i < db'.id, <<m, i>> \notin amiss' PROVE Over(m, i)'
        <5>1. Over(m, i) /\ About(m, i)' = About(m, i)
          BY <1>5, <1>9, <2>1, <3>1, <4>1 DEF Past
        <5> QED
          BY <1>5, <5>1 DEF Over
      <4>2. ASSUME NEW i \in Ids, i = db'.id, ~Alive' PROVE Over(m, i)'
        BY <1>4, <1>5, <1>9, <3>1, <4>2 DEF Over, Untold
      <4> QED
        BY <4>1, <4>2 DEF Past
    <3>5. Future(m)'
      BY <1>5, <1>9, <2>1, <3>1 DEF Future, Untold
    <3> QED
      BY <3>2, <3>3, <3>4, <3>5 DEF Kept
  <2> QED
    BY <1>8, <2>2 DEF CacheInv
<1> QED
  BY <1>10, <1>11

\* A deletion: the event carries the row as it was, so it reaches all its owners.
LEMMA DeletedKeeps ==
  ASSUME Typed, CacheInv, NEW a \in Writers, Deleted(a),
         UNCHANGED <<queue, jobs, tombs, seeded>>, amiss \subseteq amiss'
  PROVE  CacheInv'
<1> DEFINE e == [op |-> "delete", job |-> db]
<1>1. e \in JobEvents /\ e.job = db /\ e.op = "delete"
  BY DbFields DEF Deleted, JobEvents, Typed, RowTyped
<1>2. \A m \in Managers : EventsTo(m)' = IF m \in db.owners THEN EventsTo(m) \cup {e}
                                         ELSE EventsTo(m)
  BY <1>1, EventsTold DEF Deleted
<1>3. Retires(e)
  BY <1>1 DEF Retires
<1>4. /\ db'.id = db.id /\ db'.stamp = db.stamp /\ db.id \in Ids /\ ~Alive'
      /\ db.id \in Nat /\ db.stamp \in Nat /\ Ids \subseteq Nat
      /\ UNCHANGED <<jobs, tombs, seeded>>
  BY DbFields DEF Deleted, Alive
<1> HIDE DEF e
<1>5. Behind'
  <2>1. ASSUME NEW m \in Managers, NEW f \in EventsTo(m)'
        PROVE  f.job.id <= db'.id /\ f.job.stamp <= db'.stamp
    <3>1. CASE f = e
      BY <1>1, <1>4, <3>1
    <3>2. CASE f \in EventsTo(m)
      BY <1>4, <3>2 DEF CacheInv, Behind
    <3> QED
      BY <1>2, <3>1, <3>2
  <2> QED
    BY <1>4, <2>1 DEF CacheInv, Behind
<1>6. ASSUME NEW m \in Managers, NEW i \in Ids
      PROVE  About(m, i)' = IF i = db.id /\ m \in db.owners THEN About(m, i) \cup {e}
                            ELSE About(m, i)
  BY <1>1, <1>2 DEF About
<1>7. ASSUME NEW m \in Managers PROVE Kept(m)'
  <2>1. Strange(m) /\ Past(m) /\ Future(m)
    BY DEF CacheInv, Kept
  <2>2. Past(m)'
    <3>1. ASSUME NEW i \in Ids, i < db.id, <<m, i>> \notin amiss' PROVE Over(m, i)'
      <4>1. Over(m, i) /\ About(m, i)' = About(m, i)
        BY <1>4, <1>6, <2>1, <3>1 DEF Past
      <4> QED
        BY <1>4, <4>1 DEF Over
    <3>2. ASSUME <<m, db.id>> \notin amiss' PROVE Over(m, db.id)'
      <4>1. CASE m \in db.owners
        BY <1>3, <1>4, <1>6, <4>1 DEF Over
      <4>2. CASE m \notin db.owners
        <5>1. Over(m, db.id)
          BY <1>4, <2>1, <3>2, <4>2 DEF Strange, Past, Untold, Over
        <5> QED
          BY <1>4, <1>6, <4>2, <5>1 DEF Over
      <4> QED
        BY <4>1, <4>2
    <3> QED
      BY <1>4, <3>1, <3>2 DEF Past
  <2>3. Future(m)'
    BY <1>4, <1>6, <2>1 DEF Future, Untold
  <2> QED
    BY <1>4, <2>2, <2>3 DEF Kept, Follows, Strange
<1> QED
  BY <1>5, <1>7 DEF CacheInv

\* An event is handled: a stale one, or one of a row that is over, changes nothing.
LEMMA HandleKeeps ==
  ASSUME Typed, CacheInv, NEW k \in Managers, HandleWatcherEvent(k)
  PROVE  CacheInv'
<1> DEFINE h == Head(queue[k])
           j == h.job
           n == j.id
<1>1. h \in JobEvents /\ j \in JobRows /\ n \in Ids
  BY WatcherTakes
<1>2. \A m \in Managers : /\ EventsTo(m) = IF m = k THEN EventsTo(m)' \cup {h} ELSE EventsTo(m)'
                          /\ m = k => h \in EventsTo(m)
  BY EventsTaken
<1>3. UNCHANGED <<db, seeded, amiss>> /\ k \in seeded
  BY DEF HandleWatcherEvent, store
<1>4. \/ /\ ~Retires(h) /\ UNCHANGED tombs
         /\ jobs' = IF JobUpdateIsStale(k, j) THEN jobs ELSE [jobs EXCEPT ![k][n] = j]
      \/ /\ Retires(h) /\ jobs' = [jobs EXCEPT ![k][n] = NoJob]
         /\ tombs' = [tombs EXCEPT ![k] = @ \cup {n}]
  BY DEF HandleWatcherEvent, Retires
<1> HIDE DEF h, n
<1>5. jobs \in [Managers -> [Ids -> JobRows]] /\ tombs \in [Managers -> SUBSET Ids]
  BY DEF Typed, CacheTyped
<1>6. /\ \A m \in Managers : m # k => jobs'[m] = jobs[m] /\ tombs'[m] = tombs[m]
      /\ \A i \in Ids : i # n => jobs'[k][i] = jobs[k][i] /\ (i \in tombs'[k] <=> i \in tombs[k])
  BY <1>1, <1>4, <1>5
<1>7. \/ ~Retires(h) /\ jobs'[k][n] = (IF JobUpdateIsStale(k, j) THEN jobs[k][n] ELSE j)
         /\ (n \in tombs'[k] <=> n \in tombs[k])
      \/ Retires(h) /\ jobs'[k][n] = NoJob /\ n \in tombs'[k]
  BY <1>1, <1>4, <1>5
<1>8. JobUpdateIsStale(k, j) <=> IF jobs[k][n] # NoJob THEN j.stamp < jobs[k][n].stamp
                                 ELSE n \in tombs[k]
  BY DEF JobUpdateIsStale, n
<1>9. /\ db.id \in Nat /\ db.stamp \in Nat /\ Ids \subseteq Nat /\ n <= db.id
      /\ j.stamp \in Nat /\ j.stamp <= db.stamp
      /\ Alive /\ n = db.id /\ ~Retires(h) /\ j.stamp = db.stamp => j = db
  <2>1. \A e \in EventsTo(k) :
            /\ e.job.id <= db.id /\ e.job.stamp <= db.stamp
            /\ Alive /\ e.job.id = db.id /\ ~Retires(e) /\ e.job.stamp = db.stamp => e.job = db
    BY DEF CacheInv, Behind
  <2>2. h \in EventsTo(k)
    BY <1>2
  <2> QED
    BY <1>1, <2>1, <2>2, DbFields, JobQueueAssumption DEF JobRows, n
<1>10. ASSUME NEW m \in Managers, NEW i
       PROVE  About(m, i) = IF m = k /\ i = n THEN About(m, i)' \cup {h} ELSE About(m, i)'
  BY <1>2 DEF About, n
<1>11. Behind'
  <2>1. \A m \in Managers : \A e \in EventsTo(m)' : e \in EventsTo(m)
    BY <1>2
  <2>2. ASSUME NEW m \in Managers, NEW i \in Ids PROVE jobs'[m][i].stamp <= db.stamp
    <3>1. jobs[m][i].stamp <= db.stamp
      BY DEF CacheInv, Behind
    <3> QED
      BY <1>6, <1>7, <1>9, <3>1, NoJobFields
  <2>3. \A m \in Managers \ seeded : jobs'[m] = jobs[m] /\ tombs'[m] = tombs[m]
    BY <1>3, <1>6
  <2> QED
    BY <1>3, <2>1, <2>2, <2>3 DEF CacheInv, Behind, Alive
<1>12. ASSUME NEW m \in Managers, m # k PROVE Kept(m)'
  <2>1. /\ EventsTo(m)' = EventsTo(m) /\ jobs'[m] = jobs[m] /\ tombs'[m] = tombs[m]
        /\ \A i : About(m, i)' = About(m, i)
    BY <1>2, <1>6, <1>10, <1>12
  <2>2. Follows(m) /\ Strange(m) /\ Past(m) /\ Future(m)
    BY DEF CacheInv, Kept
  <2>3. Follows(m)'
    BY <1>3, <2>1, <2>2 DEF Follows, Alive
  <2>4. Strange(m)' /\ Past(m)' /\ Future(m)'
    BY <1>3, <2>1, <2>2 DEF Strange, Past, Future, Alive, Over, Untold
  <2> QED
    BY <2>3, <2>4 DEF Kept
<1>13. ASSUME NEW i \in Ids, Untold(k, i) PROVE Untold(k, i)'
  <2>1. i # n
    <3>1. h \in About(k, n)
      BY <1>2 DEF About, n
    <3> QED
      BY <1>13, <3>1 DEF Untold
  <2> QED
    BY <1>6, <1>10, <1>13, <2>1 DEF Untold
<1>14. ASSUME NEW i \in Ids, Over(k, i) PROVE Over(k, i)'
  <2>1. CASE i # n
    BY <1>6, <1>10, <1>14, <2>1 DEF Over
  <2>2. CASE i = n /\ Retires(h)
    BY <1>7, <2>2 DEF Over
  <2>3. CASE i = n /\ ~Retires(h)
    <3>1. CASE \E e \in About(k, i) : Retires(e)
      <4>1. PICK e \in About(k, i) : Retires(e)
        BY <3>1
      <4>2. e \in About(k, i)'
        BY <1>10, <2>3, <4>1
      <4> QED
        BY <4>1, <4>2 DEF Over
    <3>2. CASE ~\E e \in About(k, i) : Retires(e)
      <4>1. h \in About(k, i)
        BY <1>2, <2>3 DEF About, n
      <4>2. jobs[k][i] = NoJob /\ i \in tombs[k]
        BY <1>14, <3>2, <4>1 DEF Over
      <4>3. jobs'[k][i] = NoJob /\ i \in tombs'[k]
        BY <1>7, <1>8, <2>3, <4>2
      <4> QED
        BY <4>3 DEF Over
    <3> QED
      BY <3>1, <3>2
  <2> QED
    BY <2>1, <2>2, <2>3
<1>15. Follows(k)'
  <2> SUFFICES ASSUME Alive, k \in db.owners, <<k, db.id>> \notin amiss
               PROVE  /\ db.id \notin tombs'[k]
                      /\ \A e \in About(k, db.id)' : ~Retires(e)
                      /\ \/ jobs'[k][db.id] = db
                         \/ \E e \in EventsTo(k)' : e.job = db /\ ~Retires(e)
                         \/ /\ jobs'[k][db.id] = NoJob /\ About(k, db.id)' = {}
                            /\ db.status = "queued" => k \notin seeded
    BY <1>3 DEF Follows, Alive
  <2>1. /\ db.id \notin tombs[k] /\ \A e \in About(k, db.id) : ~Retires(e)
        /\ \/ jobs[k][db.id] = db
           \/ \E e \in EventsTo(k) : e.job = db /\ ~Retires(e)
           \/ /\ jobs[k][db.id] = NoJob /\ About(k, db.id) = {}
              /\ db.status = "queued" => k \notin seeded
    BY DEF CacheInv, Kept, Follows
  <2>2. db.id \in Ids /\ db # NoJob
    BY DbFields
  <2>3. CASE n # db.id
    <3>1. /\ jobs'[k][db.id] = jobs[k][db.id] /\ (db.id \in tombs'[k] <=> db.id \in tombs[k])
          /\ About(k, db.id)' = About(k, db.id)
      BY <1>3, <1>6, <1>10, <2>2, <2>3
    <3>2. \A e \in EventsTo(k) : e.job = db => e \in EventsTo(k)'
      BY <1>2, <2>3 DEF n
    <3> QED
      BY <2>1, <3>1, <3>2
  <2>4. CASE n = db.id
    <3>1. h \in About(k, db.id)
      BY <1>2, <2>4 DEF About, n
    <3>2. ~Retires(h) /\ db.id \notin tombs'[k]
      BY <1>7, <2>1, <2>4, <3>1
    <3>3. \A e \in About(k, db.id)' : ~Retires(e)
      BY <1>3, <1>10, <2>1, <2>4
    <3>4. jobs'[k][n] = IF JobUpdateIsStale(k, j) THEN jobs[k][n] ELSE j
      BY <1>7, <3>2
    <3>5. CASE jobs[k][db.id] = db
      <4>1. JobUpdateIsStale(k, j) \/ j.stamp = db.stamp
        BY <1>8, <1>9, <2>2, <2>4, <3>5
      <4>2. jobs'[k][db.id] = db
        BY <1>9, <2>4, <3>2, <3>4, <3>5, <4>1
      <4> QED
        BY <3>2, <3>3, <4>2
    <3>6. CASE \E e \in EventsTo(k) : e.job = db /\ ~Retires(e)
      <4>1. PICK e \in EventsTo(k) : e.job = db /\ ~Retires(e)
        BY <3>6
      <4>2. CASE e = h
        <5>1. jobs[k][n].stamp <= db.stamp /\ jobs[k][n].stamp \in Nat
          BY <1>1, <1>5, JobQueueAssumption DEF CacheInv, Behind, JobRows
        <5>2. ~JobUpdateIsStale(k, j)
          BY <1>8, <1>9, <2>1, <2>4, <4>1, <4>2, <5>1
        <5>3. jobs'[k][db.id] = db
          BY <2>4, <3>4, <4>1, <4>2, <5>2
        <5> QED
          BY <3>2, <3>3, <5>3
      <4>3. CASE e # h
        <5>1. e \in EventsTo(k)'
          BY <1>2, <4>3
        <5> QED
          BY <3>2, <3>3, <4>1, <5>1
      <4> QED
        BY <4>2, <4>3
    <3> QED
      BY <2>1, <3>1, <3>5, <3>6
  <2> QED
    BY <2>3, <2>4
<1>16. Strange(k)' /\ Past(k)' /\ Future(k)'
  <2>1. Strange(k) /\ Past(k) /\ Future(k) /\ (Alive' <=> Alive)
    BY <1>3 DEF CacheInv, Kept, Alive
  <2>2. Alive => db.id \in Ids
    BY DbFields
  <2> QED
    BY <1>3, <1>13, <1>14, <2>1, <2>2 DEF Strange, Past, Future
<1> QED
  BY <1>11, <1>12, <1>15, <1>16 DEF CacheInv, Kept

\* A tombstone goes when no event about its row is left.
LEMMA ReapKeeps ==
  ASSUME Typed, CacheInv, NEW k \in Managers, ReapJobTombstones(k)
  PROVE  CacheInv'
<1>1. UNCHANGED <<db, event, queue, jobs, seeded, amiss>>
  BY DEF ReapJobTombstones, store
<1>2. PICK n \in tombs[k] : ~InFlight(k, n) /\ tombs' = [tombs EXCEPT ![k] = @ \ {n}]
  BY DEF ReapJobTombstones
<1>3. \A m \in Managers : EventsTo(m)' = EventsTo(m)
  BY <1>1 DEF EventsTo, Seen
<1>4. \A m \in Managers : \A i : About(m, i)' = About(m, i)
  BY <1>3 DEF About
<1>5. About(k, n) = {}
  BY <1>2, NoneInFlight
<1>6. \A m \in Managers : /\ tombs'[m] \subseteq tombs[m]
                          /\ \A i : i \in tombs[m] /\ i \notin tombs'[m] => m = k /\ i = n
  BY <1>2 DEF Typed, CacheTyped
<1>7. Behind'
  BY <1>1, <1>3, <1>6 DEF CacheInv, Behind, Alive
<1>8. ASSUME NEW m \in Managers PROVE Kept(m)'
  <2>1. Follows(m) /\ Strange(m) /\ Past(m) /\ Future(m)
    BY DEF CacheInv, Kept
  <2>2. Follows(m)'
    BY <1>1, <1>3, <1>4, <1>6, <2>1 DEF Follows, Alive
  <2>3. \A i : Untold(m, i) => Untold(m, i)'
    BY <1>1, <1>4, <1>6 DEF Untold
  <2>4. \A i : Over(m, i) => Over(m, i)'
    BY <1>1, <1>4, <1>5, <1>6 DEF Over
  <2>5. Strange(m)' /\ Past(m)' /\ Future(m)'
    BY <1>1, <2>1, <2>3, <2>4 DEF Strange, Past, Future, Alive
  <2> QED
    BY <2>2, <2>5 DEF Kept
<1> QED
  BY <1>7, <1>8 DEF CacheInv

\* A watcher starts with what the store lists as queued.
LEMMA RunKeeps ==
  ASSUME Typed, CacheInv, NEW k \in Managers, RunWatcher(k)
  PROVE  CacheInv'
<1>1. UNCHANGED <<db, event, queue, tombs, amiss>> /\ k \notin seeded /\ seeded' = seeded \cup {k}
  BY DEF RunWatcher, store
<1>2. jobs' = IF db.status = "queued" /\ k \in db.owners
              THEN [jobs EXCEPT ![k][db.id] = db] ELSE jobs
  BY DEF RunWatcher
<1>3. \A m \in Managers : EventsTo(m)' = EventsTo(m)
  BY <1>1 DEF EventsTo, Seen
<1>4. \A m \in Managers : \A i : About(m, i)' = About(m, i)
  BY <1>3 DEF About
<1>5. /\ jobs \in [Managers -> [Ids -> JobRows]] /\ (db.status = "queued" => db.id \in Ids)
      /\ db.stamp \in Nat
  BY DbFields DEF Typed, CacheTyped, Recorded
<1>6. \A m \in Managers : \A i \in Ids : \/ jobs'[m][i] = jobs[m][i]
                                         \/ /\ m = k /\ i = db.id /\ jobs'[m][i] = db
                                            /\ db.status = "queued" /\ k \in db.owners
  BY <1>2, <1>5
<1>7. Behind'
  <2>1. \A m \in Managers : \A i \in Ids : jobs'[m][i].stamp <= db.stamp
    BY <1>5, <1>6 DEF CacheInv, Behind
  <2>2. \A m \in Managers \ seeded' : jobs'[m] = jobs[m]
    BY <1>1, <1>2, <1>5
  <2> QED
    BY <1>1, <1>3, <2>1, <2>2 DEF CacheInv, Behind, Alive
<1>8. ASSUME NEW m \in Managers PROVE Kept(m)'
  <2>1. Follows(m) /\ Strange(m) /\ Past(m) /\ Future(m) /\ (Alive' <=> Alive)
    BY <1>1 DEF CacheInv, Kept, Alive
  <2>2. Alive => db.id \in Ids
    BY DbFields
  <2>3. Follows(m)'
    <3>1. db.status = "queued" /\ m \in db.owners /\ m = k => jobs'[m][db.id] = db
      BY <1>2, <1>5
    <3>2. m # k => (m \in seeded' <=> m \in seeded)
      BY <1>1
    <3> QED
      BY <1>1, <1>3, <1>4, <1>6, <2>1, <2>2, <3>1, <3>2 DEF Follows
  <2>4. ASSUME NEW i \in Ids, i # db.id \/ ~Alive \/ m \notin db.owners
        PROVE  jobs'[m][i] = jobs[m][i]
    BY <1>6, <2>4 DEF Alive
  <2>5. Strange(m)'
    BY <1>1, <1>4, <2>1, <2>2, <2>4 DEF Strange, Untold
  <2>6. Past(m)'
    <3>1. ASSUME NEW i \in Ids, <<m, i>> \notin amiss, i < db.id \/ (i = db.id /\ ~Alive)
          PROVE  Over(m, i)'
      <4>1. Over(m, i)
        BY <2>1, <3>1 DEF Past
      <4>2. jobs'[m][i] = jobs[m][i]
        BY <2>4, <3>1, DbFields
      <4> QED
        BY <1>1, <1>4, <4>1, <4>2 DEF Over
    <3> QED
      BY <1>1, <2>1, <3>1 DEF Past
  <2>7. Future(m)'
    <3>1. ASSUME NEW i \in Ids, i > db.id PROVE Untold(m, i)'
      <4>1. Untold(m, i)
        BY <2>1, <3>1 DEF Future
      <4>2. jobs'[m][i] = jobs[m][i]
        BY <2>4, <3>1, DbFields
      <4> QED
        BY <1>1, <1>4, <4>1, <4>2 DEF Untold
    <3> QED
      BY <1>1, <3>1 DEF Future
  <2> QED
    BY <2>3, <2>5, <2>6, <2>7 DEF Kept
<1> QED
  BY <1>7, <1>8 DEF CacheInv

\* Nothing is on its way and nothing is cached: at the start, and after a crash.
LEMMA EmptyKeeps ==
  ASSUME Typed, NEW m \in Managers,
         \A i \in Ids : jobs[m][i] = NoJob, tombs[m] = {}, EventsTo(m) = {},
         db.status = "queued" => m \notin seeded
  PROVE  Kept(m)
<1>1. \A i : About(m, i) = {}
  BY DEF About
<1>2. Alive => db.id \in Ids
  BY DbFields
<1> QED
  BY <1>1, <1>2 DEF Kept, Follows, Strange, Past, Future, Over, Untold

LEMMA CacheInit == Init => CacheInv
<1> SUFFICES ASSUME Init PROVE CacheInv
  OBVIOUS
<1>1. Typed
  BY TypedInit
<1>2. /\ db = NoJob /\ seeded = Managers /\ event = [a \in Writers |-> NoEvent]
      /\ queue = [m \in Managers |-> <<>>] /\ tombs = [m \in Managers |-> {}]
      /\ jobs = [m \in Managers |-> [i \in Ids |-> NoJob]]
  BY DEF Init
<1>3. \A m \in Managers : EventsTo(m) = {}
  <2>1. Seen(<<>>) = {}
    BY DEF Seen
  <2>2. \A m \in Managers : Seen(queue[m]) = {}
    BY <1>2, <2>1
  <2>3. \A a \in Writers : event[a] = NoEvent
    BY <1>2
  <2> QED
    BY <2>2, <2>3 DEF EventsTo
<1>4. /\ \A m \in Managers : tombs[m] = {} /\ \A i \in Ids : jobs[m][i] = NoJob
      /\ db.status # "queued" /\ db.stamp = 0 /\ Managers \ seeded = {}
  BY <1>2, NoJobFields
<1>5. Behind
  BY <1>3, <1>4, NoJobFields DEF Behind
<1> QED
  BY <1>1, <1>3, <1>4, <1>5, EmptyKeeps DEF CacheInv

LEMMA CrashKeeps ==
  ASSUME Typed, Crash
  PROVE  CacheInv'
<1>1. Typed'
  BY CrashTyped
<1>2. /\ UNCHANGED db /\ seeded' = {} /\ event' = [a \in Writers |-> NoEvent]
      /\ queue' = [m \in Managers |-> <<>>] /\ tombs' = [m \in Managers |-> {}]
      /\ jobs' = [m \in Managers |-> [i \in Ids |-> NoJob]]
  BY DEF Crash
<1>3. \A m \in Managers : EventsTo(m)' = {}
  <2>1. Seen(<<>>) = {}
    BY DEF Seen
  <2>2. \A m \in Managers : Seen(queue'[m]) = {}
    BY <1>2, <2>1
  <2>3. \A a \in Writers : event'[a] = NoEvent
    BY <1>2
  <2> QED
    BY <2>2, <2>3 DEF EventsTo, Seen
<1>4. \A m \in Managers : /\ tombs'[m] = {} /\ jobs'[m] = [i \in Ids |-> NoJob]
                          /\ \A i \in Ids : jobs'[m][i] = NoJob
  BY <1>2
<1>5. Behind'
  BY <1>2, <1>3, <1>4, NoJobFields, DbFields DEF Behind
<1>6. ASSUME NEW m \in Managers PROVE Kept(m)'
  <2>1. \A i : About(m, i)' = {}
    BY <1>3 DEF About
  <2>2. Alive' => db'.id \in Ids
    BY <1>2, DbFields DEF Alive
  <2> QED
    BY <1>2, <1>4, <2>1, <2>2 DEF Kept, Follows, Strange, Past, Future, Over, Untold
<1> QED
  BY <1>5, <1>6 DEF CacheInv

LEMMA CacheNext ==
  ASSUME Typed, CacheInv, [Next]_vars
  PROVE  CacheInv'
<1>1. CASE StoreStep /\ UNCHANGED <<queue, jobs, tombs, seeded>> /\ amiss \subseteq amiss'
  <2>1. CASE UNCHANGED store
    <3>1. UNCHANGED <<db, jobs, tombs, seeded, event, queue>>
      BY <1>1, <2>1 DEF store
    <3>2. \A m \in Managers : EventsTo(m)' = EventsTo(m)
      BY <3>1 DEF EventsTo, Seen
    <3> QED
      BY <1>1, <3>1, <3>2, StillKeeps
  <2>2. ASSUME NEW a \in Writers, Written(a) PROVE CacheInv'
    BY <1>1, <2>2, WrittenKeeps
  <2>3. ASSUME NEW a \in Writers, Deleted(a) PROVE CacheInv'
    BY <1>1, <2>3, DeletedKeeps
  <2> QED
    BY <1>1, <2>1, <2>2, <2>3 DEF StoreStep
<1>2. ASSUME NEW a \in Writers, Notify(a) PROVE CacheInv'
  <2>1. UNCHANGED <<db, jobs, tombs, seeded>> /\ amiss \subseteq amiss'
    BY <1>2 DEF Notify
  <2>2. \A m \in Managers :
            /\ EventsTo(m)' \subseteq EventsTo(m)
            /\ \A e \in EventsTo(m) : <<m, e.job.id>> \notin amiss' => e \in EventsTo(m)'
    BY <1>2, EventsNotified
  <2> QED
    BY <2>1, <2>2, StillKeeps
<1>3. ASSUME NEW m \in Managers, Watch(m) PROVE CacheInv'
  BY <1>3, HandleKeeps, ReapKeeps, RunKeeps DEF Watch
<1>4. CASE Crash
  BY <1>4, CrashKeeps
<1> QED
  BY <1>1, <1>2, <1>3, <1>4, KindsOfStep

\* When nothing is on its way, the invariant says that the caches agree with the row.
LEMMA CacheInvAgrees ==
  ASSUME Typed, CacheInv
  PROVE  CacheAgrees
<1> SUFFICES ASSUME Quiet, NEW m \in Managers, NEW i \in Ids, <<m, i>> \notin amiss
             PROVE  LET here == i = db.id /\ db.status = "queued" /\ m \in db.owners
                    IN /\ (jobs[m][i].status = "queued") <=> here
                       /\ here => jobs[m][i].lockedBy = db.lockedBy
  BY DEF CacheAgrees
<1>1. EventsTo(m) = {} /\ seeded = Managers
  <2>1. Seen(<<>>) = {}
    BY DEF Seen
  <2>2. queue[m] = <<>> /\ seeded = Managers /\ \A a \in Writers : event[a] = NoEvent
    BY DEF Quiet
  <2>3. Seen(queue[m]) = {}
    BY <2>1, <2>2
  <2> QED
    BY <2>2, <2>3 DEF EventsTo
<1>2. About(m, i) = {}
  BY <1>1 DEF About
<1>3. Follows(m) /\ Strange(m) /\ Past(m) /\ Future(m)
  BY DEF CacheInv, Kept
<1>4. CASE i = db.id /\ Alive /\ m \in db.owners
  BY <1>1, <1>3, <1>4, NoJobFields DEF Follows, Alive
<1>5. CASE ~(i = db.id /\ Alive /\ m \in db.owners)
  <2>1. db.id \in Nat /\ i \in Nat
    BY DbFields
  <2>2. jobs[m][i] = NoJob
    <3>1. CASE i < db.id \/ (i = db.id /\ ~Alive)
      BY <1>2, <1>3, <3>1 DEF Past, Over
    <3>2. CASE i = db.id /\ Alive
      BY <1>3, <1>5, <3>2 DEF Strange, Untold
    <3>3. CASE i > db.id
      BY <1>3, <3>3 DEF Future, Untold
    <3> QED
      BY <2>1, <3>1, <3>2, <3>3
  <2> QED
    BY <1>5, <2>2, NoJobFields DEF Alive
<1> QED
  BY <1>4, <1>5

\* Every order of commits, notifications, deletions, watcher starts and crashes leaves the
\* caches right, also when webhooks of the job are handled at the same time: once all events
\* are handled, each manager that owns the job believes it is queued, and locked by whom,
\* exactly when the row says so, unless Notify gave up an event of that row for that manager
\* or the row came back after it was completed (jobUpdateIsStale and the tombstones of
\* runner/pool/watcher.go).
THEOREM CachesAgree == Spec => []CacheAgrees
<1>1. Typed /\ CacheInv /\ [Next]_vars => CacheInv'
  BY CacheNext
<1>2. Typed /\ CacheInv => CacheAgrees
  BY CacheInvAgrees
<1> QED
  BY <1>1, <1>2, CacheInit, TypedAlways, PTL DEF Spec
=============================================================================
