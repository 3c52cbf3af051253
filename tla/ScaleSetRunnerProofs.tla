------------------------ MODULE ScaleSetRunnerProofs ------------------------
(***************************************************************************)
(* What the two workers of a scale set do to the row, the machine and the  *)
(* registration of a runner, each on its own copy of the row: the type,    *)
(* NoLeakByDelete, CacheConverges and BusyMachineKept, for any number of   *)
(* faults and of events under way.                                         *)
(*                                                                         *)
(* They are proved together, by the invariant Inv. A status is early or    *)
(* late, and a row that got late never gets early again (RowLate); so an   *)
(* event or a copy that shows a late row is right however old it is        *)
(* (EventsTold, Copies), and a manager that acts on it never creates a     *)
(* machine for a row that was found without one (Machine). The event       *)
(* committed last is the last of the queue, or the cache is the row        *)
(* (CacheFollows). Whoever takes the row to a late status has had the      *)
(* runner removed at the forge first, or the create failed (ForgeFirst).   *)
(***************************************************************************)
EXTENDS ScaleSetRunner, SequenceTheorems, TLAPS

\* The rows a queue of events holds.
Seen(q) == {q[i] : i \in 1..Len(q)}

\* The statuses a runner is in before it is known to have to go, and afterwards.
Early == {"none", "pending_create", "creating", "running"}
Late == {"error", "gone", "gone_early"} \cup DeletionLane

RowLate == row.status \in Late

\* Before the row is inserted nobody knows of the runner.
NothingYet ==
    /\ row.status = "none" =>
        /\ prov = "absent" /\ forge \in {"absent", "offline"} /\ msgs = <<>>
        /\ wev = <<>> /\ pev = <<>> /\ cache = NoRow /\ entry = NoRow
        /\ mgr = NoManager /\ api = "idle"
        /\ wpc \notin {"start", "start_get", "start_force"}
    /\ wpc = "insert" => row.status = "none"

\* An event tells of a row that was inserted; one of a late row is still right when it
\* is delivered, because a row never gets early again.
EventsTold ==
    /\ row.status \in Early \cup Late
    /\ \A e \in Seen(wev) \cup Seen(pev) :
        /\ e.status \in (Early \cup Late) \ {"none"}
        /\ e.status \in Late => RowLate

\* So may the provider worker and its manager rely on a late copy.
Copies ==
    /\ entry.status \in Late => RowLate
    /\ mgr.inst.status \in Late => RowLate
    /\ mgr.pc \in {"backoff", "delete", "restore", "deleted"} => RowLate

\* Nobody creates the machine of a row that was found without one.
Removed == {"deleted", "gone", "gone_early"}
DeletedSeen == \E e \in Seen(wev) : e.status = "deleted"
Machine ==
    /\ NoLeakByDelete
    /\ (mgr.pc = "deleted" \/ DeletedSeen) /\ ~forced => prov = "absent"
    /\ mgr.pc = "create" => row.status \notin Removed \cup {"none"} /\ ~DeletedSeen

\* What the cache is to be.
Fresh == IF Exists THEN row ELSE NoRow
CacheFollows ==
    /\ ~Listening => wev = <<>>
    /\ Listening /\ ~missed => IF wev = <<>> THEN cache = Fresh ELSE wev[Len(wev)] = row
    /\ wpc \in {"start", "start_get", "register"} /\ ~missed => cache = Fresh

\* The forge can no longer assign a job to a machine that is deleted later.
Finished ==
    \/ failed \/ bypassed
    \/ forge = "absent"
    \/ forge = "offline" /\ prov = "absent" /\ row.status = "gone"
Going ==
    \/ RowLate
    \/ api # "idle"
    \/ wpc \in {"down_mark", "mark", "provider_mark"}
    \/ "completed" \in Seen(msgs)
ForgeFirst ==
    /\ Going => Finished
    /\ mgr.pc \in {"undo", "undo_error", "persist_error"} => failed
    /\ wpc \in {"start", "start_get"} => lock = "worker" /\ row.status # "gone"
    /\ wpc = "start_force" => row.status # "gone" /\ (lock = "worker" \/ RowLate)
    /\ wpc # "start_run"
    /\ cache = NoRow /\ wpc # "down" => row.status \in Late \cup {"none"}

Inv == TypeOK /\ NothingYet /\ EventsTold /\ Copies /\ Machine /\ CacheFollows /\ ForgeFirst
-----------------------------------------------------------------------------
\* The tables and the records.

LEMMA StatusValues ==
    /\ Statuses = {"running", "stopped", "error", "pending_delete", "pending_force_delete",
                   "deleting", "deleted", "pending_create", "creating", "unknown"}
    /\ RunnerStatuses = {"pending", "installing", "idle", "active", "failed", "offline",
                         "terminated"}
BY DEF Statuses, RunnerStatuses, InstanceTransitions, RunnerTransitions

\* From which statuses an unforced update to creating or running is accepted.
LEMMA AcceptedFrom ==
  ASSUME row.status \in Early \cup Late
  PROVE  /\ Accepts("creating") => row.status \in {"pending_create", "creating"}
         /\ Accepts("running") => row.status \in {"creating", "running"}
BY DEF Early, Late, DeletionLane, Accepts, Exists, InstanceMayBecome, InstanceTransitions

\* A row in which one field was written.
LEMMA RowFields ==
  ASSUME NEW r \in RunnerRows
  PROVE  /\ \A s \in Statuses \cup {"none", "gone", "gone_early"} :
                /\ [r EXCEPT !.status = s] \in RunnerRows
                /\ [r EXCEPT !.status = s].status = s
                /\ [r EXCEPT !.status = s, !.runner = "terminated"] \in RunnerRows
                /\ [r EXCEPT !.status = s, !.runner = "terminated"].status = s
         /\ \A x \in RunnerStatuses :
                /\ [r EXCEPT !.runner = x] \in RunnerRows
                /\ [r EXCEPT !.runner = x].status = r.status
BY StatusValues, ZenonT(30) DEF RunnerRows

LEMMA NoRowFields == NoRow \in RunnerRows /\ NoRow.status = "none"
BY StatusValues DEF RunnerRows, NoRow

Managers == [on : BOOLEAN, inst : RunnerRows, snap : RunnerRows, pc : ManagerSteps]

LEMMA NoManagerFields ==
    /\ NoManager \in Managers
    /\ NoManager.on = FALSE /\ NoManager.inst = NoRow /\ NoManager.pc = "idle"
    /\ \A e \in RunnerRows :
        LET m == [NoManager EXCEPT !.on = TRUE, !.inst = e]
        IN  m \in Managers /\ m.on = TRUE /\ m.inst = e /\ m.pc = "idle"
BY NoRowFields DEF Managers, NoManager, ManagerSteps

\* A manager that goes to its next step keeps its copy of the row.
LEMMA GotoFields ==
  ASSUME TypeOK, NEW step \in ManagerSteps, Goto(step)
  PROVE  /\ mgr' \in Managers /\ mgr'.pc = step
         /\ mgr'.on = mgr.on /\ mgr'.inst = mgr.inst
BY DEF TypeOK, Goto, Managers

-----------------------------------------------------------------------------
\* Queues of events.

LEMMA SeenEmpty == Seen(<<>>) = {}
BY DEF Seen

LEMMA SeenAppend ==
  ASSUME NEW S, NEW q \in Seq(S), NEW x \in S
  PROVE  /\ Append(q, x) \in Seq(S) /\ Append(q, x) # <<>>
         /\ Append(q, x)[Len(Append(q, x))] = x
         /\ Seen(Append(q, x)) = Seen(q) \cup {x}
<1>1. /\ Append(q, x) \in Seq(S) /\ Append(q, x) # <<>>
      /\ Len(Append(q, x)) = Len(q) + 1
      /\ \A i \in 1..Len(q) : Append(q, x)[i] = q[i]
      /\ Append(q, x)[Len(q) + 1] = x
  BY AppendProperties
<1>2. Len(q) \in Nat
  BY LenProperties
<1>3. 1..(Len(q) + 1) = (1..Len(q)) \cup {Len(q) + 1}
  BY <1>2
<1> DEFINE a == Append(q, x)
<1>4. Len(a) = Len(q) + 1 /\ (\A i \in 1..Len(q) : a[i] = q[i]) /\ a[Len(q) + 1] = x
  BY <1>1
<1> HIDE DEF a
<1>5. Seen(a) = Seen(q) \cup {x}
  BY <1>2, <1>3, <1>4 DEF Seen
<1> QED
  BY <1>1, <1>5 DEF a

LEMMA SeenTail ==
  ASSUME NEW S, NEW q \in Seq(S), q # <<>>
  PROVE  /\ Head(q) \in S /\ Head(q) \in Seen(q)
         /\ Tail(q) \in Seq(S) /\ Seen(Tail(q)) \subseteq Seen(q)
         /\ Tail(q) # <<>> => Tail(q)[Len(Tail(q))] = q[Len(q)]
         /\ Tail(q) = <<>> => q[Len(q)] = Head(q)
<1>1. /\ Head(q) \in S /\ Tail(q) \in Seq(S)
      /\ Len(Tail(q)) = Len(q) - 1
      /\ \A i \in 1..Len(Tail(q)) : Tail(q)[i] = q[i + 1]
  BY HeadTailProperties
<1>2. Len(q) \in Nat \ {0} /\ Head(q) = q[1]
  BY EmptySeq, LenProperties
<1> DEFINE a == Tail(q)
<1>3. a \in Seq(S) /\ Len(a) = Len(q) - 1 /\ \A i \in 1..Len(a) : a[i] = q[i + 1]
  BY <1>1
<1>4. a = <<>> <=> Len(a) = 0
  BY <1>3, EmptySeq
<1> HIDE DEF a
<1>5. Head(q) \in Seen(q)
  BY <1>2 DEF Seen
<1>6. Seen(a) \subseteq Seen(q)
  BY <1>2, <1>3 DEF Seen
<1>7. a # <<>> => a[Len(a)] = q[Len(q)]
  BY <1>2, <1>3, <1>4
<1>8. a = <<>> => q[Len(q)] = Head(q)
  <2>1. a = <<>> => Len(q) = 1
    BY <1>2, <1>3, <1>4
  <2> QED
    BY <1>2, <2>1
<1> QED
  BY <1>1, <1>5, <1>6, <1>7, <1>8 DEF a

-----------------------------------------------------------------------------
\* Transactions.

\* A row in status s is committed and the workers are told, except for one that starts.
Wrote(s) ==
    /\ \E r \in RunnerRows : r.status = s /\ Commit(r)
    /\ missed' = (missed \/ wpc \in StartSteps)

LEMMA Writes ==
  ASSUME TypeOK
  PROVE  /\ \A s \in Statuses :
                /\ WorkerWrite([row EXCEPT !.status = s]) /\ wpc \notin StartSteps => Wrote(s)
                /\ SetStatus(s) => Wrote(s)
                /\ UpdateStatus(s) => UNCHANGED db \/ (Accepts(s) /\ Wrote(s))
                /\ ForceStatus(s) => UNCHANGED db \/ (Exists /\ Wrote(s))
                /\ Write([row EXCEPT !.status = s, !.runner = "terminated"]) => Wrote(s)
         /\ \A x \in RunnerStatuses :
                Write([row EXCEPT !.runner = x]) => Wrote(row.status)
         /\ Write([status |-> "pending_create", runner |-> "pending"])
                => Wrote("pending_create")
<1>1. row \in RunnerRows /\ missed \in BOOLEAN
  BY DEF TypeOK
<1>2. ASSUME NEW r \in RunnerRows
      PROVE  /\ Write(r) => Wrote(r.status)
             /\ WorkerWrite(r) /\ wpc \notin StartSteps => Wrote(r.status)
  BY <1>1 DEF Wrote, Write, WorkerWrite
<1>3. ASSUME NEW s \in Statuses
      PROVE  /\ WorkerWrite([row EXCEPT !.status = s]) /\ wpc \notin StartSteps => Wrote(s)
             /\ SetStatus(s) => Wrote(s)
             /\ Write([row EXCEPT !.status = s, !.runner = "terminated"]) => Wrote(s)
  <2>1. /\ [row EXCEPT !.status = s] \in RunnerRows
        /\ [row EXCEPT !.status = s].status = s
        /\ [row EXCEPT !.status = s, !.runner = "terminated"] \in RunnerRows
        /\ [row EXCEPT !.status = s, !.runner = "terminated"].status = s
    BY <1>1, RowFields
  <2> DEFINE a == [row EXCEPT !.status = s]
             b == [row EXCEPT !.status = s, !.runner = "terminated"]
  <2>2. a \in RunnerRows /\ a.status = s /\ b \in RunnerRows /\ b.status = s
    BY <2>1
  <2>3. SetStatus(s) => Write(a)
    BY DEF SetStatus
  <2> HIDE DEF a, b
  <2>4. /\ WorkerWrite(a) /\ wpc \notin StartSteps => Wrote(s)
        /\ Write(a) \/ Write(b) => Wrote(s)
    BY <1>2, <2>2
  <2> QED
    BY <2>3, <2>4 DEF a, b
<1>4. ASSUME NEW s \in Statuses
      PROVE  /\ UpdateStatus(s) => UNCHANGED db \/ (Accepts(s) /\ Wrote(s))
             /\ ForceStatus(s) => UNCHANGED db \/ (Exists /\ Wrote(s))
  BY <1>3 DEF UpdateStatus, ForceStatus
<1>5. ASSUME NEW x \in RunnerStatuses, Write([row EXCEPT !.runner = x])
      PROVE  Wrote(row.status)
  <2> DEFINE a == [row EXCEPT !.runner = x]
  <2>1. a \in RunnerRows /\ a.status = row.status
    BY <1>1, RowFields
  <2>2. Write(a)
    BY <1>5
  <2> HIDE DEF a
  <2> QED
    BY <1>2, <2>1, <2>2
<1>6. ASSUME Write([status |-> "pending_create", runner |-> "pending"])
      PROVE  Wrote("pending_create")
  <2> DEFINE a == [status |-> "pending_create", runner |-> "pending"]
  <2>1. a \in RunnerRows /\ a.status = "pending_create"
    BY StatusValues DEF RunnerRows
  <2>2. Write(a)
    BY <1>6
  <2> HIDE DEF a
  <2> QED
    BY <1>2, <2>1, <2>2
<1> QED
  BY <1>3, <1>4, <1>5, <1>6

\* What a transaction does to the row and to the queues.
LEMMA Sent ==
  ASSUME TypeOK, NEW r \in RunnerRows, Commit(r)
  PROVE  /\ row' = r
         /\ wev' \in Seq(RunnerRows) /\ pev' \in Seq(RunnerRows)
         /\ Seen(wev)' \subseteq Seen(wev) \cup {r} /\ Seen(pev)' \subseteq Seen(pev) \cup {r}
         /\ Listening => wev' # <<>> /\ wev'[Len(wev')] = row'
         /\ ~Listening => wev' = wev
<1>1. wev \in Seq(RunnerRows) /\ pev \in Seq(RunnerRows)
  BY DEF TypeOK
<1>2. /\ row' = r
      /\ pev' = Append(pev, r) \/ pev' = pev
      /\ (Listening /\ wev' = Append(wev, r)) \/ (~Listening /\ wev' = wev)
  BY DEF Commit
<1> DEFINE w == Append(wev, r)
           p == Append(pev, r)
<1>5. /\ w \in Seq(RunnerRows) /\ w # <<>> /\ w[Len(w)] = r /\ Seen(w) = Seen(wev) \cup {r}
      /\ p \in Seq(RunnerRows) /\ Seen(p) = Seen(pev) \cup {r}
  BY <1>1, SeenAppend
<1>6. /\ pev' = p \/ pev' = pev
      /\ (Listening /\ wev' = w) \/ (~Listening /\ wev' = wev)
  BY <1>2
<1>7. /\ Seen(wev)' = Seen(wev') /\ Seen(pev)' = Seen(pev')
  BY DEF Seen
<1> HIDE DEF w, p
<1>8. wev' \in Seq(RunnerRows) /\ pev' \in Seq(RunnerRows)
  BY <1>1, <1>5, <1>6
<1>9. Seen(wev') \subseteq Seen(wev) \cup {r} /\ Seen(pev') \subseteq Seen(pev) \cup {r}
  BY <1>5, <1>6
<1>10. (Listening => wev' # <<>> /\ wev'[Len(wev')] = row') /\ (~Listening => wev' = wev)
  BY <1>2, <1>5, <1>6
<1> QED
  BY <1>2, <1>7, <1>8, <1>9, <1>10

LEMMA Committed ==
  ASSUME TypeOK, NEW s, Wrote(s)
  PROVE  /\ row' \in RunnerRows /\ row'.status = s
         /\ wev' \in Seq(RunnerRows) /\ pev' \in Seq(RunnerRows)
         /\ \A e \in Seen(wev)' \cup Seen(pev)' : e \in Seen(wev) \cup Seen(pev) \/ e.status = s
         /\ \A e \in Seen(wev)' : e \in Seen(wev) \/ e.status = s
         /\ Listening => wev' # <<>> /\ wev'[Len(wev')] = row'
         /\ ~Listening => wev' = wev
         /\ missed' \in BOOLEAN /\ (~missed' => ~missed)
         /\ wpc \in StartSteps => missed'
<1>1. PICK r \in RunnerRows : r.status = s /\ Commit(r)
  BY DEF Wrote
<1>2. missed \in BOOLEAN /\ missed' = (missed \/ wpc \in StartSteps)
  BY DEF TypeOK, Wrote
<1>3. missed' \in BOOLEAN /\ (~missed' => ~missed) /\ (wpc \in StartSteps => missed')
  BY <1>2
<1>4. /\ row' = r
      /\ wev' \in Seq(RunnerRows) /\ pev' \in Seq(RunnerRows)
      /\ Seen(wev)' \subseteq Seen(wev) \cup {r} /\ Seen(pev)' \subseteq Seen(pev) \cup {r}
      /\ Listening => wev' # <<>> /\ wev'[Len(wev')] = row'
      /\ ~Listening => wev' = wev
  BY <1>1, Sent
<1> QED
  BY <1>1, <1>3, <1>4

\* A transaction that writes a status, and a late one over a late one, leaves events
\* that tell the truth.
LEMMA CommitTells ==
  ASSUME Inv, NEW s \in (Early \cup Late) \ {"none"}, Wrote(s), RowLate => s \in Late
  PROVE  EventsTold' /\ (RowLate => RowLate')
<1>1. TypeOK /\ EventsTold
  BY DEF Inv
<1>2. /\ row'.status = s
      /\ \A e \in Seen(wev)' \cup Seen(pev)' : e \in Seen(wev) \cup Seen(pev) \/ e.status = s
  BY <1>1, Committed
<1>3. RowLate => RowLate'
  BY <1>2 DEF RowLate
<1>4. ASSUME NEW e \in Seen(wev)' \cup Seen(pev)'
      PROVE  e.status \in (Early \cup Late) \ {"none"} /\ (e.status \in Late => RowLate')
  <2>1. CASE e.status = s
    BY <1>2, <2>1 DEF RowLate
  <2>2. CASE e \in Seen(wev) \cup Seen(pev)
    BY <1>1, <1>3, <2>2 DEF EventsTold
  <2> QED
    BY <1>2, <2>1, <2>2
<1> QED
  BY <1>2, <1>3, <1>4 DEF EventsTold

\* It tells nobody of a row in deleted, unless it writes deleted.
LEMMA CommitDeletes ==
  ASSUME TypeOK, NEW s, Wrote(s), s # "deleted"
  PROVE  DeletedSeen' => DeletedSeen
<1>1. \A e \in Seen(wev)' : e \in Seen(wev) \/ e.status = s
  BY Committed
<1> QED
  BY <1>1 DEF DeletedSeen

\* The scale set worker is told, or it misses an event and knows no row it could trust.
LEMMA CommitCache ==
  ASSUME Inv, NEW s, Wrote(s), wpc' = wpc \/ (Listening /\ Listening')
  PROVE  CacheFollows'
<1>1. TypeOK /\ CacheFollows
  BY DEF Inv
<1>2. /\ Listening => wev' # <<>> /\ wev'[Len(wev')] = row'
      /\ ~Listening => wev' = wev
      /\ wpc \in StartSteps => missed'
  BY <1>1, Committed
<1>3. Listening' <=> Listening
  BY DEF Listening
<1>4. wpc' \in StartSteps => wpc \in StartSteps
  BY DEF Listening
<1> QED
  BY <1>1, <1>2, <1>3, <1>4 DEF CacheFollows, StartSteps

\* What every transaction on an existing row, other than the one that writes deleted,
\* leaves true.
LEMMA CommitKeeps ==
  ASSUME Inv, NEW s \in {"creating", "running", "error", "pending_delete",
                         "pending_force_delete", "deleting", row.status},
         Exists, Wrote(s), s \notin Late => ~RowLate,
         wpc' = wpc \/ (Listening /\ Listening'), wpc' # "insert"
  PROVE  /\ NothingYet' /\ EventsTold' /\ CacheFollows'
         /\ row' \in RunnerRows /\ row'.status = s /\ row'.status # "none"
         /\ wev' \in Seq(RunnerRows) /\ pev' \in Seq(RunnerRows) /\ missed' \in BOOLEAN
         /\ (RowLate => RowLate') /\ (s = "deleted" => row.status = "deleted")
         /\ (s # "deleted" => (DeletedSeen' => DeletedSeen))
<1>1. TypeOK /\ row.status \in Early \cup Late
  BY DEF Inv, EventsTold
<1>2. /\ s \in (Early \cup Late) \ {"none"}
      /\ (s = "deleted" => row.status = "deleted")
  BY <1>1 DEF Early, Late, DeletionLane, Exists
<1>3. RowLate => s \in Late
  OBVIOUS
<1>4. EventsTold' /\ (RowLate => RowLate')
  BY <1>2, <1>3, CommitTells
<1>5. CacheFollows'
  BY CommitCache
<1>6. /\ row' \in RunnerRows /\ row'.status = s
      /\ wev' \in Seq(RunnerRows) /\ pev' \in Seq(RunnerRows) /\ missed' \in BOOLEAN
  BY <1>1, Committed
<1>7. NothingYet'
  BY <1>2, <1>6 DEF NothingYet
<1>8. s # "deleted" => (DeletedSeen' => DeletedSeen)
  BY <1>1, CommitDeletes
<1> QED
  BY <1>2, <1>4, <1>5, <1>6, <1>7, <1>8

-----------------------------------------------------------------------------
\* What each action does to the invariant; one lemma per action.

\* The forge assigns a job to the runner.
LEMMA JobStartsKeeps ==
  ASSUME Inv, JobStarts
  PROVE  Inv'
<1>1. TypeOK'
  BY ScaleSetRunnerAssumption
     DEF Inv, TypeOK, ForgeStates, JobStarts, db, workerState, provState, hist
<1>2. NothingYet'
  BY DEF Inv, NothingYet, JobStarts, db, workerState
<1>3. EventsTold'
  BY DEF Inv, EventsTold, RowLate, JobStarts, db
<1>4. Copies'
  BY DEF Inv, Copies, RowLate, JobStarts, db, provState
<1>5. Machine'
  BY DEF Inv, Machine, NoLeakByDelete, DeletedSeen, JobStarts, db, provState, hist
<1>6. CacheFollows'
  BY DEF Inv, CacheFollows, Fresh, Exists, Listening, JobStarts, db, workerState
<1>7. ForgeFirst'
  BY DEF Inv, ForgeFirst, Going, Finished, RowLate, Seen, JobStarts, db, workerState,
         provState, hist
<1> QED
  BY <1>1, <1>2, <1>3, <1>4, <1>5, <1>6, <1>7 DEF Inv

\* The job ends, and the forge forgets the runner.
LEMMA JobEndsKeeps ==
  ASSUME Inv, JobEnds
  PROVE  Inv'
<1>1. TypeOK'
  BY ScaleSetRunnerAssumption
     DEF Inv, TypeOK, ForgeStates, JobEnds, db, workerState, provState, hist
<1>2. NothingYet'
  BY DEF Inv, NothingYet, JobEnds, db, workerState
<1>3. EventsTold'
  BY DEF Inv, EventsTold, RowLate, JobEnds, db
<1>4. Copies'
  BY DEF Inv, Copies, RowLate, JobEnds, db, provState
<1>5. Machine'
  BY DEF Inv, Machine, NoLeakByDelete, DeletedSeen, JobEnds, db, provState, hist
<1>6. CacheFollows'
  BY DEF Inv, CacheFollows, Fresh, Exists, Listening, JobEnds, db, workerState
<1>7. ForgeFirst'
  BY DEF Inv, ForgeFirst, Finished, RowLate, JobEnds, db, workerState, provState, hist
<1> QED
  BY <1>1, <1>2, <1>3, <1>4, <1>5, <1>6, <1>7 DEF Inv

\* Runner.DeleteRunner asks the forge first.
LEMMA ApiRemoveKeeps ==
  ASSUME Inv, ApiRemove
  PROVE  Inv'
<1>1. TypeOK'
  <2>1. TypeOK
    BY DEF Inv
  <2>2. /\ UNCHANGED <<row, wev, pev, missed, prov, msgs, cache, wpc, seen, lock, entry, mgr,
                       up, forced, failed, kept>>
        /\ api' \in {"idle", "pending_delete", "pending_force_delete"}
        /\ forge' \in {forge, "absent"} /\ bypassed' \in {bypassed, TRUE}
        /\ calls' = calls + 1 /\ calls < MaxApi
        /\ faults' = faults \/ (faults' = faults + 1 /\ faults + calls < MaxFaults)
    BY DEF ApiRemove, ForgeRemoves, ForgeRefuses, Fails, MayDisturb, Works, db, workerState,
           provState
  <2>3. calls' \in 0..MaxApi /\ faults' \in 0..MaxFaults
    BY <2>1, <2>2, ScaleSetRunnerAssumption DEF TypeOK
  <2>4. bypassed' \in BOOLEAN
    BY <2>1, <2>2, Zenon DEF TypeOK
  <2> QED
    BY <2>1, <2>2, <2>3, <2>4 DEF TypeOK, ForgeStates
<1>2. NothingYet'
  BY DEF Inv, NothingYet, ApiRemove, db, workerState
<1>3. EventsTold'
  BY DEF Inv, EventsTold, RowLate, ApiRemove, db
<1>4. Copies'
  BY DEF Inv, Copies, RowLate, ApiRemove, db, provState
<1>5. Machine'
  BY DEF Inv, Machine, NoLeakByDelete, DeletedSeen, ApiRemove, db, provState, hist
<1>6. CacheFollows'
  BY DEF Inv, CacheFollows, Fresh, Exists, Listening, ApiRemove, db, workerState
<1>7. ForgeFirst'
  BY DEF Inv, ForgeFirst, Going, Finished, RowLate, ApiRemove, ForgeRemoves, ForgeRefuses,
         db, workerState, provState, hist
<1> QED
  BY <1>1, <1>2, <1>3, <1>4, <1>5, <1>6, <1>7 DEF Inv

\* handleScaleUp has the runner registered before there is a row.
LEMMA ScaleUpRegisterKeeps ==
  ASSUME Inv, ScaleUpRegister
  PROVE  Inv'
<1>1. TypeOK'
  BY ScaleSetRunnerAssumption
     DEF Inv, TypeOK, ForgeStates, WorkerSteps, ScaleUpRegister, WorkerGoto, db, provState,
         hist
<1>2. NothingYet'
  BY DEF Inv, NothingYet, ScaleUpRegister, WorkerGoto, db, provState
<1>3. EventsTold'
  BY DEF Inv, EventsTold, RowLate, ScaleUpRegister, db
<1>4. Copies'
  BY DEF Inv, Copies, RowLate, ScaleUpRegister, db, provState
<1>5. Machine'
  BY DEF Inv, Machine, NoLeakByDelete, NothingYet, ScaleUpRegister, provState
<1>6. CacheFollows'
  BY DEF Inv, CacheFollows, Fresh, Exists, Listening, StartSteps, ScaleUpRegister,
         WorkerGoto, db
<1>7. ForgeFirst'
  BY DEF Inv, ForgeFirst, Going, RowLate, Seen, NothingYet, ScaleUpRegister, WorkerGoto, db,
         provState, hist, Late, DeletionLane
<1> QED
  BY <1>1, <1>2, <1>3, <1>4, <1>5, <1>6, <1>7 DEF Inv

\* handleScaleDown asks the forge first.
LEMMA ScaleDownKeeps ==
  ASSUME Inv, ScaleDown
  PROVE  Inv'
<1>1. TypeOK'
  BY ScaleSetRunnerAssumption
     DEF Inv, TypeOK, ForgeStates, WorkerSteps, ScaleDown, ForgeRemoves, ForgeRefuses,
         Fails, MayDisturb, Works, WorkerGoto, db, provState, hist
<1>2. NothingYet'
  BY DEF Inv, NothingYet, NoRow, ScaleDown, WorkerGoto, db
<1>3. EventsTold'
  BY DEF Inv, EventsTold, RowLate, ScaleDown, db
<1>4. Copies'
  BY DEF Inv, Copies, RowLate, ScaleDown, db, provState
<1>5. Machine'
  BY DEF Inv, Machine, NoLeakByDelete, DeletedSeen, ScaleDown, db, provState, hist
<1>6. CacheFollows'
  BY DEF Inv, CacheFollows, Fresh, Exists, Listening, StartSteps, ScaleDown, WorkerGoto, db
<1>7. ForgeFirst'
  BY DEF Inv, ForgeFirst, Going, Finished, RowLate, ScaleDown, ForgeRemoves, ForgeRefuses,
         WorkerGoto, db, provState, hist
<1> QED
  BY <1>1, <1>2, <1>3, <1>4, <1>5, <1>6, <1>7 DEF Inv

\* The entity worker lists the runners of the forge.
LEMMA ListRunnersKeeps ==
  ASSUME Inv, ListRunners
  PROVE  Inv'
<1>1. TypeOK'
  BY ScaleSetRunnerAssumption DEF Inv, TypeOK, ListRunners, db, outside, provState, hist
<1>2. NothingYet'
  BY DEF Inv, NothingYet, ListRunners, db, outside, provState
<1>3. EventsTold'
  BY DEF Inv, EventsTold, RowLate, ListRunners, db
<1>4. Copies'
  BY DEF Inv, Copies, RowLate, ListRunners, db, provState
<1>5. Machine'
  BY DEF Inv, Machine, NoLeakByDelete, DeletedSeen, ListRunners, db, outside, provState,
         hist
<1>6. CacheFollows'
  BY DEF Inv, CacheFollows, Fresh, Exists, Listening, ListRunners, db
<1>7. ForgeFirst'
  BY DEF Inv, ForgeFirst, Going, Finished, RowLate, ListRunners, db, outside, provState,
         hist
<1> QED
  BY <1>1, <1>2, <1>3, <1>4, <1>5, <1>6, <1>7 DEF Inv

\* A runner of the forge that the cache does not know is removed there.
LEMMA ConsolidateUnknownKeeps ==
  ASSUME Inv, ConsolidateUnknown
  PROVE  Inv'
<1>1. TypeOK'
  BY ScaleSetRunnerAssumption
     DEF Inv, TypeOK, ForgeStates, WorkerSteps, ConsolidateUnknown, ForgeRemoves,
         ForgeRefuses, Fails, MayDisturb, Works, WorkerGoto, db, provState, hist
<1>2. NothingYet'
  BY DEF Inv, NothingYet, ConsolidateUnknown, ForgeRemoves, ForgeRefuses, WorkerGoto, db,
         provState
<1>3. EventsTold'
  BY DEF Inv, EventsTold, RowLate, ConsolidateUnknown, db
<1>4. Copies'
  BY DEF Inv, Copies, RowLate, ConsolidateUnknown, db, provState
<1>5. Machine'
  BY DEF Inv, Machine, NoLeakByDelete, DeletedSeen, ConsolidateUnknown, db, provState, hist
<1>6. CacheFollows'
  BY DEF Inv, CacheFollows, Fresh, Exists, Listening, StartSteps, ConsolidateUnknown,
         WorkerGoto, db
<1>7. ForgeFirst'
  BY DEF Inv, ForgeFirst, Going, Finished, RowLate, ConsolidateUnknown, ForgeRemoves,
         ForgeRefuses, WorkerGoto, db, provState, hist
<1> QED
  BY <1>1, <1>2, <1>3, <1>4, <1>5, <1>6, <1>7 DEF Inv

\* A runner that did not come up in time, or failed, is removed at the forge.
LEMMA ConsolidateRemoveKeeps ==
  ASSUME Inv, ConsolidateRemove
  PROVE  Inv'
<1>1. TypeOK'
  BY ScaleSetRunnerAssumption
     DEF Inv, TypeOK, ForgeStates, WorkerSteps, ConsolidateRemove, ForgeRemoves,
         ForgeRefuses, Fails, MayDisturb, Works, WorkerGoto, db, provState, hist
<1>2. NothingYet'
  BY DEF Inv, NothingYet, ConsolidateRemove, WorkerGoto, db
<1>3. EventsTold'
  BY DEF Inv, EventsTold, RowLate, ConsolidateRemove, db
<1>4. Copies'
  BY DEF Inv, Copies, RowLate, ConsolidateRemove, db, provState
<1>5. Machine'
  BY DEF Inv, Machine, NoLeakByDelete, DeletedSeen, ConsolidateRemove, db, provState, hist
<1>6. CacheFollows'
  BY DEF Inv, CacheFollows, Fresh, Exists, Listening, StartSteps, ConsolidateRemove,
         WorkerGoto, db
<1>7. ForgeFirst'
  BY DEF Inv, ForgeFirst, Going, Finished, RowLate, ConsolidateRemove, ForgeRemoves,
         ForgeRefuses, WorkerGoto, db, provState, hist
<1> QED
  BY <1>1, <1>2, <1>3, <1>4, <1>5, <1>6, <1>7 DEF Inv

\* A runner that is fine is left alone.
LEMMA ConsolidateSkipKeeps ==
  ASSUME Inv, ConsolidateSkip
  PROVE  Inv'
<1>1. TypeOK'
  BY ScaleSetRunnerAssumption
     DEF Inv, TypeOK, WorkerSteps, ConsolidateSkip, WorkerGoto, db, outside, provState, hist
<1>2. NothingYet'
  BY DEF Inv, NothingYet, ConsolidateSkip, WorkerGoto, db, outside, provState
<1>3. EventsTold'
  BY DEF Inv, EventsTold, RowLate, ConsolidateSkip, db
<1>4. Copies'
  BY DEF Inv, Copies, RowLate, ConsolidateSkip, db, provState
<1>5. Machine'
  BY DEF Inv, Machine, NoLeakByDelete, DeletedSeen, ConsolidateSkip, db, outside, provState,
         hist
<1>6. CacheFollows'
  BY DEF Inv, CacheFollows, Fresh, Exists, Listening, StartSteps, ConsolidateSkip,
         WorkerGoto, db
<1>7. ForgeFirst'
  BY DEF Inv, ForgeFirst, Going, Finished, RowLate, ConsolidateSkip, WorkerGoto, db,
         outside, provState, hist
<1> QED
  BY <1>1, <1>2, <1>3, <1>4, <1>5, <1>6, <1>7 DEF Inv

\* consolidateProviderState lists the machines.
LEMMA ProviderListKeeps ==
  ASSUME Inv, ProviderList
  PROVE  Inv'
<1>1. TypeOK'
  BY ScaleSetRunnerAssumption
     DEF Inv, TypeOK, ForgeStates, WorkerSteps, ProviderList, Fails, MayDisturb, Works, WorkerGoto,
         EndPass, Unlock, db, outside, provState, hist
<1>2. NothingYet'
  BY DEF Inv, NothingYet, ProviderList, WorkerGoto, EndPass, db, outside, provState
<1>3. EventsTold'
  BY DEF Inv, EventsTold, RowLate, ProviderList, db
<1>4. Copies'
  BY DEF Inv, Copies, RowLate, ProviderList, db, provState
<1>5. Machine'
  BY DEF Inv, Machine, NoLeakByDelete, DeletedSeen, ProviderList, db, outside, provState,
         hist
<1>6. CacheFollows'
  BY DEF Inv, CacheFollows, Fresh, Exists, Listening, StartSteps, ProviderList, WorkerGoto,
         EndPass, db
<1>7. ForgeFirst'
  BY DEF Inv, ForgeFirst, Going, Finished, RowLate, ProviderList, WorkerGoto, EndPass, db,
         outside, provState, hist
<1> QED
  BY <1>1, <1>2, <1>3, <1>4, <1>5, <1>6, <1>7 DEF Inv

\* A machine without a row is deleted, a row without a machine is removed at the forge.
LEMMA ProviderJudgeKeeps ==
  ASSUME Inv, ProviderJudge
  PROVE  Inv'
<1>1. TypeOK'
  BY ScaleSetRunnerAssumption
     DEF Inv, TypeOK, WorkerSteps, ProviderJudge, ForgeRemoves, ForgeRefuses, Fails,
         MayDisturb, Works, WorkerGoto, EndPass, Unlock, db, provState, hist
<1>2. NothingYet'
  BY DEF Inv, NothingYet, ProviderJudge, WorkerGoto, EndPass, db, provState
<1>3. EventsTold'
  BY DEF Inv, EventsTold, RowLate, ProviderJudge, db
<1>4. Copies'
  BY DEF Inv, Copies, RowLate, ProviderJudge, db, provState
<1>5. Machine'
  BY DEF Inv, Machine, NoLeakByDelete, DeletedSeen, ProviderJudge, db, provState, hist
<1>6. CacheFollows'
  BY DEF Inv, CacheFollows, Fresh, Exists, Listening, StartSteps, ProviderJudge, WorkerGoto,
         EndPass, db
<1>7. ForgeFirst'
  BY DEF Inv, ForgeFirst, Going, Finished, RowLate, ProviderJudge, ForgeRemoves,
         ForgeRefuses, WorkerGoto, EndPass, db, provState, hist
<1> QED
  BY <1>1, <1>2, <1>3, <1>4, <1>5, <1>6, <1>7 DEF Inv

\* Worker.Start registers its consumer after it has read the rows.
LEMMA StartRegisterKeeps ==
  ASSUME Inv, StartRegister
  PROVE  Inv'
<1>1. TypeOK'
  BY ScaleSetRunnerAssumption
     DEF Inv, TypeOK, WorkerSteps, StartRegister, WorkerGoto, Works, Fails, MayDisturb, db,
         outside, provState, hist
<1>2. NothingYet'
  BY DEF Inv, NothingYet, StartRegister, WorkerGoto, db, outside, provState
<1>3. EventsTold'
  BY DEF Inv, EventsTold, RowLate, StartRegister, db
<1>4. Copies'
  BY DEF Inv, Copies, RowLate, StartRegister, db, provState
<1>5. Machine'
  BY DEF Inv, Machine, NoLeakByDelete, DeletedSeen, StartRegister, db, outside, provState,
         hist
<1>6. CacheFollows'
  BY DEF Inv, CacheFollows, Fresh, Exists, Listening, StartSteps, StartRegister, WorkerGoto,
         db
<1>7. ForgeFirst'
  BY DEF Inv, ForgeFirst, Going, Finished, RowLate, StartRegister, WorkerGoto, db, outside,
         provState, hist
<1> QED
  BY <1>1, <1>2, <1>3, <1>4, <1>5, <1>6, <1>7 DEF Inv

\* Worker.Start removes the runner of an interrupted create at the forge.
LEMMA StartRemoveKeeps ==
  ASSUME Inv, StartRemove
  PROVE  Inv'
<1>1. TypeOK /\ row.status # "none"
  BY DEF Inv, NothingYet, StartRemove
<1>2. /\ UNCHANGED <<row, wev, pev, missed, prov, msgs, cache, seen, entry, mgr, api, up,
                     calls, forced, bypassed, failed>>
      /\ wpc = "start" /\ wpc' \in {"start_force", "start_get", "register", "down"}
      /\ wpc' \in {"start_force", "start_get"} => UNCHANGED lock
      /\ lock' \in {lock, "free", "leaked"} /\ kept' \in {kept, TRUE}
      /\ forge' \in {forge, "absent"}
  BY DEF StartRemove, StartKeep, ForgeRemoves, ForgeRefuses, WorkerGoto, db, provState
<1>7. faults' \in 0..MaxFaults
  <2>1. faults' = faults \/ (faults' = faults + 1 /\ faults + calls < MaxFaults)
    BY DEF StartRemove, ForgeRemoves, ForgeRefuses, Fails, MayDisturb, Works
  <2> QED
    BY <1>1, <2>1, ScaleSetRunnerAssumption DEF TypeOK
<1>3. TypeOK'
  <2>1. kept' \in BOOLEAN
    BY <1>1, <1>2, Zenon DEF TypeOK
  <2> QED
    BY <1>1, <1>2, <1>7, <2>1 DEF TypeOK, ForgeStates, WorkerSteps, StartSteps
<1>4. NothingYet' /\ EventsTold' /\ Copies' /\ Machine'
  BY <1>1, <1>2
     DEF Inv, NothingYet, EventsTold, Copies, Machine, NoLeakByDelete, DeletedSeen, Seen,
         RowLate
<1>5. CacheFollows'
  BY <1>2 DEF Inv, CacheFollows, Listening, StartSteps, Fresh, Exists
<1>6. ForgeFirst'
  <2>1. lock = "worker" /\ row.status # "gone"
    BY <1>1, <1>2 DEF Inv, ForgeFirst
  <2>2. Going' => Finished'
    BY <1>2 DEF Inv, ForgeFirst, Going, Finished, Seen, RowLate
  <2> QED
    BY <1>2, <2>1, <2>2 DEF Inv, ForgeFirst
<1> QED
  BY <1>3, <1>4, <1>5, <1>6 DEF Inv

\* The create call of the provider, on the copy the manager has.
LEMMA ManagerCreateCallKeeps ==
  ASSUME Inv, ManagerCreateCall
  PROVE  Inv'
<1>1. TypeOK
  BY DEF Inv
<1>2. /\ mgr' \in Managers /\ mgr'.pc \in {"persist", "undo", "persist_error"}
      /\ mgr'.on = mgr.on /\ mgr'.inst = mgr.inst
      /\ failed' \in BOOLEAN /\ (failed \/ mgr'.pc # "persist" => failed')
  <2>1. /\ mgr' \in Managers /\ mgr'.pc \in {"persist", "undo", "persist_error"}
        /\ mgr'.on = mgr.on /\ mgr'.inst = mgr.inst
    BY <1>1, GotoFields DEF ManagerCreateCall, ManagerSteps
  <2>2. failed' = (failed \/ mgr'.pc # "persist") /\ failed \in BOOLEAN
    BY <1>1 DEF ManagerCreateCall, TypeOK
  <2> QED
    BY <2>1, <2>2
<1>3. TypeOK'
  BY <1>2, ScaleSetRunnerAssumption
     DEF Inv, TypeOK, Managers, ManagerCreateCall, Fails, MayDisturb, Works, ByManager, db, workerState
<1>4. NothingYet'
  BY <1>2
     DEF Inv, NothingYet, NoManager, ManagerCreateCall, ManagerAt, ByManager, db,
         workerState
<1>5. EventsTold'
  BY <1>2 DEF Inv, EventsTold, RowLate, ManagerCreateCall, db
<1>6. Copies'
  BY <1>2 DEF Inv, Copies, RowLate, ManagerCreateCall, ByManager, db
<1>7. Machine'
  BY <1>2
     DEF Inv, Machine, NoLeakByDelete, DeletedSeen, Removed, ManagerCreateCall, ManagerAt,
         db
<1>8. CacheFollows'
  BY <1>2
     DEF Inv, CacheFollows, Fresh, Exists, Listening, ManagerCreateCall, ByManager, db,
         workerState
<1>9. ForgeFirst'
  BY <1>2
     DEF Inv, ForgeFirst, Going, Finished, RowLate, ManagerCreateCall, ManagerAt, ByManager,
         db, workerState, Machine, Removed
<1> QED
  BY <1>3, <1>4, <1>5, <1>6, <1>7, <1>8, <1>9 DEF Inv

\* The machine of a failed create is deleted again.
LEMMA ManagerUndoKeeps ==
  ASSUME Inv, ManagerUndo
  PROVE  Inv'
<1>1. TypeOK
  BY DEF Inv
<1>2. /\ mgr' \in Managers /\ mgr'.pc \in {"fail", "idle"}
      /\ mgr'.on = mgr.on /\ mgr'.inst = mgr.inst
  BY <1>1, GotoFields DEF ManagerUndo, ManagerSteps
<1>3. TypeOK'
  BY <1>2, ScaleSetRunnerAssumption
     DEF Inv, TypeOK, Managers, ManagerUndo, Fails, MayDisturb, Works, ByManager, db, workerState, hist
<1>4. NothingYet'
  BY <1>2 DEF Inv, NothingYet, NoManager, ManagerUndo, ManagerAt, ByManager, db, workerState
<1>5. EventsTold'
  BY <1>2 DEF Inv, EventsTold, RowLate, ManagerUndo, db
<1>6. Copies'
  BY <1>2 DEF Inv, Copies, RowLate, ManagerUndo, ByManager, db
<1>7. Machine'
  BY <1>2 DEF Inv, Machine, NoLeakByDelete, DeletedSeen, ManagerUndo, db, hist
<1>8. CacheFollows'
  BY <1>2
     DEF Inv, CacheFollows, Fresh, Exists, Listening, ManagerUndo, ByManager, db,
         workerState
<1>9. ForgeFirst'
  BY <1>2
     DEF Inv, ForgeFirst, Going, Finished, RowLate, ManagerUndo, ByManager, db, workerState,
         hist
<1> QED
  BY <1>3, <1>4, <1>5, <1>6, <1>7, <1>8, <1>9 DEF Inv

\* The manager waits before it deletes.
LEMMA ManagerBackoffKeeps ==
  ASSUME Inv, ManagerBackoff
  PROVE  Inv'
<1>1. TypeOK
  BY DEF Inv
<1>2. /\ mgr' \in Managers /\ mgr'.pc = "backoff"
      /\ mgr'.on = mgr.on /\ mgr'.inst = mgr.inst
  BY <1>1 DEF ManagerBackoff, ManagerSteps, TypeOK, Managers
<1>3. TypeOK'
  BY <1>2, ScaleSetRunnerAssumption
     DEF Inv, TypeOK, Managers, ManagerBackoff, ByManager, db, workerState, hist
<1>4. NothingYet'
  BY <1>2 DEF Inv, NothingYet, NoManager, NoRow, ManagerBackoff, ByManager, db, workerState
<1>5. EventsTold'
  BY <1>2 DEF Inv, EventsTold, RowLate, ManagerBackoff, db
<1>6. Copies'
  BY <1>2 DEF Inv, Copies, RowLate, ManagerBackoff, db, Late, DeletionLane
<1>7. Machine'
  BY <1>2 DEF Inv, Machine, NoLeakByDelete, DeletedSeen, ManagerBackoff, db, hist
<1>8. CacheFollows'
  BY <1>2
     DEF Inv, CacheFollows, Fresh, Exists, Listening, ManagerBackoff, ByManager, db,
         workerState
<1>9. ForgeFirst'
  BY <1>2
     DEF Inv, ForgeFirst, Going, Finished, RowLate, ManagerBackoff, ByManager, db,
         workerState, hist
<1> QED
  BY <1>3, <1>4, <1>5, <1>6, <1>7, <1>8, <1>9 DEF Inv

\* The delete call of the provider, on the copy the manager has.
LEMMA ManagerDeleteCallKeeps ==
  ASSUME Inv, ManagerDeleteCall
  PROVE  Inv'
<1>1. TypeOK
  BY DEF Inv
<1>2. /\ mgr' \in Managers /\ mgr'.pc \in {"deleted", "restore"}
      /\ mgr'.on = mgr.on /\ mgr'.inst = mgr.inst
      /\ forced' \in BOOLEAN /\ (forced => forced')
      /\ mgr'.pc = "deleted" => forced' \/ prov' = "absent"
      /\ prov' \in {prov, "absent"}
  <2>1. /\ mgr' \in Managers /\ mgr'.pc \in {"deleted", "restore"}
        /\ mgr'.on = mgr.on /\ mgr'.inst = mgr.inst
    BY <1>1, GotoFields DEF ManagerDeleteCall, ManagerSteps
  <2>2. CASE prov' = "absent" /\ UNCHANGED forced
    BY <1>1, <2>1, <2>2 DEF TypeOK
  <2>3. CASE /\ UNCHANGED prov
             /\ forced' = (forced \/ mgr.snap.status = "pending_force_delete")
             /\ Goto(IF mgr.snap.status = "pending_force_delete" THEN "deleted" ELSE "restore")
    <3>1. mgr'.pc = "deleted" => mgr.snap.status = "pending_force_delete"
      BY <1>1, <2>3, GotoFields DEF ManagerSteps
    <3>2. forced \in BOOLEAN
      BY <1>1 DEF TypeOK
    <3> QED
      BY <2>1, <2>3, <3>1, <3>2
  <2> QED
    BY <2>2, <2>3 DEF ManagerDeleteCall
<1>3. TypeOK'
  BY <1>2, ScaleSetRunnerAssumption
     DEF Inv, TypeOK, Managers, ManagerDeleteCall, Fails, MayDisturb, Works, ByManager, db, workerState
<1>4. NothingYet'
  BY <1>2
     DEF Inv, NothingYet, NoManager, ManagerDeleteCall, ManagerAt, ByManager, db,
         workerState
<1>5. EventsTold'
  BY <1>2 DEF Inv, EventsTold, RowLate, ManagerDeleteCall, db
<1>6. Copies'
  BY <1>2 DEF Inv, Copies, RowLate, ManagerDeleteCall, ManagerAt, db
<1>7. Machine'
  BY <1>2 DEF Inv, Machine, NoLeakByDelete, DeletedSeen, ManagerDeleteCall, db
<1>8. CacheFollows'
  BY <1>2
     DEF Inv, CacheFollows, Fresh, Exists, Listening, ManagerDeleteCall, ByManager, db,
         workerState
<1>9. ForgeFirst'
  BY <1>2
     DEF Inv, ForgeFirst, Going, Finished, RowLate, ManagerDeleteCall, ByManager, db,
         workerState
<1> QED
  BY <1>3, <1>4, <1>5, <1>6, <1>7, <1>8, <1>9 DEF Inv

\* retryFailedRunners drops an entry without manager, or starts its manager again.
LEMMA RetryFailedRunnerKeeps ==
  ASSUME Inv, RetryFailedRunner
  PROVE  Inv'
<1>1. TypeOK
  BY DEF Inv
<1>2. /\ mgr' \in Managers /\ mgr'.pc = "idle" /\ mgr'.inst = mgr.inst
      /\ mgr'.on => entry' # NoRow
      /\ entry' \in RunnerRows
  <2>1. CASE entry' = NoRow /\ UNCHANGED mgr
    BY <1>1, <2>1, NoRowFields DEF RetryFailedRunner, TypeOK, Managers, ManagerAt
  <2>2. CASE mgr' = [mgr EXCEPT !.on = TRUE] /\ UNCHANGED entry
    BY <1>1, <2>2 DEF RetryFailedRunner, TypeOK, Managers, ManagerAt
  <2> QED
    BY <2>1, <2>2 DEF RetryFailedRunner
<1>3. TypeOK'
  BY <1>2, ScaleSetRunnerAssumption, ZenonT(60)
     DEF Inv, TypeOK, RetryFailedRunner, db, outside, workerState, hist
<1>4. NothingYet'
  BY <1>2 DEF Inv, NothingYet, RetryFailedRunner, db, workerState
<1>5. EventsTold'
  BY <1>2 DEF Inv, EventsTold, RowLate, RetryFailedRunner, db
<1>6. Copies'
  BY <1>2 DEF Inv, Copies, RowLate, RetryFailedRunner, db, Late, DeletionLane
<1>7. Machine'
  BY <1>2
     DEF Inv, Machine, NoLeakByDelete, DeletedSeen, RetryFailedRunner, db, outside, hist
<1>8. CacheFollows'
  BY <1>2
     DEF Inv, CacheFollows, Fresh, Exists, Listening, RetryFailedRunner, db, workerState
<1>9. ForgeFirst'
  BY <1>2
     DEF Inv, ForgeFirst, Going, Finished, RowLate, RetryFailedRunner, db, outside,
         workerState, hist
<1> QED
  BY <1>3, <1>4, <1>5, <1>6, <1>7, <1>8, <1>9 DEF Inv

\* The provider worker starts with the rows it finds.
LEMMA BootKeeps ==
  ASSUME Inv, Boot
  PROVE  Inv'
<1>1. TypeOK
  BY DEF Inv
<1>2. \/ /\ Exists /\ entry' = row /\ mgr'.inst = row /\ mgr'.on = TRUE
         /\ mgr' \in Managers /\ mgr'.pc = "idle"
      \/ UNCHANGED provState
  <2>1. CASE Exists /\ row.status \notin {"creating", "deleting", "deleted"}
    <3> DEFINE m == [NoManager EXCEPT !.on = TRUE, !.inst = row]
    <3>1. entry' = row /\ mgr' = m
      BY <2>1 DEF Boot
    <3>2. m \in Managers /\ m.on = TRUE /\ m.inst = row /\ m.pc = "idle"
      BY <1>1, NoManagerFields DEF TypeOK
    <3> HIDE DEF m
    <3> QED
      BY <2>1, <3>1, <3>2
  <2> QED
    BY <2>1 DEF Boot
<1>3. TypeOK'
  BY <1>2, ScaleSetRunnerAssumption
     DEF Inv, TypeOK, NoRow, Managers, Boot, db, outside, workerState, provState, hist,
         Exists
<1>4. NothingYet'
  BY <1>2 DEF Inv, NothingYet, Boot, db, outside, workerState, provState, Exists
<1>5. EventsTold'
  BY <1>2 DEF Inv, EventsTold, RowLate, Boot, db
<1>6. Copies'
  BY <1>2 DEF Inv, Copies, RowLate, Boot, db, provState
<1>7. Machine'
  BY <1>2 DEF Inv, Machine, NoLeakByDelete, DeletedSeen, Boot, db, outside, provState, hist
<1>8. CacheFollows'
  BY <1>2 DEF Inv, CacheFollows, Fresh, Exists, Listening, Boot, db, workerState
<1>9. ForgeFirst'
  BY <1>2
     DEF Inv, ForgeFirst, Going, Finished, RowLate, Boot, db, outside, workerState,
         provState, hist
<1> QED
  BY <1>3, <1>4, <1>5, <1>6, <1>7, <1>8, <1>9 DEF Inv

\* The runner comes up, and its callback writes the row.
LEMMA RunnerBootsKeeps ==
  ASSUME Inv, RunnerBoots
  PROVE  Inv'
<1>1. TypeOK /\ row.status \in Early \cup Late
  BY DEF Inv, EventsTold
<1>2. (UNCHANGED db) \/ (Exists /\ Wrote(row.status))
  BY <1>1, Writes, AcceptedFrom, StatusValues DEF RunnerBoots
<1>3. CASE UNCHANGED db
  <2>1. TypeOK'
    BY <1>3, ScaleSetRunnerAssumption
       DEF Inv, TypeOK, ForgeStates, RunnerBoots, db, workerState, provState, hist
  <2>2. NothingYet'
    BY <1>3 DEF Inv, NothingYet, RunnerBoots, db, workerState
  <2>3. EventsTold'
    BY <1>3 DEF Inv, EventsTold, RowLate, db
  <2>4. Copies'
    BY <1>3 DEF Inv, Copies, RowLate, RunnerBoots, db, provState
  <2>5. Machine'
    BY <1>3 DEF Inv, Machine, NoLeakByDelete, DeletedSeen, RunnerBoots, db, provState, hist
  <2>6. CacheFollows'
    BY <1>3 DEF Inv, CacheFollows, Fresh, Exists, Listening, RunnerBoots, db, workerState
  <2>7. ForgeFirst'
    BY <1>3
       DEF Inv, ForgeFirst, Going, Finished, RowLate, RunnerBoots, db, workerState,
           provState, hist
  <2> QED
    BY <2>1, <2>2, <2>3, <2>4, <2>5, <2>6, <2>7 DEF Inv
<1>4. CASE Exists /\ Wrote(row.status)
  <2>1. /\ NothingYet' /\ EventsTold' /\ CacheFollows'
        /\ row' \in RunnerRows /\ row'.status = row.status /\ row'.status # "none"
        /\ wev' \in Seq(RunnerRows) /\ pev' \in Seq(RunnerRows) /\ missed' \in BOOLEAN
        /\ (RowLate => RowLate') /\ (row.status = "deleted" => row.status = "deleted")
        /\ (row.status # "deleted" => (DeletedSeen' => DeletedSeen))
    BY <1>1, <1>4, CommitKeeps DEF Inv, RunnerBoots, workerState, RowLate, NothingYet
  <2>2. TypeOK'
    BY <1>4, <2>1, ScaleSetRunnerAssumption
       DEF Inv, TypeOK, ForgeStates, RunnerBoots, workerState, provState, hist
  <2>3. Copies'
    BY <1>4, <2>1 DEF Inv, Copies, RunnerBoots, provState
  <2>4. Machine'
    BY <1>4, <2>1 DEF Inv, Machine, NoLeakByDelete, Removed, RunnerBoots, provState, hist
  <2>5. ForgeFirst'
    BY <1>4, <2>1
       DEF Inv, ForgeFirst, Going, Finished, RowLate, RunnerBoots, workerState, provState,
           hist
  <2> QED
    BY <2>1, <2>2, <2>3, <2>4, <2>5 DEF Inv
<1> QED
  BY <1>2, <1>3, <1>4

\* The message that a job has started makes the runner active.
LEMMA HandleJobsStartedKeeps ==
  ASSUME Inv, HandleJobsStarted
  PROVE  Inv'
<1>1. TypeOK /\ row.status \in Early \cup Late
  BY DEF Inv, EventsTold
<1>2. (UNCHANGED db) \/ (Exists /\ Wrote(row.status))
  BY <1>1, Writes, AcceptedFrom, StatusValues DEF HandleJobsStarted
<1>3. /\ msgs' \in Seq({"started", "completed"})
      /\ Seen(msgs)' \subseteq Seen(msgs) /\ Head(msgs) \in Seen(msgs)
      /\ faults' \in 0..MaxFaults
  <2>1. msgs \in Seq({"started", "completed"}) /\ msgs # <<>>
    BY <1>1 DEF TypeOK, HandleJobsStarted
  <2> DEFINE t == Tail(msgs)
             h == Head(msgs)
  <2>2. h \in Seen(msgs) /\ t \in Seq({"started", "completed"}) /\ Seen(t) \subseteq Seen(msgs)
    BY <2>1, SeenTail
  <2>3. msgs' = t \/ msgs' = msgs
    BY DEF Handled, HandleJobsStarted
  <2>4. Seen(msgs)' = Seen(msgs')
    OBVIOUS
  <2>5. faults' \in 0..MaxFaults
    BY <1>1, ScaleSetRunnerAssumption DEF Handled, Works, TypeOK, HandleJobsStarted
  <2> HIDE DEF t
  <2> QED
    BY <2>1, <2>2, <2>3, <2>4, <2>5
<1>4. CASE UNCHANGED db
  <2>1. TypeOK'
    BY <1>4, <1>3, ScaleSetRunnerAssumption
       DEF Inv, TypeOK, HandleJobsStarted, db, workerState, provState, hist
  <2>2. NothingYet'
    BY <1>4, <1>3 DEF Inv, NothingYet, HandleJobsStarted, db, workerState
  <2>3. EventsTold'
    BY <1>4, <1>3 DEF Inv, EventsTold, RowLate, db
  <2>4. Copies'
    BY <1>4, <1>3 DEF Inv, Copies, RowLate, HandleJobsStarted, db, provState
  <2>5. Machine'
    BY <1>4, <1>3
       DEF Inv, Machine, NoLeakByDelete, DeletedSeen, HandleJobsStarted, db, provState, hist
  <2>6. CacheFollows'
    BY <1>4, <1>3
       DEF Inv, CacheFollows, Fresh, Exists, Listening, HandleJobsStarted, db, workerState
  <2>7. ForgeFirst'
    BY <1>4, <1>3
       DEF Inv, ForgeFirst, Going, Finished, RowLate, HandleJobsStarted, db, workerState,
           provState, hist
  <2> QED
    BY <2>1, <2>2, <2>3, <2>4, <2>5, <2>6, <2>7 DEF Inv
<1>5. CASE Exists /\ Wrote(row.status)
  <2>1. /\ NothingYet' /\ EventsTold' /\ CacheFollows'
        /\ row' \in RunnerRows /\ row'.status = row.status /\ row'.status # "none"
        /\ wev' \in Seq(RunnerRows) /\ pev' \in Seq(RunnerRows) /\ missed' \in BOOLEAN
        /\ (RowLate => RowLate') /\ (row.status = "deleted" => row.status = "deleted")
        /\ (row.status # "deleted" => (DeletedSeen' => DeletedSeen))
    BY <1>1, <1>5, CommitKeeps DEF Inv, HandleJobsStarted, workerState, RowLate, NothingYet
  <2>2. TypeOK'
    BY <1>5, <2>1, <1>3, ScaleSetRunnerAssumption
       DEF Inv, TypeOK, HandleJobsStarted, workerState, provState, hist
  <2>3. Copies'
    BY <1>5, <2>1, <1>3 DEF Inv, Copies, HandleJobsStarted, provState
  <2>4. Machine'
    BY <1>5, <2>1, <1>3
       DEF Inv, Machine, NoLeakByDelete, Removed, HandleJobsStarted, provState, hist
  <2>5. ForgeFirst'
    BY <1>5, <2>1, <1>3
       DEF Inv, ForgeFirst, Going, Finished, RowLate, HandleJobsStarted, workerState,
           provState, hist
  <2> QED
    BY <2>1, <2>2, <2>3, <2>4, <2>5 DEF Inv
<1> QED
  BY <1>2, <1>4, <1>5

\* The message that a job is completed queues the row for deletion.
LEMMA HandleJobsCompletedKeeps ==
  ASSUME Inv, HandleJobsCompleted
  PROVE  Inv'
<1>1. TypeOK /\ row.status \in Early \cup Late
  BY DEF Inv, EventsTold
<1>2. (UNCHANGED db) \/ (Exists /\ Wrote("pending_delete"))
  BY <1>1, Writes, AcceptedFrom, StatusValues DEF HandleJobsCompleted, Accepts
<1>3. /\ msgs' \in Seq({"started", "completed"})
      /\ Seen(msgs)' \subseteq Seen(msgs) /\ Head(msgs) \in Seen(msgs)
      /\ faults' \in 0..MaxFaults
  <2>1. msgs \in Seq({"started", "completed"}) /\ msgs # <<>>
    BY <1>1 DEF TypeOK, HandleJobsCompleted
  <2> DEFINE t == Tail(msgs)
             h == Head(msgs)
  <2>2. h \in Seen(msgs) /\ t \in Seq({"started", "completed"}) /\ Seen(t) \subseteq Seen(msgs)
    BY <2>1, SeenTail
  <2>3. msgs' = t \/ msgs' = msgs
    BY DEF Handled, HandleJobsCompleted
  <2>4. Seen(msgs)' = Seen(msgs')
    OBVIOUS
  <2>5. faults' \in 0..MaxFaults
    BY <1>1, ScaleSetRunnerAssumption DEF Handled, Works, Fails, MayDisturb, TypeOK, HandleJobsCompleted
  <2> HIDE DEF t
  <2> QED
    BY <2>1, <2>2, <2>3, <2>4, <2>5
<1>4. CASE UNCHANGED db
  <2>1. TypeOK'
    BY <1>4, <1>3, ScaleSetRunnerAssumption
       DEF Inv, TypeOK, HandleJobsCompleted, db, workerState, provState, hist
  <2>2. NothingYet'
    BY <1>4, <1>3 DEF Inv, NothingYet, HandleJobsCompleted, db, workerState
  <2>3. EventsTold'
    BY <1>4, <1>3 DEF Inv, EventsTold, RowLate, db
  <2>4. Copies'
    BY <1>4, <1>3 DEF Inv, Copies, RowLate, HandleJobsCompleted, db, provState
  <2>5. Machine'
    BY <1>4, <1>3
       DEF Inv, Machine, NoLeakByDelete, DeletedSeen, HandleJobsCompleted, db, provState,
           hist
  <2>6. CacheFollows'
    BY <1>4, <1>3
       DEF Inv, CacheFollows, Fresh, Exists, Listening, HandleJobsCompleted, db, workerState
  <2>7. ForgeFirst'
    BY <1>4, <1>3
       DEF Inv, ForgeFirst, Going, Finished, RowLate, HandleJobsCompleted, db, workerState,
           provState, hist
  <2> QED
    BY <2>1, <2>2, <2>3, <2>4, <2>5, <2>6, <2>7 DEF Inv
<1>5. CASE Exists /\ Wrote("pending_delete")
  <2>1. /\ NothingYet' /\ EventsTold' /\ CacheFollows'
        /\ row' \in RunnerRows /\ row'.status = "pending_delete" /\ row'.status # "none"
        /\ wev' \in Seq(RunnerRows) /\ pev' \in Seq(RunnerRows) /\ missed' \in BOOLEAN
        /\ (RowLate => RowLate') /\ ("pending_delete" = "deleted" => row.status = "deleted")
        /\ ("pending_delete" # "deleted" => (DeletedSeen' => DeletedSeen))
    BY <1>1, <1>5, CommitKeeps
       DEF Inv, HandleJobsCompleted, workerState, RowLate, Late, NothingYet, DeletionLane
  <2>2. TypeOK'
    BY <1>5, <2>1, <1>3, ScaleSetRunnerAssumption
       DEF Inv, TypeOK, HandleJobsCompleted, workerState, provState, hist
  <2>3. Copies'
    BY <1>5, <2>1, <1>3 DEF Inv, Copies, HandleJobsCompleted, provState
  <2>4. Machine'
    BY <1>5, <2>1, <1>3
       DEF Inv, Machine, NoLeakByDelete, Removed, HandleJobsCompleted, provState, hist
  <2>5. ForgeFirst'
    BY <1>5, <2>1, <1>3
       DEF Inv, ForgeFirst, Going, Finished, RowLate, HandleJobsCompleted, workerState,
           provState, hist, Exists
  <2> QED
    BY <2>1, <2>2, <2>3, <2>4, <2>5 DEF Inv
<1> QED
  BY <1>2, <1>4, <1>5

\* Runner.DeleteRunner queues the row for deletion, after the forge.
LEMMA ApiMarkKeeps ==
  ASSUME Inv, ApiMark
  PROVE  Inv'
<1>1. TypeOK /\ row.status \in Early \cup Late
  BY DEF Inv, EventsTold
<1>2. (UNCHANGED db) \/ (Exists /\ Wrote(api))
  BY <1>1, Writes, AcceptedFrom, StatusValues DEF TypeOK, ApiMark, Accepts
<1>3. CASE UNCHANGED db
  <2>1. TypeOK'
    BY <1>3, ScaleSetRunnerAssumption
       DEF Inv, TypeOK, ApiMark, db, outside, workerState, provState, hist
  <2>2. NothingYet'
    BY <1>3 DEF Inv, NothingYet, ApiMark, db, workerState
  <2>3. EventsTold'
    BY <1>3 DEF Inv, EventsTold, RowLate, db
  <2>4. Copies'
    BY <1>3 DEF Inv, Copies, RowLate, ApiMark, db, provState
  <2>5. Machine'
    BY <1>3
       DEF Inv, Machine, NoLeakByDelete, DeletedSeen, ApiMark, db, outside, provState, hist
  <2>6. CacheFollows'
    BY <1>3 DEF Inv, CacheFollows, Fresh, Exists, Listening, ApiMark, db, workerState
  <2>7. ForgeFirst'
    BY <1>3
       DEF Inv, ForgeFirst, Going, Finished, RowLate, ApiMark, db, outside, workerState,
           provState, hist
  <2> QED
    BY <2>1, <2>2, <2>3, <2>4, <2>5, <2>6, <2>7 DEF Inv
<1>4. CASE Exists /\ Wrote(api)
  <2>1. /\ NothingYet' /\ EventsTold' /\ CacheFollows'
        /\ row' \in RunnerRows /\ row'.status = api /\ row'.status # "none"
        /\ wev' \in Seq(RunnerRows) /\ pev' \in Seq(RunnerRows) /\ missed' \in BOOLEAN
        /\ (RowLate => RowLate') /\ (api = "deleted" => row.status = "deleted")
        /\ (api # "deleted" => (DeletedSeen' => DeletedSeen))
    BY <1>1, <1>4, CommitKeeps
       DEF Inv, ApiMark, workerState, Late, NothingYet, DeletionLane, TypeOK
  <2>2. TypeOK'
    BY <1>4, <2>1, ScaleSetRunnerAssumption
       DEF Inv, TypeOK, ApiMark, outside, workerState, provState, hist
  <2>3. Copies'
    BY <1>4, <2>1 DEF Inv, Copies, ApiMark, provState
  <2>4. Machine'
    BY <1>4, <2>1
       DEF Inv, Machine, NoLeakByDelete, Removed, TypeOK, ApiMark, outside, provState, hist
  <2>5. ForgeFirst'
    BY <1>4, <2>1
       DEF Inv, TypeOK, ForgeFirst, Going, Finished, RowLate, ApiMark, outside, workerState,
           provState, hist, Exists
  <2> QED
    BY <2>1, <2>2, <2>3, <2>4, <2>5 DEF Inv
<1> QED
  BY <1>2, <1>3, <1>4

\* handleScaleDown queues the row for deletion, after the forge.
LEMMA ScaleDownMarkKeeps ==
  ASSUME Inv, ScaleDownMark
  PROVE  Inv'
<1>1. TypeOK /\ row.status \in Early \cup Late
  BY DEF Inv, EventsTold
<1>2. (~Accepts("pending_delete") /\ UNCHANGED db) \/ (Exists /\ Wrote("pending_delete"))
  BY <1>1, Writes, AcceptedFrom, StatusValues
     DEF ScaleDownMark, MarkPendingDelete, Accepts, StartSteps
<1>3. CASE ~Accepts("pending_delete") /\ UNCHANGED db
  <2>1. TypeOK'
    BY <1>3, ScaleSetRunnerAssumption, NoRowFields
       DEF Inv, TypeOK, WorkerSteps, ScaleDownMark, MarkPendingDelete, WorkerGoto, db,
           outside, provState, hist
  <2>2. NothingYet'
    BY <1>3, NoRowFields
       DEF Inv, NothingYet, ScaleDownMark, MarkPendingDelete, WorkerGoto, db, outside,
           provState
  <2>3. EventsTold'
    BY <1>3, NoRowFields DEF Inv, EventsTold, RowLate, db
  <2>4. Copies'
    BY <1>3, NoRowFields DEF Inv, Copies, RowLate, ScaleDownMark, db, provState
  <2>5. Machine'
    BY <1>3, NoRowFields
       DEF Inv, Machine, NoLeakByDelete, DeletedSeen, ScaleDownMark, db, outside, provState,
           hist
  <2>6. CacheFollows'
    BY <1>3, NoRowFields
       DEF Inv, CacheFollows, Fresh, Exists, Listening, StartSteps, ScaleDownMark,
           MarkPendingDelete, WorkerGoto, db
  <2>7. ForgeFirst'
    BY <1>3, NoRowFields
       DEF Inv, ForgeFirst, Going, Finished, ScaleDownMark, MarkPendingDelete, WorkerGoto,
           db, outside, provState, hist, Exists, Late
  <2> QED
    BY <2>1, <2>2, <2>3, <2>4, <2>5, <2>6, <2>7 DEF Inv
<1>4. CASE Exists /\ Wrote("pending_delete")
  <2>1. /\ NothingYet' /\ EventsTold' /\ CacheFollows'
        /\ row' \in RunnerRows /\ row'.status = "pending_delete" /\ row'.status # "none"
        /\ wev' \in Seq(RunnerRows) /\ pev' \in Seq(RunnerRows) /\ missed' \in BOOLEAN
        /\ (RowLate => RowLate') /\ ("pending_delete" = "deleted" => row.status = "deleted")
        /\ ("pending_delete" # "deleted" => (DeletedSeen' => DeletedSeen))
    BY <1>1, <1>4, CommitKeeps
       DEF Inv, ScaleDownMark, RowLate, Late, Listening, StartSteps, DeletionLane,
           WorkerGoto
  <2>2. TypeOK'
    BY <1>4, <2>1, ScaleSetRunnerAssumption
       DEF Inv, TypeOK, WorkerSteps, ScaleDownMark, MarkPendingDelete, WorkerGoto, outside,
           provState, hist
  <2>3. Copies'
    BY <1>4, <2>1 DEF Inv, Copies, ScaleDownMark, provState
  <2>4. Machine'
    BY <1>4, <2>1
       DEF Inv, Machine, NoLeakByDelete, Removed, ScaleDownMark, outside, provState, hist
  <2>5. ForgeFirst'
    BY <1>4, <2>1
       DEF Inv, ForgeFirst, Going, Finished, ScaleDownMark, WorkerGoto, outside, provState,
           hist, Exists, Late, DeletionLane
  <2> QED
    BY <2>1, <2>2, <2>3, <2>4, <2>5 DEF Inv
<1> QED
  BY <1>2, <1>3, <1>4

\* The consolidation queues the row for deletion, after the forge.
LEMMA ConsolidateMarkKeeps ==
  ASSUME Inv, ConsolidateMark
  PROVE  Inv'
<1>1. TypeOK /\ row.status \in Early \cup Late
  BY DEF Inv, EventsTold
<1>2. (~Accepts("pending_delete") /\ UNCHANGED db) \/ (Exists /\ Wrote("pending_delete"))
  BY <1>1, Writes, AcceptedFrom, StatusValues
     DEF ConsolidateMark, MarkPendingDelete, Accepts, StartSteps
<1>3. CASE ~Accepts("pending_delete") /\ UNCHANGED db
  <2>1. TypeOK'
    BY <1>3, ScaleSetRunnerAssumption, NoRowFields
       DEF Inv, TypeOK, WorkerSteps, ConsolidateMark, MarkPendingDelete, WorkerGoto, db,
           outside, provState, hist
  <2>2. NothingYet'
    BY <1>3, NoRowFields
       DEF Inv, NothingYet, ConsolidateMark, MarkPendingDelete, WorkerGoto, db, outside,
           provState
  <2>3. EventsTold'
    BY <1>3, NoRowFields DEF Inv, EventsTold, RowLate, db
  <2>4. Copies'
    BY <1>3, NoRowFields DEF Inv, Copies, RowLate, ConsolidateMark, db, provState
  <2>5. Machine'
    BY <1>3, NoRowFields
       DEF Inv, Machine, NoLeakByDelete, DeletedSeen, ConsolidateMark, db, outside,
           provState, hist
  <2>6. CacheFollows'
    BY <1>3, NoRowFields
       DEF Inv, CacheFollows, Fresh, Exists, Listening, StartSteps, ConsolidateMark,
           MarkPendingDelete, WorkerGoto, db
  <2>7. ForgeFirst'
    BY <1>3, NoRowFields
       DEF Inv, ForgeFirst, Going, Finished, ConsolidateMark, MarkPendingDelete, WorkerGoto,
           db, outside, provState, hist, Exists, Late
  <2> QED
    BY <2>1, <2>2, <2>3, <2>4, <2>5, <2>6, <2>7 DEF Inv
<1>4. CASE Exists /\ Wrote("pending_delete")
  <2>1. /\ NothingYet' /\ EventsTold' /\ CacheFollows'
        /\ row' \in RunnerRows /\ row'.status = "pending_delete" /\ row'.status # "none"
        /\ wev' \in Seq(RunnerRows) /\ pev' \in Seq(RunnerRows) /\ missed' \in BOOLEAN
        /\ (RowLate => RowLate') /\ ("pending_delete" = "deleted" => row.status = "deleted")
        /\ ("pending_delete" # "deleted" => (DeletedSeen' => DeletedSeen))
    BY <1>1, <1>4, CommitKeeps
       DEF Inv, ConsolidateMark, RowLate, Late, Listening, StartSteps, DeletionLane,
           WorkerGoto
  <2>2. TypeOK'
    BY <1>4, <2>1, ScaleSetRunnerAssumption
       DEF Inv, TypeOK, WorkerSteps, ConsolidateMark, MarkPendingDelete, WorkerGoto,
           outside, provState, hist
  <2>3. Copies'
    BY <1>4, <2>1 DEF Inv, Copies, ConsolidateMark, provState
  <2>4. Machine'
    BY <1>4, <2>1
       DEF Inv, Machine, NoLeakByDelete, Removed, ConsolidateMark, outside, provState, hist
  <2>5. ForgeFirst'
    BY <1>4, <2>1
       DEF Inv, ForgeFirst, Going, Finished, ConsolidateMark, WorkerGoto, outside,
           provState, hist, Exists, Late, DeletionLane
  <2> QED
    BY <2>1, <2>2, <2>3, <2>4, <2>5 DEF Inv
<1> QED
  BY <1>2, <1>3, <1>4

\* consolidateProviderState queues the row for deletion, after the forge.
LEMMA ProviderMarkKeeps ==
  ASSUME Inv, ProviderMark
  PROVE  Inv'
<1>1. TypeOK /\ row.status \in Early \cup Late
  BY DEF Inv, EventsTold
<1>2. (~Accepts("pending_delete") /\ UNCHANGED db) \/ (Exists /\ Wrote("pending_delete"))
  BY <1>1, Writes, AcceptedFrom, StatusValues
     DEF ProviderMark, MarkPendingDelete, Accepts, StartSteps
<1>3. CASE ~Accepts("pending_delete") /\ UNCHANGED db
  <2>1. TypeOK'
    BY <1>3, ScaleSetRunnerAssumption, NoRowFields
       DEF Inv, TypeOK, WorkerSteps, ProviderMark, MarkPendingDelete, EndPass, db, outside,
           provState, hist
  <2>2. NothingYet'
    BY <1>3, NoRowFields
       DEF Inv, NothingYet, ProviderMark, MarkPendingDelete, EndPass, db, outside, provState
  <2>3. EventsTold'
    BY <1>3, NoRowFields DEF Inv, EventsTold, RowLate, db
  <2>4. Copies'
    BY <1>3, NoRowFields DEF Inv, Copies, RowLate, ProviderMark, db, provState
  <2>5. Machine'
    BY <1>3, NoRowFields
       DEF Inv, Machine, NoLeakByDelete, DeletedSeen, ProviderMark, db, outside, provState,
           hist
  <2>6. CacheFollows'
    BY <1>3, NoRowFields
       DEF Inv, CacheFollows, Fresh, Exists, Listening, StartSteps, ProviderMark,
           MarkPendingDelete, EndPass, db
  <2>7. ForgeFirst'
    BY <1>3, NoRowFields
       DEF Inv, ForgeFirst, Going, Finished, ProviderMark, MarkPendingDelete, EndPass, db,
           outside, provState, hist, Exists, Late
  <2> QED
    BY <2>1, <2>2, <2>3, <2>4, <2>5, <2>6, <2>7 DEF Inv
<1>4. CASE Exists /\ Wrote("pending_delete")
  <2>1. /\ NothingYet' /\ EventsTold' /\ CacheFollows'
        /\ row' \in RunnerRows /\ row'.status = "pending_delete" /\ row'.status # "none"
        /\ wev' \in Seq(RunnerRows) /\ pev' \in Seq(RunnerRows) /\ missed' \in BOOLEAN
        /\ (RowLate => RowLate') /\ ("pending_delete" = "deleted" => row.status = "deleted")
        /\ ("pending_delete" # "deleted" => (DeletedSeen' => DeletedSeen))
    BY <1>1, <1>4, CommitKeeps
       DEF Inv, ProviderMark, RowLate, Late, Listening, StartSteps, DeletionLane, EndPass
  <2>2. TypeOK'
    BY <1>4, <2>1, ScaleSetRunnerAssumption
       DEF Inv, TypeOK, WorkerSteps, ProviderMark, MarkPendingDelete, EndPass, outside,
           provState, hist
  <2>3. Copies'
    BY <1>4, <2>1 DEF Inv, Copies, ProviderMark, provState
  <2>4. Machine'
    BY <1>4, <2>1
       DEF Inv, Machine, NoLeakByDelete, Removed, ProviderMark, outside, provState, hist
  <2>5. ForgeFirst'
    BY <1>4, <2>1
       DEF Inv, ForgeFirst, Going, Finished, ProviderMark, EndPass, outside, provState,
           hist, Exists, Late, DeletionLane
  <2> QED
    BY <2>1, <2>2, <2>3, <2>4, <2>5 DEF Inv
<1> QED
  BY <1>2, <1>3, <1>4

\* The manager takes a row in pending_create to creating.
LEMMA ManagerCreateKeeps ==
  ASSUME Inv, ManagerCreate
  PROVE  Inv'
<1>1. TypeOK /\ row.status \in Early \cup Late
  BY DEF Inv, EventsTold
<1>2. row.status \in {"pending_create", "creating"} /\ Exists /\ Wrote("creating")
  BY <1>1, Writes, AcceptedFrom, StatusValues DEF ManagerCreate, Exists
<1>3. /\ mgr' \in Managers /\ mgr'.pc = "create"
      /\ mgr'.on = mgr.on /\ mgr'.inst = mgr.inst /\ ~DeletedSeen
  <2>1. ~DeletedSeen
    BY <1>2 DEF Inv, EventsTold, DeletedSeen, RowLate, Late, DeletionLane
  <2> QED
    BY <1>1, <2>1, GotoFields DEF ManagerCreate, ManagerSteps
<1>4. CASE row.status \in {"pending_create", "creating"} /\ Exists /\ Wrote("creating")
  <2>1. /\ NothingYet' /\ EventsTold' /\ CacheFollows'
        /\ row' \in RunnerRows /\ row'.status = "creating" /\ row'.status # "none"
        /\ wev' \in Seq(RunnerRows) /\ pev' \in Seq(RunnerRows) /\ missed' \in BOOLEAN
        /\ (RowLate => RowLate') /\ ("creating" = "deleted" => row.status = "deleted")
        /\ ("creating" # "deleted" => (DeletedSeen' => DeletedSeen))
    BY <1>1, <1>4, CommitKeeps
       DEF Inv, ManagerCreate, workerState, RowLate, Late, NothingYet, DeletionLane,
           ByManager
  <2>2. TypeOK'
    BY <1>4, <2>1, <1>3, ScaleSetRunnerAssumption
       DEF Inv, TypeOK, Managers, ManagerCreate, ByManager, workerState, hist
  <2>3. Copies'
    BY <1>4, <2>1, <1>3 DEF Inv, Copies, ManagerCreate, ByManager
  <2>4. Machine'
    BY <1>4, <2>1, <1>3 DEF Inv, Machine, NoLeakByDelete, Removed, ManagerCreate
  <2>5. ForgeFirst'
    BY <1>4, <2>1, <1>3
       DEF Inv, ForgeFirst, Going, Finished, RowLate, ManagerCreate, ByManager, workerState,
           hist, Late, DeletionLane
  <2> QED
    BY <2>1, <2>2, <2>3, <2>4, <2>5 DEF Inv
<1> QED
  BY <1>2, <1>4

\* A create that failed is recorded as error.
LEMMA ManagerFailKeeps ==
  ASSUME Inv, ManagerFail
  PROVE  Inv'
<1>1. TypeOK /\ row.status \in Early \cup Late
  BY DEF Inv, EventsTold
<1>2. (UNCHANGED db) \/ (Exists /\ Wrote("error"))
  BY <1>1, Writes, AcceptedFrom, StatusValues DEF ManagerFail
<1>3. /\ mgr' \in Managers /\ mgr'.pc = "idle"
      /\ mgr'.on = mgr.on /\ mgr'.inst = mgr.inst
  BY <1>1, GotoFields DEF ManagerFail, ManagerSteps, Sleep
<1>4. CASE UNCHANGED db
  <2>1. TypeOK'
    BY <1>4, <1>3, ScaleSetRunnerAssumption
       DEF Inv, TypeOK, Managers, ManagerFail, ByManager, Fails, MayDisturb, Works, db, workerState
  <2>2. NothingYet'
    BY <1>4, <1>3
       DEF Inv, NothingYet, NoManager, ManagerFail, ManagerAt, ByManager, db, workerState
  <2>3. EventsTold'
    BY <1>4, <1>3 DEF Inv, EventsTold, RowLate, ManagerFail, db
  <2>4. Copies'
    BY <1>4, <1>3 DEF Inv, Copies, RowLate, ManagerFail, ByManager, db
  <2>5. Machine'
    BY <1>4, <1>3 DEF Inv, Machine, NoLeakByDelete, DeletedSeen, ManagerFail, db
  <2>6. CacheFollows'
    BY <1>4, <1>3
       DEF Inv, CacheFollows, Fresh, Exists, Listening, ManagerFail, ByManager, db,
           workerState
  <2>7. ForgeFirst'
    BY <1>4, <1>3
       DEF Inv, ForgeFirst, Finished, RowLate, ManagerFail, ByManager, db, workerState
  <2> QED
    BY <2>1, <2>2, <2>3, <2>4, <2>5, <2>6, <2>7 DEF Inv
<1>5. CASE Exists /\ Wrote("error")
  <2>1. /\ NothingYet' /\ EventsTold' /\ CacheFollows'
        /\ row' \in RunnerRows /\ row'.status = "error" /\ row'.status # "none"
        /\ wev' \in Seq(RunnerRows) /\ pev' \in Seq(RunnerRows) /\ missed' \in BOOLEAN
        /\ (RowLate => RowLate') /\ ("error" = "deleted" => row.status = "deleted")
        /\ ("error" # "deleted" => (DeletedSeen' => DeletedSeen))
    BY <1>1, <1>5, CommitKeeps
       DEF Inv, ManagerFail, workerState, RowLate, Late, Exists, NothingYet, ByManager
  <2>2. TypeOK'
    BY <1>5, <2>1, <1>3, ScaleSetRunnerAssumption
       DEF Inv, TypeOK, Managers, ManagerFail, ByManager, Fails, MayDisturb, Works, workerState
  <2>3. Copies'
    BY <1>5, <2>1, <1>3 DEF Inv, Copies, ManagerFail, ByManager
  <2>4. Machine'
    BY <1>5, <2>1, <1>3 DEF Inv, Machine, NoLeakByDelete, ManagerFail
  <2>5. ForgeFirst'
    BY <1>5, <2>1, <1>3
       DEF Inv, ForgeFirst, Finished, RowLate, ManagerFail, ByManager, workerState, Exists
  <2> QED
    BY <2>1, <2>2, <2>3, <2>4, <2>5 DEF Inv
<1> QED
  BY <1>2, <1>4, <1>5

\* A row found in creating is of an interrupted create, and gets error.
LEMMA ManagerInterruptedKeeps ==
  ASSUME Inv, ManagerInterrupted
  PROVE  Inv'
<1>1. TypeOK /\ row.status \in Early \cup Late
  BY DEF Inv, EventsTold
<1>2. Exists /\ Wrote("error")
  BY <1>1, Writes, AcceptedFrom, StatusValues DEF ManagerInterrupted, Accepts
<1>3. CASE Exists /\ Wrote("error")
  <2>1. /\ NothingYet' /\ EventsTold' /\ CacheFollows'
        /\ row' \in RunnerRows /\ row'.status = "error" /\ row'.status # "none"
        /\ wev' \in Seq(RunnerRows) /\ pev' \in Seq(RunnerRows) /\ missed' \in BOOLEAN
        /\ (RowLate => RowLate') /\ ("error" = "deleted" => row.status = "deleted")
        /\ ("error" # "deleted" => (DeletedSeen' => DeletedSeen))
    BY <1>1, <1>3, CommitKeeps
       DEF Inv, ManagerInterrupted, workerState, Late, Exists, NothingYet, ByManager
  <2>2. TypeOK'
    BY <1>3, <2>1, ScaleSetRunnerAssumption
       DEF Inv, TypeOK, ManagerInterrupted, ByManager, workerState
  <2>3. Copies'
    BY <1>3, <2>1 DEF Inv, Copies, ManagerInterrupted, ByManager
  <2>4. Machine'
    BY <1>3, <2>1 DEF Inv, Machine, NoLeakByDelete, ManagerInterrupted, Tick
  <2>5. ForgeFirst'
    BY <1>3, <2>1
       DEF Inv, ForgeFirst, Finished, RowLate, NothingYet, TypeOK, ManagerInterrupted, Tick,
           ByManager, workerState
  <2> QED
    BY <2>1, <2>2, <2>3, <2>4, <2>5 DEF Inv
<1> QED
  BY <1>2, <1>3

\* The manager queues a row in error for deletion.
LEMMA ManagerErrorKeeps ==
  ASSUME Inv, ManagerError
  PROVE  Inv'
<1>1. TypeOK /\ row.status \in Early \cup Late
  BY DEF Inv, EventsTold
<1>2. Exists /\ Wrote("pending_delete")
  BY <1>1, Writes, AcceptedFrom, StatusValues DEF ManagerError
<1>3. CASE Exists /\ Wrote("pending_delete")
  <2>1. /\ NothingYet' /\ EventsTold' /\ CacheFollows'
        /\ row' \in RunnerRows /\ row'.status = "pending_delete" /\ row'.status # "none"
        /\ wev' \in Seq(RunnerRows) /\ pev' \in Seq(RunnerRows) /\ missed' \in BOOLEAN
        /\ (RowLate => RowLate') /\ ("pending_delete" = "deleted" => row.status = "deleted")
        /\ ("pending_delete" # "deleted" => (DeletedSeen' => DeletedSeen))
    BY <1>1, <1>3, CommitKeeps
       DEF Inv, ManagerError, workerState, Late, Exists, NothingYet, DeletionLane, ByManager
  <2>2. TypeOK'
    BY <1>3, <2>1, ScaleSetRunnerAssumption
       DEF Inv, TypeOK, ManagerError, ByManager, workerState, hist
  <2>3. Copies'
    BY <1>3, <2>1 DEF Inv, Copies, ManagerError, ByManager
  <2>4. Machine'
    BY <1>3, <2>1 DEF Inv, Machine, NoLeakByDelete, ManagerError, Tick, hist
  <2>5. ForgeFirst'
    BY <1>3, <2>1
       DEF Inv, ForgeFirst, Going, Finished, RowLate, Copies, ManagerError, ByManager,
           workerState, hist, Exists, Late
  <2> QED
    BY <2>1, <2>2, <2>3, <2>4, <2>5 DEF Inv
<1> QED
  BY <1>2, <1>3

\* The manager takes a row that is queued for deletion to deleting.
LEMMA ManagerDeleteKeeps ==
  ASSUME Inv, ManagerDelete
  PROVE  Inv'
<1>1. TypeOK /\ row.status \in Early \cup Late
  BY DEF Inv, EventsTold
<1>2. (UNCHANGED db) \/ (Exists /\ Wrote("deleting"))
  BY <1>1, Writes, AcceptedFrom, StatusValues DEF ManagerDelete
<1>3. /\ mgr' \in Managers /\ mgr'.pc \in {"delete", "idle"}
      /\ mgr'.on = mgr.on /\ mgr'.inst = mgr.inst
  BY <1>1, GotoFields DEF ManagerDelete, ManagerSteps, Sleep
<1>4. CASE UNCHANGED db
  <2>1. TypeOK'
    BY <1>4, <1>3, ScaleSetRunnerAssumption
       DEF Inv, TypeOK, Managers, ManagerDelete, ByManager, db, workerState, hist
  <2>2. NothingYet'
    BY <1>4, <1>3
       DEF Inv, NothingYet, NoManager, ManagerDelete, ManagerAt, ByManager, db, workerState
  <2>3. EventsTold'
    BY <1>4, <1>3 DEF Inv, EventsTold, RowLate, db
  <2>4. Copies'
    BY <1>4, <1>3 DEF Inv, Copies, RowLate, ManagerDelete, ManagerAt, db
  <2>5. Machine'
    BY <1>4, <1>3 DEF Inv, Machine, NoLeakByDelete, DeletedSeen, ManagerDelete, db, hist
  <2>6. CacheFollows'
    BY <1>4, <1>3
       DEF Inv, CacheFollows, Fresh, Exists, Listening, ManagerDelete, ByManager, db,
           workerState
  <2>7. ForgeFirst'
    BY <1>4, <1>3
       DEF Inv, ForgeFirst, Going, Finished, RowLate, ManagerDelete, ByManager, db,
           workerState, hist
  <2> QED
    BY <2>1, <2>2, <2>3, <2>4, <2>5, <2>6, <2>7 DEF Inv
<1>5. CASE Exists /\ Wrote("deleting")
  <2>1. /\ NothingYet' /\ EventsTold' /\ CacheFollows'
        /\ row' \in RunnerRows /\ row'.status = "deleting" /\ row'.status # "none"
        /\ wev' \in Seq(RunnerRows) /\ pev' \in Seq(RunnerRows) /\ missed' \in BOOLEAN
        /\ (RowLate => RowLate') /\ ("deleting" = "deleted" => row.status = "deleted")
        /\ ("deleting" # "deleted" => (DeletedSeen' => DeletedSeen))
    BY <1>1, <1>5, CommitKeeps
       DEF Inv, ManagerDelete, workerState, Late, Exists, NothingYet, DeletionLane,
           ByManager
  <2>2. TypeOK'
    BY <1>5, <2>1, <1>3, ScaleSetRunnerAssumption
       DEF Inv, TypeOK, Managers, ManagerDelete, ByManager, workerState, hist
  <2>3. Copies'
    BY <1>5, <2>1, <1>3 DEF Inv, Copies, ManagerDelete, ManagerAt
  <2>4. Machine'
    BY <1>5, <2>1, <1>3 DEF Inv, Machine, NoLeakByDelete, ManagerDelete, hist
  <2>5. ForgeFirst'
    BY <1>5, <2>1, <1>3
       DEF Inv, ForgeFirst, Going, Finished, RowLate, Copies, ManagerDelete, ManagerAt,
           ByManager, workerState, hist, Exists
  <2> QED
    BY <2>1, <2>2, <2>3, <2>4, <2>5 DEF Inv
<1> QED
  BY <1>2, <1>4, <1>5

\* The provider failed: pending_delete is forced.
LEMMA ManagerRestoreKeeps ==
  ASSUME Inv, ManagerRestore
  PROVE  Inv'
<1>1. TypeOK /\ row.status \in Early \cup Late
  BY DEF Inv, EventsTold
<1>2. (UNCHANGED db) \/ (Exists /\ Wrote("pending_delete"))
  BY <1>1, Writes, AcceptedFrom, StatusValues DEF ManagerRestore
<1>3. /\ mgr' \in Managers /\ mgr'.pc = "idle"
      /\ mgr'.on = mgr.on /\ mgr'.inst = mgr.inst
  BY <1>1, GotoFields DEF ManagerRestore, ManagerSteps, Sleep
<1>4. CASE UNCHANGED db
  <2>1. TypeOK'
    BY <1>4, <1>3, ScaleSetRunnerAssumption
       DEF Inv, TypeOK, Managers, ManagerRestore, ByManager, Fails, MayDisturb, Works, db, workerState,
           hist
  <2>2. NothingYet'
    BY <1>4, <1>3
       DEF Inv, NothingYet, NoManager, ManagerRestore, ManagerAt, ByManager, db, workerState
  <2>3. EventsTold'
    BY <1>4, <1>3 DEF Inv, EventsTold, RowLate, ManagerRestore, db
  <2>4. Copies'
    BY <1>4, <1>3 DEF Inv, Copies, RowLate, ManagerRestore, ManagerAt, db
  <2>5. Machine'
    BY <1>4, <1>3 DEF Inv, Machine, NoLeakByDelete, DeletedSeen, ManagerRestore, db, hist
  <2>6. CacheFollows'
    BY <1>4, <1>3
       DEF Inv, CacheFollows, Fresh, Exists, Listening, ManagerRestore, ByManager, db,
           workerState
  <2>7. ForgeFirst'
    BY <1>4, <1>3
       DEF Inv, ForgeFirst, Going, Finished, RowLate, ManagerRestore, ByManager, db,
           workerState, hist
  <2> QED
    BY <2>1, <2>2, <2>3, <2>4, <2>5, <2>6, <2>7 DEF Inv
<1>5. CASE Exists /\ Wrote("pending_delete")
  <2>1. /\ NothingYet' /\ EventsTold' /\ CacheFollows'
        /\ row' \in RunnerRows /\ row'.status = "pending_delete" /\ row'.status # "none"
        /\ wev' \in Seq(RunnerRows) /\ pev' \in Seq(RunnerRows) /\ missed' \in BOOLEAN
        /\ (RowLate => RowLate') /\ ("pending_delete" = "deleted" => row.status = "deleted")
        /\ ("pending_delete" # "deleted" => (DeletedSeen' => DeletedSeen))
    BY <1>1, <1>5, CommitKeeps
       DEF Inv, ManagerRestore, workerState, RowLate, Late, Exists, NothingYet,
           DeletionLane, ByManager
  <2>2. TypeOK'
    BY <1>5, <2>1, <1>3, ScaleSetRunnerAssumption
       DEF Inv, TypeOK, Managers, ManagerRestore, ByManager, Fails, MayDisturb, Works, workerState, hist
  <2>3. Copies'
    BY <1>5, <2>1, <1>3 DEF Inv, Copies, ManagerRestore, ByManager
  <2>4. Machine'
    BY <1>5, <2>1, <1>3 DEF Inv, Machine, NoLeakByDelete, ManagerRestore, hist
  <2>5. ForgeFirst'
    BY <1>5, <2>1, <1>3
       DEF Inv, ForgeFirst, Going, Finished, RowLate, Copies, ManagerRestore, ManagerAt,
           ByManager, workerState, hist, Exists
  <2> QED
    BY <2>1, <2>2, <2>3, <2>4, <2>5 DEF Inv
<1> QED
  BY <1>2, <1>4, <1>5

\* Worker.Start forces pending_delete on a create or a delete the last process began.
LEMMA StartForceKeeps ==
  ASSUME Inv, StartForce
  PROVE  Inv'
<1>1. TypeOK /\ row.status \in Early \cup Late
  BY DEF Inv, EventsTold
<1>2. /\ wpc = "start_force" /\ row.status # "gone"
      /\ lock = "worker" \/ RowLate
      /\ UNCHANGED <<prov, forge, msgs, seen, entry, mgr, api, up, calls, forced, bypassed,
                     kept>>
      /\ row.status # "none" /\ ~Listening /\ wev = <<>>
      /\ faults' \in 0..MaxFaults
  BY <1>1, ScaleSetRunnerAssumption
     DEF Inv, ForgeFirst, NothingYet, CacheFollows, Listening, StartSteps, StartForce,
         outside, provState, Works, Fails, MayDisturb, TypeOK
<1>3. CASE /\ WorkerWrite([row EXCEPT !.status = "pending_delete"])
           /\ failed' = (failed \/ lock = "worker")
           /\ cache' = row' /\ lock' = "free" /\ wpc' = "register"
  <2>0. /\ [row EXCEPT !.status = "pending_delete"] \in RunnerRows
        /\ [row EXCEPT !.status = "pending_delete"].status = "pending_delete"
    <3>1. row \in RunnerRows /\ "pending_delete" \in Statuses
      BY <1>1, StatusValues DEF TypeOK
    <3> QED
      BY <3>1, RowFields
  <2> DEFINE r == [row EXCEPT !.status = "pending_delete"]
  <2>1. r \in RunnerRows /\ r.status = "pending_delete"
    BY <2>0
  <2>2. Commit(r) /\ missed' = FALSE
    BY <1>1, <1>2, <1>3 DEF WorkerWrite, StartSteps, TypeOK
  <2> HIDE DEF r
  <2>3. /\ row' = r /\ pev' \in Seq(RunnerRows) /\ wev' = <<>>
        /\ Seen(wev)' \subseteq Seen(wev) \cup {r} /\ Seen(pev)' \subseteq Seen(pev) \cup {r}
    BY <1>1, <1>2, <2>1, <2>2, Sent
  <2>4. RowLate' /\ ~DeletedSeen' /\ row' # NoRow /\ Exists'
    BY <2>1, <2>3, NoRowFields, SeenEmpty
       DEF RowLate, Late, DeletionLane, DeletedSeen, Seen, Exists
  <2>5. failed' \in BOOLEAN /\ Finished'
    <3>1. failed \in BOOLEAN
      BY <1>1 DEF TypeOK
    <3>2. RowLate => failed \/ bypassed \/ forge = "absent"
      BY <1>2 DEF Inv, ForgeFirst, Going, Finished
    <3> QED
      BY <1>2, <1>3, <3>1, <3>2 DEF Finished
  <2>6. TypeOK'
    BY <1>1, <1>2, <1>3, <2>1, <2>2, <2>3, <2>5 DEF TypeOK, WorkerSteps, StartSteps
  <2>7. NothingYet'
    BY <1>3, <2>1, <2>3 DEF NothingYet
  <2>8. EventsTold'
    BY <2>1, <2>3, <2>4 DEF Inv, EventsTold, Late, DeletionLane
  <2>9. Copies'
    BY <1>2, <2>4 DEF Copies
  <2>10. Machine'
    BY <1>2, <2>1, <2>3, <2>4 DEF Inv, Machine, NoLeakByDelete, Removed
  <2>11. CacheFollows'
    BY <1>3, <2>3, <2>4 DEF CacheFollows, Listening, StartSteps, Fresh
  <2>12. ForgeFirst'
    BY <1>2, <1>3, <2>4, <2>5 DEF Inv, ForgeFirst
  <2> QED
    BY <2>6, <2>7, <2>8, <2>9, <2>10, <2>11, <2>12 DEF Inv
<1>4. CASE /\ lock' = (IF lock = "worker" THEN "leaked" ELSE lock) /\ wpc' = "down"
           /\ UNCHANGED <<db, cache, failed>>
  <2>1. TypeOK'
    BY <1>1, <1>2, <1>4 DEF TypeOK, WorkerSteps, db
  <2>2. NothingYet' /\ EventsTold' /\ Copies' /\ Machine'
    BY <1>2, <1>4
       DEF Inv, NothingYet, EventsTold, Copies, Machine, NoLeakByDelete, DeletedSeen, Seen,
           RowLate, db
  <2>3. CacheFollows'
    BY <1>2, <1>4 DEF CacheFollows, Listening, db
  <2>4. ForgeFirst'
    BY <1>2, <1>4 DEF Inv, ForgeFirst, Going, Finished, Seen, RowLate, db
  <2> QED
    BY <2>1, <2>2, <2>3, <2>4 DEF Inv
<1> QED
  BY <1>2, <1>3, <1>4 DEF StartForce, WorkerGoto

\* No status GetRunner returns is one of those that keep the runner.
LEMMA StartGetKeeps ==
  ASSUME Inv, StartGet
  PROVE  Inv'
<1>1. TypeOK
  BY DEF Inv
<1>2. RawStatus(forge) \notin {"idle", "active"}
  BY <1>1 DEF TypeOK, ForgeStates, RawStatus
<1>3. /\ UNCHANGED <<row, wev, pev, missed, prov, forge, msgs, cache, seen, entry, mgr, api,
                     up, calls, forced, bypassed, failed>>
      /\ wpc = "start_get" /\ wpc' \in {"start_force", "register"}
      /\ wpc' = "start_force" => UNCHANGED lock
      /\ lock' \in {lock, "free"} /\ kept' \in {kept, TRUE}
  BY <1>2 DEF StartGet, StartKeep, WorkerGoto, db, outside, provState
<1>8. faults' \in 0..MaxFaults
  <2>1. faults' = faults \/ (faults' = faults + 1 /\ faults + calls < MaxFaults)
    BY DEF StartGet, Fails, MayDisturb, Works
  <2> QED
    BY <1>1, <2>1, ScaleSetRunnerAssumption DEF TypeOK
<1>4. TypeOK'
  <2>1. kept' \in BOOLEAN
    BY <1>1, <1>3, Zenon DEF TypeOK
  <2> QED
    BY <1>1, <1>3, <1>8, <2>1 DEF TypeOK, WorkerSteps, StartSteps
<1>5. NothingYet' /\ EventsTold' /\ Copies' /\ Machine'
  BY <1>3
     DEF Inv, NothingYet, EventsTold, Copies, Machine, NoLeakByDelete, DeletedSeen, Seen,
         RowLate
<1>6. CacheFollows'
  BY <1>3 DEF Inv, CacheFollows, Listening, StartSteps, Fresh, Exists
<1>7. ForgeFirst'
  <2>1. lock = "worker" /\ row.status # "gone"
    BY <1>3 DEF Inv, ForgeFirst
  <2>2. Going' => Finished'
    BY <1>3 DEF Inv, ForgeFirst, Going, Finished, Seen, RowLate
  <2> QED
    BY <1>3, <2>1, <2>2 DEF Inv, ForgeFirst
<1> QED
  BY <1>4, <1>5, <1>6, <1>7 DEF Inv

\* The row of a new runner, or none when the store fails.
LEMMA ScaleUpInsertKeeps ==
  ASSUME Inv, ScaleUpInsert
  PROVE  Inv'
<1>1. TypeOK /\ row.status = "none" /\ wpc = "insert" /\ wpc' = "idle"
  BY DEF Inv, NothingYet, ScaleUpInsert, WorkerGoto
<1>2. /\ prov = "absent" /\ forge \in {"absent", "offline"} /\ msgs = <<>>
      /\ wev = <<>> /\ pev = <<>> /\ cache = NoRow /\ entry = NoRow
      /\ mgr = NoManager /\ api = "idle"
  BY <1>1 DEF Inv, NothingYet
<1>3. ~RowLate /\ Listening /\ Listening'
  BY <1>1 DEF RowLate, Late, DeletionLane, Listening, StartSteps
<1>4. mgr'.pc = "idle" /\ mgr'.inst.status = "none" /\ entry'.status = "none"
  BY <1>2, NoManagerFields, NoRowFields DEF ScaleUpInsert, provState
<1>5. ~(api' # "idle") /\ wpc' \notin {"down_mark", "mark", "provider_mark"}
      /\ ~("completed" \in Seen(msgs)')
  BY <1>1, <1>2, SeenEmpty DEF ScaleUpInsert, Seen
<1>6. Copies'
  BY <1>4 DEF Copies, Late, DeletionLane
<1>7. CASE /\ Write([status |-> "pending_create", runner |-> "pending"])
           /\ cache' = row' /\ UNCHANGED forge /\ Works
  <2>1. Wrote("pending_create")
    BY <1>1, <1>7, Writes
  <2>2. EventsTold'
    BY <1>3, <2>1, CommitTells DEF Early
  <2>3. /\ row' \in RunnerRows /\ row'.status = "pending_create"
        /\ wev' \in Seq(RunnerRows) /\ pev' \in Seq(RunnerRows) /\ missed' \in BOOLEAN
    BY <1>1, <2>1, Committed
  <2>4. TypeOK'
    BY <1>1, <1>7, <2>3 DEF TypeOK, ScaleUpInsert, Works, WorkerSteps, provState, hist
  <2>5. NothingYet'
    BY <1>1, <2>3 DEF NothingYet
  <2>6. Machine'
    BY <1>2, <1>4, <2>3 DEF Machine, NoLeakByDelete, ScaleUpInsert
  <2>7. CacheFollows'
    BY <1>3, <2>1, CommitCache
  <2>8. ForgeFirst'
    BY <1>1, <1>4, <1>5, <1>7, <2>3, NoRowFields
       DEF ForgeFirst, Going, RowLate, Late, DeletionLane
  <2> QED
    BY <1>6, <2>2, <2>4, <2>5, <2>6, <2>7, <2>8 DEF Inv
<1>8. CASE /\ Fails("store") /\ forge' = "absent" /\ row' = [NoRow EXCEPT !.status = "gone"]
           /\ UNCHANGED <<wev, pev, missed, cache>>
  <2>1. row' \in RunnerRows /\ row'.status = "gone"
    BY <1>8, RowFields, NoRowFields
  <2>2. TypeOK'
    BY <1>1, <1>8, <2>1, ScaleSetRunnerAssumption
       DEF TypeOK, ScaleUpInsert, Fails, MayDisturb, WorkerSteps, provState, hist, ForgeStates
  <2>3. NothingYet'
    BY <1>1, <2>1 DEF NothingYet
  <2>4. Seen(wev)' = {} /\ Seen(pev)' = {}
    BY <1>2, <1>8, SeenEmpty DEF Seen
  <2>5. EventsTold'
    BY <2>1, <2>4 DEF EventsTold, Late
  <2>6. Machine'
    BY <1>2, <1>4, <2>4 DEF Machine, NoLeakByDelete, ScaleUpInsert, DeletedSeen
  <2>7. CacheFollows'
    BY <1>1, <1>2, <1>8, <2>1 DEF CacheFollows, Fresh, Exists, Listening, StartSteps
  <2>8. ForgeFirst'
    BY <1>1, <1>4, <1>8, <2>1 DEF ForgeFirst, Finished, Late
  <2> QED
    BY <1>6, <2>2, <2>3, <2>5, <2>6, <2>7, <2>8 DEF Inv
<1> QED
  BY <1>7, <1>8 DEF ScaleUpInsert

\* The outcome of a create.
LEMMA ManagerPersistKeeps ==
  ASSUME Inv, ManagerPersist
  PROVE  Inv'
<1>1. TypeOK /\ row.status \in Early \cup Late
  BY DEF Inv, EventsTold
<1>2. /\ UNCHANGED <<prov, forge, msgs, cache, wpc, seen, lock, entry, api, up, calls,
                     forced, bypassed, failed, kept>>
      /\ mgr.pc \in {"persist", "persist_error"}
      /\ mgr.pc = "persist_error" => failed
      /\ row.status # "none"
  BY NoManagerFields
     DEF Inv, ManagerPersist, ManagerAt, ByManager, hist, workerState, ForgeFirst, NothingYet
<1> DEFINE s == IF mgr.pc = "persist" THEN "running" ELSE "error"
           to == IF s = "running" THEN "idle" ELSE "undo_error"
<1>3. CASE /\ Accepts(s) /\ SetStatus(s) /\ Works
           /\ mgr' = [mgr EXCEPT !.inst = row', !.pc = to]
  <2>1. s \in {"running", "error"} /\ to \in {"idle", "undo_error"}
        /\ (s = "error" => failed) /\ (to = "undo_error" => failed)
    BY <1>2
  <2>2. Accepts(s) /\ SetStatus(s) /\ Works /\ mgr' = [mgr EXCEPT !.inst = row', !.pc = to]
    BY <1>3
  <2> HIDE DEF s, to
  <2>3. Exists /\ Wrote(s) /\ (s \notin Late => ~RowLate)
    BY <1>1, <2>1, <2>2, Writes, AcceptedFrom, StatusValues
       DEF Accepts, RowLate, Late, DeletionLane
  <2>4. /\ NothingYet' /\ EventsTold' /\ CacheFollows'
        /\ row' \in RunnerRows /\ row'.status = s /\ row'.status # "none"
        /\ wev' \in Seq(RunnerRows) /\ pev' \in Seq(RunnerRows) /\ missed' \in BOOLEAN
        /\ (RowLate => RowLate') /\ (s # "deleted" => (DeletedSeen' => DeletedSeen))
    BY <1>2, <2>1, <2>3, CommitKeeps DEF Inv, NothingYet, Exists
  <2>5. mgr' \in Managers /\ mgr'.pc = to /\ mgr'.inst = row' /\ mgr'.on = mgr.on
    BY <1>1, <2>1, <2>2, <2>4 DEF TypeOK, Managers, ManagerSteps
  <2>6. TypeOK'
    BY <1>1, <1>2, <2>2, <2>4, <2>5 DEF TypeOK, Managers, Works
  <2>7. Copies'
    BY <1>2, <2>1, <2>4, <2>5 DEF Inv, Copies, RowLate
  <2>8. Machine'
    BY <1>2, <2>1, <2>4, <2>5 DEF Inv, Machine, NoLeakByDelete
  <2>9. ForgeFirst'
    BY <1>2, <2>1, <2>3, <2>4, <2>5
       DEF Inv, ForgeFirst, Going, Finished, RowLate, Late, DeletionLane, Seen, Exists
  <2> QED
    BY <2>4, <2>6, <2>7, <2>8, <2>9 DEF Inv
<1>4. CASE /\ (~Accepts(s) /\ Works) \/ Fails("store")
           /\ Goto(IF s = "running" THEN "fail" ELSE "undo")
           /\ UNCHANGED db
  <2>1. /\ mgr' \in Managers /\ mgr'.pc \in {"fail", "undo"} /\ (mgr'.pc = "undo" => failed)
        /\ mgr'.on = mgr.on /\ mgr'.inst = mgr.inst
    BY <1>1, <1>2, <1>4, GotoFields DEF ManagerSteps
  <2>2. faults' \in 0..MaxFaults /\ UNCHANGED db
    BY <1>1, <1>4, ScaleSetRunnerAssumption DEF TypeOK, Works, Fails, MayDisturb
  <2>3. TypeOK'
    BY <1>1, <1>2, <2>1, <2>2 DEF TypeOK, Managers, db
  <2>4. NothingYet' /\ EventsTold' /\ Copies' /\ Machine' /\ CacheFollows'
    BY <1>2, <2>1, <2>2
       DEF Inv, NothingYet, EventsTold, Copies, Machine, NoLeakByDelete, DeletedSeen, Seen,
           RowLate, CacheFollows, Listening, Fresh, Exists, db
  <2>5. ForgeFirst'
    BY <1>2, <2>1, <2>2 DEF Inv, ForgeFirst, Going, Finished, Seen, RowLate, db
  <2> QED
    BY <2>3, <2>4, <2>5 DEF Inv
<1> QED
  BY <1>3, <1>4 DEF ManagerPersist, ManagerAt

\* The manager writes deleted when the machine is gone, or the delete was forced.
LEMMA ManagerDeletedKeeps ==
  ASSUME Inv, ManagerDeleted
  PROVE  Inv'
<1>1. TypeOK /\ RowLate /\ mgr.pc = "deleted"
  BY DEF Inv, Copies, ManagerDeleted, ManagerAt
<1>2. /\ UNCHANGED <<prov, forge, msgs, cache, wpc, seen, lock, entry, api, up, calls,
                     forced, bypassed, failed, kept>>
      /\ row.status # "none" /\ wpc # "insert"
      /\ ~forced => prov = "absent"
      /\ Finished
  BY <1>1
     DEF Inv, ManagerDeleted, ByManager, hist, workerState, NothingYet, Machine, ForgeFirst, Going,
         RowLate, Late, DeletionLane
<1>3. /\ mgr' \in Managers /\ mgr'.pc = "idle" /\ (mgr'.on => mgr.on) /\ mgr'.inst = mgr.inst
  <2>1. CASE Sleep
    BY <1>1, <2>1, GotoFields DEF Sleep, ManagerSteps
  <2>2. CASE mgr' = [mgr EXCEPT !.pc = "idle",
                                !.on = @ /\ Exists /\ row.status \notin DeletionLane]
    BY <1>1, <2>2 DEF TypeOK, Managers, ManagerSteps
  <2> QED
    BY <2>1, <2>2 DEF ManagerDeleted
<1>4. faults' \in 0..MaxFaults
  BY <1>1, ScaleSetRunnerAssumption DEF TypeOK, ManagerDeleted, Works, Fails, MayDisturb
<1>5. CASE SetStatus("deleted") /\ row.status \in DeletionLane
  <2>1. Wrote("deleted")
    BY <1>1, <1>5, Writes, StatusValues
  <2>2. EventsTold' /\ (RowLate => RowLate')
    BY <2>1, CommitTells DEF Late, DeletionLane
  <2>3. /\ row' \in RunnerRows /\ row'.status = "deleted"
        /\ wev' \in Seq(RunnerRows) /\ pev' \in Seq(RunnerRows) /\ missed' \in BOOLEAN
    BY <1>1, <2>1, Committed
  <2>4. TypeOK'
    BY <1>1, <1>2, <1>3, <1>4, <2>3 DEF TypeOK, Managers
  <2>5. NothingYet'
    BY <1>2, <2>3 DEF NothingYet
  <2>6. Copies'
    BY <1>1, <2>2 DEF Copies
  <2>7. Machine'
    BY <1>2, <1>3 DEF Machine, NoLeakByDelete
  <2>8. CacheFollows'
    BY <1>2, <2>1, CommitCache
  <2>9. ForgeFirst'
    BY <1>1, <1>2, <1>3, <1>5, <2>2, <2>3
       DEF Inv, ForgeFirst, Finished, RowLate, DeletionLane
  <2> QED
    BY <2>2, <2>4, <2>5, <2>6, <2>7, <2>8, <2>9 DEF Inv
<1>6. CASE UNCHANGED db
  <2>1. TypeOK'
    BY <1>1, <1>2, <1>3, <1>4, <1>6 DEF TypeOK, Managers, db
  <2>2. NothingYet' /\ EventsTold' /\ Copies' /\ Machine' /\ CacheFollows'
    BY <1>2, <1>3, <1>6
       DEF Inv, NothingYet, EventsTold, Copies, Machine, NoLeakByDelete, DeletedSeen, Seen,
           RowLate, CacheFollows, Listening, Fresh, Exists, db
  <2>3. ForgeFirst'
    BY <1>2, <1>3, <1>6 DEF Inv, ForgeFirst, Going, Finished, Seen, RowLate, db
  <2> QED
    BY <2>1, <2>2, <2>3 DEF Inv
<1> QED
  BY <1>5, <1>6 DEF ManagerDeleted, WriteDeleted

\* The event of the row last committed, handled: rows in deleted are removed.
LEMMA WorkerEventKeeps ==
  ASSUME Inv, WorkerEvent
  PROVE  Inv'
<1> DEFINE e == Head(wev)
           rest == Tail(wev)
<1>1. TypeOK /\ row.status \in Early \cup Late
  BY DEF Inv, EventsTold
<1>2. /\ UNCHANGED <<prov, forge, msgs, wpc, seen, lock, entry, mgr, api, up, calls,
                     forced, bypassed, failed, kept>>
      /\ wpc = "idle" /\ wev # <<>> /\ Listening /\ Listening'
  BY DEF WorkerEvent, outside, provState, hist, Listening, StartSteps
<1>3. row.status # "none"
  BY <1>2 DEF Inv, NothingYet
<1>4. /\ e \in RunnerRows /\ e \in Seen(wev)
      /\ rest \in Seq(RunnerRows) /\ Seen(rest) \subseteq Seen(wev)
      /\ rest # <<>> => rest[Len(rest)] = wev[Len(wev)]
      /\ rest = <<>> => wev[Len(wev)] = e
  BY <1>1, <1>2, SeenTail DEF TypeOK
<1>5. e.status # "none" /\ (e.status \in Late => RowLate)
  BY <1>4 DEF Inv, EventsTold
<1>6. ~missed => wev[Len(wev)] = row
  BY <1>2 DEF Inv, CacheFollows
<1>7. \/ /\ e.status = "deleted" /\ Works /\ cache' = NoRow /\ UNCHANGED missed
         /\ \/ /\ Exists /\ row' = Dropped
               /\ wev' = Append(rest, row') /\ pev' = Append(pev, row')
            \/ ~Exists /\ UNCHANGED <<row, pev>> /\ wev' = rest
      \/ /\ wev' = rest /\ UNCHANGED <<row, pev>>
         /\ \/ e.status = "deleted" /\ UNCHANGED cache /\ missed' = TRUE
            \/ /\ e.status # "deleted" /\ UNCHANGED missed
               /\ cache' = IF e.status \in {"gone", "gone_early"} THEN NoRow ELSE e
  <2> SUFFICES ASSUME e.status = "deleted", Works,
                      cache' = NoRow, UNCHANGED missed,
                      row' = IF Exists THEN Dropped ELSE row,
                      wev' = IF Exists THEN Append(rest, row') ELSE rest,
                      pev' = IF Exists THEN Append(pev, row') ELSE pev
               PROVE  \/ /\ Exists /\ row' = Dropped
                         /\ wev' = Append(rest, row') /\ pev' = Append(pev, row')
                      \/ ~Exists /\ UNCHANGED <<row, pev>> /\ wev' = rest
    BY Zenon DEF WorkerEvent
  <2> QED
    BY Zenon
<1>8. faults' \in 0..MaxFaults
  BY <1>1, ScaleSetRunnerAssumption DEF TypeOK, WorkerEvent, Works, Fails, MayDisturb
<1>9. mgr.pc = "create" => e.status # "deleted"
  BY <1>4 DEF Inv, Machine, DeletedSeen
<1>10. e.status = "deleted" => RowLate /\ (forced \/ prov = "absent") /\ Finished
  BY <1>4, <1>5 DEF Inv, Machine, DeletedSeen, ForgeFirst, Going, Late, DeletionLane
<1> HIDE DEF e, rest
<1>11. CASE /\ e.status = "deleted" /\ Works /\ cache' = NoRow /\ UNCHANGED missed
            /\ Exists /\ row' = Dropped
            /\ wev' = Append(rest, row') /\ pev' = Append(pev, row')
  <2>1. row' \in RunnerRows /\ row'.status \in {"gone", "gone_early"}
    <3> DEFINE x == IF row.status = "deleted" THEN "gone" ELSE "gone_early"
    <3>1. row' = [row EXCEPT !.status = x] /\ x \in {"gone", "gone_early"}
      BY <1>11 DEF Dropped
    <3> HIDE DEF x
    <3> QED
      BY <1>1, <3>1, RowFields DEF TypeOK
  <2>2. /\ wev' \in Seq(RunnerRows) /\ wev' # <<>> /\ wev'[Len(wev')] = row'
        /\ pev' \in Seq(RunnerRows)
        /\ Seen(wev') = Seen(rest) \cup {row'} /\ Seen(pev') = Seen(pev) \cup {row'}
    <3>1. rest \in Seq(RunnerRows) /\ pev \in Seq(RunnerRows)
      BY <1>1, <1>4 DEF TypeOK
    <3>2. wev' = Append(rest, row') /\ pev' = Append(pev, row')
      BY <1>11
    <3>3. ASSUME NEW q \in Seq(RunnerRows)
          PROVE  /\ Append(q, row') \in Seq(RunnerRows) /\ Append(q, row') # <<>>
                 /\ Append(q, row')[Len(Append(q, row'))] = row'
                 /\ Seen(Append(q, row')) = Seen(q) \cup {row'}
      BY <2>1, SeenAppend
    <3> QED
      BY <3>1, <3>2, <3>3
  <2>3. Seen(wev)' = Seen(wev') /\ Seen(pev)' = Seen(pev') /\ RowLate'
    BY <2>1 DEF Seen, RowLate, Late
  <2>4. TypeOK'
    BY <1>1, <1>2, <1>11, <2>1, <2>2, NoRowFields DEF TypeOK, Works
  <2>5. NothingYet'
    BY <1>2, <2>1 DEF NothingYet
  <2>6. EventsTold'
    <3>1. ASSUME NEW x \in Seen(wev)' \cup Seen(pev)'
          PROVE  x.status \in (Early \cup Late) \ {"none"}
      <4>1. x \in Seen(wev) \cup Seen(pev) \/ x = row'
        BY <1>4, <2>2, <2>3
      <4> QED
        BY <2>1, <4>1 DEF Inv, EventsTold, Late
    <3> QED
      BY <2>1, <2>3, <3>1 DEF EventsTold, Late
  <2>7. Copies'
    BY <2>3 DEF Copies
  <2>8. Machine'
    BY <1>2, <1>9, <1>10, <1>11 DEF Inv, Machine, NoLeakByDelete
  <2>9. CacheFollows'
    BY <1>2, <2>2 DEF CacheFollows, Listening, StartSteps
  <2>10. ForgeFirst'
    <3>1. Finished'
      BY <1>2, <1>10, <1>11 DEF Finished, Exists
    <3> QED
      BY <1>2, <2>1, <3>1 DEF Inv, ForgeFirst, Late
  <2> QED
    BY <2>4, <2>5, <2>6, <2>7, <2>8, <2>9, <2>10 DEF Inv
<1>12. CASE wev' = rest /\ UNCHANGED <<row, pev>>
  <2>1. /\ faults' \in 0..MaxFaults /\ missed' \in BOOLEAN /\ (~missed' => ~missed)
        /\ cache' \in RunnerRows
        /\ ~missed' => cache' = IF e.status \in Removed THEN NoRow ELSE e
        /\ cache' = NoRow => e.status \in Late \/ cache = NoRow
    <3>1. missed \in BOOLEAN /\ cache \in RunnerRows /\ faults \in 0..MaxFaults
      BY <1>1 DEF TypeOK
    <3>2. e.status # "none" => e # NoRow
      BY NoRowFields
    <3> QED
      BY <1>4, <1>5, <1>7, <1>8, <3>1, <3>2, NoRowFields DEF Works, Late, DeletionLane, Removed
  <2>2. Seen(wev)' \subseteq Seen(wev) /\ Seen(pev)' = Seen(pev) /\ (RowLate' <=> RowLate)
    BY <1>4, <1>12 DEF Seen, RowLate
  <2>3. TypeOK'
    BY <1>1, <1>2, <1>4, <1>12, <2>1 DEF TypeOK
  <2>4. NothingYet'
    BY <1>2, <1>3, <1>12 DEF NothingYet
  <2>5. EventsTold'
    BY <1>12, <2>2 DEF Inv, EventsTold
  <2>6. Copies'
    BY <1>2, <2>2 DEF Inv, Copies
  <2>7. Machine'
    BY <1>2, <1>12, <2>2 DEF Inv, Machine, NoLeakByDelete, DeletedSeen
  <2>8. CacheFollows'
    <3>1. ASSUME rest = <<>>, ~missed' PROVE cache' = Fresh'
      <4>1. e = row
        BY <1>4, <1>6, <2>1, <3>1
      <4>2. CASE e.status = "deleted"
        BY <1>7, <1>12, <2>1, <3>1, <4>1, <4>2 DEF Fresh, Exists, Removed
      <4>3. CASE e.status # "deleted"
        BY <1>5, <1>12, <2>1, <3>1, <4>1, <4>3 DEF Fresh, Exists, Removed
      <4> QED
        BY <4>2, <4>3
    <3>2. rest # <<>> /\ ~missed' => rest[Len(rest)] = row
      BY <1>4, <1>6, <2>1
    <3> QED
      BY <1>2, <1>12, <3>1, <3>2 DEF CacheFollows
  <2>9. ForgeFirst'
    BY <1>2, <1>5, <1>12, <2>1, <2>2
       DEF Inv, ForgeFirst, Going, Finished, RowLate, Seen
  <2> QED
    BY <2>3, <2>4, <2>5, <2>6, <2>7, <2>8, <2>9 DEF Inv
<1> QED
  BY <1>7, <1>11, <1>12

\* Worker.Start reads the row: the cache starts with it, unless the row is left to
\* further steps.
LEMMA StartListKeeps ==
  ASSUME Inv, StartList
  PROVE  Inv'
<1>1. TypeOK /\ row.status \in Early \cup Late
  BY DEF Inv, EventsTold
<1>2. /\ UNCHANGED <<prov, forge, msgs, seen, entry, mgr, api, up, calls, forced,
                     bypassed, failed, kept, wev>>
      /\ wpc = "down" /\ missed' = FALSE /\ wev = <<>>
      /\ faults' \in 0..MaxFaults
  BY <1>1, ScaleSetRunnerAssumption
     DEF Inv, CacheFollows, Listening, StartList, outside, provState, hist, TypeOK, Works,
         Fails, MayDisturb
<1>3. \/ /\ row.status = "creating" /\ lock' = "worker" /\ wpc' = "start"
         /\ cache' = row /\ UNCHANGED <<row, pev>>
      \/ /\ row.status = "deleting" /\ wpc' = "start_force"
         /\ cache' = row /\ UNCHANGED <<row, pev, lock>>
      \/ /\ row.status \notin {"creating", "deleting", "deleted"} /\ wpc' = "register"
         /\ cache' = Fresh /\ lock' \in {lock, "free"} /\ UNCHANGED <<row, pev>>
      \/ wpc' = "down" /\ UNCHANGED <<row, pev, cache, lock>>
      \/ /\ row.status = "deleted" /\ wpc' = "register" /\ cache' = NoRow
         /\ row' = Dropped /\ pev' = Append(pev, row') /\ UNCHANGED lock
  BY <1>2 DEF StartList, WorkerGoto, Fresh
<1>4. CASE /\ row.status = "deleted" /\ wpc' = "register" /\ cache' = NoRow
           /\ row' = Dropped /\ pev' = Append(pev, row') /\ UNCHANGED lock
  <2>1. /\ wpc' = "register" /\ cache' = NoRow /\ UNCHANGED lock
        /\ row' = [row EXCEPT !.status = "gone"] /\ pev' = Append(pev, row')
    BY <1>4 DEF Dropped
  <2>2. row' \in RunnerRows /\ row'.status = "gone"
    BY <1>1, <2>1, RowFields DEF TypeOK
  <2>3. pev' \in Seq(RunnerRows) /\ Seen(pev') = Seen(pev) \cup {row'}
    <3>1. pev \in Seq(RunnerRows) /\ pev' = Append(pev, row')
      BY <1>1, <2>1 DEF TypeOK
    <3> QED
      BY <2>2, <3>1, SeenAppend
  <2>4. Seen(wev)' = Seen(wev) /\ Seen(pev)' = Seen(pev') /\ RowLate'
    BY <1>2, <2>2 DEF Seen, RowLate, Late
  <2>5. TypeOK'
    <3>1. cache' \in RunnerRows /\ wpc' \in WorkerSteps /\ lock' \in {"free", "worker", "leaked"}
      BY <1>1, <2>1, NoRowFields DEF TypeOK, WorkerSteps, StartSteps
    <3>2. row' \in RunnerRows /\ pev' \in Seq(RunnerRows)
      BY <2>2, <2>3
    <3> QED
      BY <1>1, <1>2, <3>1, <3>2, ZenonT(30) DEF TypeOK
  <2>6. NothingYet'
    BY <2>1, <2>2 DEF NothingYet
  <2>7. EventsTold'
    BY <2>2, <2>3, <2>4 DEF Inv, EventsTold, Late
  <2>8. Copies'
    BY <2>4 DEF Copies
  <2>9. Machine'
    BY <1>2, <1>4, <2>4 DEF Inv, Machine, NoLeakByDelete, DeletedSeen, Removed
  <2>10. CacheFollows'
    BY <1>2, <2>1, <2>2 DEF CacheFollows, Listening, Fresh, Exists, StartSteps
  <2>11. ForgeFirst'
    <3>1. Finished'
      BY <1>2, <1>4
         DEF Inv, ForgeFirst, Going, Finished, RowLate, Late, DeletionLane
    <3> QED
      BY <1>2, <2>1, <2>2, <3>1 DEF Inv, ForgeFirst, Late
  <2> QED
    BY <2>5, <2>6, <2>7, <2>8, <2>9, <2>10, <2>11 DEF Inv
<1>5. CASE UNCHANGED <<row, pev>>
  <2>0. \/ /\ row.status = "creating" /\ lock' = "worker" /\ wpc' = "start"
           /\ cache' = row
        \/ /\ row.status = "deleting" /\ wpc' = "start_force"
           /\ cache' = row /\ UNCHANGED lock
        \/ /\ row.status \notin {"creating", "deleting", "deleted"} /\ wpc' = "register"
           /\ cache' = Fresh /\ lock' \in {lock, "free"}
        \/ wpc' = "down" /\ UNCHANGED <<cache, lock>>
    <3>1. ASSUME row.status = "deleted" PROVE Dropped.status = "gone"
      <4>1. Dropped = [row EXCEPT !.status = "gone"] /\ row \in RunnerRows
        BY <1>1, <3>1 DEF TypeOK, Dropped
      <4>2. [row EXCEPT !.status = "gone"].status = "gone"
        BY <4>1, RowFields
      <4> QED
        BY <4>1, <4>2
    <3> QED
      BY <1>3, <1>5, <3>1
  <2>1. UNCHANGED <<row, pev>>
    BY <1>5
  <2>2. TypeOK'
    <3>1. cache' \in RunnerRows
      BY <1>1, <2>0, NoRowFields DEF TypeOK, Fresh
    <3>2. wpc' \in WorkerSteps /\ lock' \in {"free", "worker", "leaked"}
      BY <1>1, <2>0 DEF TypeOK, WorkerSteps, StartSteps
    <3> QED
      BY <1>1, <1>2, <2>1, <3>1, <3>2, ZenonT(30) DEF TypeOK
  <2>3. NothingYet'
    BY <1>2, <2>0, <2>1 DEF Inv, NothingYet, Fresh, Exists
  <2>4. EventsTold' /\ Copies' /\ Machine'
    BY <1>2, <2>1
       DEF Inv, EventsTold, Copies, Machine, NoLeakByDelete, DeletedSeen, Seen, RowLate
  <2>5. CacheFollows'
    BY <1>2, <2>0, <2>1 DEF CacheFollows, Listening, Fresh, Exists, StartSteps
  <2>6. ForgeFirst'
    <3>1. Going' => Finished'
      BY <1>2, <2>0, <2>1 DEF Inv, ForgeFirst, Going, Finished, RowLate, Seen
    <3>2. cache' = NoRow /\ wpc' # "down" => row'.status \in Late \cup {"none"}
      BY <1>1, <2>0, <2>1, NoRowFields DEF Fresh, Exists, Late
    <3> QED
      BY <1>2, <2>0, <2>1, <3>1, <3>2
         DEF Inv, ForgeFirst, RowLate, Late, DeletionLane
  <2> QED
    BY <2>2, <2>3, <2>4, <2>5, <2>6 DEF Inv
<1> QED
  BY <1>3, <1>4, <1>5

\* The provider worker takes over what the event tells of the row.
LEMMA ProviderEventKeeps ==
  ASSUME Inv, ProviderEvent
  PROVE  Inv'
<1> DEFINE e == Head(pev)
           rest == Tail(pev)
<1>1. TypeOK
  BY DEF Inv
<1>2. /\ UNCHANGED <<row, wev, missed, prov, forge, msgs, cache, wpc, seen, lock, api, up,
                     calls, faults, forced, bypassed, failed, kept>>
      /\ pev # <<>> /\ pev' = rest
  BY DEF ProviderEvent, outside, workerState, hist
<1>3. /\ e \in RunnerRows /\ e \in Seen(pev)
      /\ rest \in Seq(RunnerRows) /\ Seen(rest) \subseteq Seen(pev)
  BY <1>1, <1>2, SeenTail DEF TypeOK
<1>4. e.status # "none" /\ (e.status \in Late => RowLate) /\ row.status # "none"
  BY <1>2, <1>3 DEF Inv, EventsTold, NothingYet
<1>5. \/ UNCHANGED <<entry, mgr>>
      \/ entry' = NoRow /\ entry = NoRow /\ mgr' = mgr
      \/ entry' = NoRow /\ mgr' = [mgr EXCEPT !.on = FALSE]
      \/ entry' = e /\ mgr.pc = "idle" /\ mgr' = [NoManager EXCEPT !.on = TRUE, !.inst = e]
      \/ entry' = e /\ mgr' = [mgr EXCEPT !.inst = e]
      \/ entry' = e /\ mgr' = mgr
  BY Zenon DEF ProviderEvent, provState, ManagerAt
<1> HIDE DEF e, rest
<1>6. /\ entry' \in RunnerRows /\ mgr' \in Managers /\ (mgr'.on => entry' # NoRow)
      /\ mgr'.pc = mgr.pc
      /\ entry'.status \in Late => entry' = entry \/ entry' = e
      /\ mgr'.inst.status \in Late => mgr'.inst = mgr.inst \/ mgr'.inst = e
  <2>1. mgr \in Managers /\ entry \in RunnerRows /\ (mgr.on => entry # NoRow) /\ e # NoRow
    BY <1>1, <1>4, NoRowFields DEF TypeOK, Managers
  <2>2. "none" \notin Late
    BY DEF Late, DeletionLane
  <2>3. CASE entry' = NoRow /\ mgr' = [mgr EXCEPT !.on = FALSE]
    BY <2>1, <2>2, <2>3, NoRowFields DEF Managers
  <2>4. CASE /\ entry' = e /\ mgr.pc = "idle"
             /\ mgr' = [NoManager EXCEPT !.on = TRUE, !.inst = e]
    <3> DEFINE m == [NoManager EXCEPT !.on = TRUE, !.inst = e]
    <3>1. m \in Managers /\ m.on = TRUE /\ m.inst = e /\ m.pc = "idle"
      BY <1>3, NoManagerFields
    <3>2. mgr' = m
      BY <2>4
    <3> HIDE DEF m
    <3> QED
      BY <1>3, <2>1, <2>4, <3>1, <3>2
  <2>5. CASE entry' = e /\ mgr' = [mgr EXCEPT !.inst = e]
    BY <1>3, <2>1, <2>5 DEF Managers
  <2> QED
    BY <1>3, <1>5, <2>1, <2>3, <2>4, <2>5
<1>7. Seen(wev)' = Seen(wev) /\ Seen(pev)' \subseteq Seen(pev) /\ (RowLate' <=> RowLate)
  BY <1>2, <1>3 DEF Seen, RowLate
<1>8. TypeOK'
  BY <1>1, <1>2, <1>3, <1>6 DEF TypeOK, Managers
<1>9. NothingYet'
  BY <1>2, <1>4 DEF Inv, NothingYet
<1>10. EventsTold'
  BY <1>2, <1>7 DEF Inv, EventsTold
<1>11. Copies'
  BY <1>4, <1>6, <1>7 DEF Inv, Copies
<1>12. Machine'
  BY <1>2, <1>6, <1>7 DEF Inv, Machine, NoLeakByDelete, DeletedSeen
<1>13. CacheFollows'
  BY <1>2 DEF Inv, CacheFollows, Listening, Fresh, Exists
<1>14. ForgeFirst'
  BY <1>2, <1>6 DEF Inv, ForgeFirst, Going, Finished, RowLate, Seen
<1> QED
  BY <1>8, <1>9, <1>10, <1>11, <1>12, <1>13, <1>14 DEF Inv

\* The process ends; a runner that had no row yet never gets one.
LEMMA CrashKeeps ==
  ASSUME Inv, Crash
  PROVE  Inv'
<1>1. TypeOK /\ row.status \in Early \cup Late
  BY DEF Inv, EventsTold
<1>2. /\ wev' = <<>> /\ pev' = <<>> /\ cache' = NoRow /\ wpc' = "down" /\ seen' = "none"
      /\ lock' = "free" /\ entry' = NoRow /\ mgr' = NoManager /\ api' = "idle" /\ up' = FALSE
      /\ UNCHANGED <<missed, forge, msgs, calls, forced, bypassed, failed, kept>>
      /\ prov' \in {"absent", "alive"} /\ faults' \in 0..MaxFaults
  BY <1>1, ScaleSetRunnerAssumption DEF Crash, Fails, MayDisturb, hist, TypeOK
<1>3. mgr.pc # "create" => prov' = prov
  BY DEF Crash, ManagerAt
<1>4. CASE wpc = "insert"
  <2>1. row.status = "none" /\ prov = "absent" /\ forge \in {"absent", "offline"}
        /\ mgr.pc = "idle"
    BY <1>4, NoManagerFields DEF Inv, NothingYet
  <2>2. row' \in RunnerRows /\ row'.status = "gone" /\ prov' = "absent"
    BY <1>1, <1>3, <1>4, <2>1, RowFields DEF TypeOK, Crash
  <2>3. TypeOK'
    <3>1. mgr' \in Managers /\ ~mgr'.on
      BY <1>2, NoManagerFields
    <3>2. <<>> \in Seq(RunnerRows)
      OBVIOUS
    <3> QED
      BY <1>1, <1>2, <3>2, <2>2, <3>1, NoRowFields DEF TypeOK, Managers, WorkerSteps
  <2>4. NothingYet'
    BY <1>2, <2>2 DEF NothingYet
  <2>5. EventsTold'
    BY <1>2, <2>2, SeenEmpty DEF EventsTold, Late, Seen
  <2>6. Copies' /\ Machine'
    BY <1>2, <2>2, NoManagerFields DEF Copies, Machine, NoLeakByDelete, RowLate, Late
  <2>7. CacheFollows'
    BY <1>2 DEF CacheFollows, Listening
  <2>8. ForgeFirst'
    BY <1>2, <2>1, <2>2, NoManagerFields DEF ForgeFirst, Finished
  <2> QED
    BY <2>3, <2>4, <2>5, <2>6, <2>7, <2>8 DEF Inv
<1>5. CASE wpc # "insert"
  <2>1. row' = row
    BY <1>5 DEF Crash
  <2>2. row.status \in Removed \cup {"none"} => prov' = prov
    BY <1>3 DEF Inv, Machine
  <2>3. TypeOK'
    <3>1. mgr' \in Managers /\ ~mgr'.on
      BY <1>2, NoManagerFields
    <3>2. <<>> \in Seq(RunnerRows)
      OBVIOUS
    <3> QED
      BY <1>1, <1>2, <3>2, <2>1, <3>1, NoRowFields DEF TypeOK, Managers, WorkerSteps
  <2>4. NothingYet'
    BY <1>2, <2>1, <2>2 DEF Inv, NothingYet
  <2>5. Seen(wev)' = {} /\ Seen(pev)' = {}
    BY <1>2, SeenEmpty DEF Seen
  <2>6. EventsTold'
    BY <1>1, <2>1, <2>5 DEF EventsTold
  <2>7. Copies'
    BY <1>2, NoManagerFields, NoRowFields DEF Copies, Late, DeletionLane
  <2>8. Machine'
    BY <1>2, <2>1, <2>2, <2>5, NoManagerFields
       DEF Inv, Machine, NoLeakByDelete, Removed, DeletedSeen
  <2>9. CacheFollows'
    BY <1>2 DEF CacheFollows, Listening
  <2>10. ForgeFirst'
    <3>1. Going' => Going
      BY <1>2, <2>1 DEF Going, RowLate, Seen
    <3>2. Finished => Finished'
      BY <1>2, <2>1, <2>2 DEF Finished, Removed
    <3> QED
      BY <1>2, <3>1, <3>2, NoManagerFields DEF Inv, ForgeFirst
  <2> QED
    BY <2>3, <2>4, <2>6, <2>7, <2>8, <2>9, <2>10 DEF Inv
<1> QED
  BY <1>4, <1>5

-----------------------------------------------------------------------------
\* Nothing has happened yet.
LEMMA InvInit == Init => Inv
<1> SUFFICES ASSUME Init PROVE Inv
  OBVIOUS
<1>1. mgr \in Managers /\ mgr.on = FALSE /\ mgr.inst = NoRow /\ mgr.pc = "idle"
  BY NoManagerFields DEF Init
<1>2. row.status = "none" /\ Seen(wev) = {} /\ Seen(pev) = {} /\ Seen(msgs) = {}
  BY NoRowFields, SeenEmpty DEF Init
<1>3. TypeOK
  <2>1. <<>> \in Seq(RunnerRows) /\ <<>> \in Seq({"started", "completed"})
    OBVIOUS
  <2>2. 0 \in 0..MaxApi /\ 0 \in 0..MaxFaults
    BY ScaleSetRunnerAssumption
  <2> QED
    BY <1>1, <2>1, <2>2, NoRowFields
       DEF Init, TypeOK, Managers, ForgeStates, WorkerSteps
<1>4. NothingYet /\ EventsTold
  BY <1>2 DEF Init, NothingYet, EventsTold, Early
<1>5. Copies /\ Machine
  BY <1>1, <1>2, NoRowFields
     DEF Init, Copies, Machine, NoLeakByDelete, DeletedSeen, Late, DeletionLane
<1>6. CacheFollows
  BY <1>2 DEF Init, CacheFollows, Fresh, Exists, Listening, StartSteps
<1>7. ForgeFirst
  BY <1>1, <1>2 DEF Init, ForgeFirst, Going, Finished
<1> QED
  BY <1>3, <1>4, <1>5, <1>6, <1>7 DEF Inv

\* Every step of every actor preserves the invariant.
LEMMA InvNext == Inv /\ [Next]_vars => Inv'
<1> SUFFICES ASSUME Inv, [Next]_vars PROVE Inv'
  OBVIOUS
<1>1. CASE Outside
  BY <1>1, RunnerBootsKeeps, JobStartsKeeps, JobEndsKeeps, ApiRemoveKeeps, CrashKeeps
     DEF Outside
<1>2. CASE Listener \/ ApiMark
  BY <1>2, HandleJobsStartedKeeps, HandleJobsCompletedKeeps, ApiMarkKeeps DEF Listener
<1>3. CASE Worker
  BY <1>3, ScaleUpInsertKeeps, ScaleDownMarkKeeps, ListRunnersKeeps, ConsolidateUnknownKeeps,
     ConsolidateSkipKeeps, ConsolidateMarkKeeps, ProviderListKeeps, ProviderJudgeKeeps,
     ProviderMarkKeeps, StartListKeeps, StartRemoveKeeps, StartGetKeeps, StartForceKeeps,
     StartRegisterKeeps, BootKeeps
     DEF Worker
<1>4. CASE Manager
  BY <1>4, ManagerCreateKeeps, ManagerCreateCallKeeps, ManagerPersistKeeps, ManagerUndoKeeps,
     ManagerFailKeeps, ManagerInterruptedKeeps, ManagerErrorKeeps, ManagerBackoffKeeps,
     ManagerDeleteKeeps, ManagerDeleteCallKeeps, ManagerRestoreKeeps, ManagerDeletedKeeps
     DEF Manager
<1>5. CASE ProviderEvent \/ RetryFailedRunner \/ WorkerEvent \/ ConsolidateRemove
           \/ ScaleUpRegister \/ ScaleDown
  BY <1>5, ProviderEventKeeps, RetryFailedRunnerKeeps, WorkerEventKeeps,
     ConsolidateRemoveKeeps, ScaleUpRegisterKeeps, ScaleDownKeeps
<1>6. CASE UNCHANGED vars
  <2>1. UNCHANGED <<row, wev, pev, missed, prov, forge, msgs, cache, wpc, seen, lock, entry,
                    mgr, api, up, calls, faults, forced, bypassed, failed, kept>>
    BY <1>6 DEF vars, db, outside, workerState, provState, hist
  <2>2. TypeOK'
    BY <2>1 DEF Inv, TypeOK
  <2>3. NothingYet' /\ EventsTold' /\ Copies' /\ Machine'
    BY <2>1 DEF Inv, NothingYet, EventsTold, Copies, Machine, NoLeakByDelete, DeletedSeen,
                Seen, RowLate
  <2>4. CacheFollows' /\ ForgeFirst'
    BY <2>1 DEF Inv, CacheFollows, Fresh, Exists, Listening, ForgeFirst, Going, Finished,
                RowLate, Seen
  <2> QED
    BY <2>2, <2>3, <2>4 DEF Inv
<1> QED
  BY <1>1, <1>2, <1>3, <1>4, <1>5, <1>6 DEF Next

\* The inductive invariant holds in every reachable state.
THEOREM InvAlways == Spec => []Inv
BY InvInit, InvNext, PTL DEF Spec

\* The types of the variables; a manager of the provider worker (workers/provider) that
\* runs has an entry in its map of runners, so that the events about its row reach it.
THEOREM RunnerTypeCorrect == Spec => []TypeOK
<1>1. Inv => TypeOK
  BY DEF Inv
<1> QED
  BY <1>1, InvAlways, PTL

\* A row reaches deleted, or is removed, only when its machine is gone, unless the user
\* forced the delete and the provider failed: whatever copy of the row the manager acted
\* on (handleDeleteInstanceInProvider), and at whatever step the process was restarted.
THEOREM NoMachineIsLeaked == Spec => []NoLeakByDelete
<1>1. Inv => NoLeakByDelete
  BY DEF Inv, Machine
<1> QED
  BY <1>1, InvAlways, PTL

\* When every event was handled and none was lost, the cache of the scale set worker
\* (w.runners) is the row of the store.
THEOREM RunnerCacheConverges == Spec => []CacheConverges
<1>1. Inv => CacheConverges
  BY DEF Inv, CacheFollows, CacheConverges, Fresh, Exists, Listening, StartSteps
<1> QED
  BY <1>1, InvAlways, PTL

\* Only a step that deletes a machine does so: of the manager, or of the scale set worker
\* when it knows no row for the machine; and the forge was asked first, so that no job
\* runs on the machine, unless the create failed or the forge was bypassed.
LEMMA BusyStep ==
  ASSUME Inv, [Next]_vars, forge = "busy", prov = "alive", prov' = "absent"
  PROVE  failed \/ bypassed
<1>1. CASE ManagerUndo
  BY <1>1 DEF Inv, ForgeFirst, ManagerUndo, ManagerAt
<1>2. CASE ManagerDeleteCall
  BY <1>2 DEF Inv, ForgeFirst, Going, Finished, Copies, ManagerDeleteCall, ManagerAt
<1>3. CASE ProviderJudge
  <2>1. wpc = "provider" /\ cache = NoRow
    BY <1>3 DEF ProviderJudge
  <2>2. row.status \in Late
    BY <2>1 DEF Inv, ForgeFirst, NothingYet
  <2> QED
    BY <2>2 DEF Inv, ForgeFirst, Going, Finished, RowLate
<1>4. (~Crash /\ ~ManagerCreateCall) \/ failed
  BY DEF Crash, ManagerCreateCall, ManagerAt, Inv, TypeOK
<1>5. CASE \/ Outside \/ Listener \/ ApiMark \/ ProviderEvent \/ RetryFailedRunner
           \/ WorkerEvent \/ ConsolidateRemove \/ ScaleUpRegister \/ ScaleDown
           \/ UNCHANGED vars
  BY <1>4, <1>5
     DEF Outside, Listener, RunnerBoots, JobStarts, JobEnds, ApiRemove, HandleJobsStarted,
         HandleJobsCompleted, ApiMark, ProviderEvent, RetryFailedRunner, WorkerEvent,
         ConsolidateRemove, ScaleUpRegister, ScaleDown, vars, outside
<1>6. CASE Worker
  BY <1>3, <1>6
     DEF Worker, ScaleUpInsert, ScaleDownMark, ListRunners, ConsolidateUnknown,
         ConsolidateSkip, ConsolidateMark, ProviderList, ProviderMark, StartList, StartRemove,
         StartGet, StartForce, StartRegister, Boot, outside
<1>7. CASE Manager
  BY <1>1, <1>2, <1>4, <1>7
     DEF Manager, ManagerCreate, ManagerPersist, ManagerFail, ManagerInterrupted,
         ManagerError, ManagerBackoff, ManagerDelete, ManagerRestore, ManagerDeleted
<1> QED
  BY <1>5, <1>6, <1>7 DEF Next

\* A machine whose runner executes a job is deleted only when its create failed or was
\* found interrupted after a restart, or when DeleteRunner of the API was told to bypass the
\* refusal of the forge: by whichever worker and on whatever stale copy.
THEOREM BusyMachineIsKept == Spec => BusyMachineKept
<1>1. Inv /\ [Next]_vars => (forge = "busy" /\ prov = "alive" /\ prov' = "absent" =>
            failed \/ bypassed)
  BY BusyStep
<1>2. Inv /\ [Next]_vars =>
        [forge = "busy" /\ prov = "alive" /\ prov' = "absent" => failed \/ bypassed]_vars
  BY <1>1
<1> QED
  BY <1>2, InvAlways, PTL DEF Spec, BusyMachineKept
=============================================================================
