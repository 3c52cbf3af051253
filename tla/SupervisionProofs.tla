------------------------- MODULE SupervisionProofs -------------------------
(***************************************************************************)
(* No worker of the tree under the entity controller is left without a     *)
(* node that will stop it, for any number of scale sets and whatever calls *)
(* fail.  NoOrphan is not inductive: the proof adds that an entity worker  *)
(* that is being started does not run yet and stays in the table, and that *)
(* the scale set whose worker is being started keeps its entry.  The type  *)
(* is proved along with it, because "nobody visits the scale sets of a     *)
(* controller that is off" rests on who may start one.                     *)
(***************************************************************************)
EXTENDS Supervision, SequenceTheorems, TLAPS

\* Worker.Start of the entity worker runs under the mux of the controller, for an entry
\* that does not run yet; nobody stops the controller or drops the entry meanwhile.
StartAlone == step # "none" => ~running /\ entry /\ on

\* The retry pass starts a worker that the table holds, and keeps the table locked.
VisitsKept == current # Nobody => kept[current.s] = "worker"

SupInv == TypeOK /\ NoOrphan /\ StartAlone /\ VisitsKept

LEMMA SupInvInit == Init => SupInv
<1> SUFFICES ASSUME Init PROVE SupInv
  OBVIOUS
<1> USE SupervisionAssumption
<1>1. row \in [ver : {0, 1}, gone : {FALSE}] /\ knows = row.ver
  BY DEF Init
<1>2. {0, 1} \subseteq Versions
  BY DEF Versions
<1>3. row \in Rows /\ knows \in Versions
  BY <1>1, <1>2 DEF Rows
<1>v. sets \in [Sets -> [ver : {0, row.ver}, gone : {FALSE}]] /\ row.ver \in {0, 1}
  BY <1>1 DEF Init
<1>r. [ver : {0, row.ver}, gone : {FALSE}] \subseteq Rows
  BY <1>2, <1>v DEF Rows
<1>4. /\ sets \in [Sets -> Rows] /\ setEvents \in [Sets -> Seq(Versions)]
      /\ latest \in [Sets -> Versions] /\ version \in [Sets -> Versions]
  <2>1. sets \in [Sets -> Rows]
    BY <1>v, <1>r
  <2> QED
    BY <1>2, <2>1 DEF Init
<1>5. TypeOK
  <2>1. /\ faults \in 0..MaxFaults /\ events \in Seq(EntityEvents)
        /\ workerEvents \in Seq(Versions) /\ ctlEvents \in Seq(ScaleSetEvents)
    BY DEF Init
  <2>2. /\ on \in BOOLEAN /\ entry \in BOOLEAN /\ running \in BOOLEAN
        /\ active \in [Sets -> BOOLEAN] /\ leaked \in [Sets -> BOOLEAN]
        /\ ran \in [Sets -> BOOLEAN]
        /\ missed \in [Sets -> BOOLEAN] /\ kept \in [Sets -> {"none", "bare", "worker"}]
    BY DEF Init
  <2> QED
    BY <1>3, <1>4, <2>1, <2>2 DEF Init, TypeOK, CtlMuxFree
<1>6. NoOrphan /\ StartAlone /\ VisitsKept
  BY DEF Init, NoOrphan, StartAlone, VisitsKept
<1> QED
  BY <1>5, <1>6 DEF SupInv

-----------------------------------------------------------------------------
\* The API writes rows and appends events, and leaves the workers alone.
LEMMA ApiStep == ASSUME SupInv, Api PROVE SupInv'
<1> USE SupervisionAssumption
<1>1. ASSUME NEW op \in {"create", "update", "delete"}, NEW new \in Rows, CommitEntity(op, new)
      PROVE  SupInv'
  <2>1. TypeOK'
    <3>1. new.ver \in Versions /\ [op |-> op, ver |-> new.ver] \in EntityEvents
      BY DEF Rows, EntityEvents
    <3>2. events \in Seq(EntityEvents) /\ workerEvents \in Seq(Versions)
      BY DEF SupInv, TypeOK
    <3>3. events' \in Seq(EntityEvents)
      BY <1>1, <3>1, <3>2, AppendProperties DEF CommitEntity
    <3>4. workerEvents' \in Seq(Versions)
      BY <1>1, <3>1, <3>2, AppendProperties DEF CommitEntity
    <3> QED
      BY <1>1, <3>3, <3>4 DEF CommitEntity, SupInv, TypeOK, setCtl, CtlMuxFree
  <2>2. NoOrphan' /\ StartAlone' /\ VisitsKept'
    BY <1>1 DEF CommitEntity, SupInv, NoOrphan, StartAlone, VisitsKept, setCtl
  <2> QED
    BY <2>1, <2>2 DEF SupInv
<1>2. ASSUME NEW s \in Sets, NEW op \in {"create", "update", "delete"}, NEW new \in Rows,
             CommitSet(s, op, new)
      PROVE  SupInv'
  <2>1. TypeOK'
    <3>1. new.ver \in Versions /\ [set |-> s, op |-> op, ver |-> new.ver] \in ScaleSetEvents
      BY DEF Rows, ScaleSetEvents
    <3>2. ctlEvents \in Seq(ScaleSetEvents) /\ setEvents \in [Sets -> Seq(Versions)]
      BY DEF SupInv, TypeOK
    <3>3. ctlEvents' \in Seq(ScaleSetEvents)
      BY <1>2, <3>1, <3>2, AppendProperties DEF CommitSet
    <3>4. setEvents' \in [Sets -> Seq(Versions)]
      <4>1. Append(setEvents[s], new.ver) \in Seq(Versions)
        BY <3>1, <3>2, AppendProperties
      <4> QED
        BY <1>2, <3>2, <4>1 DEF CommitSet
    <3>5. missed' \in [Sets -> BOOLEAN]
      BY <1>2 DEF CommitSet, SupInv, TypeOK
    <3> QED
      BY <1>2, <3>3, <3>4, <3>5 DEF CommitSet, SupInv, TypeOK, entityCtl, CtlMuxFree
  <2>2. NoOrphan' /\ StartAlone' /\ VisitsKept'
    BY <1>2 DEF CommitSet, SupInv, NoOrphan, StartAlone, VisitsKept, entityCtl
  <2> QED
    BY <2>1, <2>2 DEF SupInv
<1>3. row \in Rows /\ sets \in [Sets -> Rows]
  BY DEF SupInv, TypeOK
<1>4. CASE CreateEntity
  <2>1. [row EXCEPT !.ver = 1] \in Rows
    BY <1>3 DEF Rows, Versions
  <2> QED
    BY <1>1, <1>4, <2>1 DEF CreateEntity
<1>5. CASE UpdateEntity
  <2>1. [row EXCEPT !.ver = @ + 1] \in Rows
    BY <1>3, <1>5 DEF Rows, Versions, UpdateEntity
  <2> QED
    BY <1>1, <1>5, <2>1 DEF UpdateEntity
<1>6. CASE DeleteEntity
  <2>1. [row EXCEPT !.gone = TRUE] \in Rows
    BY <1>3 DEF Rows, Versions
  <2> QED
    BY <1>1, <1>6, <2>1 DEF DeleteEntity
<1>7. ASSUME NEW s \in Sets, CreateSet(s) \/ UpdateSet(s) \/ DeleteSet(s)
      PROVE  SupInv'
  <2>1. CASE CreateSet(s)
    <3>1. [sets[s] EXCEPT !.ver = 1] \in Rows
      BY <1>3 DEF Rows, Versions
    <3> QED
      BY <1>2, <2>1, <3>1 DEF CreateSet
  <2>2. CASE UpdateSet(s)
    <3>1. [sets[s] EXCEPT !.ver = @ + 1] \in Rows
      BY <1>3, <2>2 DEF Rows, Versions, UpdateSet
    <3> QED
      BY <1>2, <2>2, <3>1 DEF UpdateSet
  <2>3. CASE DeleteSet(s)
    <3>1. [sets[s] EXCEPT !.gone = TRUE] \in Rows
      BY <1>3 DEF Rows, Versions
    <3> QED
      BY <1>2, <2>3, <3>1 DEF DeleteSet
  <2> QED
    BY <1>7, <2>1, <2>2, <2>3
<1> QED
  BY <1>4, <1>5, <1>6, <1>7 DEF Api

-----------------------------------------------------------------------------
\* The entity controller: its events, its retry loop, its Stop.
LEMMA EntityControllerStep ==
    ASSUME SupInv, HandleEntityEvent \/ RetryWorker \/ ControllerStop \/ HandleWorkerEvent
    PROVE  SupInv'
<1> USE SupervisionAssumption
<1>1. ASSUME NEW op, NextEntityEvent(op)
      PROVE  /\ on /\ mux = "free" /\ step = "none"
             /\ Head(events).ver \in Versions /\ events' \in Seq(EntityEvents)
  <2>1. events \in Seq(EntityEvents) /\ events # <<>> /\ events' = Tail(events)
    BY <1>1 DEF NextEntityEvent, SupInv, TypeOK
  <2>2. Head(events) \in EntityEvents /\ events' \in Seq(EntityEvents)
    BY <2>1, HeadTailProperties
  <2> QED
    BY <1>1, <2>2 DEF NextEntityEvent, SupInv, TypeOK, EntityEvents
<1>2. CASE HandleEntityCreate
  <2>1. TypeOK'
    BY <1>1, <1>2 DEF HandleEntityCreate, SupInv, TypeOK, store, setCtl, CtlMuxFree
  <2>2. NoOrphan' /\ StartAlone' /\ VisitsKept'
    BY <1>2 DEF HandleEntityCreate, SupInv, NoOrphan, StartAlone, VisitsKept, store, setCtl
  <2> QED
    BY <2>1, <2>2 DEF SupInv
<1>3. CASE HandleEntityUpdate
  <2>1. TypeOK'
    BY <1>1, <1>3 DEF HandleEntityUpdate, SupInv, TypeOK, store, setCtl, CtlMuxFree
  <2>2. NoOrphan' /\ StartAlone' /\ VisitsKept'
    BY <1>3 DEF HandleEntityUpdate, SupInv, NoOrphan, StartAlone, VisitsKept, store, setCtl
  <2> QED
    BY <2>1, <2>2 DEF SupInv
<1>4. CASE HandleEntityDelete
  <2>1. TypeOK'
    BY <1>1, <1>4 DEF HandleEntityDelete, SupInv, TypeOK, store, setCtl, CtlMuxFree
  <2>2. NoOrphan' /\ StartAlone' /\ VisitsKept'
    BY <1>1, <1>4
    DEF HandleEntityDelete, SupInv, NoOrphan, StartAlone, VisitsKept, store, setCtl
  <2> QED
    BY <2>1, <2>2 DEF SupInv
<1>5. CASE RetryWorker
  <2>1. TypeOK'
    BY <1>5 DEF RetryWorker, SupInv, TypeOK, store, setCtl, CtlMuxFree
  <2>2. NoOrphan' /\ StartAlone' /\ VisitsKept'
    BY <1>5 DEF RetryWorker, SupInv, TypeOK, NoOrphan, StartAlone, VisitsKept, store, setCtl
  <2> QED
    BY <2>1, <2>2 DEF SupInv
<1>6. CASE ControllerStop
  <2>1. TypeOK'
    BY <1>6 DEF ControllerStop, SupInv, TypeOK, store, setCtl, CtlMuxFree
  <2>2. NoOrphan' /\ StartAlone' /\ VisitsKept'
    BY <1>6 DEF ControllerStop, SupInv, TypeOK, NoOrphan, StartAlone, VisitsKept, store, setCtl
  <2> QED
    BY <2>1, <2>2 DEF SupInv
<1>7. CASE HandleWorkerEvent
  <2>1. TypeOK'
    <3>1. /\ workerEvents' \in Seq(Versions) /\ Head(workerEvents) \in Versions
          /\ faults' \in 0..MaxFaults
      BY <1>7, HeadTailProperties DEF HandleWorkerEvent, SupInv, TypeOK, Fault
    <3> QED
      BY <1>7, <3>1 DEF HandleWorkerEvent, SupInv, TypeOK, store, setCtl, CtlMuxFree
  <2>2. NoOrphan' /\ StartAlone' /\ VisitsKept'
    BY <1>7 DEF HandleWorkerEvent, SupInv, NoOrphan, StartAlone, VisitsKept, store, setCtl
  <2> QED
    BY <2>1, <2>2 DEF SupInv
<1> QED
  BY <1>2, <1>3, <1>4, <1>5, <1>6, <1>7 DEF HandleEntityEvent

-----------------------------------------------------------------------------
\* Faults are counted up to their bound.
LEMMA FaultCounted ==
    ASSUME TypeOK, NEW f, Fault(f)
    PROVE  faults' \in 0..MaxFaults
BY SupervisionAssumption DEF TypeOK, Fault

\* A controller that is on belongs to a worker that runs or is at its last step of Start:
\* before that step it is off, so it has no worker that runs and nobody visits its table.
LEMMA OffWhileStarting ==
    ASSUME SupInv, step \in {"client", "load", "register"}
    PROVE  /\ ctl # "on" /\ todo = {} /\ current = Nobody
           /\ \A s \in Sets : ~active[s]
           /\ ~running /\ entry /\ on /\ mux = "start"
BY DEF SupInv, TypeOK, NoOrphan, StartAlone, CtlMuxFree

\* Stop of the scale set controller leaves nothing that runs.
LEMMA StopSetsEmpties ==
    ASSUME SupInv, StopSets
    PROVE  /\ todo' = {} /\ current' = Nobody /\ ctl' = "off"
           /\ kept' \in [Sets -> {"none", "bare", "worker"}]
           /\ active' \in [Sets -> BOOLEAN] /\ \A s \in Sets : ~active'[s]
           /\ ctlEvents' \in Seq(ScaleSetEvents) /\ setEvents' \in [Sets -> Seq(Versions)]
           /\ UNCHANGED <<latest, version, ran, leaked>>
BY DEF StopSets, CtlMuxFree

\* Worker.Start of the entity worker, step by step, and Worker.Stop.
LEMMA EntityWorkerStep == ASSUME SupInv, StartWorker \/ WorkerStop PROVE SupInv'
<1> USE SupervisionAssumption
<1>1. CASE WorkerClient
  <2>1. TypeOK'
    BY <1>1, FaultCounted, OffWhileStarting
    DEF WorkerClient, WorkerStartEnds, SupInv, TypeOK, store, setCtl, CtlMuxFree
  <2>2. NoOrphan' /\ StartAlone' /\ VisitsKept'
    BY <1>1, OffWhileStarting
    DEF WorkerClient, WorkerStartEnds, SupInv, NoOrphan, StartAlone, VisitsKept, store, setCtl
  <2> QED
    BY <2>1, <2>2 DEF SupInv
<1>2. CASE WorkerLoad
  <2>1. \A s \in Sets : sets[s].ver \in Versions
    BY DEF SupInv, TypeOK, Rows
  <2>2. /\ faults' \in 0..MaxFaults /\ kept' \in [Sets -> {"none", "bare", "worker"}]
        /\ latest' \in [Sets -> Versions] /\ version' \in [Sets -> Versions]
        /\ missed' \in [Sets -> BOOLEAN]
    <3>1. CASE step' = "register"
      <4>1. PICK bare \in SUBSET {s \in Sets : Exists(sets[s])} :
              /\ IF bare = {} THEN UNCHANGED faults ELSE Fault("store")
              /\ kept' = [s \in Sets |-> IF s \in bare THEN "bare"
                                        ELSE IF Exists(sets[s]) THEN "worker" ELSE "none"]
        BY <1>2, <3>1 DEF WorkerLoad, WorkerStartEnds
      <4>2. faults' \in 0..MaxFaults
        BY <4>1, FaultCounted DEF SupInv, TypeOK
      <4>3. /\ latest' = [s \in Sets |-> sets[s].ver] /\ version' = [s \in Sets |-> sets[s].ver]
            /\ missed' = [s \in Sets |-> FALSE]
        BY <1>2, <3>1 DEF WorkerLoad, WorkerStartEnds
      <4>4. kept' \in [Sets -> {"none", "bare", "worker"}]
        BY <4>1
      <4> QED
        BY <2>1, <4>2, <4>3, <4>4
    <3>2. CASE step' # "register"
      BY <1>2, <3>2, FaultCounted DEF WorkerLoad, SupInv, TypeOK
    <3> QED
      BY <3>1, <3>2
  <2>3. \/ mux' = "start" /\ step' = "register" /\ ctl' = "loaded"
        \/ mux' = "free" /\ step' = "none" /\ ctl' = ctl
    BY <1>2, OffWhileStarting DEF WorkerLoad, WorkerStartEnds
  <2>4. TypeOK'
    BY <1>2, <2>2, <2>3, OffWhileStarting DEF WorkerLoad, SupInv, TypeOK, store, CtlMuxFree
  <2>5. NoOrphan' /\ StartAlone' /\ VisitsKept'
    BY <1>2, <2>3, OffWhileStarting DEF WorkerLoad, NoOrphan, StartAlone, VisitsKept
  <2> QED
    BY <2>4, <2>5 DEF SupInv
<1>3. CASE WorkerRegister
  <2>1. faults' \in 0..MaxFaults /\ kept' \in [Sets -> {"none", "bare", "worker"}]
    BY <1>3, FaultCounted DEF WorkerRegister, SupInv, TypeOK
  <2>2. \/ mux' = "start" /\ step' = "consumer" /\ ctl' = "on"
        \/ mux' = "free" /\ step' = "none" /\ ctl' = "off"
    BY <1>3, OffWhileStarting DEF WorkerRegister, WorkerStartEnds
  <2>3. TypeOK'
    BY <1>3, <2>1, <2>2, OffWhileStarting DEF WorkerRegister, SupInv, TypeOK, store, CtlMuxFree
  <2>4. NoOrphan' /\ StartAlone' /\ VisitsKept'
    BY <1>3, <2>2, OffWhileStarting DEF WorkerRegister, NoOrphan, StartAlone, VisitsKept
  <2> QED
    BY <2>3, <2>4 DEF SupInv
<1>4. CASE WorkerConsumer
  <2>1. ~running /\ entry /\ on /\ mux = "start"
    BY <1>4 DEF WorkerConsumer, SupInv, TypeOK, StartAlone
  <2>2. TypeOK'
    BY <1>4, <2>1, FaultCounted
    DEF WorkerConsumer, WorkerStartEnds, SupInv, TypeOK, store, setCtl, CtlMuxFree
  <2>3. NoOrphan' /\ StartAlone' /\ VisitsKept'
    BY <1>4, <2>1
    DEF WorkerConsumer, WorkerStartEnds, SupInv, NoOrphan, StartAlone, VisitsKept, store, setCtl
  <2> QED
    BY <2>2, <2>3 DEF SupInv
<1>5. CASE WorkerUndo
  <2>1. StopSets /\ ~running
    BY <1>5 DEF WorkerUndo, SupInv, StartAlone
  <2>2. TypeOK'
    BY <1>5, <2>1, StopSetsEmpties
    DEF WorkerUndo, WorkerStartEnds, SupInv, TypeOK, store, CtlMuxFree
  <2>3. NoOrphan' /\ StartAlone' /\ VisitsKept'
    BY <1>5, <2>1, StopSetsEmpties
    DEF WorkerUndo, WorkerStartEnds, NoOrphan, StartAlone, VisitsKept
  <2> QED
    BY <2>2, <2>3 DEF SupInv
<1>6. CASE WorkerStop
  <2>1. StopSets /\ step = "none"
    BY <1>6 DEF WorkerStop, SupInv, TypeOK
  <2>2. workerEvents' \in Seq(Versions) /\ on' \in BOOLEAN
    BY <1>6 DEF WorkerStop, SupInv, TypeOK
  <2>3. TypeOK'
    BY <1>6, <2>1, <2>2, StopSetsEmpties DEF WorkerStop, SupInv, TypeOK, store, CtlMuxFree
  <2>4. NoOrphan' /\ StartAlone' /\ VisitsKept'
    BY <1>6, <2>1, StopSetsEmpties DEF WorkerStop, NoOrphan, StartAlone, VisitsKept
  <2> QED
    BY <2>3, <2>4 DEF SupInv
<1> QED
  BY <1>1, <1>2, <1>3, <1>4, <1>5, <1>6 DEF StartWorker

-----------------------------------------------------------------------------
\* A worker is created, or refused and its entry kept without one: entries other than
\* that of s are left alone, and s has one.
LEMMA CreatedOrRefused ==
    ASSUME SupInv, NEW s \in Sets, NEW v \in Versions, WorkerCreated(s, v) \/ WorkerRefused(s)
    PROVE  /\ kept' \in [Sets -> {"none", "bare", "worker"}]
           /\ version' \in [Sets -> Versions] /\ faults' \in 0..MaxFaults
           /\ \A t \in Sets : kept[t] = "worker" => kept'[t] = "worker"
<1>1. faults' \in 0..MaxFaults
  BY FaultCounted DEF WorkerCreated, WorkerRefused, SupInv, TypeOK
<1> QED
  BY <1>1, ZenonT(30) DEF WorkerCreated, WorkerRefused, SupInv, TypeOK

\* The events of the scale set controller are handled with its mux held and free of a
\* retry pass.
LEMMA CtlEventTaken ==
    ASSUME SupInv, NEW op, NextEvent(op)
    PROVE  /\ ctl = "on" /\ todo = {} /\ current = Nobody
           /\ Head(ctlEvents).set \in Sets /\ Head(ctlEvents).ver \in Versions
           /\ ctlEvents' \in Seq(ScaleSetEvents)
<1>1. ctlEvents \in Seq(ScaleSetEvents) /\ ctlEvents # <<>> /\ ctlEvents' = Tail(ctlEvents)
  BY DEF NextEvent, SupInv, TypeOK
<1>2. Head(ctlEvents) \in ScaleSetEvents /\ ctlEvents' \in Seq(ScaleSetEvents)
  BY <1>1, HeadTailProperties
<1> QED
  BY <1>2 DEF NextEvent, CtlMuxFree, ScaleSetEvents

LEMMA CtlEventStep == ASSUME SupInv, HandleCtlEvent PROVE SupInv'
<1> USE SupervisionAssumption
<1> DEFINE e == Head(ctlEvents)
<1>1. CASE HandleSetCreate
  <2>1. /\ ctl = "on" /\ todo = {} /\ current = Nobody /\ e.set \in Sets /\ e.ver \in Versions
        /\ ctlEvents' \in Seq(ScaleSetEvents)
    BY <1>1, CtlEventTaken DEF HandleSetCreate
  <2>2. /\ kept' \in [Sets -> {"none", "bare", "worker"}] /\ version' \in [Sets -> Versions]
        /\ faults' \in 0..MaxFaults /\ latest' \in [Sets -> Versions]
        /\ \A t \in Sets : kept[t] = "worker" => kept'[t] = "worker"
    <3>1. CASE UNCHANGED <<kept, latest, version, faults>>
      BY <3>1 DEF SupInv, TypeOK
    <3>2. CASE /\ WorkerCreated(e.set, e.ver) \/ WorkerRefused(e.set)
               /\ latest' = [latest EXCEPT ![e.set] = e.ver]
      BY <2>1, <3>2, CreatedOrRefused DEF SupInv, TypeOK
    <3> QED
      BY <1>1, <3>1, <3>2 DEF HandleSetCreate
  <2>3. TypeOK'
    BY <1>1, <2>1, <2>2 DEF HandleSetCreate, SupInv, TypeOK, store, entityCtl, CtlMuxFree
  <2>4. NoOrphan' /\ StartAlone' /\ VisitsKept'
    BY <1>1, <2>1, <2>2
    DEF HandleSetCreate, SupInv, NoOrphan, StartAlone, VisitsKept, store, entityCtl
  <2> QED
    BY <2>3, <2>4 DEF SupInv
<1>2. CASE HandleSetUpdate
  <2>1. /\ ctl = "on" /\ todo = {} /\ current = Nobody /\ e.set \in Sets /\ e.ver \in Versions
        /\ ctlEvents' \in Seq(ScaleSetEvents)
    BY <1>2, CtlEventTaken DEF HandleSetUpdate
  <2>2. /\ kept' \in [Sets -> {"none", "bare", "worker"}] /\ version' \in [Sets -> Versions]
        /\ faults' \in 0..MaxFaults
        /\ \A t \in Sets : kept[t] = "worker" => kept'[t] = "worker"
    <3>1. CASE UNCHANGED <<kept, version, faults>>
      BY <3>1 DEF SupInv, TypeOK
    <3>2. CASE WorkerCreated(e.set, e.ver) \/ WorkerRefused(e.set)
      BY <2>1, <3>2, CreatedOrRefused
    <3> QED
      BY <1>2, <3>1, <3>2 DEF HandleSetUpdate
  <2>3. latest' \in [Sets -> Versions]
    BY <1>2, <2>1 DEF HandleSetUpdate, SupInv, TypeOK
  <2>4. TypeOK'
    BY <1>2, <2>1, <2>2, <2>3 DEF HandleSetUpdate, SupInv, TypeOK, store, entityCtl, CtlMuxFree
  <2>5. NoOrphan' /\ StartAlone' /\ VisitsKept'
    BY <1>2, <2>1, <2>2
    DEF HandleSetUpdate, SupInv, NoOrphan, StartAlone, VisitsKept, store, entityCtl
  <2> QED
    BY <2>4, <2>5 DEF SupInv
<1>3. CASE HandleSetDelete
  <2>1. /\ ctl = "on" /\ todo = {} /\ current = Nobody /\ e.set \in Sets
        /\ ctlEvents' \in Seq(ScaleSetEvents)
    BY <1>3, CtlEventTaken DEF HandleSetDelete
  <2>2. TypeOK'
    BY <1>3, <2>1 DEF HandleSetDelete, SupInv, TypeOK, store, entityCtl, CtlMuxFree
  <2>3. NoOrphan' /\ StartAlone' /\ VisitsKept'
    BY <1>3, <2>1
    DEF HandleSetDelete, SupInv, TypeOK, NoOrphan, StartAlone, VisitsKept, store, entityCtl
  <2> QED
    BY <2>2, <2>3 DEF SupInv
<1> QED
  BY <1>1, <1>2, <1>3 DEF HandleCtlEvent

-----------------------------------------------------------------------------
\* The retry pass over the scale sets, Start of a worker step by step, and the events
\* of a worker.
LEMMA ScaleSetStep ==
    ASSUME SupInv, RetrySets \/ StartSet \/ \E s \in Sets : HandleSetEvent(s)
    PROVE  SupInv'
<1> USE SupervisionAssumption
<1>1. CASE RetrySets
  <2>1. TypeOK'
    BY <1>1 DEF RetrySets, SupInv, TypeOK, store, entityCtl, CtlMuxFree
  <2>2. NoOrphan' /\ StartAlone' /\ VisitsKept'
    BY <1>1 DEF RetrySets, SupInv, NoOrphan, StartAlone, VisitsKept, store, entityCtl
  <2> QED
    BY <2>1, <2>2 DEF SupInv
<1>2. ASSUME NEW s \in Sets, VisitSet(s)
      PROVE  SupInv'
  <2>1. ctl = "on" /\ latest[s] \in Versions
    BY <1>2 DEF VisitSet, SupInv, TypeOK, CtlMuxFree
  <2>2. /\ kept' \in [Sets -> {"none", "bare", "worker"}] /\ version' \in [Sets -> Versions]
        /\ faults' \in 0..MaxFaults
        /\ \A t \in Sets : kept[t] = "worker" => kept'[t] = "worker"
    <3>1. CASE UNCHANGED <<kept, version, faults>>
      BY <3>1 DEF SupInv, TypeOK
    <3>2. CASE WorkerCreated(s, latest[s]) \/ WorkerRefused(s)
      BY <2>1, <3>2, CreatedOrRefused
    <3> QED
      BY <1>2, <3>1, <3>2 DEF VisitSet
  <2>3. current' \in [s : Sets, at : {"list", "ensure", "register"}] \cup {Nobody}
    BY <1>2 DEF VisitSet
  <2>4. TypeOK'
    BY <1>2, <2>1, <2>2, <2>3 DEF VisitSet, SupInv, TypeOK, store, entityCtl, CtlMuxFree
  <2>5. NoOrphan' /\ StartAlone'
    BY <1>2, <2>2 DEF VisitSet, SupInv, NoOrphan, StartAlone, store, entityCtl
  <2>6. VisitsKept'
    BY <1>2 DEF VisitSet, VisitsKept
  <2> QED
    BY <2>4, <2>5, <2>6 DEF SupInv
<1>3. ASSUME NEW s \in Sets, StartList(s) \/ StartEnsure(s)
      PROVE  SupInv'
  <2>1. current.s = s /\ current # Nobody
    BY <1>3 DEF StartList, StartEnsure, Nobody
  <2>2. /\ current' = Nobody \/ current' \in [s : {s}, at : {"list", "ensure", "register"}]
        /\ faults' \in 0..MaxFaults /\ leaked' \in [Sets -> BOOLEAN]
    <3>1. current \in [s : {s}, at : {"list", "ensure", "register"}]
      BY <1>3 DEF StartList, StartEnsure
    <3>2. current' = Nobody \/ current' \in [s : {s}, at : {"list", "ensure", "register"}]
      BY <1>3, <3>1 DEF StartList, StartEnsure, StartEnds
    <3>3. faults' \in 0..MaxFaults
      BY <1>3, FaultCounted DEF StartList, StartEnsure, SupInv, TypeOK
    <3>4. leaked' \in [Sets -> BOOLEAN]
      BY <1>3 DEF StartList, StartEnsure, SupInv, TypeOK
    <3> QED
      BY <3>2, <3>3, <3>4
  <2>3. ctl = "on"
    BY <2>1 DEF SupInv, TypeOK, CtlMuxFree
  <2>4. TypeOK'
    BY <1>3, <2>2, <2>3 DEF StartList, StartEnsure, SupInv, TypeOK, store, entityCtl, CtlMuxFree
  <2>5. NoOrphan' /\ StartAlone'
    BY <1>3 DEF StartList, StartEnsure, SupInv, NoOrphan, StartAlone, store, entityCtl
  <2>6. VisitsKept'
    BY <1>3, <2>1, <2>2 DEF StartList, StartEnsure, SupInv, VisitsKept
  <2> QED
    BY <2>4, <2>5, <2>6 DEF SupInv
<1>4. ASSUME NEW s \in Sets, StartRegister(s)
      PROVE  SupInv'
  <2>1. current.s = s /\ current # Nobody /\ current' = Nobody
    BY <1>4 DEF StartRegister, StartEnds, Nobody
  <2>2. ctl = "on" /\ kept[s] = "worker"
    BY <2>1 DEF SupInv, TypeOK, CtlMuxFree, VisitsKept
  <2>3. faults' \in 0..MaxFaults /\ active' \in [Sets -> BOOLEAN]
    BY <1>4, FaultCounted DEF StartRegister, SupInv, TypeOK
  <2>4. TypeOK'
    BY <1>4, <2>1, <2>2, <2>3 DEF StartRegister, SupInv, TypeOK, store, entityCtl, CtlMuxFree
  <2>5. \A t \in Sets : active'[t] => active[t] \/ t = s
    BY <1>4 DEF StartRegister, SupInv, TypeOK
  <2>6. NoOrphan' /\ StartAlone' /\ VisitsKept'
    BY <1>4, <2>1, <2>2, <2>5
    DEF StartRegister, SupInv, NoOrphan, StartAlone, VisitsKept, store, entityCtl
  <2> QED
    BY <2>4, <2>6 DEF SupInv
<1>5. ASSUME NEW s \in Sets, HandleSetEvent(s)
      PROVE  SupInv'
  <2>1. Head(setEvents[s]) \in Versions /\ Tail(setEvents[s]) \in Seq(Versions)
    BY <1>5, HeadTailProperties DEF HandleSetEvent, SupInv, TypeOK
  <2>2. version' \in [Sets -> Versions] /\ setEvents' \in [Sets -> Seq(Versions)]
    BY <1>5, <2>1 DEF HandleSetEvent, SupInv, TypeOK
  <2>3. TypeOK'
    BY <1>5, <2>2 DEF HandleSetEvent, SupInv, TypeOK, store, entityCtl, CtlMuxFree
  <2>4. NoOrphan' /\ StartAlone' /\ VisitsKept'
    BY <1>5 DEF HandleSetEvent, SupInv, NoOrphan, StartAlone, VisitsKept, store, entityCtl
  <2> QED
    BY <2>3, <2>4 DEF SupInv
<1> QED
  BY <1>1, <1>2, <1>3, <1>4, <1>5 DEF StartSet

-----------------------------------------------------------------------------
\* Every step of the tree keeps the invariant.
LEMMA SupInvNext == SupInv /\ [Next]_vars => SupInv'
<1> SUFFICES ASSUME SupInv, [Next]_vars PROVE SupInv'
  OBVIOUS
<1>1. CASE UNCHANGED vars
  BY <1>1
  DEF vars, store, entityCtl, setCtl, SupInv, TypeOK, NoOrphan, StartAlone, VisitsKept, CtlMuxFree
<1> QED
  BY <1>1, ApiStep, EntityControllerStep, EntityWorkerStep, CtlEventStep, ScaleSetStep DEF Next

LEMMA SupInvHolds == Spec => []SupInv
BY SupInvInit, SupInvNext, PTL DEF Spec

\* The variables keep their types; in particular a worker of an entity is started or
\* stopped only with the mux of the entity controller held, and the retry pass of a
\* scale set controller never goes on once that controller is off.
THEOREM SupervisionTypeCorrect == Spec => []TypeOK
<1>1. SupInv => TypeOK
  BY DEF SupInv
<1> QED
  BY <1>1, SupInvHolds, PTL

\* For any number of scale sets, whatever calls of the store, the forge and the watcher
\* fail and however API calls, events, retries and the shutdown interleave: every worker
\* that runs is in the table of the controller that will stop it, up to the entity
\* controller (workers/entity, workers/scaleset/controller.go).
THEOREM NoWorkerIsOrphaned == Spec => []NoOrphan
<1>1. SupInv => NoOrphan
  BY DEF SupInv
<1> QED
  BY <1>1, SupInvHolds, PTL
=============================================================================
