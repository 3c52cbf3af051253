---------------------------- MODULE Supervision ----------------------------
(***************************************************************************)
(* The tree of workers that serves the scale sets of one entity            *)
(* (workers/entity, workers/scaleset/controller*.go): the entity           *)
(* controller keeps a worker per entity, which owns a scale set            *)
(* controller, which keeps a worker per scale set.  Two retry loops start  *)
(* what does not run, events of the database watcher add, update and       *)
(* remove entries, and stopping a node stops the nodes below it.           *)
(*                                                                         *)
(* Events arrive in the order of the commits (see Watcher for what delays  *)
(* and reorders them).  The back-off only delays a retry, and time is not  *)
(* modelled.  IDs are not reused, so a deleted row does not come back.     *)
(***************************************************************************)
EXTENDS Naturals, Sequences

CONSTANTS
    Sets,           \* scale sets of the entity
    MaxVersion,     \* bound: versions of a row
    MaxFaults,      \* bound: how often a call fails
    Faults          \* the calls that may fail: "client", "store", "register", "forge"

ASSUME SupervisionAssumption ==
    /\ MaxVersion \in Nat \ {0} /\ MaxFaults \in Nat
    /\ Faults \subseteq {"client", "store", "register", "forge"}

VARIABLES
    row,            \* the entity in the store: version 0 before it is created
    sets,           \* the scale sets in the store
    faults,         \* how often a call failed
    on,             \* entity controller: running
    entry,          \* the entity has a worker in c.Entities
    mux,            \* who holds the controller's mux, and the worker's below it
    step,           \* where Worker.Start of the entity worker is
    running,        \* the entity worker runs
    knows,          \* version of w.Entity
    events,         \* queue of the entity controller
    workerEvents,   \* queue of the entity worker
    ctl,            \* scale set controller: "off", "loaded" and not registered, "on"
    kept,           \* kept[s]: entry of c.ScaleSets: "none", "bare" (no worker), "worker"
    latest,         \* latest[s]: version of the scale set in the entry
    todo, current,  \* retry pass of the scale set controller: the sets left to visit,
                    \* and how far the Start of the worker being visited is
    active,         \* active[s]: the worker of s runs
    version,        \* version[s]: version of w.scaleSet
    ran,            \* ran[s]: s had a worker, now or before GARM was restarted: a
                    \* runner of it may have been left in creating
    leaked,         \* leaked[s]: Start left the lock of such a runner locked
    ctlEvents,      \* queue of the scale set controller
    setEvents,      \* setEvents[s]: queue of the worker of s
    missed          \* history: a commit of s fell between load and registration, and
                    \* no later one was announced to the scale set controller

store == <<row, sets>>
entityCtl == <<on, entry, mux, step, running, knows, events, workerEvents>>
setCtl == <<ctl, kept, latest, todo, current, active, version, ran, leaked, ctlEvents, setEvents>>
vars == <<store, faults, entityCtl, setCtl, missed>>

Nobody == [s |-> "none", at |-> "none"]
Exists(r) == r.ver > 0 /\ ~r.gone

\* The controllers are started before the API is served: nothing happens in between.
Init ==
    /\ row \in [ver : {0, 1}, gone : {FALSE}]
    /\ sets \in [Sets -> [ver : {0, row.ver}, gone : {FALSE}]]
    /\ faults = 0 /\ on = TRUE /\ entry = (row.ver = 1) /\ mux = "free" /\ step = "none"
    /\ running = FALSE /\ knows = row.ver /\ events = <<>> /\ workerEvents = <<>>
    /\ ctl = "off" /\ kept = [s \in Sets |-> "none"] /\ latest = [s \in Sets |-> 0]
    /\ todo = {} /\ current = Nobody
    /\ active = [s \in Sets |-> FALSE] /\ version = [s \in Sets |-> 0]
    /\ ran = [s \in Sets |-> sets[s].ver = 1]
    /\ leaked = [s \in Sets |-> FALSE] /\ ctlEvents = <<>>
    /\ setEvents = [s \in Sets |-> <<>>] /\ missed = [s \in Sets |-> FALSE]

Fault(f) == f \in Faults /\ faults < MaxFaults /\ faults' = faults + 1

-----------------------------------------------------------------------------
\* The API: a commit and its event, for every consumer that is registered.

CommitEntity(op, new) ==
    /\ row' = new
    /\ events' = Append(events, [op |-> op, ver |-> new.ver])
    /\ workerEvents' = IF running /\ op = "update" THEN Append(workerEvents, new.ver)
                       ELSE workerEvents
    /\ UNCHANGED <<sets, faults, on, entry, mux, step, running, knows, setCtl, missed>>

CreateEntity == row.ver = 0 /\ CommitEntity("create", [row EXCEPT !.ver = 1])

\* The entity itself or the credentials it uses
UpdateEntity ==
    Exists(row) /\ row.ver < MaxVersion /\ CommitEntity("update", [row EXCEPT !.ver = @ + 1])

\* Refused while the entity has scale sets
DeleteEntity ==
    /\ Exists(row) /\ \A s \in Sets : ~Exists(sets[s])
    /\ CommitEntity("delete", [row EXCEPT !.gone = TRUE])

CommitSet(s, op, new) ==
    /\ sets' = [sets EXCEPT ![s] = new]
    /\ ctlEvents' = IF ctl = "on"
                    THEN Append(ctlEvents, [set |-> s, op |-> op, ver |-> new.ver])
                    ELSE ctlEvents
    /\ setEvents' = IF active[s] /\ op = "update"
                    THEN [setEvents EXCEPT ![s] = Append(@, new.ver)] ELSE setEvents
    /\ missed' = [missed EXCEPT ![s] = (ctl = "loaded") \/ (ctl = "off" /\ @)]
    /\ UNCHANGED <<row, faults, entityCtl, ctl, kept, latest, todo, current, active, version, ran,
                   leaked>>

CreateSet(s) ==
    sets[s].ver = 0 /\ Exists(row) /\ CommitSet(s, "create", [sets[s] EXCEPT !.ver = 1])

UpdateSet(s) ==
    /\ Exists(sets[s]) /\ sets[s].ver < MaxVersion
    /\ CommitSet(s, "update", [sets[s] EXCEPT !.ver = @ + 1])

DeleteSet(s) == Exists(sets[s]) /\ CommitSet(s, "delete", [sets[s] EXCEPT !.gone = TRUE])

-----------------------------------------------------------------------------
\* The scale set controller.

\* createScaleSetWorker needs the controller info and the entity of the store.
WorkerCreated(s, ver) ==
    /\ Exists(row) /\ UNCHANGED faults
    /\ kept' = [kept EXCEPT ![s] = "worker"] /\ version' = [version EXCEPT ![s] = ver]

\* Mutant: a scale set whose worker could not be created is not kept.
RefusedAndDropped(s) ==
    /\ Fault("store") \/ (~Exists(row) /\ UNCHANGED faults)
    /\ UNCHANGED <<kept, version>>

\* The entry is kept without a worker, for the retry loop.
WorkerRefused(s) ==
    /\ Fault("store") \/ (~Exists(row) /\ UNCHANGED faults)
    /\ kept' = [kept EXCEPT ![s] = IF @ = "none" THEN "bare" ELSE @] /\ UNCHANGED version

\* Stop of the controller: every worker is stopped and every entry removed.  Start
\* of a worker holds the mux it needs.
CtlMuxFree == todo = {} /\ current = Nobody

\* Mutant: Stop does not wait for the mux.
StopSetsUnlocked ==
    /\ ctl' = "off" /\ kept' = [s \in Sets |-> "none"] /\ active' = [s \in Sets |-> FALSE]
    /\ ctlEvents' = <<>> /\ setEvents' = [s \in Sets |-> <<>>]
    /\ UNCHANGED <<latest, todo, current, version, ran, leaked>>

StopSets ==
    /\ CtlMuxFree
    /\ ctl' = "off" /\ kept' = [s \in Sets |-> "none"] /\ active' = [s \in Sets |-> FALSE]
    /\ ctlEvents' = <<>> /\ setEvents' = [s \in Sets |-> <<>>]
    /\ UNCHANGED <<latest, todo, current, version, ran, leaked>>

NextEvent(op) ==
    /\ ctl = "on" /\ CtlMuxFree /\ ctlEvents # <<>> /\ Head(ctlEvents).op \in op
    /\ ctlEvents' = Tail(ctlEvents)

\* handleScaleSetCreateOperation, and an update of a set that has no entry
HandleSetCreate ==
    /\ NextEvent({"create", "update"})
    /\ LET e == Head(ctlEvents)
       IN  \/ /\ kept[e.set] = "none"
              /\ WorkerCreated(e.set, e.ver) \/ WorkerRefused(e.set)
              /\ latest' = [latest EXCEPT ![e.set] = e.ver]
           \/ /\ kept[e.set] # "none" /\ e.op = "create"
              /\ UNCHANGED <<kept, latest, version, faults>>
    /\ UNCHANGED <<store, entityCtl, ctl, todo, current, active, ran, leaked, setEvents, missed>>

\* handleScaleSetUpdateOperation: a worker that runs watches its scale set itself.
HandleSetUpdate ==
    /\ NextEvent({"update"})
    /\ LET e == Head(ctlEvents)
       IN  /\ kept[e.set] # "none"
           /\ \/ /\ \/ active[e.set] /\ UNCHANGED <<kept, version, faults>>
                    \/ ~active[e.set] /\ WorkerCreated(e.set, e.ver)
                 /\ latest' = [latest EXCEPT ![e.set] = e.ver]
              \/ ~active[e.set] /\ WorkerRefused(e.set) /\ UNCHANGED latest
    /\ UNCHANGED <<store, entityCtl, ctl, todo, current, active, ran, leaked, setEvents, missed>>

HandleSetDelete ==
    /\ NextEvent({"delete"})
    /\ LET s == Head(ctlEvents).set
       IN  /\ kept' = [kept EXCEPT ![s] = "none"] /\ active' = [active EXCEPT ![s] = FALSE]
           /\ setEvents' = [setEvents EXCEPT ![s] = <<>>]
    /\ UNCHANGED <<store, faults, entityCtl, ctl, latest, todo, current, version, ran, leaked,
                   missed>>

\* retryFailedScaleSets visits every entry with the mux held.
RetrySets ==
    /\ ctl = "on" /\ CtlMuxFree
    /\ todo' = {s \in Sets : kept[s] # "none" /\ ~active[s]} /\ todo' # {}
    /\ UNCHANGED <<store, faults, entityCtl, ctl, kept, latest, current, active, version, ran,
                   leaked, ctlEvents, setEvents, missed>>

VisitSet(s) ==
    /\ current = Nobody /\ s \in todo
    /\ todo' = todo \ {s}
    /\ \/ kept[s] = "bare" /\ (WorkerCreated(s, latest[s]) \/ WorkerRefused(s))
       \/ kept[s] = "worker" /\ UNCHANGED <<kept, version, faults>>
    /\ current' = IF kept'[s] = "worker" THEN [s |-> s, at |-> "list"] ELSE Nobody
    /\ UNCHANGED <<store, entityCtl, ctl, latest, active, ran, leaked, ctlEvents, setEvents,
                   missed>>

StartEnds == current' = Nobody

\* Worker.Start: the runners of the set are listed.  The lock of one that is in creating
\* is taken, and given back unless there is no client, or ForceUpdateInstance fails: its
\* result has replaced the runner whose lock is to be released.  (When the row is gone
\* Start goes on, and the lock that stays locked is one nobody takes again.)
StartList(s) ==
    /\ current = [s |-> s, at |-> "list"] /\ ~leaked[s]
    /\ \/ current' = [current EXCEPT !.at = "ensure"] /\ UNCHANGED <<faults, leaked>>
       \/ Fault("store") /\ StartEnds /\ UNCHANGED leaked
       \/ /\ ran[s] /\ (Fault("store") \/ Fault("client"))
          /\ StartEnds /\ leaked' = [leaked EXCEPT ![s] = TRUE]
    /\ UNCHANGED <<store, entityCtl, ctl, kept, latest, todo, active, version, ran, ctlEvents,
                   setEvents, missed>>

\* ensureScaleSetInGitHub: the API removed a deleted scale set there, too, and a new
\* one cannot be recorded in the store
StartEnsure(s) ==
    /\ current = [s |-> s, at |-> "ensure"]
    /\ \/ Exists(sets[s]) /\ current' = [current EXCEPT !.at = "register"] /\ UNCHANGED faults
       \/ ~Exists(sets[s]) /\ StartEnds /\ UNCHANGED faults
       \/ Fault("forge") /\ StartEnds
    /\ UNCHANGED <<store, entityCtl, ctl, kept, latest, todo, active, version, ran, leaked,
                   ctlEvents, setEvents, missed>>

StartRegister(s) ==
    /\ current = [s |-> s, at |-> "register"] /\ StartEnds
    /\ \/ /\ active' = [active EXCEPT ![s] = TRUE] /\ ran' = [ran EXCEPT ![s] = TRUE]
          /\ UNCHANGED faults
       \/ Fault("register") /\ UNCHANGED <<active, ran>>
    /\ UNCHANGED <<store, entityCtl, ctl, kept, latest, todo, version, leaked, ctlEvents,
                   setEvents, missed>>

\* handleScaleSetEvent of the worker
HandleSetEvent(s) ==
    /\ active[s] /\ setEvents[s] # <<>>
    /\ version' = [version EXCEPT ![s] = Head(setEvents[s])]
    /\ setEvents' = [setEvents EXCEPT ![s] = Tail(@)]
    /\ UNCHANGED <<store, faults, entityCtl, ctl, kept, latest, todo, current, active, ran, leaked,
                   ctlEvents, missed>>

-----------------------------------------------------------------------------
\* The entity controller.  mux = "start", "delete" and "stop" also hold the mux of the
\* worker that is started or stopped.

NextEntityEvent(op) ==
    /\ on /\ mux = "free" /\ events # <<>> /\ Head(events).op = op
    /\ events' = Tail(events)

HandleEntityCreate ==
    /\ NextEntityEvent("create")
    /\ entry' = TRUE /\ knows' = IF entry THEN knows ELSE Head(events).ver
    /\ UNCHANGED <<store, faults, on, mux, step, running, workerEvents, setCtl, missed>>

\* handleWatcherUpdateOperation: a worker that runs watches its entity itself
HandleEntityUpdate ==
    /\ NextEntityEvent("update")
    /\ knows' = IF entry /\ ~running THEN Head(events).ver ELSE knows
    /\ UNCHANGED <<store, faults, on, entry, mux, step, running, workerEvents, setCtl, missed>>

HandleEntityDelete ==
    /\ NextEntityEvent("delete")
    /\ entry' = FALSE /\ mux' = IF running THEN "delete" ELSE "free"
    /\ UNCHANGED <<store, faults, on, step, running, knows, workerEvents, setCtl, missed>>

\* Controller.Stop at shutdown
ControllerStop ==
    /\ on /\ mux = "free"
    /\ IF running THEN mux' = "stop" /\ UNCHANGED on ELSE on' = FALSE /\ UNCHANGED mux
    /\ UNCHANGED <<store, faults, entry, step, running, knows, events, workerEvents, setCtl,
                   missed>>

\* Mutant: Stop waits for the event loop, which waits for the mux.
WorkerStopWaits ==
    /\ mux \in {"delete", "stop"} /\ workerEvents = <<>> /\ StopSets
    /\ running' = FALSE /\ mux' = "free" /\ on' = (on /\ mux # "stop")
    /\ UNCHANGED <<store, faults, entry, step, knows, events, workerEvents, missed>>

\* Worker.Stop
WorkerStop ==
    /\ mux \in {"delete", "stop"} /\ StopSets
    /\ running' = FALSE /\ workerEvents' = <<>> /\ mux' = "free" /\ on' = (on /\ mux # "stop")
    /\ UNCHANGED <<store, faults, entry, step, knows, events, missed>>

\* Mutant: a tick of the retry loop after the controller stopped starts workers.
RetryStopped ==
    /\ mux = "free" /\ entry /\ ~running
    /\ mux' = "start" /\ step' = "client"
    /\ UNCHANGED <<store, faults, on, entry, running, knows, events, workerEvents, setCtl,
                   missed>>

\* retryFailedWorkers, up to Worker.Start of a worker that does not run
RetryWorker ==
    /\ on /\ mux = "free" /\ entry /\ ~running
    /\ mux' = "start" /\ step' = "client"
    /\ UNCHANGED <<store, faults, on, entry, running, knows, events, workerEvents, setCtl,
                   missed>>

WorkerStartEnds == mux' = "free" /\ step' = "none"

\* The client of the forge
WorkerClient ==
    /\ step = "client"
    /\ \/ step' = "load" /\ UNCHANGED <<mux, faults>>
       \/ Fault("client") /\ WorkerStartEnds
    /\ UNCHANGED <<store, on, entry, running, knows, events, workerEvents, setCtl, missed>>

\* loadAllScaleSets of a new scale set controller
WorkerLoad ==
    /\ step = "load"
    /\ \/ /\ step' = "register" /\ ctl' = "loaded" /\ UNCHANGED mux
          /\ \E bare \in SUBSET {s \in Sets : Exists(sets[s])} :
                /\ IF bare = {} THEN UNCHANGED faults ELSE Fault("store")
                /\ kept' = [s \in Sets |-> IF s \in bare THEN "bare"
                                          ELSE IF Exists(sets[s]) THEN "worker" ELSE "none"]
          /\ latest' = [s \in Sets |-> sets[s].ver] /\ version' = [s \in Sets |-> sets[s].ver]
          /\ missed' = [s \in Sets |-> FALSE]
       \/ /\ Fault("store") /\ WorkerStartEnds
          /\ UNCHANGED <<ctl, kept, latest, version, missed>>
    /\ UNCHANGED <<store, on, entry, running, knows, events, workerEvents, todo, current,
                   active, ran, leaked, ctlEvents, setEvents>>

\* RegisterConsumer of the scale set controller, whose loops start
WorkerRegister ==
    /\ step = "register"
    /\ \/ ctl' = "on" /\ step' = "consumer" /\ UNCHANGED <<mux, kept, faults>>
       \/ /\ Fault("register") /\ WorkerStartEnds
          /\ ctl' = "off" /\ kept' = [s \in Sets |-> "none"]
    /\ UNCHANGED <<store, on, entry, running, knows, events, workerEvents, latest, todo,
                   current, active, version, ran, leaked, ctlEvents, setEvents, missed>>

\* Mutant: the scale set controller is not stopped when the worker cannot register.
WorkerConsumerOnly ==
    /\ step = "consumer" /\ WorkerStartEnds
    /\ \/ running' = TRUE /\ UNCHANGED faults
       \/ Fault("register") /\ UNCHANGED running
    /\ UNCHANGED <<store, on, entry, knows, events, workerEvents, setCtl, missed>>

\* RegisterConsumer of the entity worker; when it fails, the scale set controller is
\* stopped again
WorkerConsumer ==
    /\ step = "consumer"
    /\ \/ running' = TRUE /\ WorkerStartEnds /\ UNCHANGED faults
       \/ Fault("register") /\ step' = "undo" /\ UNCHANGED <<mux, running>>
    /\ UNCHANGED <<store, on, entry, knows, events, workerEvents, setCtl, missed>>

WorkerUndo ==
    /\ step = "undo" /\ StopSets /\ WorkerStartEnds
    /\ UNCHANGED <<store, faults, on, entry, running, knows, events, workerEvents, missed>>

\* handleWorkerWatcherEvent of the entity worker
HandleWorkerEvent ==
    /\ running /\ mux \notin {"start", "delete", "stop"} /\ workerEvents # <<>>
    /\ workerEvents' = Tail(workerEvents)
    /\ \/ knows' = Head(workerEvents) /\ UNCHANGED faults
       \/ Fault("client") /\ UNCHANGED knows
    /\ UNCHANGED <<store, on, entry, mux, step, running, events, setCtl, missed>>

-----------------------------------------------------------------------------
Api ==
    \/ CreateEntity \/ UpdateEntity \/ DeleteEntity
    \/ \E s \in Sets : CreateSet(s) \/ UpdateSet(s) \/ DeleteSet(s)

HandleEntityEvent == HandleEntityCreate \/ HandleEntityUpdate \/ HandleEntityDelete
StartWorker == WorkerClient \/ WorkerLoad \/ WorkerRegister \/ WorkerConsumer \/ WorkerUndo
HandleCtlEvent == HandleSetCreate \/ HandleSetUpdate \/ HandleSetDelete
StartSet == \E s \in Sets : VisitSet(s) \/ StartList(s) \/ StartEnsure(s) \/ StartRegister(s)

Next ==
    \/ Api \/ ControllerStop \/ HandleEntityEvent \/ RetryWorker \/ StartWorker \/ WorkerStop
    \/ HandleWorkerEvent \/ HandleCtlEvent \/ RetrySets \/ StartSet
    \/ \E s \in Sets : HandleSetEvent(s)

Spec == Init /\ [][Next]_vars

\* Whoever waits for a mux gets it in the end, also against a loop that takes it again
\* and again, and a call in progress returns.
FairSpec ==
    /\ Spec
    /\ SF_vars(HandleEntityEvent) /\ SF_vars(RetryWorker) /\ WF_vars(StartWorker)
    /\ SF_vars(WorkerStop) /\ SF_vars(WorkerUndo) /\ SF_vars(HandleWorkerEvent)
    /\ SF_vars(HandleCtlEvent) /\ SF_vars(RetrySets) /\ WF_vars(StartSet)
    /\ \A s \in Sets : WF_vars(HandleSetEvent(s))

-----------------------------------------------------------------------------
Versions == 0..MaxVersion
Rows == [ver : Versions, gone : BOOLEAN]
EntityEvents == [op : {"create", "update", "delete"}, ver : Versions]
ScaleSetEvents == [set : Sets, op : {"create", "update", "delete"}, ver : Versions]

\* The types of the variables, and who may hold what: the entity worker is started or
\* stopped with the mux of the controller held, scale sets are visited while their
\* controller is on.
TypeOK ==
    /\ row \in Rows /\ sets \in [Sets -> Rows] /\ faults \in 0..MaxFaults
    /\ on \in BOOLEAN /\ entry \in BOOLEAN /\ running \in BOOLEAN
    /\ mux \in {"free", "start", "delete", "stop"} /\ knows \in Versions
    /\ step \in {"none", "client", "load", "register", "consumer", "undo"}
    /\ mux = "start" <=> step # "none"
    /\ events \in Seq(EntityEvents) /\ workerEvents \in Seq(Versions)
    /\ ctl \in {"off", "loaded", "on"} /\ kept \in [Sets -> {"none", "bare", "worker"}]
    /\ latest \in [Sets -> Versions] /\ version \in [Sets -> Versions]
    /\ todo \subseteq Sets
    /\ current \in [s : Sets, at : {"list", "ensure", "register"}] \cup {Nobody}
    /\ active \in [Sets -> BOOLEAN] /\ ran \in [Sets -> BOOLEAN] /\ leaked \in [Sets -> BOOLEAN]
    /\ missed \in [Sets -> BOOLEAN]
    /\ ctlEvents \in Seq(ScaleSetEvents) /\ setEvents \in [Sets -> Seq(Versions)]
    /\ ctl # "on" => CtlMuxFree

\* Every node that runs has a node above it that will stop it: a worker of a scale set
\* is in the table of a scale set controller that is on, that one belongs to an entity
\* worker that runs or is being started, and that one is in the table of the entity
\* controller, or is being stopped.
NoOrphan ==
    /\ \A s \in Sets : active[s] => ctl = "on" /\ kept[s] = "worker"
    /\ ctl = "on" => running \/ step \in {"consumer", "undo"}
    /\ running => entry \/ mux = "delete"
    /\ running => on

\* Start of a worker waits, with the mutexes of the tree held, for a lock that an earlier
\* Start of it has left locked.
Stuck == \E s \in Sets : current = [s |-> s, at |-> "list"] /\ leaked[s]

\* A deletion of the entity, and a shutdown, in the end stop everything below for good,
\* unless a Start is stuck.
Stops == row.gone \/ ~on ~> ([](~running /\ \A s \in Sets : ~active[s])) \/ Stuck

\* A scale set is served in the end, also when calls of the store, the forge and the
\* watcher failed, unless its creation was missed by a controller that was starting, or a
\* Start is stuck.
Served ==
    \A s \in Sets :
        Exists(sets[s]) ~> active[s] \/ missed[s] \/ ~Exists(sets[s]) \/ ~on \/ Stuck

\* The entity controller is stuck only when a Start is: whoever holds its mux gives it
\* back, and nobody who holds it waits for one who waits for it.
Responsive == mux # "free" ~> mux = "free" \/ Stuck

\* A worker that runs knows the current version of its entity or scale set, once it has
\* handled its events.
WorkersCurrent ==
    /\ running /\ workerEvents = <<>> /\ events = <<>> => knows = row.ver
    /\ \A s \in Sets :
          active[s] /\ setEvents[s] = <<>> /\ ctlEvents = <<>> => version[s] = sets[s].ver
=============================================================================
