-------------------------- MODULE ScaleSetListener --------------------------
(***************************************************************************)
(* The message listener of one scale set (workers/scaleset): the goroutine *)
(* that long-polls the broker and handles messages (scaleSetListener), the *)
(* goroutine that keeps it alive (keepListenerAlive), the watcher events   *)
(* that stop it, the stop of the worker and the death of the process.      *)
(*                                                                         *)
(* Start makes a context, a session, a quit channel and a loopExited       *)
(* channel.  All four are fields of the listener, so a generation number   *)
(* stands for them: cur is the generation the fields hold.  A loop reads   *)
(* the fields without the mutex and may meet those of a later generation.  *)
(* A message is its ID; the statistics in it are identified with the ID.   *)
(***************************************************************************)
EXTENDS Naturals, Sequences, FiniteSetsExt

CONSTANTS
    MaxMessages,    \* bound: messages the broker posts
    Available,      \* the messages that carry available jobs
    Garbled,        \* the job messages whose body cannot be parsed
    Other,          \* the messages that are not job messages
    Gens,           \* bound: generations alive at once; 0 is none
    MaxUpdates,     \* bound: updates of the scale set by the operator
    MaxFaults,      \* bound: how often something fails
    Faults          \* what may fail: "forge", "unauthorized", "store",
                    \* "crash", "stop" (the worker is stopped) and
                    \* "recreate" (the scale set vanished from the forge)

ASSUME ListenerAssumption ==
    /\ MaxMessages \in Nat /\ MaxUpdates \in Nat /\ MaxFaults \in Nat
    /\ Available \subseteq 1..MaxMessages
    /\ Garbled \subseteq 1..MaxMessages /\ Other \subseteq 1..MaxMessages
    /\ Available \cap (Garbled \cup Other) = {} /\ Garbled \cap Other = {}
    /\ Gens \subseteq Nat \ {0}
    /\ Faults \subseteq {"forge", "unauthorized", "store", "crash", "stop", "recreate"}

VARIABLES
    posted,     \* broker: the ID of the newest message
    queue,      \* broker: the messages not deleted
    through,    \* messages that went through handleSessionMessage
    handled,    \* messages whose jobs were all handled
    dbLast,     \* last_message_id in the store
    dbDesired,  \* the message desired_runner_count in the store comes from
    dbRow,      \* the scale set in the store: enabled, max_runners
    events,     \* watcher events of the row on their way to the worker
    row,        \* w.scaleSet
    up,         \* the worker was started; FALSE: the process is down
    quit,       \* w.quit is closed
    auth,       \* "ok", "failed" (authFailed) or "probe" (may try again)
    wmux,       \* w.mux across the steps of one holder
    lmux,       \* l.mux while a message is handled: the loop, or 0
    running,    \* l.running
    cur,        \* the generation in the listener's fields
    cancelled,  \* generations that Stop stopped
    exited,     \* generations whose loopExited is closed
    last,       \* l.lastMessageID
    loop,       \* the goroutines of loop(), by the generation that began them
    keeper,     \* keepListenerAlive: its step and the channel it waits for
    updates, faults,
    missed      \* history: the newest statistics were not stored

broker == <<posted, queue, through, handled>>
store == <<dbLast, dbDesired, dbRow, events, missed>>
worker == <<row, up, quit, auth, wmux>>
fields == <<lmux, running, cur, cancelled, last>>
bounds == <<updates, faults>>
vars == <<broker, store, worker, fields, exited, loop, keeper, bounds>>

ScaleSetRows == [enabled : BOOLEAN, max : 1..2]
LoopSteps == {"none", "spawned", "top", "poll", "got", "last", "desired", "delete", "exit"}
Loops == [pc : LoopSteps, msg : 0..MaxMessages, poll : Gens \cup {0},
          exits : Gens \cup {0}, retried : BOOLEAN]
NoLoop == [pc |-> "none", msg |-> 0, poll |-> 0, exits |-> 0, retried |-> FALSE]
KeeperSteps == {"check", "sleep", "start", "mark", "select", "wait", "woken",
                "restart", "backoff", "exit"}

\* A worker that was just started: Start makes a listener from w.scaleSet.
NewWorker(r, lastMessageID) ==
    /\ row' = r /\ up' = TRUE /\ quit' = FALSE /\ auth' = "ok" /\ wmux' = "free"
    /\ lmux' = 0 /\ running' = FALSE /\ cur' = 0 /\ cancelled' = {} /\ last' = lastMessageID
    /\ exited' = {} /\ loop' = [g \in Gens |-> NoLoop]
    /\ keeper' = [pc |-> "check", on |-> 0]
    /\ events' = <<>>

Init ==
    /\ posted = 0 /\ queue = {} /\ through = {} /\ handled = {}
    /\ dbLast = 0 /\ dbDesired = 0 /\ missed = FALSE
    /\ dbRow = [enabled |-> TRUE, max |-> 2]
    /\ row = dbRow /\ up = TRUE /\ quit = FALSE /\ auth = "ok" /\ wmux = "free"
    /\ lmux = 0 /\ running = FALSE /\ cur = 0 /\ cancelled = {} /\ last = 0
    /\ exited = {} /\ loop = [g \in Gens |-> NoLoop]
    /\ keeper = [pc |-> "check", on |-> 0]
    /\ events = <<>>
    /\ updates = 0 /\ faults = 0

-----------------------------------------------------------------------------
\* Something of this kind fails.
Fails(kinds) ==
    /\ kinds \cap Faults # {}
    /\ faults < MaxFaults
    /\ faults' = faults + 1 /\ UNCHANGED updates

\* The row was written: a watcher event carries all of it.  One that repeats an
\* enabled row changes nothing in the worker and is left out.
Notify(r) ==
    LET before == IF events = <<>> THEN row ELSE events[Len(events)]
    IN  events' = IF up /\ ~quit /\ ~(r.enabled /\ r = before)
                  THEN Append(events, r) ELSE events

\* Mutant: Stop does not ask whether the listener runs.
StoppedAnyway ==
    /\ cancelled' = cancelled \cup {cur}
    /\ running' = FALSE
    /\ UNCHANGED <<lmux, cur, last>>

\* scaleSetListener.Stop, without effect when not running
Stopped ==
    /\ cancelled' = IF running THEN cancelled \cup {cur} ELSE cancelled
    /\ running' = FALSE
    /\ UNCHANGED <<lmux, cur, last>>

\* A generation nothing refers to any more.
Unused(g) ==
    /\ g # cur /\ g # keeper.on /\ loop[g].pc = "none"
    /\ \A h \in Gens : loop[h].poll # g /\ loop[h].exits # g

\* scaleSetListener.Start, when it creates a session
Started ==
    \E g \in Gens :
        /\ ~running /\ Unused(g) /\ \A h \in Gens : Unused(h) => g <= h
        /\ running' = TRUE /\ cur' = g
        /\ cancelled' = cancelled \ {g} /\ exited' = exited \ {g}
        /\ loop' = [loop EXCEPT ![g] = [NoLoop EXCEPT !.pc = "spawned"]]
        /\ UNCHANGED <<lmux, last>>

AlreadyStarted == running /\ UNCHANGED <<fields, exited, loop>>

Blocked == auth = "failed"      \* forgeAuthBlockedLocked

-----------------------------------------------------------------------------
\* The broker, the operator and time.

Post ==
    /\ posted < MaxMessages
    /\ posted' = posted + 1 /\ queue' = queue \cup {posted + 1}
    /\ UNCHANGED <<through, handled, store, worker, fields, exited, loop, keeper, bounds>>

\* UpdateEntityScaleSet
Update ==
    /\ updates < MaxUpdates
    /\ \E r \in ScaleSetRows :
        /\ r # dbRow
        /\ dbRow' = r
        /\ Notify(r)
    /\ updates' = updates + 1
    /\ UNCHANGED <<broker, dbLast, dbDesired, missed, worker, fields, exited, loop,
                   keeper, faults>>

\* forgeAuthRetryInterval has passed, or the entity worker installed a new client.
AuthProbe ==
    /\ auth = "failed" /\ auth' = "probe"
    /\ UNCHANGED <<broker, store, row, up, quit, wmux, fields, exited, loop, keeper, bounds>>

-----------------------------------------------------------------------------
\* scaleSetListener.loop

SetLoop(g, l) == loop' = [loop EXCEPT ![g] = l]
LoopGoto(g, step) == SetLoop(g, [loop[g] EXCEPT !.pc = step])

\* defer close(l.loopExited): the channel is the one in the field by now
LoopBegin(g) ==
    /\ loop[g].pc = "spawned"
    /\ SetLoop(g, [loop[g] EXCEPT !.pc = "top", !.exits = cur])
    /\ UNCHANGED <<broker, store, worker, fields, exited, keeper, bounds>>

\* the select at the top of the loop: quit or the context, or one more poll
LoopEnds(g) ==
    /\ loop[g].pc = "top" /\ cur \in cancelled
    /\ LoopGoto(g, "exit")
    /\ UNCHANGED <<broker, store, worker, fields, exited, keeper, bounds>>

LoopPoll(g) ==
    /\ loop[g].pc = "top" /\ cur \notin cancelled
    /\ SetLoop(g, [loop[g] EXCEPT !.pc = "poll", !.poll = cur, !.msg = last])
    /\ UNCHANGED <<broker, store, worker, fields, exited, keeper, bounds>>

\* GetMessage returns the oldest message after lastMessageId
PollMessage(g) ==
    /\ loop[g].pc = "poll"
    /\ LET after == {m \in queue : m > loop[g].msg}
       IN  /\ after # {}
           /\ SetLoop(g, [loop[g] EXCEPT !.pc = "got", !.msg = Min(after), !.retried = FALSE])
    /\ UNCHANGED <<broker, store, worker, fields, exited, keeper, bounds>>

\* no message came, the token expired, the call failed, or Stop cancelled it
PollEnds(g) ==
    /\ loop[g].pc = "poll"
    /\ \/ /\ \A m \in queue : m <= loop[g].msg
          /\ SetLoop(g, [loop[g] EXCEPT !.pc = "top", !.poll = 0, !.msg = 0, !.retried = FALSE])
          /\ UNCHANGED bounds
       \/ /\ Fails({"unauthorized"})
          /\ IF loop[g].retried
             THEN LoopGoto(g, "exit")
             ELSE SetLoop(g, [loop[g] EXCEPT !.pc = "top", !.poll = 0, !.msg = 0,
                                             !.retried = TRUE])
       \/ Fails({"forge"}) /\ LoopGoto(g, "exit")
       \/ loop[g].poll \in cancelled /\ LoopGoto(g, "exit") /\ UNCHANGED bounds
    /\ UNCHANGED <<broker, store, worker, fields, exited, keeper>>

-----------------------------------------------------------------------------
\* handleSessionMessage, with l.mux held

\* The message is done with, acknowledged or not.
HandleEnd(g) ==
    /\ lmux' = 0
    /\ SetLoop(g, [loop[g] EXCEPT !.pc = "top", !.poll = 0, !.msg = 0])
    /\ UNCHANGED <<running, cur, cancelled>>

\* Mutant: an error of AcquireJobs is logged and the message acknowledged.
HandleJobsIgnoringErrors(g) ==
    /\ loop[g].pc = "got" /\ lmux = 0
    /\ lmux' = g
    /\ LoopGoto(g, "last")
    /\ through' = through \cup {loop[g].msg}
    /\ \/ handled' = handled \cup {loop[g].msg} /\ UNCHANGED bounds
       \/ Fails({"forge", "store"}) /\ UNCHANGED handled
    /\ UNCHANGED <<posted, queue, store, worker, running, cur, cancelled, last, exited, keeper>>

\* AcquireJobs with listenerCtx, then the handlers of started and completed
\* jobs; the first error leaves the message to be delivered again.  So does a
\* message of another type.  A body that cannot be parsed is logged only: the
\* message goes on as one without jobs.
HandleJobs(g) ==
    /\ loop[g].pc = "got" /\ lmux = 0
    /\ LET m == loop[g].msg
           gone == m \in Available /\ cur \in cancelled
       IN  \/ /\ m \notin Other /\ ~gone
              /\ through' = through \cup {m}
              /\ handled' = IF m \in Garbled THEN handled ELSE handled \cup {m}
              /\ lmux' = g
              /\ LoopGoto(g, "last")
              /\ UNCHANGED <<running, cur, cancelled, bounds>>
           \/ /\ \/ (m \in Other \/ gone) /\ UNCHANGED bounds
                 \/ m \notin Other /\ Fails({"forge", "store"})
              /\ HandleEnd(g)
              /\ UNCHANGED <<through, handled>>
    /\ UNCHANGED <<posted, queue, store, worker, last, exited, keeper>>

\* SetLastMessageID; an error is logged only
SetLastMessageID(g) ==
    /\ loop[g].pc = "last"
    /\ \/ /\ dbLast' = loop[g].msg /\ last' = loop[g].msg
          /\ Notify(dbRow) /\ UNCHANGED bounds
       \/ /\ Fails({"store"}) /\ UNCHANGED <<dbLast, last, events>>
    /\ LoopGoto(g, "desired")
    /\ UNCHANGED <<broker, dbDesired, dbRow, missed, worker, lmux, running, cur, cancelled,
                   exited, keeper>>

\* Mutant: the count is stored only when the ID could be stored.
SetDesiredIfStored(g) ==
    /\ loop[g].pc = "desired"
    /\ dbDesired' = IF last = loop[g].msg THEN loop[g].msg ELSE dbDesired
    /\ Notify(dbRow) /\ UNCHANGED <<bounds, missed>>
    /\ LoopGoto(g, "delete")
    /\ UNCHANGED <<broker, dbLast, dbRow, worker, fields, exited, keeper>>

\* SetDesiredRunnerCount; an error is logged only.  missed remembers that the
\* count of the newest message that went through was lost, or replaced by an older one.
SetDesiredRunnerCount(g) ==
    /\ loop[g].pc = "desired"
    /\ \/ /\ dbDesired' = loop[g].msg
          /\ missed' = (loop[g].msg # Max(through))
          /\ Notify(dbRow) /\ UNCHANGED bounds
       \/ /\ Fails({"store"})
          /\ missed' = TRUE
          /\ UNCHANGED <<dbDesired, events>>
    /\ LoopGoto(g, "delete")
    /\ UNCHANGED <<broker, dbLast, dbRow, worker, fields, exited, keeper>>

\* DeleteMessage with listenerCtx; an error is logged only
DeleteMessage(g) ==
    /\ loop[g].pc = "delete"
    /\ \/ cur \notin cancelled /\ queue' = queue \ {loop[g].msg} /\ UNCHANGED bounds
       \/ cur \in cancelled /\ UNCHANGED <<queue, bounds>>
       \/ Fails({"forge"}) /\ UNCHANGED queue
    /\ HandleEnd(g) /\ UNCHANGED last
    /\ UNCHANGED <<posted, through, handled, store, worker, exited, keeper>>

\* The process is gone, and with it the count of a message that was stored as
\* processed and is not delivered again.
Dies ==
    /\ up' = FALSE
    /\ missed' = (missed \/ \E g \in Gens : loop[g].pc = "desired" /\ dbLast = loop[g].msg)
    /\ row' = dbRow /\ quit' = FALSE /\ auth' = "ok" /\ wmux' = "free"
    /\ lmux' = 0 /\ running' = FALSE /\ cur' = 0 /\ cancelled' = {} /\ last' = 0
    /\ exited' = {} /\ loop' = [g \in Gens |-> NoLoop]
    /\ keeper' = [pc |-> "check", on |-> 0]
    /\ events' = <<>>
    /\ UNCHANGED <<broker, dbLast, dbDesired, dbRow>>

\* The deferred calls: Stop, which stops whatever generation is in the fields, and
\* close(l.loopExited), which panics when it is closed already.
LoopExit(g) ==
    /\ loop[g].pc = "exit" /\ lmux = 0
    /\ \/ /\ loop[g].exits \notin exited
          /\ Stopped
          /\ exited' = exited \cup {loop[g].exits}
          /\ SetLoop(g, NoLoop)
          /\ UNCHANGED <<broker, store, worker, keeper>>
       \/ loop[g].exits \in exited /\ Dies
    /\ UNCHANGED bounds

-----------------------------------------------------------------------------
\* keepListenerAlive

KeeperGoto(step) == keeper' = [pc |-> step, on |-> 0]

\* sessionLoopMayRun; "forge": the rate limit is exhausted
KeeperCheck ==
    /\ keeper.pc = "check" /\ wmux = "free"
    /\ \/ row.enabled /\ ~Blocked /\ KeeperGoto("start") /\ UNCHANGED bounds
       \/ (~row.enabled \/ Blocked) /\ KeeperGoto("sleep") /\ UNCHANGED bounds
       \/ Fails({"forge"}) /\ KeeperGoto("sleep")
    /\ UNCHANGED <<broker, store, worker, fields, exited, loop>>

\* Mutant: a restart that failed is not tried again.
KeeperSleepOnce ==
    /\ \/ keeper.pc = "sleep" /\ KeeperGoto(IF quit THEN "exit" ELSE "check")
       \/ keeper.pc = "backoff" /\ KeeperGoto("exit")
    /\ UNCHANGED <<broker, store, worker, fields, exited, loop, bounds>>

\* sleepWithCancel, in either loop
KeeperSleep ==
    /\ \/ keeper.pc = "sleep" /\ KeeperGoto(IF quit THEN "exit" ELSE "check")
       \/ keeper.pc = "backoff" /\ KeeperGoto(IF quit THEN "exit" ELSE "restart")
    /\ UNCHANGED <<broker, store, worker, fields, exited, loop, bounds>>

\* l.listener.Start() of the outer loop, which does not hold w.mux
KeeperStart ==
    /\ keeper.pc = "start" /\ lmux = 0
    /\ \/ (AlreadyStarted \/ Started) /\ KeeperGoto("select") /\ UNCHANGED bounds
       \/ /\ ~running /\ Fails({"forge"}) /\ KeeperGoto("sleep")
          /\ UNCHANGED <<fields, exited, loop>>
       \/ /\ ~running /\ Fails({"unauthorized"}) /\ KeeperGoto("mark")
          /\ UNCHANGED <<fields, exited, loop>>
    /\ UNCHANGED <<broker, store, worker>>

\* markAuthFailure
KeeperMark ==
    /\ keeper.pc = "mark" /\ wmux = "free"
    /\ auth' = "failed"
    /\ KeeperGoto("check")
    /\ UNCHANGED <<broker, store, row, up, quit, wmux, fields, exited, loop, bounds>>

\* clearAuthFailure, then Wait: a channel that is closed, or loopExited
KeeperSelect ==
    /\ keeper.pc = "select" /\ wmux = "free" /\ lmux = 0
    /\ auth' = "ok"
    /\ keeper' = [pc |-> "wait", on |-> IF running THEN cur ELSE 0]
    /\ UNCHANGED <<broker, store, row, up, quit, wmux, fields, exited, loop, bounds>>

KeeperWait ==
    /\ keeper.pc = "wait"
    /\ \/ quit /\ KeeperGoto("exit")
       \/ keeper.on \in exited \cup {0} /\ KeeperGoto("woken")
    /\ UNCHANGED <<broker, store, worker, fields, exited, loop, bounds>>

KeeperWoken ==
    /\ keeper.pc = "woken" /\ wmux = "free"
    /\ \/ row.enabled /\ KeeperGoto("restart") /\ UNCHANGED fields
       \/ ~row.enabled /\ lmux = 0 /\ Stopped /\ KeeperGoto("check")
    /\ UNCHANGED <<broker, store, worker, exited, loop, bounds>>

\* the inner loop: checks and Start under one hold of w.mux
KeeperRestart ==
    /\ keeper.pc = "restart" /\ wmux = "free"
    /\ \/ /\ ~row.enabled \/ Blocked
          /\ KeeperGoto("check")
          /\ UNCHANGED <<auth, fields, exited, loop, bounds>>
       \/ /\ row.enabled /\ ~Blocked /\ lmux = 0
          /\ \/ /\ AlreadyStarted \/ Started
                /\ auth' = "ok" /\ KeeperGoto("check") /\ UNCHANGED bounds
             \/ /\ ~running /\ Fails({"forge"}) /\ KeeperGoto("backoff")
                /\ UNCHANGED <<auth, fields, exited, loop>>
             \/ /\ ~running /\ Fails({"unauthorized"}) /\ KeeperGoto("mark")
                /\ UNCHANGED <<auth, fields, exited, loop>>
    /\ UNCHANGED <<broker, store, row, up, quit, wmux>>

-----------------------------------------------------------------------------
\* handleScaleSetEvent, in two steps under w.mux: stop the listener when the
\* scale set is disabled or shrinks, then store the new row.

EventStop ==
    /\ up /\ ~quit /\ wmux = "free" /\ events # <<>>
    /\ LET r == Head(events)
       IN  IF r.max < row.max \/ ~r.enabled
           THEN lmux = 0 /\ Stopped
           ELSE UNCHANGED fields
    /\ wmux' = "event"
    /\ UNCHANGED <<broker, store, row, up, quit, auth, exited, loop, keeper, bounds>>

EventApply ==
    /\ wmux = "event"
    /\ row' = Head(events) /\ events' = Tail(events)
    /\ wmux' = "free"
    /\ UNCHANGED <<broker, dbLast, dbDesired, dbRow, missed, up, quit, auth, fields, exited,
                   loop, keeper, bounds>>

-----------------------------------------------------------------------------
\* Worker.Stop, in two steps under w.mux

WorkerQuit ==
    /\ up /\ ~quit /\ wmux = "free" /\ Fails({"stop"})
    /\ quit' = TRUE /\ wmux' = "stop" /\ events' = <<>>
    /\ UNCHANGED <<broker, dbLast, dbDesired, dbRow, missed, row, up, auth, fields, exited,
                   loop, keeper>>

WorkerStopListener ==
    /\ wmux = "stop" /\ lmux = 0
    /\ Stopped
    /\ wmux' = "free"
    /\ UNCHANGED <<broker, store, row, up, quit, auth, exited, loop, keeper, bounds>>

Crash ==
    /\ up /\ ~quit /\ Fails({"crash"})
    /\ Dies

\* The process is back: Worker.Start with the row of the store.  When the scale
\* set is not in the forge any more, ensureScaleSetInGitHub creates it again, with
\* a new queue, and resets the ID in the store; w.scaleSet keeps the old ID.
Boot ==
    /\ ~up
    /\ NewWorker(dbRow, dbLast)
    /\ \/ UNCHANGED <<broker, dbLast, dbDesired, missed, bounds>>
       \/ /\ Fails({"recreate"})
          /\ posted' = 0 /\ queue' = {} /\ through' = {} /\ handled' = {}
          /\ dbLast' = 0
          /\ missed' = TRUE
          /\ UNCHANGED dbDesired
    /\ UNCHANGED dbRow

-----------------------------------------------------------------------------
LoopStep(g) ==
    \/ LoopBegin(g) \/ LoopEnds(g) \/ LoopPoll(g) \/ PollMessage(g) \/ PollEnds(g)
    \/ HandleJobs(g) \/ SetLastMessageID(g) \/ SetDesiredRunnerCount(g)
    \/ DeleteMessage(g) \/ LoopExit(g)

KeeperStep ==
    up /\ ( \/ KeeperCheck \/ KeeperSleep \/ KeeperStart \/ KeeperMark \/ KeeperSelect
            \/ KeeperWait \/ KeeperWoken \/ KeeperRestart )

Next ==
    \/ Post \/ Update \/ AuthProbe
    \/ \E g \in Gens : LoopStep(g)
    \/ KeeperStep
    \/ EventStop \/ EventApply
    \/ WorkerQuit \/ WorkerStopListener
    \/ Crash \/ Boot

Spec == Init /\ [][Next]_vars

\* Goroutines go on, time passes, the process is restarted.  What fails does so a
\* bounded number of times.
Fairness ==
    /\ \A g \in Gens : WF_vars(LoopStep(g))
    /\ WF_vars(KeeperStep) /\ WF_vars(AuthProbe)
    /\ WF_vars(EventStop) /\ WF_vars(EventApply) /\ WF_vars(WorkerStopListener)
    /\ WF_vars(Boot)

FairSpec == Spec /\ Fairness

-----------------------------------------------------------------------------
\* The types of the variables; in particular Stop marks only a generation that was
\* started.
TypeOK ==
    /\ posted \in 0..MaxMessages
    /\ queue \subseteq 1..MaxMessages
    /\ through \subseteq 1..MaxMessages /\ handled \subseteq 1..MaxMessages
    /\ dbLast \in 0..MaxMessages /\ dbDesired \in 0..MaxMessages /\ last \in 0..MaxMessages
    /\ dbRow \in ScaleSetRows /\ row \in ScaleSetRows /\ events \in Seq(ScaleSetRows)
    /\ up \in BOOLEAN /\ quit \in BOOLEAN /\ running \in BOOLEAN /\ missed \in BOOLEAN
    /\ auth \in {"ok", "failed", "probe"}
    /\ wmux \in {"free", "event", "stop"} /\ lmux \in Gens \cup {0}
    /\ cur \in Gens \cup {0} /\ cancelled \subseteq Gens /\ exited \subseteq Gens
    /\ loop \in [Gens -> Loops]
    /\ keeper \in [pc : KeeperSteps, on : Gens \cup {0}]
    /\ updates \in 0..MaxUpdates /\ faults \in 0..MaxFaults

\* A message the broker will not deliver again, because it was deleted or because
\* the listener tells the broker that it has seen it, had its jobs handled: no job
\* that started or ended is missed, however often the listener is restarted.  The
\* one exception is a message whose body cannot be parsed, which
\* handleSessionMessage acknowledges; a message that is not a job message is never
\* acknowledged.
NoMessageSkipped ==
    \A m \in 1..posted :
        m \notin queue \/ m <= dbLast \/ (up /\ m <= last) => m \in handled \cup Garbled

\* When no message is on its way, the desired count in the store is that of the
\* newest message, except after the store failed, the process died between the
\* two writes, or a loop of an earlier generation handled an older message last.
CountIsLatest ==
    up /\ lmux = 0 /\ (\A m \in queue : m <= last) /\ ~missed => dbDesired = posted

\* The loop of an earlier generation is gone when a new one runs.
Alone == running => \A g \in Gens : g # cur => loop[g].pc = "none"

\* Every job message that can be read is handled in the end, also behind one that
\* cannot, unless the scale set is disabled or the worker stopped, whatever stops the
\* listener in between.  A message of another type blocks those behind it: it is not
\* acknowledged and is delivered again for ever.  Alone is needed: the deferred Stop
\* of an ending loop stops whatever listener runs by then, and could in principle hit
\* each new one before its first message.
MessageHandled ==
    <>[]Alone =>
        \A m \in 1..MaxMessages :
            m \notin Garbled /\ (\A o \in Other : m < o)
            => (posted >= m ~> (m \in handled \/ quit \/ ~dbRow.enabled))
=============================================================================
