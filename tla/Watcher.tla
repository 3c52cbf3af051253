------------------------------ MODULE Watcher ------------------------------
(***************************************************************************)
(* The database watcher (database/watcher): writers of the store announce  *)
(* what they committed, a producer goroutine hands each event to every     *)
(* registered consumer, a dispatch goroutine per consumer queues it, and   *)
(* the consumer's worker takes it through an UnboundedChan (workers/common)*)
(* to its handler.  Channels have a bounded buffer, the two queues do not. *)
(*                                                                         *)
(* An event is its position in the log, the order in which Notify put the  *)
(* events into the producer's channel; 0 is the zero payload a closed      *)
(* channel yields.                                                         *)
(***************************************************************************)
EXTENDS Naturals, Sequences

CONSTANTS
    Writers,        \* goroutines that write to the store
    Keys,           \* rows of the store
    Consumers,
    Interest,       \* Interest[c]: the rows c filters for
    LoadFirst,      \* consumers that load the rows before they register
    Slow,           \* consumers whose handler may never return
    BufferSize,     \* the buffer of the channels, 128 in the code
    MaxWrites,      \* bound: commits
    MaxRegister     \* bound: registrations per consumer

ASSUME WatcherAssumption ==
    /\ Keys # {} /\ Interest \in [Consumers -> SUBSET Keys] /\ Slow \subseteq Consumers
    /\ LoadFirst \subseteq Consumers
    /\ BufferSize \in Nat \ {0} /\ MaxWrites \in Nat /\ MaxRegister \in Nat

VARIABLES
    row,            \* row[k]: the version of the row
    commits,        \* how many commits there were
    writer,         \* where each writer is
    log,            \* the events put into the producer's channel
    channel,        \* producer.messages
    open,           \* the watcher, and with it the producer, is not closed
    serving,        \* serviceProducer runs
    event, left,    \* the event being fanned out, and to whom it still goes;
                    \* while left # {} serviceProducer holds w.mux
    fanned,         \* history: the last event fanned out
    entry,          \* the worker of c and its entry in w.consumers: "none"; "loaded"
                    \* and not registered; "loading", "open", "closed": registered
    in, queue, out, \* the channels and the queue of the consumer
    work,           \* the queue of the worker's UnboundedChan
    place,          \* history: the last event c handled, or its start
    cache,          \* cache[c][k]: the version c knows
    registered,     \* how often c registered
    lost,           \* history: Notify timed out or found the producer closed
    overlapped      \* history: two writers were between commit and Notify at once

store == <<row, commits, writer, log, channel, lost, overlapped>>
producer == <<open, serving, event, left, fanned>>
pipe == <<in, queue, out, work>>
vars == <<store, producer, entry, pipe, place, cache, registered>>

Idle == [pc |-> "idle", key |-> CHOOSE k \in Keys : TRUE, ver |-> 0]

Init ==
    /\ row = [k \in Keys |-> 0] /\ commits = 0 /\ writer = [p \in Writers |-> Idle]
    /\ log = <<>> /\ channel = <<>> /\ lost = FALSE /\ overlapped = FALSE
    /\ open = TRUE /\ serving = TRUE /\ event = 0 /\ left = {} /\ fanned = 0
    /\ entry = [c \in Consumers |-> "none"]
    /\ in = [c \in Consumers |-> <<>>] /\ queue = [c \in Consumers |-> <<>>]
    /\ out = [c \in Consumers |-> <<>>] /\ work = [c \in Consumers |-> <<>>]
    /\ place = [c \in Consumers |-> 0]
    /\ cache = [c \in Consumers |-> [k \in Keys |-> 0]]
    /\ registered = [c \in Consumers |-> 0]

-----------------------------------------------------------------------------
\* The writers.  Notify comes after the transaction, with the row read back.

Announcing == {p \in Writers : writer[p].pc # "idle"}

Commit(p, k) ==
    /\ writer[p].pc = "idle" /\ commits < MaxWrites
    /\ commits' = commits + 1
    /\ row' = [row EXCEPT ![k] = @ + 1]
    /\ writer' = [writer EXCEPT ![p] = [pc |-> "read", key |-> k, ver |-> 0]]
    /\ overlapped' = (overlapped \/ \E q \in Announcing : writer[q].key = k)
    /\ UNCHANGED <<log, channel, lost, producer, entry, pipe, place, cache, registered>>

ReadBack(p) ==
    /\ writer[p].pc = "read"
    /\ writer' = [writer EXCEPT ![p].pc = "notify", ![p].ver = row[writer[p].key]]
    /\ UNCHANGED <<row, commits, log, channel, lost, overlapped, producer, entry, pipe,
                   place, cache, registered>>

\* Mutant: nothing bounds the channel.
NotifyUnbounded(p) ==
    /\ writer[p].pc = "notify" /\ open
    /\ writer' = [writer EXCEPT ![p] = Idle]
    /\ log' = Append(log, [key |-> writer[p].key, ver |-> writer[p].ver])
    /\ channel' = Append(channel, Len(log'))
    /\ UNCHANGED <<row, commits, lost, overlapped, producer, entry, pipe, place, cache,
                   registered>>

\* producer.Notify: into the channel; closed; or no room for a second
Notify(p) ==
    /\ writer[p].pc = "notify"
    /\ writer' = [writer EXCEPT ![p] = Idle]
    /\ \/ /\ open /\ Len(channel) < BufferSize
          /\ log' = Append(log, [key |-> writer[p].key, ver |-> writer[p].ver])
          /\ channel' = Append(channel, Len(log'))
          /\ UNCHANGED lost
       \/ ~open /\ lost' = TRUE /\ UNCHANGED <<log, channel>>
       \/ open /\ Len(channel) = BufferSize /\ lost' = TRUE /\ UNCHANGED <<log, channel>>
    /\ UNCHANGED <<row, commits, overlapped, producer, entry, pipe, place, cache, registered>>

-----------------------------------------------------------------------------
\* serviceProducer: w.mux is held from FanOut to the last Send.

MuxFree == left = {}
Listed == {c \in Consumers : entry[c] \in {"loading", "open", "closed"}}
Watching(c) == entry[c] \in {"loading", "open"}

\* The next event, or zero payloads from the closed channel until quit is noticed
FanOut ==
    /\ serving /\ MuxFree
    /\ \/ /\ channel # <<>>
          /\ event' = Head(channel) /\ channel' = Tail(channel) /\ fanned' = Head(channel)
       \/ ~open /\ channel = <<>> /\ event' = 0 /\ UNCHANGED <<channel, fanned>>
    /\ left' = Listed
    /\ UNCHANGED <<row, commits, writer, log, lost, overlapped, open, serving, entry, pipe,
                   place, cache, registered>>

\* The zero payload passes no filter.
Wanted(c, e) == e # 0 /\ log[e].key \in Interest[c]

\* Mutant: Send does not see that the consumer is closed.
SendBlocking(c) ==
    /\ c \in left
    /\ IF Wanted(c, event)
       THEN Watching(c) /\ Len(in[c]) < BufferSize /\ in' = [in EXCEPT ![c] = Append(@, event)]
       ELSE UNCHANGED in
    /\ left' = left \ {c}
    /\ UNCHANGED <<store, open, serving, event, fanned, entry, queue, out, work, place, cache,
                   registered>>

\* Mutant: Send gives up when the buffer is full.
SendOrDrop(c) ==
    /\ c \in left
    /\ in' = IF Watching(c) /\ Wanted(c, event) /\ Len(in[c]) < BufferSize
             THEN [in EXCEPT ![c] = Append(@, event)] ELSE in
    /\ left' = left \ {c}
    /\ UNCHANGED <<store, open, serving, event, fanned, entry, queue, out, work, place, cache,
                   registered>>

\* consumer.Send: closed, filtered out, or into the buffer, for which it waits
Send(c) ==
    /\ c \in left
    /\ IF Watching(c) /\ Wanted(c, event)
       THEN Len(in[c]) < BufferSize /\ in' = [in EXCEPT ![c] = Append(@, event)]
       ELSE UNCHANGED in
    /\ left' = left \ {c}
    /\ UNCHANGED <<store, open, serving, event, fanned, entry, queue, out, work, place, cache,
                   registered>>

\* quit is noticed between two events
StopServing ==
    /\ serving /\ ~open /\ MuxFree
    /\ serving' = FALSE
    /\ UNCHANGED <<store, open, event, left, fanned, entry, pipe, place, cache, registered>>

-----------------------------------------------------------------------------
\* The consumer: dispatch, the worker's loop into its UnboundedChan, the handler.

DispatchAccept(c) ==
    /\ Watching(c) /\ in[c] # <<>>
    /\ in' = [in EXCEPT ![c] = Tail(@)]
    /\ queue' = [queue EXCEPT ![c] = Append(@, Head(in[c]))]
    /\ UNCHANGED <<store, producer, entry, out, work, place, cache, registered>>

\* Mutant: the newest event is emitted first.
EmitNewest(c) ==
    /\ Watching(c) /\ queue[c] # <<>> /\ Len(out[c]) < BufferSize
    /\ out' = [out EXCEPT ![c] = Append(@, queue[c][Len(queue[c])])]
    /\ queue' = [queue EXCEPT ![c] = SubSeq(@, 1, Len(@) - 1)]
    /\ UNCHANGED <<store, producer, entry, in, work, place, cache, registered>>

DispatchEmit(c) ==
    /\ Watching(c) /\ queue[c] # <<>> /\ Len(out[c]) < BufferSize
    /\ out' = [out EXCEPT ![c] = Append(@, Head(queue[c]))]
    /\ queue' = [queue EXCEPT ![c] = Tail(@)]
    /\ UNCHANGED <<store, producer, entry, in, work, place, cache, registered>>

\* The loop of the worker and the router of the UnboundedChan
Forward(c) ==
    /\ out[c] # <<>>
    /\ out' = [out EXCEPT ![c] = Tail(@)]
    /\ work' = [work EXCEPT ![c] = Append(@, Head(out[c]))]
    /\ UNCHANGED <<store, producer, entry, in, queue, place, cache, registered>>

\* Process: the handler takes over what the event says of the row
Handle(c) ==
    /\ entry[c] = "open" /\ work[c] # <<>>
    /\ LET e == Head(work[c])
       IN  /\ cache' = [cache EXCEPT ![c][log[e].key] = log[e].ver]
           /\ place' = [place EXCEPT ![c] = e]
    /\ work' = [work EXCEPT ![c] = Tail(@)]
    /\ UNCHANGED <<store, producer, entry, in, queue, out, registered>>

-----------------------------------------------------------------------------
\* Registration and shutdown.

\* Worker.Start and the controllers: the rows first, then RegisterConsumer
LoadRows(c) ==
    /\ c \in LoadFirst /\ entry[c] = "none" /\ registered[c] < MaxRegister
    /\ cache' = [cache EXCEPT ![c] = row]
    /\ entry' = [entry EXCEPT ![c] = "loaded"]
    /\ UNCHANGED <<store, producer, pipe, place, registered>>

\* RegisterConsumer, refused while the ID is listed or the watcher is closed
Register(c) ==
    /\ entry[c] = (IF c \in LoadFirst THEN "loaded" ELSE "none")
    /\ open /\ MuxFree /\ registered[c] < MaxRegister
    /\ entry' = [entry EXCEPT ![c] = IF c \in LoadFirst THEN "open" ELSE "loading"]
    /\ registered' = [registered EXCEPT ![c] = @ + 1]
    /\ place' = [place EXCEPT ![c] = fanned]
    /\ UNCHANGED <<store, producer, pipe, cache>>

\* Mutant: what was registered for is not loaded.
SkipLoad(c) ==
    /\ entry[c] = "loading"
    /\ entry' = [entry EXCEPT ![c] = "open"]
    /\ UNCHANGED <<store, producer, pipe, place, cache, registered>>

\* Provider.Start: the rows, once the consumer is registered; events wait for p.mux
Load(c) ==
    /\ entry[c] = "loading"
    /\ cache' = [cache EXCEPT ![c] = row]
    /\ entry' = [entry EXCEPT ![c] = "open"]
    /\ UNCHANGED <<store, producer, pipe, place, registered>>

\* consumer.Close by its worker, which stops reading; dispatch ends and drops its queue
CloseConsumer(c) ==
    /\ Watching(c)
    /\ entry' = [entry EXCEPT ![c] = "closed"]
    /\ in' = [in EXCEPT ![c] = <<>>] /\ queue' = [queue EXCEPT ![c] = <<>>]
    /\ out' = [out EXCEPT ![c] = <<>>] /\ work' = [work EXCEPT ![c] = <<>>]
    /\ UNCHANGED <<store, producer, place, cache, registered>>

\* serviceConsumer takes the consumer off the list
RemoveConsumer(c) ==
    /\ entry[c] = "closed" /\ MuxFree
    /\ entry' = [entry EXCEPT ![c] = "none"]
    /\ UNCHANGED <<store, producer, pipe, place, cache, registered>>

\* watcher.Close: the producer and every consumer are closed
Close ==
    /\ open /\ MuxFree
    /\ open' = FALSE
    /\ entry' = [c \in Consumers |-> IF Watching(c) THEN "closed" ELSE entry[c]]
    /\ in' = [c \in Consumers |-> <<>>] /\ queue' = [c \in Consumers |-> <<>>]
    /\ out' = [c \in Consumers |-> <<>>] /\ work' = [c \in Consumers |-> <<>>]
    /\ UNCHANGED <<store, serving, event, left, fanned, place, cache, registered>>

-----------------------------------------------------------------------------
Consume(c) ==
    \/ DispatchAccept(c) \/ DispatchEmit(c) \/ Forward(c) \/ Load(c) \/ RemoveConsumer(c)

Next ==
    \/ \E p \in Writers : (\E k \in Keys : Commit(p, k)) \/ ReadBack(p) \/ Notify(p)
    \/ FanOut \/ StopServing \/ Close
    \/ \E c \in Consumers : Send(c) \/ Consume(c) \/ Handle(c) \/ LoadRows(c)
                             \/ Register(c) \/ CloseConsumer(c)

Spec == Init /\ [][Next]_vars

\* Every goroutine goes on, except the handler of a slow consumer.  serviceProducer
\* picks quit in the end, and whoever waits for w.mux gets it.
FairSpec ==
    /\ Spec
    /\ \A p \in Writers : WF_vars(ReadBack(p) \/ Notify(p))
    /\ WF_vars(FanOut) /\ SF_vars(StopServing)
    /\ \A c \in Consumers :
          /\ WF_vars(Send(c)) /\ WF_vars(DispatchAccept(c)) /\ WF_vars(DispatchEmit(c))
          /\ WF_vars(Forward(c)) /\ WF_vars(Load(c)) /\ SF_vars(RemoveConsumer(c))
    /\ \A c \in Consumers \ Slow : WF_vars(Handle(c))

-----------------------------------------------------------------------------
Versions == 0..MaxWrites
Events == [key : Keys, ver : Versions]
Announcements == [pc : {"idle", "read", "notify"}, key : Keys, ver : Versions]
Ids == 0..Len(log)

\* The types of the variables; the queues hold positions of the log.
TypeOK ==
    /\ row \in [Keys -> Versions] /\ commits \in Versions
    /\ writer \in [Writers -> Announcements]
    /\ log \in Seq(Events)
    /\ channel \in Seq(Ids) /\ Len(channel) <= BufferSize
    /\ open \in BOOLEAN /\ serving \in BOOLEAN
    /\ event \in Ids /\ left \subseteq Consumers /\ fanned \in Ids
    /\ entry \in [Consumers -> {"none", "loaded", "loading", "open", "closed"}]
    /\ in \in [Consumers -> Seq(Ids)] /\ queue \in [Consumers -> Seq(Ids)]
    /\ out \in [Consumers -> Seq(Ids)] /\ work \in [Consumers -> Seq(Ids)]
    /\ \A c \in Consumers : Len(in[c]) <= BufferSize /\ Len(out[c]) <= BufferSize
    /\ place \in [Consumers -> Ids]
    /\ cache \in [Consumers -> [Keys -> Versions]]
    /\ registered \in [Consumers -> 0..MaxRegister]
    /\ lost \in BOOLEAN /\ overlapped \in BOOLEAN

\* The subscription of c as EventFeed sees it
Phase(c) == CASE entry[c] = "open" -> "on" [] entry[c] = "loading" -> "loading" [] OTHER -> "off"

Feed == INSTANCE EventFeed WITH
            phase <- [c \in Consumers |-> Phase(c)], received <- cache

\* The watcher is an event feed: through four queues, registrations and shutdowns a
\* consumer gets the events of its filter in the order of Notify, without gaps,
\* repetitions or invented ones.
FeedSpec == Feed!Spec

Quiet(c) ==
    /\ entry[c] = "open" /\ Announcing = {} /\ channel = <<>> /\ left = {}
    /\ in[c] = <<>> /\ queue[c] = <<>> /\ out[c] = <<>> /\ work[c] = <<>>

\* A consumer that registers before it loads knows the rows of its filter as they are
\* in the store once everything is handled, unless Notify lost an event or two
\* writers of a row overlapped, so that the older event came last.
CacheCurrent ==
    \A c \in Consumers \ LoadFirst : Quiet(c) /\ ~lost /\ ~overlapped =>
        \A k \in Interest[c] : cache[c][k] = row[k]

\* A slow consumer holds up nobody else: what was put into the channel reaches the
\* handler of every other consumer, unless that one is closed.
Received ==
    \A c \in Consumers \ Slow : \A i \in 1..MaxWrites :
        (Watching(c) /\ i \in (place[c] + 1)..Len(log) /\ Wanted(c, i))
            ~> (place[c] >= i \/ ~Watching(c))

\* Closing the watcher ends its goroutines, also in the middle of a fan-out.
ShutsDown == ~open ~> ~serving /\ Listed = {}
=============================================================================
