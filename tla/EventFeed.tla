----------------------------- MODULE EventFeed -----------------------------
(***************************************************************************)
(* What the database watcher promises to its consumers: the events form    *)
(* one log; a consumer that subscribes is given a place in it and receives *)
(* from there on every event it is interested in, in the order of the log, *)
(* none left out, none twice, none invented, until its subscription ends.  *)
(* It may load the rows itself, before it subscribes or before it takes    *)
(* its first event, and at no other time.                                  *)
(***************************************************************************)
EXTENDS Naturals, Sequences

CONSTANTS
    Keys,           \* the entities events are about
    Consumers,
    Interest        \* Interest[c]: the entities consumer c filters for

VARIABLES
    log,            \* the events: which entity, in which version
    phase,          \* phase[c]: "off", "loading" (subscribed, takes no event yet), "on"
    place,          \* place[c]: the last event of the log c received or skipped
    received        \* received[c][k]: the version c knows of k

feedVars == <<log, phase, place, received>>

Events == [key : Keys, ver : Nat]

Init ==
    /\ log = <<>>
    /\ phase = [c \in Consumers |-> "off"]
    /\ place = [c \in Consumers |-> 0]
    /\ received = [c \in Consumers |-> [k \in Keys |-> 0]]

Publish ==
    /\ Len(log') = Len(log) + 1
    /\ log' = Append(log, log'[Len(log) + 1])
    /\ log'[Len(log) + 1] \in Events
    /\ UNCHANGED <<phase, place, received>>

\* A consumer that loads the rows itself knows their versions without an event.
Load(c) ==
    /\ phase[c] # "on"
    /\ received' = [received EXCEPT ![c] = received'[c]]
    /\ received'[c] \in [Keys -> Nat]
    /\ phase' = [phase EXCEPT ![c] = IF @ = "loading" THEN "on" ELSE "off"]
    /\ UNCHANGED <<log, place>>

Subscribe(c) ==
    /\ phase[c] = "off"
    /\ \E now \in {"loading", "on"} : phase' = [phase EXCEPT ![c] = now]
    /\ \E i \in place[c]..Len(log) : place' = [place EXCEPT ![c] = i]
    /\ UNCHANGED <<log, received>>

\* The next event c is interested in
Deliver(c) ==
    /\ phase[c] = "on"
    /\ \E i \in (place[c] + 1)..Len(log) :
          /\ log[i].key \in Interest[c]
          /\ \A j \in (place[c] + 1)..(i - 1) : log[j].key \notin Interest[c]
          /\ place' = [place EXCEPT ![c] = i]
          /\ received' = [received EXCEPT ![c][log[i].key] = log[i].ver]
    /\ UNCHANGED <<log, phase>>

\* Subscriptions end, one or, with the feed, all
Unsubscribe ==
    /\ \E ended \in SUBSET Consumers :
          phase' = [c \in Consumers |-> IF c \in ended THEN "off" ELSE phase[c]]
    /\ UNCHANGED <<log, place, received>>

Next ==
    \/ Publish \/ Unsubscribe
    \/ \E c \in Consumers : Load(c) \/ Subscribe(c) \/ Deliver(c)

Spec == Init /\ [][Next]_feedVars
=============================================================================
