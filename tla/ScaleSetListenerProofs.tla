----------------------- MODULE ScaleSetListenerProofs -----------------------
(***************************************************************************)
(* No message of a scale set is skipped, however often the listener is     *)
(* stopped, restarted or killed, for any number of messages and of         *)
(* generations of the loop, and the desired count in the store is that of  *)
(* the newest message.  Both are about what the listener and the store     *)
(* remember; the induction needs what each loop knows at each of its       *)
(* steps: that it asks the broker for what follows a prefix that went      *)
(* through, and that it is the only one that handles a message.            *)
(***************************************************************************)
EXTENDS ScaleSetListener, WellFoundedInduction, SequenceTheorems, TLAPS

Handling == {"last", "desired", "delete"}

\* The channels of a loop are those of a generation that was started, a message that was
\* received has an ID the broker gave it, and no loop outlives the process.
Generations ==
    /\ running => cur # 0
    /\ \A g \in Gens :
          /\ loop[g].pc # "none" => cur # 0
          /\ loop[g].pc \notin {"none", "spawned"} => loop[g].exits # 0
          /\ loop[g].pc \in {"got"} \cup Handling => loop[g].msg # 0
    /\ wmux = "event" => events # <<>>
    /\ ~up => \A g \in Gens : loop[g].pc = "none"

\* l.mux is held by the loop that handles a message.
Holder == \A g \in Gens : loop[g].pc \in Handling => lmux = g

\* The messages up to n went through handleSessionMessage.
Prefix(n) == \A m \in 1..n : m \in through

\* Nobody knows a message that was not posted, and every position from which the broker
\* is asked, or would be after a restart, ends a prefix that went through.
Positions ==
    /\ queue \subseteq 1..posted /\ through \subseteq 1..posted
    /\ dbLast <= posted /\ last <= posted
    /\ \A m \in 1..posted : m \in queue \/ m \in through
    /\ Prefix(dbLast) /\ Prefix(last)
    /\ \A g \in Gens :
          /\ loop[g].msg <= posted
          /\ loop[g].pc = "poll" => Prefix(loop[g].msg)
          /\ loop[g].pc = "got" => Prefix(loop[g].msg - 1)
          /\ loop[g].pc \in Handling => Prefix(loop[g].msg)

\* n is the newest message that went through, 0 before the first.
Newest(n) ==
    \/ n = 0 /\ through = {}
    \/ n \in through /\ \A m \in through : m <= n

\* The count of the newest message is stored; or that message is still to be delivered
\* again; or it was stored as processed and its count is about to be.
Counted ==
    ~missed => \E n \in 0..MaxMessages :
        /\ Newest(n)
        /\ \/ dbDesired = n
           \/ n \in queue /\ n > dbLast /\ n > last
           \/ \E g \in Gens : loop[g].pc = "desired" /\ loop[g].msg = n /\ dbLast = n
        /\ (\E g \in Gens : loop[g].pc = "delete") => dbDesired = n

ListenerInv == TypeOK /\ Generations
MessageInv == ListenerInv /\ Holder /\ Positions /\ Counted

-----------------------------------------------------------------------------
\* A set of naturals that is not empty has a least element, which Min returns.
LEMMA MinOfSet ==
    ASSUME NEW S \in SUBSET Nat, S # {}
    PROVE  Min(S) \in S /\ \A y \in S : Min(S) <= y
<1>1. PICK x \in S : \A y \in S : ~(<<y, x>> \in OpToRel(<, Nat))
  BY NatLessThanWellFounded, WFMin
<1>2. ASSUME NEW y \in S
      PROVE  x <= y
  <2>1. <<y, x>> \in Nat \X Nat /\ <<y, x>>[1] = y /\ <<y, x>>[2] = x
    OBVIOUS
  <2>2. y < x => <<y, x>> \in OpToRel(<, Nat)
    BY <2>1, Zenon DEF OpToRel
  <2>3. ~(y < x)
    BY <1>1, <2>2, Zenon
  <2> QED
    BY <2>3
<1> QED
  BY <1>2 DEF Min

\* A bounded set of naturals that is not empty has a greatest element, which Max returns.
LEMMA MaxOfSet ==
    ASSUME NEW n \in Nat, NEW S \in SUBSET (0..n), S # {}
    PROVE  Max(S) \in S /\ \A y \in S : y <= Max(S)
<1> DEFINE D == {n - y : y \in S}
<1>1. D \in SUBSET Nat /\ D # {}
  <2>1. \A y \in S : n - y \in Nat
    OBVIOUS
  <2> QED
    BY <2>1
<1>2. Min(D) \in D /\ \A d \in D : Min(D) <= d
  BY <1>1, MinOfSet
<1>3. PICK x \in S : Min(D) = n - x
  BY <1>2
<1>4. \A y \in S : n - y \in D
  OBVIOUS
<1>5. \A y \in S : x >= y
  <2>1. \A y \in S : n - x <= n - y
    BY <1>2, <1>3, <1>4
  <2> QED
    BY <2>1
<1> QED
  BY <1>5 DEF Max

-----------------------------------------------------------------------------
\* A loop gets a new record; the other loops keep theirs.
LEMMA LoopWritten ==
    ASSUME TypeOK, NEW g \in Gens, NEW l \in Loops, SetLoop(g, l)
    PROVE  /\ loop' \in [Gens -> Loops] /\ loop'[g] = l
           /\ \A h \in Gens \ {g} : loop'[h] = loop[h]
BY DEF TypeOK, SetLoop

\* The records the steps of a loop write.
LEMMA LoopRecords ==
    ASSUME TypeOK, NEW g \in Gens
    PROVE  /\ loop[g].pc \in LoopSteps /\ loop[g].msg \in 0..MaxMessages
           /\ loop[g].exits \in Gens \cup {0}
           /\ NoLoop \in Loops
           /\ \A step \in LoopSteps :
                 LET l == [loop[g] EXCEPT !.pc = step]
                 IN  /\ l \in Loops /\ l.pc = step /\ l.msg = loop[g].msg
                     /\ l.exits = loop[g].exits
           /\ \A retried \in BOOLEAN :
                 LET l == [loop[g] EXCEPT !.pc = "top", !.poll = 0, !.msg = 0, !.retried = retried]
                 IN  l \in Loops /\ l.pc = "top" /\ l.msg = 0 /\ l.exits = loop[g].exits
           /\ LET l == [loop[g] EXCEPT !.pc = "top", !.poll = 0, !.msg = 0]
              IN  l \in Loops /\ l.pc = "top" /\ l.msg = 0 /\ l.exits = loop[g].exits
<1>1. loop[g] \in Loops /\ 0 \in 0..MaxMessages
  BY ListenerAssumption DEF TypeOK
<1>2. /\ loop[g].pc \in LoopSteps /\ loop[g].msg \in 0..MaxMessages
      /\ loop[g].exits \in Gens \cup {0}
  BY <1>1 DEF Loops
<1>3. NoLoop \in Loops
  BY <1>1 DEF NoLoop, Loops, LoopSteps
<1>4. ASSUME NEW step \in LoopSteps
      PROVE  LET l == [loop[g] EXCEPT !.pc = step]
             IN  l \in Loops /\ l.pc = step /\ l.msg = loop[g].msg /\ l.exits = loop[g].exits
  BY <1>1 DEF Loops
<1>5. ASSUME NEW retried \in BOOLEAN
      PROVE  LET l == [loop[g] EXCEPT !.pc = "top", !.poll = 0, !.msg = 0, !.retried = retried]
             IN  l \in Loops /\ l.pc = "top" /\ l.msg = 0 /\ l.exits = loop[g].exits
  BY <1>1 DEF Loops, LoopSteps
<1>6. LET l == [loop[g] EXCEPT !.pc = "top", !.poll = 0, !.msg = 0]
      IN  l \in Loops /\ l.pc = "top" /\ l.msg = 0 /\ l.exits = loop[g].exits
  BY <1>1 DEF Loops, LoopSteps
<1> QED
  BY <1>2, <1>3, <1>4, <1>5, <1>6

LEMMA FailureCounted ==
    ASSUME TypeOK, NEW kinds, Fails(kinds)
    PROVE  faults' \in 0..MaxFaults /\ updates' \in 0..MaxUpdates
BY ListenerAssumption DEF TypeOK, Fails

\* Stop marks only a generation that was started.
LEMMA StoppedType ==
    ASSUME ListenerInv, Stopped
    PROVE  /\ cancelled' \subseteq Gens /\ running' = FALSE
           /\ lmux' = lmux /\ cur' = cur /\ last' = last
BY DEF ListenerInv, TypeOK, Generations, Stopped

\* Start makes a generation that nothing refers to, and its loop.
LEMMA StartedType ==
    ASSUME ListenerInv, Started
    PROVE  \E g \in Gens :
              /\ running' = TRUE /\ cur' = g /\ loop[g].pc = "none"
              /\ cancelled' \subseteq Gens /\ exited' \subseteq Gens
              /\ loop' = [loop EXCEPT ![g] = [NoLoop EXCEPT !.pc = "spawned"]]
              /\ loop' \in [Gens -> Loops] /\ loop'[g].pc = "spawned" /\ loop'[g].msg = 0
              /\ \A h \in Gens \ {g} : loop'[h] = loop[h]
              /\ lmux' = lmux /\ last' = last
<1>1. PICK g \in Gens :
        /\ Unused(g)
        /\ running' = TRUE /\ cur' = g
        /\ cancelled' = cancelled \ {g} /\ exited' = exited \ {g}
        /\ loop' = [loop EXCEPT ![g] = [NoLoop EXCEPT !.pc = "spawned"]]
        /\ UNCHANGED <<lmux, last>>
  BY DEF Started
<1>2. LET l == [NoLoop EXCEPT !.pc = "spawned"]
      IN  l \in Loops /\ l.pc = "spawned" /\ l.msg = 0
  <2>1. 0 \in 0..MaxMessages
    BY ListenerAssumption
  <2> QED
    BY <2>1 DEF NoLoop, Loops, LoopSteps
<1>3. loop \in [Gens -> Loops] /\ cancelled \subseteq Gens /\ exited \subseteq Gens
  BY DEF ListenerInv, TypeOK
<1> QED
  BY <1>1, <1>2, <1>3 DEF Unused

\* A row goes to the worker as one more event.
LEMMA NotifyType ==
    ASSUME TypeOK, NEW r \in ScaleSetRows, Notify(r)
    PROVE  events' \in Seq(ScaleSetRows) /\ (events # <<>> => events' # <<>>)
<1>1. events' = events \/ events' = Append(events, r)
  BY DEF Notify
<1> QED
  BY <1>1, AppendProperties, SMTT(30) DEF TypeOK

LEMMA ListenerInvInit == Init => ListenerInv
<1> SUFFICES ASSUME Init PROVE ListenerInv
  OBVIOUS
<1>1. NoLoop \in Loops /\ 0 \in 0..MaxMessages
  BY ListenerAssumption DEF NoLoop, Loops, LoopSteps
<1>2. loop \in [Gens -> Loops] /\ \A g \in Gens : loop[g].pc = "none"
  BY <1>1 DEF Init, NoLoop
<1>3. dbRow \in ScaleSetRows
  BY DEF Init, ScaleSetRows
<1>4. keeper \in [pc : KeeperSteps, on : Gens \cup {0}]
  BY DEF Init, KeeperSteps
<1>5. /\ posted \in 0..MaxMessages /\ updates \in 0..MaxUpdates /\ faults \in 0..MaxFaults
      /\ events \in Seq(ScaleSetRows)
  BY ListenerAssumption DEF Init
<1>6. TypeOK
  BY <1>1, <1>2, <1>3, <1>4, <1>5 DEF Init, TypeOK
<1>7. Generations
  BY <1>2 DEF Init, Generations, Handling
<1> QED
  BY <1>6, <1>7 DEF ListenerInv

\* After the process died, and when a worker is made, there is no loop.
LEMMA FreshWorker ==
    ASSUME TypeOK, row' \in ScaleSetRows, last' \in 0..MaxMessages, up' \in BOOLEAN,
           quit' = FALSE, auth' = "ok", wmux' = "free",
           lmux' = 0, running' = FALSE, cur' = 0, cancelled' = {},
           exited' = {}, loop' = [g \in Gens |-> NoLoop],
           keeper' = [pc |-> "check", on |-> 0], events' = <<>>,
           posted' \in 0..MaxMessages,
           queue' \subseteq 1..MaxMessages, through' \subseteq 1..MaxMessages,
           handled' \subseteq 1..MaxMessages,
           dbLast' \in 0..MaxMessages, dbDesired' = dbDesired, missed' \in BOOLEAN,
           dbRow' = dbRow, updates' \in 0..MaxUpdates, faults' \in 0..MaxFaults
    PROVE  ListenerInv'
<1>1. NoLoop \in Loops /\ NoLoop.pc = "none"
  BY ListenerAssumption DEF NoLoop, Loops, LoopSteps
<1>2. TypeOK'
  <2>1. loop' \in [Gens -> Loops] /\ events' \in Seq(ScaleSetRows)
    BY <1>1
  <2>2. keeper' \in [pc : KeeperSteps, on : Gens \cup {0}]
    BY DEF KeeperSteps
  <2> QED
    BY <2>1, <2>2 DEF TypeOK
<1>3. Generations'
  BY <1>1 DEF Generations, Handling
<1> QED
  BY <1>2, <1>3 DEF ListenerInv

LEMMA DiesType ==
    ASSUME ListenerInv, Dies, faults' \in 0..MaxFaults, updates' \in 0..MaxUpdates
    PROVE  ListenerInv'
<1>1. TypeOK
  BY DEF ListenerInv
<1>2. missed' \in BOOLEAN
  BY <1>1 DEF Dies, TypeOK
<1>3. /\ posted' \in 0..MaxMessages
      /\ queue' \subseteq 1..MaxMessages /\ through' \subseteq 1..MaxMessages
      /\ handled' \subseteq 1..MaxMessages
      /\ dbLast' \in 0..MaxMessages /\ row' \in ScaleSetRows /\ last' \in 0..MaxMessages
  BY <1>1, ListenerAssumption DEF Dies, TypeOK, broker
<1> QED
  BY <1>1, <1>2, <1>3, FreshWorker DEF Dies

\* What a step of the loop of g that writes only its record has to show.
LEMMA LoopOnly ==
    ASSUME ListenerInv, NEW g \in Gens, NEW l \in Loops, SetLoop(g, l), loop[g].pc # "none",
           l.pc \notin {"none", "spawned"} => l.exits # 0,
           l.pc \in {"got"} \cup Handling => l.msg # 0,
           UNCHANGED <<worker, exited, keeper, cur, running>>,
           cancelled' \subseteq Gens, lmux' \in Gens \cup {0},
           posted' = posted, queue' \subseteq 1..MaxMessages, through' \subseteq 1..MaxMessages,
           handled' \subseteq 1..MaxMessages,
           dbLast' \in 0..MaxMessages, dbDesired' \in 0..MaxMessages, last' \in 0..MaxMessages,
           dbRow' = dbRow, events' \in Seq(ScaleSetRows), events # <<>> => events' # <<>>,
           missed' \in BOOLEAN, updates' \in 0..MaxUpdates, faults' \in 0..MaxFaults
    PROVE  ListenerInv'
<1>1. /\ loop' \in [Gens -> Loops] /\ loop'[g] = l
      /\ \A h \in Gens \ {g} : loop'[h] = loop[h]
  BY LoopWritten DEF ListenerInv
<1>2. TypeOK'
  BY <1>1 DEF ListenerInv, TypeOK, worker
<1>3. Generations'
  BY <1>1 DEF ListenerInv, Generations, worker
<1> QED
  BY <1>2, <1>3 DEF ListenerInv

LEMMA LoopStepType == ASSUME ListenerInv, NEW g \in Gens, LoopStep(g) PROVE ListenerInv'
<1>1. TypeOK /\ Generations
  BY DEF ListenerInv
<1> loop[g] \in Loops /\ MaxMessages \in Nat
  BY <1>1, ListenerAssumption DEF TypeOK
<1> /\ loop[g].pc \in LoopSteps /\ loop[g].msg \in 0..MaxMessages
    /\ loop[g].exits \in Gens \cup {0}
  BY DEF Loops
<1>2. /\ loop[g].pc # "none" => cur # 0
      /\ loop[g].pc \notin {"none", "spawned"} => loop[g].exits # 0
      /\ loop[g].pc \in {"got"} \cup Handling => loop[g].msg # 0
  BY <1>1 DEF Generations
<1>3. CASE LoopBegin(g)
  <2> DEFINE l == [loop[g] EXCEPT !.pc = "top", !.exits = cur]
  <2>1. l \in Loops /\ l.pc = "top" /\ l.exits = cur
    BY <1>1 DEF TypeOK, Loops, LoopSteps
  <2>2. cur # 0 /\ SetLoop(g, l)
    BY <1>2, <1>3 DEF LoopBegin
  <2>3. ListenerInv'
    BY <1>1, <1>3, <2>1, <2>2, LoopOnly
    DEF LoopBegin, TypeOK, broker, store, fields, bounds, Handling
  <2> QED
    BY <2>3
<1>4. CASE LoopEnds(g)
  <2> DEFINE l == [loop[g] EXCEPT !.pc = "exit"]
  <2>1. l \in Loops /\ l.pc = "exit" /\ l.exits = loop[g].exits
    BY DEF Loops, LoopSteps
  <2>2. cur # 0 /\ SetLoop(g, l) /\ l.exits # 0
    BY <1>2, <1>4, <2>1 DEF LoopEnds, LoopGoto
  <2> HIDE DEF l
  <2>3. ListenerInv'
    BY <1>1, <1>4, <2>1, <2>2, LoopOnly
    DEF LoopEnds, TypeOK, broker, store, fields, bounds, Handling
  <2> QED
    BY <2>3
<1>5. CASE LoopPoll(g)
  <2> DEFINE l == [loop[g] EXCEPT !.pc = "poll", !.poll = cur, !.msg = last]
  <2>1. l \in Loops /\ l.pc = "poll" /\ l.exits = loop[g].exits
    BY <1>1 DEF TypeOK, Loops, LoopSteps
  <2>2. cur # 0 /\ SetLoop(g, l) /\ l.exits # 0
    BY <1>2, <1>5, <2>1 DEF LoopPoll
  <2>3. ListenerInv'
    BY <1>1, <1>5, <2>1, <2>2, LoopOnly
    DEF LoopPoll, TypeOK, broker, store, fields, bounds, Handling
  <2> QED
    BY <2>3
<1>6. CASE PollMessage(g)
  <2> DEFINE after == {m \in queue : m > loop[g].msg}
             l == [loop[g] EXCEPT !.pc = "got", !.msg = Min(after), !.retried = FALSE]
  <2>1. after # {} /\ SetLoop(g, l) /\ loop[g].pc = "poll"
    BY <1>6 DEF PollMessage
  <2>2. Min(after) \in queue
    <3>1. queue \in SUBSET Nat
      BY <1>1 DEF TypeOK
    <3>2. after \in SUBSET Nat
      BY <3>1
    <3> QED
      BY <2>1, <3>2, MinOfSet
  <2>3. Min(after) \in 1..MaxMessages
    BY <1>1, <2>2 DEF TypeOK
  <2>4. l \in Loops /\ l.pc = "got" /\ l.msg # 0 /\ l.exits = loop[g].exits
    <3> HIDE DEF after
    <3>1. loop[g] \in Loops /\ Min(after) \in 0..MaxMessages /\ Min(after) # 0
      BY <1>1, <2>3 DEF TypeOK
    <3> QED
      BY <3>1 DEF Loops, LoopSteps
  <2>5. cur # 0 /\ l.exits # 0
    BY <1>2, <2>1, <2>4
  <2> HIDE DEF l, after
  <2>6. ListenerInv'
    BY <1>1, <1>6, <2>1, <2>4, <2>5, LoopOnly
    DEF PollMessage, TypeOK, broker, store, fields, bounds
  <2> QED
    BY <2>6
<1>7. CASE PollEnds(g)
  <2>1. faults' \in 0..MaxFaults /\ updates' \in 0..MaxUpdates
    BY <1>1, <1>7, FailureCounted DEF PollEnds, TypeOK, bounds
  <2>2. cur # 0 /\ loop[g].exits # 0
    BY <1>2, <1>7 DEF PollEnds
  <2>3. PICK l \in Loops : /\ SetLoop(g, l) /\ l.pc \in {"top", "exit"}
                           /\ l.exits = loop[g].exits
    <3>1. CASE LoopGoto(g, "exit")
      BY <1>1, <3>1, LoopRecords, ZenonT(30) DEF LoopGoto, LoopSteps
    <3>2. ASSUME NEW r \in BOOLEAN,
                 SetLoop(g, [loop[g] EXCEPT !.pc = "top", !.poll = 0, !.msg = 0, !.retried = r])
          PROVE  \E l \in Loops : /\ SetLoop(g, l) /\ l.pc \in {"top", "exit"}
                                   /\ l.exits = loop[g].exits
      BY <1>1, <3>2, LoopRecords, ZenonT(30)
    <3> QED
      BY <1>7, <3>1, <3>2 DEF PollEnds
  <2> QED
    BY <1>1, <1>7, <2>1, <2>2, <2>3, LoopOnly DEF PollEnds, TypeOK, broker, store, fields, Handling
<1>8. CASE HandleJobs(g)
  <2>1. faults' \in 0..MaxFaults /\ updates' \in 0..MaxUpdates
    BY <1>1, <1>8, FailureCounted DEF HandleJobs, TypeOK, bounds
  <2>2. cur # 0 /\ loop[g].exits # 0 /\ loop[g].msg \in 1..MaxMessages
    BY <1>2, <1>8 DEF HandleJobs
  <2>3. through' \subseteq 1..MaxMessages /\ handled' \subseteq 1..MaxMessages
    BY <1>1, <1>8, <2>2 DEF HandleJobs, TypeOK
  <2>4. PICK l \in Loops : /\ SetLoop(g, l) /\ l.pc \in {"top", "last"}
                           /\ l.exits = loop[g].exits /\ (l.pc = "last" => l.msg = loop[g].msg)
    BY <1>1, <1>8, LoopRecords, ZenonT(30) DEF HandleJobs, HandleEnd, LoopGoto, LoopSteps
  <2>5. UNCHANGED <<cur, running>> /\ cancelled' = cancelled /\ lmux' \in Gens \cup {0}
    BY <1>8 DEF HandleJobs, HandleEnd
  <2> QED
    BY <1>1, <1>8, <2>1, <2>2, <2>3, <2>4, <2>5, LoopOnly, SMTT(30)
    DEF HandleJobs, TypeOK, store, Handling
<1>9. CASE SetLastMessageID(g)
  <2>1. faults' \in 0..MaxFaults /\ updates' \in 0..MaxUpdates
    BY <1>1, <1>9, FailureCounted DEF SetLastMessageID, TypeOK, bounds
  <2>2. cur # 0 /\ loop[g].exits # 0 /\ loop[g].msg \in 1..MaxMessages
    BY <1>2, <1>9 DEF SetLastMessageID, Handling
  <2>3. events' \in Seq(ScaleSetRows) /\ (events # <<>> => events' # <<>>)
    BY <1>1, <1>9, NotifyType DEF SetLastMessageID, TypeOK
  <2> DEFINE l == [loop[g] EXCEPT !.pc = "desired"]
  <2>5. l \in Loops /\ l.pc = "desired" /\ l.exits # 0 /\ l.msg # 0
    BY <2>2 DEF Loops, LoopSteps
  <2>6. SetLoop(g, l)
    BY <1>9 DEF SetLastMessageID, LoopGoto
  <2> HIDE DEF l
  <2>7. ListenerInv'
    BY <1>1, <1>9, <2>1, <2>2, <2>3, <2>5, <2>6, LoopOnly
    DEF SetLastMessageID, TypeOK, broker, Handling
  <2> QED
    BY <2>7
<1>10. CASE SetDesiredRunnerCount(g)
  <2>1. faults' \in 0..MaxFaults /\ updates' \in 0..MaxUpdates
    BY <1>1, <1>10, FailureCounted DEF SetDesiredRunnerCount, TypeOK, bounds
  <2>2. cur # 0 /\ loop[g].exits # 0 /\ loop[g].msg \in 1..MaxMessages
    BY <1>2, <1>10 DEF SetDesiredRunnerCount, Handling
  <2>3. events' \in Seq(ScaleSetRows) /\ (events # <<>> => events' # <<>>)
    BY <1>1, <1>10, NotifyType DEF SetDesiredRunnerCount, TypeOK
  <2>4. dbDesired' \in 0..MaxMessages /\ missed' \in BOOLEAN
    BY <1>1, <1>10, <2>2 DEF SetDesiredRunnerCount, TypeOK
  <2> DEFINE l == [loop[g] EXCEPT !.pc = "delete"]
  <2>5. l \in Loops /\ l.pc = "delete" /\ l.exits # 0 /\ l.msg # 0
    BY <2>2 DEF Loops, LoopSteps
  <2>6. SetLoop(g, l)
    BY <1>10 DEF SetDesiredRunnerCount, LoopGoto
  <2> HIDE DEF l
  <2>7. ListenerInv'
    BY <1>1, <1>10, <2>1, <2>2, <2>3, <2>4, <2>5, <2>6, LoopOnly
    DEF SetDesiredRunnerCount, TypeOK, broker, fields, Handling
  <2> QED
    BY <2>7
<1>11. CASE DeleteMessage(g)
  <2>1. faults' \in 0..MaxFaults /\ updates' \in 0..MaxUpdates
    BY <1>1, <1>11, FailureCounted DEF DeleteMessage, TypeOK, bounds
  <2>2. cur # 0 /\ loop[g].exits # 0
    BY <1>2, <1>11 DEF DeleteMessage
  <2>3. queue' \subseteq 1..MaxMessages
    BY <1>1, <1>11 DEF DeleteMessage, TypeOK
  <2> QED
    BY <1>1, <1>11, <2>1, <2>2, <2>3, LoopOnly, LoopRecords
    DEF DeleteMessage, HandleEnd, TypeOK, store, Handling
<1>12. CASE LoopExit(g)
  <2>1. faults' \in 0..MaxFaults /\ updates' \in 0..MaxUpdates
    BY <1>1, <1>12 DEF LoopExit, TypeOK, bounds
  <2>2. CASE Dies
    BY <2>1, <2>2, DiesType
  <2>3. CASE Stopped /\ exited' = exited \cup {loop[g].exits} /\ SetLoop(g, NoLoop)
             /\ UNCHANGED <<broker, store, worker, keeper>>
    <3>1. loop[g].exits \in Gens
      BY <1>1, <1>2, <1>12, LoopRecords DEF LoopExit
    <3>2. /\ loop' \in [Gens -> Loops] /\ loop'[g].pc = "none"
          /\ \A h \in Gens \ {g} : loop'[h] = loop[h]
      <4>1. NoLoop \in Loops /\ NoLoop.pc = "none"
        BY <1>1, LoopRecords DEF NoLoop
      <4> QED
        BY <1>1, <2>3, <4>1, LoopWritten
    <3>3. TypeOK'
      BY <1>1, <2>1, <2>3, <3>1, <3>2, StoppedType DEF TypeOK, broker, store, worker
    <3>4. Generations'
      BY <1>1, <2>3, <3>2, StoppedType DEF Generations, Handling, store, worker
    <3> QED
      BY <3>3, <3>4 DEF ListenerInv
  <2> QED
    BY <1>12, <2>2, <2>3 DEF LoopExit
<1> QED
  BY <1>3, <1>4, <1>5, <1>6, <1>7, <1>8, <1>9, <1>10, <1>11, <1>12 DEF LoopStep

\* Start of the listener, when it runs already or creates a session.
LEMMA StartType ==
    ASSUME ListenerInv, up, AlreadyStarted \/ Started,
           UNCHANGED <<broker, store, row, up, quit, wmux>>, auth' \in {"ok", "failed", "probe"},
           keeper' \in [pc : KeeperSteps, on : Gens \cup {0}],
           updates' \in 0..MaxUpdates, faults' \in 0..MaxFaults
    PROVE  ListenerInv'
<1>1. CASE AlreadyStarted
  BY <1>1 DEF AlreadyStarted, ListenerInv, TypeOK, Generations, broker, store, fields
<1>2. CASE Started
  <2>1. PICK g \in Gens :
              /\ running' = TRUE /\ cur' = g
              /\ cancelled' \subseteq Gens /\ exited' \subseteq Gens
              /\ loop' \in [Gens -> Loops] /\ loop'[g].pc = "spawned"
              /\ \A h \in Gens \ {g} : loop'[h] = loop[h]
              /\ lmux' = lmux /\ last' = last
    BY <1>2, StartedType
  <2>2. TypeOK'
    BY <2>1 DEF ListenerInv, TypeOK, broker, store
  <2>3. Generations'
    BY <2>1, ListenerAssumption DEF ListenerInv, Generations, store, Handling
  <2> QED
    BY <2>2, <2>3 DEF ListenerInv
<1> QED
  BY <1>1, <1>2

\* A step of keepListenerAlive that does not start the listener.
LEMMA KeeperOnly ==
    ASSUME ListenerInv, UNCHANGED <<broker, store, row, up, quit, wmux, exited, loop>>,
           auth' \in {"ok", "failed", "probe"},
           keeper' \in [pc : KeeperSteps, on : Gens \cup {0}],
           Stopped \/ UNCHANGED fields,
           updates' \in 0..MaxUpdates, faults' \in 0..MaxFaults
    PROVE  ListenerInv'
<1>1. /\ cancelled' \subseteq Gens /\ running' \in BOOLEAN /\ (running' => running)
      /\ lmux' = lmux /\ cur' = cur /\ last' = last
  <2>1. CASE Stopped
    BY <2>1, StoppedType
  <2>2. CASE UNCHANGED fields
    BY <2>2 DEF ListenerInv, TypeOK, fields
  <2> QED
    BY <2>1, <2>2
<1>2. TypeOK'
  BY <1>1 DEF ListenerInv, TypeOK, broker, store
<1>3. Generations'
  BY <1>1 DEF ListenerInv, Generations, store
<1> QED
  BY <1>2, <1>3 DEF ListenerInv

LEMMA KeeperStepType == ASSUME ListenerInv, KeeperStep PROVE ListenerInv'
<1>1. TypeOK /\ up
  BY DEF ListenerInv, KeeperStep
<1>2. ASSUME NEW step \in KeeperSteps, KeeperGoto(step)
      PROVE  keeper' \in [pc : KeeperSteps, on : Gens \cup {0}]
  BY <1>2 DEF KeeperGoto
<1> USE DEF KeeperSteps
<1>3. CASE KeeperCheck
  <2>1. faults' \in 0..MaxFaults /\ updates' \in 0..MaxUpdates
    BY <1>1, <1>3, FailureCounted DEF KeeperCheck, TypeOK, bounds
  <2>2. keeper' \in [pc : KeeperSteps, on : Gens \cup {0}]
    BY <1>2, <1>3 DEF KeeperCheck
  <2> QED
    BY <1>1, <1>3, <2>1, <2>2, KeeperOnly DEF KeeperCheck, TypeOK, worker
<1>4. CASE KeeperSleep
  <2>1. keeper' \in [pc : KeeperSteps, on : Gens \cup {0}]
    BY <1>2, <1>4 DEF KeeperSleep
  <2> QED
    BY <1>1, <1>4, <2>1, KeeperOnly DEF KeeperSleep, TypeOK, worker, bounds
<1>5. CASE KeeperStart
  <2>1. faults' \in 0..MaxFaults /\ updates' \in 0..MaxUpdates
    BY <1>1, <1>5, FailureCounted DEF KeeperStart, TypeOK, bounds
  <2>2. keeper' \in [pc : KeeperSteps, on : Gens \cup {0}]
    BY <1>2, <1>5 DEF KeeperStart
  <2>3. CASE AlreadyStarted \/ Started
    BY <1>1, <1>5, <2>1, <2>2, <2>3, StartType DEF KeeperStart, TypeOK, worker
  <2>4. CASE UNCHANGED <<fields, exited, loop>>
    BY <1>1, <1>5, <2>1, <2>2, <2>4, KeeperOnly DEF KeeperStart, TypeOK, worker
  <2> QED
    BY <1>5, <2>3, <2>4 DEF KeeperStart
<1>6. CASE KeeperMark
  <2>1. keeper' \in [pc : KeeperSteps, on : Gens \cup {0}]
    BY <1>2, <1>6 DEF KeeperMark
  <2> QED
    BY <1>1, <1>6, <2>1, KeeperOnly DEF KeeperMark, TypeOK, bounds
<1>7. CASE KeeperSelect
  <2>1. keeper' \in [pc : KeeperSteps, on : Gens \cup {0}]
    BY <1>1, <1>7 DEF KeeperSelect, TypeOK
  <2> QED
    BY <1>1, <1>7, <2>1, KeeperOnly DEF KeeperSelect, TypeOK, bounds
<1>8. CASE KeeperWait
  <2>1. keeper' \in [pc : KeeperSteps, on : Gens \cup {0}]
    BY <1>2, <1>8 DEF KeeperWait
  <2> QED
    BY <1>1, <1>8, <2>1, KeeperOnly DEF KeeperWait, TypeOK, worker, bounds
<1>9. CASE KeeperWoken
  <2>1. keeper' \in [pc : KeeperSteps, on : Gens \cup {0}]
    BY <1>2, <1>9 DEF KeeperWoken
  <2> QED
    BY <1>1, <1>9, <2>1, KeeperOnly DEF KeeperWoken, TypeOK, worker, bounds
<1>10. CASE KeeperRestart
  <2>1. faults' \in 0..MaxFaults /\ updates' \in 0..MaxUpdates
    BY <1>1, <1>10, FailureCounted DEF KeeperRestart, TypeOK, bounds
  <2>2. keeper' \in [pc : KeeperSteps, on : Gens \cup {0}]
    BY <1>2, <1>10 DEF KeeperRestart
  <2>3. auth' \in {"ok", "failed", "probe"}
    BY <1>1, <1>10 DEF KeeperRestart, TypeOK
  <2>4. CASE AlreadyStarted \/ Started
    BY <1>1, <1>10, <2>1, <2>2, <2>3, <2>4, StartType DEF KeeperRestart
  <2>5. CASE UNCHANGED <<fields, exited, loop>>
    BY <1>10, <2>1, <2>2, <2>3, <2>5, KeeperOnly DEF KeeperRestart
  <2> QED
    BY <1>10, <2>4, <2>5 DEF KeeperRestart
<1> QED
  BY <1>3, <1>4, <1>5, <1>6, <1>7, <1>8, <1>9, <1>10 DEF KeeperStep

LEMMA ListenerInvNext == ListenerInv /\ [Next]_vars => ListenerInv'
<1> SUFFICES ASSUME ListenerInv, [Next]_vars PROVE ListenerInv'
  OBVIOUS
<1>1. TypeOK /\ Generations
  BY DEF ListenerInv
<1>2. CASE Post
  BY <1>1, <1>2, ListenerAssumption
  DEF Post, ListenerInv, TypeOK, Generations, store, worker, fields, bounds
<1>3. CASE Update
  <2>1. PICK r \in ScaleSetRows : dbRow' = r /\ Notify(r)
    BY <1>3 DEF Update
  <2>2. events' \in Seq(ScaleSetRows) /\ (events # <<>> => events' # <<>>)
    BY <1>1, <2>1, NotifyType
  <2>3. updates' \in 0..MaxUpdates
    BY <1>1, <1>3, ListenerAssumption DEF Update, TypeOK
  <2> QED
    BY <1>1, <1>3, <2>1, <2>2, <2>3
    DEF Update, ListenerInv, TypeOK, Generations, broker, worker, fields
<1>4. CASE AuthProbe
  BY <1>1, <1>4
  DEF AuthProbe, ListenerInv, TypeOK, Generations, broker, store, fields, bounds
<1>5. CASE EventStop
  <2>1. /\ cancelled' \subseteq Gens /\ running' \in BOOLEAN /\ (running' => running)
        /\ lmux' = lmux /\ cur' = cur /\ last' = last
    BY <1>1, <1>5, StoppedType DEF EventStop, ListenerInv, TypeOK, fields
  <2>2. TypeOK'
    BY <1>1, <1>5, <2>1 DEF EventStop, TypeOK, broker, store, bounds
  <2>3. Generations'
    BY <1>1, <1>5, <2>1 DEF EventStop, Generations, store
  <2> QED
    BY <2>2, <2>3 DEF ListenerInv
<1>6. CASE EventApply
  <2>1. row' \in ScaleSetRows /\ events' \in Seq(ScaleSetRows)
    <3>1. events \in Seq(ScaleSetRows) /\ events # <<>>
      BY <1>1, <1>6 DEF EventApply, TypeOK, Generations
    <3> QED
      BY <1>6, <3>1, HeadTailProperties DEF EventApply
  <2>2. TypeOK'
    BY <1>1, <1>6, <2>1 DEF EventApply, TypeOK, broker, fields, bounds
  <2>3. Generations'
    BY <1>1, <1>6 DEF EventApply, Generations, fields
  <2> QED
    BY <2>2, <2>3 DEF ListenerInv
<1>7. CASE WorkerQuit
  <2>1. faults' \in 0..MaxFaults /\ updates' \in 0..MaxUpdates
    BY <1>1, <1>7, FailureCounted DEF WorkerQuit
  <2>2. events' \in Seq(ScaleSetRows)
    BY <1>7 DEF WorkerQuit
  <2>3. TypeOK'
    BY <1>1, <1>7, <2>1, <2>2 DEF WorkerQuit, TypeOK, broker, fields
  <2>4. Generations'
    BY <1>1, <1>7 DEF WorkerQuit, Generations, fields
  <2> QED
    BY <2>3, <2>4 DEF ListenerInv
<1>8. CASE WorkerStopListener
  <2>1. /\ cancelled' \subseteq Gens /\ running' = FALSE
        /\ lmux' = lmux /\ cur' = cur /\ last' = last
    BY <1>8, StoppedType DEF WorkerStopListener
  <2>2. TypeOK'
    BY <1>1, <1>8, <2>1 DEF WorkerStopListener, TypeOK, broker, store, bounds
  <2>3. Generations'
    BY <1>1, <1>8, <2>1 DEF WorkerStopListener, Generations, store
  <2> QED
    BY <2>2, <2>3 DEF ListenerInv
<1>9. CASE Crash
  BY <1>1, <1>9, FailureCounted, DiesType DEF Crash
<1>10. CASE Boot
  <2>1. /\ posted' \in 0..MaxMessages
        /\ queue' \subseteq 1..MaxMessages /\ through' \subseteq 1..MaxMessages
        /\ handled' \subseteq 1..MaxMessages
        /\ dbLast' \in 0..MaxMessages /\ dbDesired' = dbDesired /\ missed' \in BOOLEAN
        /\ updates' \in 0..MaxUpdates /\ faults' \in 0..MaxFaults
    <3>1. CASE UNCHANGED <<broker, dbLast, dbDesired, missed, bounds>>
      BY <1>1, <3>1 DEF TypeOK, broker, bounds
    <3>2. CASE /\ Fails({"recreate"}) /\ posted' = 0 /\ queue' = {} /\ through' = {} /\ handled' = {}
               /\ dbLast' = 0 /\ missed' = TRUE /\ UNCHANGED dbDesired
      BY <1>1, <3>2, FailureCounted, ListenerAssumption
    <3> QED
      BY <1>10, <3>1, <3>2 DEF Boot
  <2>2. row' \in ScaleSetRows /\ last' \in 0..MaxMessages
    BY <1>1, <1>10 DEF Boot, NewWorker, TypeOK
  <2> QED
    BY <1>1, <1>10, <2>1, <2>2, FreshWorker DEF Boot, NewWorker
<1>11. CASE UNCHANGED vars
  BY <1>1, <1>11
  DEF vars, ListenerInv, TypeOK, Generations, broker, store, worker, fields, bounds
<1> QED
  BY <1>2, <1>3, <1>4, <1>5, <1>6, <1>7, <1>8, <1>9, <1>10, <1>11, LoopStepType, KeeperStepType
  DEF Next

LEMMA ListenerInvHolds == Spec => []ListenerInv
BY ListenerInvInit, ListenerInvNext, PTL DEF Spec

\* The variables keep their types, for any number of messages, generations and failures,
\* a scale set that is created again included.  In particular Stop and the deferred
\* close act on a generation that was started, never on a listener without one.
THEOREM ListenerTypeCorrect == Spec => []TypeOK
<1>1. ListenerInv => TypeOK
  BY DEF ListenerInv
<1> QED
  BY <1>1, ListenerInvHolds, PTL

-----------------------------------------------------------------------------
\* Steps that leave the counts alone.
LEMMA CountedKept ==
    ASSUME MessageInv, UNCHANGED <<broker, dbLast, dbDesired, missed, last>>,
           \A h \in Gens : loop[h].pc = "desired" => loop'[h] = loop[h],
           \A h \in Gens : loop'[h].pc = "delete" => loop'[h] = loop[h]
    PROVE  Counted'
<1> SUFFICES ASSUME ~missed
             PROVE  \E n \in 0..MaxMessages :
                       /\ Newest(n)
                       /\ \/ dbDesired = n
                          \/ n \in queue /\ n > dbLast /\ n > last
                          \/ \E g \in Gens : /\ loop'[g].pc = "desired" /\ loop'[g].msg = n
                                             /\ dbLast = n
                       /\ (\E g \in Gens : loop'[g].pc = "delete") => dbDesired = n
  BY DEF Counted, Newest, broker
<1>1. PICK n \in 0..MaxMessages :
         /\ Newest(n)
         /\ \/ dbDesired = n
            \/ n \in queue /\ n > dbLast /\ n > last
            \/ \E g \in Gens : loop[g].pc = "desired" /\ loop[g].msg = n /\ dbLast = n
         /\ (\E g \in Gens : loop[g].pc = "delete") => dbDesired = n
  BY DEF MessageInv, Counted
<1> QED
  BY <1>1

\* Steps that touch neither the messages nor what is remembered of them: the loops that
\* move neither ask, nor hold or handle a message afterwards.
LEMMA QuietStep ==
    ASSUME MessageInv, ListenerInv',
           UNCHANGED <<broker, dbLast, dbDesired, missed, lmux, last>>,
           \A h \in Gens :
              \/ loop'[h] = loop[h]
              \/ /\ loop[h].pc \notin Handling
                 /\ loop'[h].pc \notin {"poll", "got"} \cup Handling /\ loop'[h].msg <= posted
    PROVE  MessageInv'
<1>1. Holder'
  BY DEF MessageInv, Holder
<1>2. Positions'
  BY DEF MessageInv, Positions, Prefix, broker
<1>3. Counted'
  <2>1. \A g \in Gens : loop[g].pc = "desired" => loop'[g] = loop[g]
    BY DEF Handling
  <2>2. \A g \in Gens : loop'[g].pc = "delete" => loop'[g] = loop[g]
    BY DEF Handling
  <2> QED
    BY <2>1, <2>2, CountedKept
<1> QED
  BY <1>1, <1>2, <1>3 DEF MessageInv

\* The process dies, or comes back: the loops are gone, and the store remembers.
LEMMA ResetStep ==
    ASSUME MessageInv, ListenerInv',
           UNCHANGED <<broker, dbLast, dbDesired>>, last' \in {0, dbLast},
           \A h \in Gens : loop'[h] = NoLoop,
           ~missed' => /\ ~missed
                       /\ ~\E g \in Gens : loop[g].pc = "desired" /\ dbLast = loop[g].msg
    PROVE  MessageInv'
<1>1. \A h \in Gens : loop'[h].pc = "none" /\ loop'[h].msg = 0
  BY DEF NoLoop
<1>2. Holder'
  BY <1>1 DEF Holder, Handling
<1>3. dbLast \in Nat /\ last \in Nat /\ posted \in Nat
  BY ListenerAssumption DEF MessageInv, ListenerInv, TypeOK
<1>4. Positions'
  BY <1>1, <1>3 DEF MessageInv, Positions, Prefix, broker, Handling
<1>5. Counted'
  <2> SUFFICES ASSUME ~missed, ~\E g \in Gens : loop[g].pc = "desired" /\ dbLast = loop[g].msg
               PROVE  \E n \in 0..MaxMessages :
                         /\ Newest(n)
                         /\ dbDesired = n \/ (n \in queue /\ n > dbLast /\ n > last')
    BY <1>1 DEF Counted, Newest, broker
  <2> QED
    BY <1>3 DEF MessageInv, Counted
<1> QED
  BY <1>2, <1>4, <1>5 DEF MessageInv

LEMMA MessageInvInit == Init => MessageInv
<1> SUFFICES ASSUME Init PROVE MessageInv
  OBVIOUS
<1>1. \A g \in Gens : loop[g].pc = "none" /\ loop[g].msg = 0
  BY DEF Init, NoLoop
<1>2. Holder /\ Positions
  BY <1>1 DEF Init, Holder, Positions, Prefix, Handling
<1>3. Counted
  BY <1>1, ListenerAssumption DEF Init, Counted, Newest
<1> QED
  BY <1>2, <1>3, ListenerInvInit DEF MessageInv

\* When l.mux is free nobody handles a message; otherwise one loop does.
LEMMA OneHandles ==
    ASSUME MessageInv
    PROVE  /\ lmux = 0 => \A h \in Gens : loop[h].pc \notin Handling
           /\ \A g, h \in Gens : loop[g].pc \in Handling /\ loop[h].pc \in Handling => g = h
BY ListenerAssumption DEF MessageInv, Holder

LEMMA Numbers ==
    ASSUME TypeOK
    PROVE  /\ posted \in Nat /\ dbLast \in Nat /\ last \in Nat /\ dbDesired \in Nat
           /\ queue \in SUBSET Nat /\ through \in SUBSET Nat /\ through \in SUBSET (0..MaxMessages)
           /\ \A g \in Gens : /\ loop[g] \in Loops /\ loop[g].msg \in 0..MaxMessages
                             /\ loop[g].msg \in Nat
<1>1. \A g \in Gens : loop[g] \in Loops /\ loop[g].msg \in 0..MaxMessages
  BY DEF TypeOK, Loops
<1> QED
  BY <1>1, ListenerAssumption DEF TypeOK

\* A loop asks for what follows the last message the listener remembers.
LEMMA LoopPollStep ==
    ASSUME MessageInv, ListenerInv', NEW g \in Gens, LoopPoll(g) PROVE MessageInv'
<1> DEFINE l == [loop[g] EXCEPT !.pc = "poll", !.poll = cur, !.msg = last]
<1>1. TypeOK /\ loop[g] \in Loops /\ last \in 0..MaxMessages /\ posted \in Nat
  BY ListenerAssumption, SMTT(30) DEF MessageInv, ListenerInv, TypeOK
<1>2. l \in Loops /\ l.pc = "poll" /\ l.msg = last
  BY <1>1 DEF MessageInv, ListenerInv, TypeOK, Loops, LoopSteps
<1>3. SetLoop(g, l) /\ loop[g].pc = "top"
  BY DEF LoopPoll
<1> HIDE DEF l
<1>4. loop'[g] = l /\ \A h \in Gens \ {g} : loop'[h] = loop[h]
  BY <1>1, <1>2, <1>3, LoopWritten
<1>5. UNCHANGED <<broker, dbLast, dbDesired, missed, lmux, last>>
  BY DEF LoopPoll, store, fields
<1>6. Holder'
  BY <1>2, <1>4, <1>5 DEF MessageInv, Holder, Handling
<1>7. Positions'
  BY <1>2, <1>4, <1>5 DEF MessageInv, Positions, Prefix, broker, Handling
<1>8. Counted'
  <2>1. \A h \in Gens : loop[h].pc = "desired" => loop'[h] = loop[h]
    BY <1>3, <1>4
  <2>2. \A h \in Gens : loop'[h].pc = "delete" => loop'[h] = loop[h]
    BY <1>2, <1>4
  <2> QED
    BY <1>5, <2>1, <2>2, CountedKept
<1> QED
  BY <1>6, <1>7, <1>8 DEF MessageInv

\* The broker answers with the oldest message after it: whatever lies between was deleted,
\* so it went through.
LEMMA PollMessageStep ==
    ASSUME MessageInv, ListenerInv', NEW g \in Gens, PollMessage(g) PROVE MessageInv'
<1> DEFINE after == {m \in queue : m > loop[g].msg}
           l == [loop[g] EXCEPT !.pc = "got", !.msg = Min(after), !.retried = FALSE]
<1>1. TypeOK /\ loop[g] \in Loops /\ posted \in Nat /\ loop[g].msg \in Nat
  BY Numbers DEF MessageInv, ListenerInv
<1>2. after # {} /\ SetLoop(g, l) /\ loop[g].pc = "poll"
  BY DEF PollMessage
<1>3. Min(after) \in after /\ \A m \in after : Min(after) <= m
  <2>1. queue \in SUBSET Nat
    BY <1>1 DEF TypeOK
  <2>2. after \in SUBSET Nat
    BY <2>1
  <2> QED
    BY <1>2, <2>2, MinOfSet
<1>4. Min(after) \in queue /\ Min(after) \in 0..MaxMessages /\ Min(after) <= posted
  <2>1. Min(after) \in queue
    BY <1>3
  <2> HIDE DEF after
  <2>2. Min(after) \in 1..MaxMessages
    BY <1>1, <2>1 DEF TypeOK
  <2>3. Min(after) \in 1..posted
    BY <2>1 DEF MessageInv, Positions
  <2> QED
    BY <1>1, <2>1, <2>2, <2>3, ListenerAssumption
<1>5. Prefix(Min(after) - 1)
  <2> SUFFICES ASSUME NEW m \in 1..(Min(after) - 1) PROVE m \in through
    BY DEF Prefix
  <2>1. CASE m <= loop[g].msg
    BY <1>1, <1>2, <2>1 DEF MessageInv, Positions, Prefix
  <2>2. CASE m > loop[g].msg
    <3>1. m \notin queue
      BY <1>3, <1>4, <2>2
    <3>2. m \in 1..posted
      BY <1>1, <1>4
    <3> QED
      BY <3>1, <3>2 DEF MessageInv, Positions
  <2> QED
    BY <1>1, <2>1, <2>2
<1> HIDE DEF after
<1>6. l \in Loops /\ l.pc = "got" /\ l.msg = Min(after)
  BY <1>1, <1>4 DEF Loops, LoopSteps
<1> HIDE DEF l
<1>7. loop'[g] = l /\ \A h \in Gens \ {g} : loop'[h] = loop[h]
  BY <1>1, <1>2, <1>6, LoopWritten
<1>8. UNCHANGED <<broker, dbLast, dbDesired, missed, lmux, last>>
  BY DEF PollMessage, store, fields
<1>9. Holder'
  BY <1>6, <1>7, <1>8 DEF MessageInv, Holder, Handling
<1>10. Positions'
  BY <1>4, <1>5, <1>6, <1>7, <1>8 DEF MessageInv, Positions, Prefix, broker, Handling
<1>11. Counted'
  <2>1. \A h \in Gens : loop[h].pc = "desired" => loop'[h] = loop[h]
    BY <1>2, <1>7
  <2>2. \A h \in Gens : loop'[h].pc = "delete" => loop'[h] = loop[h]
    BY <1>6, <1>7
  <2> QED
    BY <1>8, <2>1, <2>2, CountedKept
<1> QED
  BY <1>9, <1>10, <1>11 DEF MessageInv

\* The jobs of a message are handled.  If it is the newest one, it is still in the queue
\* and after both positions: it will be delivered again until its count is stored.
LEMMA JobsHandledStep ==
    ASSUME MessageInv, ListenerInv', NEW g \in Gens, loop[g].pc = "got", lmux = 0, lmux' = g,
           through' = through \cup {loop[g].msg}, LoopGoto(g, "last"),
           UNCHANGED <<posted, queue, dbLast, dbDesired, missed, last>>
    PROVE  MessageInv'
<1>1. /\ TypeOK /\ loop[g] \in Loops /\ posted \in Nat /\ loop[g].msg \in Nat
      /\ dbLast \in Nat /\ last \in Nat
  BY Numbers DEF MessageInv, ListenerInv
<1>2. loop'[g].pc = "last" /\ loop'[g].msg = loop[g].msg
  BY <1>1 DEF LoopGoto, SetLoop, TypeOK, Loops
<1>3. \A h \in Gens \ {g} : loop'[h] = loop[h]
  BY <1>1 DEF LoopGoto, SetLoop, TypeOK
<1>4. \A h \in Gens : loop[h].pc \notin Handling
  BY OneHandles
<1>5. loop[g].msg \in 1..posted
  BY <1>1 DEF MessageInv, ListenerInv, Generations, Positions
<1>6. Holder'
  BY <1>3, <1>4 DEF Holder
<1>7. \A n : Prefix(n) => Prefix(n)'
  BY DEF Prefix
<1>8. Prefix(loop[g].msg)'
  <2>1. Prefix(loop[g].msg - 1)
    BY DEF MessageInv, Positions
  <2>2. \A m \in 1..loop[g].msg : m \in through'
    BY <1>1, <1>5, <2>1 DEF Prefix
  <2> QED
    BY <1>2, <2>2 DEF Prefix
<1>9. Positions'
  <2>1. \A h \in Gens :
           /\ loop'[h].msg <= posted
           /\ loop'[h].pc = "poll" => Prefix(loop[h].msg)'
           /\ loop'[h].pc = "got" => Prefix(loop[h].msg - 1)'
           /\ loop'[h].pc \in Handling => Prefix(loop[h].msg)'
    BY <1>2, <1>3, <1>8 DEF MessageInv, Positions, Prefix, Handling
  <2> QED
    BY <1>5, <2>1 DEF MessageInv, Positions, Prefix
<1>10. Counted'
  <2> SUFFICES ASSUME ~missed
               PROVE  \E n \in 0..MaxMessages :
                         /\ Newest(n)'
                         /\ dbDesired = n \/ (n \in queue /\ n > dbLast /\ n > last)
    <3>1. \A h \in Gens : loop'[h].pc # "delete"
      BY <1>2, <1>3, <1>4 DEF Handling
    <3> QED
      BY <3>1 DEF Counted, Newest
  <2>1. PICK n \in 0..MaxMessages :
           /\ Newest(n)
           /\ \/ dbDesired = n
              \/ n \in queue /\ n > dbLast /\ n > last
              \/ \E h \in Gens : loop[h].pc = "desired" /\ loop[h].msg = n /\ dbLast = n
    BY DEF MessageInv, Counted
  <2>2. CASE loop[g].msg <= n
    <3>1. n \in through /\ \A m \in through : m <= n
      BY <1>5, <2>1, <2>2 DEF Newest
    <3>2. Newest(n)'
      BY <2>2, <3>1 DEF Newest
    <3> QED
      BY <1>4, <2>1, <3>2 DEF Handling
  <2>3. CASE loop[g].msg > n
    <3>1. through \subseteq Nat
      BY <1>1, Numbers
    <3>2. \A m \in through : m <= n
      BY <2>1 DEF Newest
    <3>3. loop[g].msg \notin through /\ loop[g].msg \in queue
      BY <1>1, <1>5, <2>3, <3>2 DEF MessageInv, Positions
    <3>4. loop[g].msg > dbLast /\ loop[g].msg > last
      BY <1>1, <1>5, <3>3 DEF MessageInv, Positions, Prefix
    <3>5. Newest(loop[g].msg)'
      <4>1. \A m \in through' : m <= loop[g].msg
        <5>1. \A m \in through : m <= loop[g].msg
          BY <1>1, <2>3, <3>1, <3>2
        <5> QED
          BY <1>1, <5>1
      <4> QED
        BY <4>1, <1>2 DEF Newest
    <3>6. loop[g].msg \in 0..MaxMessages
      BY <1>1 DEF TypeOK, Loops
    <3> QED
      BY <1>2, <3>3, <3>4, <3>5, <3>6 DEF Newest
  <2> QED
    BY <1>1, <2>2, <2>3
<1> QED
  BY <1>6, <1>9, <1>10 DEF MessageInv

\* The ID of a handled message is stored, or the store failed.
LEMMA SetLastStep ==
    ASSUME MessageInv, ListenerInv', NEW g \in Gens, SetLastMessageID(g) PROVE MessageInv'
<1>1. /\ TypeOK /\ loop[g] \in Loops /\ posted \in Nat /\ loop[g].msg \in Nat
      /\ dbLast \in Nat /\ last \in Nat /\ loop[g].pc = "last" /\ loop[g].msg # 0
      /\ Prefix(loop[g].msg) /\ loop[g].msg <= posted
  BY Numbers DEF MessageInv, ListenerInv, Generations, Positions, SetLastMessageID, Handling
<1>2. /\ loop'[g].pc = "desired" /\ loop'[g].msg = loop[g].msg
      /\ \A h \in Gens \ {g} : loop'[h] = loop[h]
  BY <1>1 DEF SetLastMessageID, LoopGoto, SetLoop, TypeOK, Loops
<1>3. /\ UNCHANGED <<posted, queue, through, dbDesired, missed, lmux>>
      /\ \/ dbLast' = loop[g].msg /\ last' = loop[g].msg
         \/ UNCHANGED <<dbLast, last>>
  BY DEF SetLastMessageID, broker
<1>4. \A h \in Gens \ {g} : loop[h].pc \notin Handling
  BY <1>1, OneHandles DEF Handling
<1>5. Holder'
  BY <1>1, <1>2, <1>3 DEF MessageInv, Holder, Handling
<1>6. Positions'
  <2>1. \A h \in Gens :
           /\ loop'[h].msg <= posted
           /\ loop'[h].pc = "poll" => Prefix(loop'[h].msg)
           /\ loop'[h].pc = "got" => Prefix(loop'[h].msg - 1)
           /\ loop'[h].pc \in Handling => Prefix(loop'[h].msg)
    BY <1>1, <1>2 DEF MessageInv, Positions
  <2>2. dbLast' <= posted /\ last' <= posted /\ Prefix(dbLast') /\ Prefix(last')
    BY <1>1, <1>3 DEF MessageInv, Positions
  <2> QED
    BY <1>3, <2>1, <2>2 DEF MessageInv, Positions, Prefix
<1>7. Counted'
  <2> SUFFICES ASSUME ~missed
               PROVE  \E n \in 0..MaxMessages :
                         /\ Newest(n)
                         /\ \/ dbDesired = n
                            \/ n \in queue /\ n > dbLast' /\ n > last'
                            \/ loop[g].msg = n /\ dbLast' = n
    <3>1. \A h \in Gens : loop'[h].pc # "delete"
      BY <1>2, <1>4 DEF Handling
    <3> QED
      BY <1>2, <1>3, <3>1 DEF Counted, Newest
  <2>1. PICK n \in 0..MaxMessages :
           /\ Newest(n)
           /\ \/ dbDesired = n
              \/ n \in queue /\ n > dbLast /\ n > last
              \/ \E h \in Gens : loop[h].pc = "desired" /\ loop[h].msg = n /\ dbLast = n
    BY DEF MessageInv, Counted
  <2>2. loop[g].msg <= n
    <3>1. loop[g].msg \in through
      BY <1>1 DEF Prefix
    <3> QED
      BY <2>1, <3>1 DEF Newest
  <2>3. dbDesired = n \/ (n \in queue /\ n > dbLast /\ n > last)
    BY <1>1, <1>4, <2>1 DEF Handling
  <2>4. CASE dbDesired = n
    BY <2>1, <2>4
  <2>5. CASE n \in queue /\ n > dbLast /\ n > last
    <3>1. CASE UNCHANGED <<dbLast, last>>
      BY <2>1, <2>5, <3>1
    <3>2. CASE dbLast' = loop[g].msg /\ last' = loop[g].msg
      BY <1>1, <2>1, <2>2, <2>5, <3>2
    <3> QED
      BY <1>3, <3>1, <3>2
  <2> QED
    BY <2>3, <2>4, <2>5
<1> QED
  BY <1>5, <1>6, <1>7 DEF MessageInv

\* The count of a message is stored, or the store failed, which missed remembers.
LEMMA SetDesiredStep ==
    ASSUME MessageInv, ListenerInv', NEW g \in Gens, SetDesiredRunnerCount(g) PROVE MessageInv'
<1>1. /\ TypeOK /\ loop[g] \in Loops /\ loop[g].msg \in 0..MaxMessages
      /\ loop[g].pc = "desired" /\ loop[g].msg # 0 /\ Prefix(loop[g].msg)
      /\ MaxMessages \in Nat /\ through \in SUBSET (0..MaxMessages)
  BY Numbers, ListenerAssumption
  DEF MessageInv, ListenerInv, Generations, Positions, SetDesiredRunnerCount, Handling
<1>2. /\ loop'[g].pc = "delete" /\ loop'[g].msg = loop[g].msg
      /\ \A h \in Gens \ {g} : loop'[h] = loop[h]
  BY <1>1 DEF SetDesiredRunnerCount, LoopGoto, SetLoop, TypeOK, Loops
<1>3. /\ UNCHANGED <<posted, queue, through, dbLast, last, lmux>>
      /\ missed' \/ (dbDesired' = loop[g].msg /\ loop[g].msg = Max(through))
  BY DEF SetDesiredRunnerCount, broker, fields
<1>4. Holder'
  BY <1>1, <1>2, <1>3 DEF MessageInv, Holder, Handling
<1>5. Positions'
  <2>1. \A h \in Gens :
           /\ loop'[h].msg <= posted
           /\ loop'[h].pc = "poll" => Prefix(loop'[h].msg)
           /\ loop'[h].pc = "got" => Prefix(loop'[h].msg - 1)
           /\ loop'[h].pc \in Handling => Prefix(loop'[h].msg)
    BY <1>1, <1>2 DEF MessageInv, Positions, Handling
  <2> QED
    BY <1>3, <2>1 DEF MessageInv, Positions, Prefix
<1>6. Counted'
  <2> SUFFICES ASSUME ~missed'
               PROVE  \E n \in 0..MaxMessages : Newest(n)' /\ dbDesired' = n
    BY DEF Counted
  <2>1. loop[g].msg \in through
    BY <1>1 DEF Prefix
  <2>2. \A m \in through : m <= Max(through)
    BY <1>1, <2>1, MaxOfSet
  <2> QED
    BY <1>1, <1>3, <2>1, <2>2 DEF Newest
<1> QED
  BY <1>4, <1>5, <1>6 DEF MessageInv

\* A handled message is deleted, or stays in the queue.
LEMMA DeleteStep ==
    ASSUME MessageInv, ListenerInv', NEW g \in Gens, DeleteMessage(g) PROVE MessageInv'
<1>1. /\ TypeOK /\ loop[g] \in Loops /\ loop[g].msg \in Nat /\ posted \in Nat
      /\ loop[g].pc = "delete" /\ loop[g].msg # 0 /\ Prefix(loop[g].msg)
  BY Numbers DEF MessageInv, ListenerInv, Generations, Positions, DeleteMessage, Handling
<1>2. /\ loop'[g].pc = "top" /\ loop'[g].msg = 0
      /\ \A h \in Gens \ {g} : loop'[h] = loop[h]
  BY <1>1 DEF DeleteMessage, HandleEnd, SetLoop, TypeOK, Loops
<1>3. /\ UNCHANGED <<posted, through, dbLast, dbDesired, missed, last>>
      /\ queue' \subseteq queue /\ queue \subseteq queue' \cup {loop[g].msg}
  BY DEF DeleteMessage, store
<1>4. \A h \in Gens \ {g} : loop[h].pc \notin Handling
  BY <1>1, OneHandles DEF Handling
<1>5. Holder'
  BY <1>2, <1>4 DEF Holder, Handling
<1>6. Positions'
  <2>1. \A h \in Gens :
           /\ loop'[h].msg <= posted
           /\ loop'[h].pc = "poll" => Prefix(loop'[h].msg)
           /\ loop'[h].pc = "got" => Prefix(loop'[h].msg - 1)
           /\ loop'[h].pc \in Handling => Prefix(loop'[h].msg)
    BY <1>1, <1>2 DEF MessageInv, Positions, Handling
  <2>2. \A m \in 1..posted : m \in queue' \/ m \in through
    BY <1>1, <1>3 DEF MessageInv, Positions, Prefix
  <2> QED
    BY <1>3, <2>1, <2>2 DEF MessageInv, Positions, Prefix
<1>7. Counted'
  <2> SUFFICES ASSUME ~missed
               PROVE  \E n \in 0..MaxMessages : Newest(n) /\ dbDesired = n
    BY <1>3 DEF Counted, Newest
  <2> QED
    BY <1>1 DEF MessageInv, Counted
<1> QED
  BY <1>5, <1>6, <1>7 DEF MessageInv

\* The broker posts one more message.
LEMMA PostStep == ASSUME MessageInv, ListenerInv', Post PROVE MessageInv'
<1>1. /\ posted' = posted + 1 /\ queue' = queue \cup {posted + 1}
      /\ UNCHANGED <<through, dbLast, dbDesired, missed, last, lmux, loop>>
      /\ posted \in Nat /\ dbLast \in Nat /\ last \in Nat
      /\ \A g \in Gens : loop[g].msg \in Nat
  BY Numbers DEF MessageInv, ListenerInv, Post, store, fields
<1>2. Holder'
  BY <1>1 DEF MessageInv, Holder
<1>3. Positions'
  <2>1. queue' \subseteq 1..posted' /\ through' \subseteq 1..posted'
    <3>1. queue \subseteq 1..posted /\ through \subseteq 1..posted
      BY DEF MessageInv, Positions
    <3>2. 1..posted \subseteq 1..(posted + 1) /\ posted + 1 \in 1..(posted + 1)
      BY <1>1
    <3> QED
      BY <1>1, <3>1, <3>2, Zenon
  <2>2. dbLast' <= posted' /\ last' <= posted' /\ \A g \in Gens : loop'[g].msg <= posted'
    BY <1>1 DEF MessageInv, Positions
  <2>3. \A m \in 1..posted' : m \in queue' \/ m \in through'
    BY <1>1 DEF MessageInv, Positions
  <2> QED
    BY <1>1, <2>1, <2>2, <2>3 DEF MessageInv, Positions, Prefix
<1>4. Counted'
  BY <1>1 DEF MessageInv, Counted, Newest
<1> QED
  BY <1>2, <1>3, <1>4 DEF MessageInv

\* Every step keeps the invariant, unless the scale set is created again at the forge.
LEMMA MessageInvNext ==
    ASSUME "recreate" \notin Faults, MessageInv, [Next]_vars PROVE MessageInv'
<1>1. ListenerInv'
  BY ListenerInvNext DEF MessageInv
<1>2. /\ TypeOK /\ posted \in Nat
      /\ \A g \in Gens : loop[g] \in Loops /\ loop[g].msg <= posted
  BY Numbers DEF MessageInv, ListenerInv, Positions
<1>3. CASE Post
  BY <1>1, <1>3, PostStep
<1>4. CASE Update \/ AuthProbe \/ EventStop \/ EventApply \/ WorkerQuit \/ WorkerStopListener
  <2>1. UNCHANGED <<broker, dbLast, dbDesired, missed, lmux, last, loop>>
    BY <1>4 DEF Update, AuthProbe, EventStop, EventApply, WorkerQuit, WorkerStopListener,
                Stopped, store, fields
  <2> QED
    BY <1>1, <2>1, QuietStep
<1>5. CASE KeeperStep
  <2>1. UNCHANGED <<broker, store>>
    BY <1>5 DEF KeeperStep, KeeperCheck, KeeperSleep, KeeperStart, KeeperMark, KeeperSelect,
                KeeperWait, KeeperWoken, KeeperRestart
  <2>2. \/ UNCHANGED <<lmux, last, loop>>
        \/ Started
    BY <1>5 DEF KeeperStep, KeeperCheck, KeeperSleep, KeeperStart, KeeperMark, KeeperSelect,
                KeeperWait, KeeperWoken, KeeperRestart, AlreadyStarted, Stopped, fields
  <2>3. CASE UNCHANGED <<lmux, last, loop>>
    BY <1>1, <2>1, <2>3, QuietStep DEF store
  <2>4. CASE Started
    <3>1. PICK g \in Gens :
                /\ loop[g].pc = "none" /\ loop'[g].pc = "spawned" /\ loop'[g].msg = 0
                /\ \A h \in Gens \ {g} : loop'[h] = loop[h]
                /\ lmux' = lmux /\ last' = last
      BY <2>4, StartedType DEF MessageInv
    <3> QED
      BY <1>1, <1>2, <2>1, <3>1, QuietStep DEF store, Handling
  <2> QED
    BY <2>2, <2>3, <2>4
<1>6. ASSUME Dies
      PROVE  MessageInv'
  <2>1. loop' = [g \in Gens |-> NoLoop] /\ last' = 0 /\ UNCHANGED <<broker, dbLast, dbDesired>>
    BY <1>6 DEF Dies
  <2>2. ~missed' => /\ ~missed
                    /\ ~\E g \in Gens : loop[g].pc = "desired" /\ dbLast = loop[g].msg
    BY <1>6 DEF Dies
  <2> QED
    BY <1>1, <2>1, <2>2, ResetStep
<1>7. CASE Crash
  BY <1>6, <1>7 DEF Crash
<1>8. CASE Boot
  <2>1. /\ loop' = [g \in Gens |-> NoLoop] /\ last' = dbLast /\ missed' = missed
        /\ UNCHANGED <<broker, dbLast, dbDesired>>
    BY <1>8 DEF Boot, NewWorker, Fails
  <2>2. \A g \in Gens : loop[g].pc = "none"
    BY <1>8 DEF Boot, MessageInv, ListenerInv, Generations
  <2> QED
    BY <1>1, <2>1, <2>2, ResetStep
<1>9. ASSUME NEW g \in Gens, LoopStep(g)
      PROVE  MessageInv'
  <2>0. /\ loop[g] \in Loops /\ loop[g].msg <= posted
        /\ posted \in Nat /\ 0 <= posted /\ 0 \in 0..MaxMessages
    BY <1>2, ListenerAssumption DEF TypeOK
  <2>1. ASSUME NEW l \in Loops, SetLoop(g, l), loop[g].pc \notin Handling,
               l.pc \notin {"poll", "got"} \cup Handling, l.msg <= posted,
               UNCHANGED <<broker, dbLast, dbDesired, missed, lmux, last>>
        PROVE  MessageInv'
    <3>1. loop'[g] = l /\ \A h \in Gens \ {g} : loop'[h] = loop[h]
      BY <1>2, <2>1, LoopWritten
    <3> QED
      BY <1>1, <2>1, <3>1, QuietStep
  <2>2. ASSUME NEW step \in LoopSteps
        PROVE  LET l == [loop[g] EXCEPT !.pc = step]
               IN  l \in Loops /\ l.pc = step /\ l.msg <= posted
    BY <2>0 DEF Loops
  <2>3. ASSUME NEW r \in BOOLEAN
        PROVE  LET l == [loop[g] EXCEPT !.pc = "top", !.poll = 0, !.msg = 0, !.retried = r]
               IN  l \in Loops /\ l.pc = "top" /\ l.msg <= posted
    BY <2>0 DEF Loops, LoopSteps
  <2>4. CASE LoopBegin(g)
    <3> DEFINE l == [loop[g] EXCEPT !.pc = "top", !.exits = cur]
    <3>1. l \in Loops /\ l.pc = "top" /\ l.msg <= posted
      BY <1>2, ZenonT(30) DEF TypeOK, Loops, LoopSteps
    <3>2. SetLoop(g, l)
      BY <2>4 DEF LoopBegin
    <3> HIDE DEF l
    <3> QED
      BY <2>1, <2>4, <3>1, <3>2 DEF LoopBegin, store, fields, Handling
  <2>5. CASE LoopEnds(g)
    BY <2>1, <2>2, <2>5 DEF LoopEnds, LoopGoto, store, fields, Handling, LoopSteps
  <2>6. CASE LoopPoll(g)
    BY <1>1, <2>6, LoopPollStep
  <2>7. CASE PollMessage(g)
    BY <1>1, <2>7, PollMessageStep
  <2>8. CASE PollEnds(g)
    <3>1. CASE LoopGoto(g, "exit")
      BY <2>1, <2>2, <2>8, <3>1 DEF PollEnds, LoopGoto, store, fields, Handling, LoopSteps
    <3>2. ASSUME NEW r \in BOOLEAN,
                 SetLoop(g, [loop[g] EXCEPT !.pc = "top", !.poll = 0, !.msg = 0, !.retried = r])
          PROVE  MessageInv'
      BY <2>1, <2>3, <2>8, <3>2 DEF PollEnds, store, fields, Handling
    <3> QED
      BY <2>8, <3>1, <3>2 DEF PollEnds
  <2>9. CASE HandleJobs(g)
    <3>1. CASE through' = through \cup {loop[g].msg} /\ lmux' = g /\ LoopGoto(g, "last")
      BY <1>1, <2>9, <3>1, JobsHandledStep DEF HandleJobs, store
    <3>2. CASE HandleEnd(g) /\ UNCHANGED <<through, handled>>
      <4> DEFINE l == [loop[g] EXCEPT !.pc = "top", !.poll = 0, !.msg = 0]
      <4>1. l \in Loops /\ l.pc = "top" /\ l.msg <= posted
        BY <2>0 DEF Loops, LoopSteps
      <4>2. SetLoop(g, l)
        BY <3>2 DEF HandleEnd
      <4> HIDE DEF l
      <4> QED
        BY <2>1, <2>9, <3>2, <4>1, <4>2 DEF HandleJobs, HandleEnd, broker, store, Handling
    <3> QED
      BY <2>9, <3>1, <3>2 DEF HandleJobs
  <2>10. CASE SetLastMessageID(g)
    BY <1>1, <2>10, SetLastStep
  <2>11. CASE SetDesiredRunnerCount(g)
    BY <1>1, <2>11, SetDesiredStep
  <2>12. CASE DeleteMessage(g)
    BY <1>1, <2>12, DeleteStep
  <2>13. CASE LoopExit(g)
    <3>1. CASE Dies
      BY <1>6, <3>1
    <3>2. CASE Stopped /\ SetLoop(g, NoLoop) /\ UNCHANGED <<broker, store>>
      <4>1. NoLoop \in Loops /\ NoLoop.pc = "none" /\ NoLoop.msg <= posted
        BY <2>0 DEF NoLoop, Loops, LoopSteps
      <4> QED
        BY <2>1, <2>13, <3>2, <4>1 DEF LoopExit, Stopped, store, Handling
    <3> QED
      BY <2>13, <3>1, <3>2 DEF LoopExit
  <2> QED
    BY <1>9, <2>4, <2>5, <2>6, <2>7, <2>8, <2>9, <2>10, <2>11, <2>12, <2>13 DEF LoopStep
<1>10. CASE UNCHANGED vars
  BY <1>1, <1>10, QuietStep DEF vars, store, fields
<1> QED
  BY <1>3, <1>4, <1>5, <1>7, <1>8, <1>9, <1>10 DEF Next

LEMMA MessageInvHolds ==
    ASSUME "recreate" \notin Faults
    PROVE  Spec => []MessageInv
<1>1. MessageInv /\ [Next]_vars => MessageInv'
  BY MessageInvNext
<1> QED
  BY <1>1, MessageInvInit, PTL DEF Spec

\* Only a message that cannot be parsed goes through without its jobs being handled.
JobsRead == through \subseteq handled \cup Garbled

LEMMA JobsReadHolds == Spec => []JobsRead
<1>1. Init => JobsRead
  BY DEF Init, JobsRead
<1>2. ASSUME JobsRead, [Next]_vars PROVE JobsRead'
  <2>1. CASE UNCHANGED <<through, handled>>
    BY <1>2, <2>1 DEF JobsRead
  <2>2. ASSUME NEW g \in Gens, LoopStep(g)
        PROVE  JobsRead'
    <3>1. CASE HandleJobs(g)
      BY <1>2, <3>1 DEF HandleJobs, JobsRead
    <3>2. CASE LoopExit(g)
      BY <2>1, <3>2 DEF LoopExit, Dies, broker
    <3> QED
      BY <2>1, <2>2, <3>1, <3>2
      DEF LoopStep, LoopBegin, LoopEnds, LoopPoll, PollMessage, PollEnds, SetLastMessageID,
          SetDesiredRunnerCount, DeleteMessage, broker
  <2>3. CASE Boot
    BY <1>2, <2>3 DEF Boot, JobsRead, broker
  <2>4. CASE KeeperStep
    BY <2>1, <2>4 DEF KeeperStep, KeeperCheck, KeeperSleep, KeeperStart, KeeperMark,
                      KeeperSelect, KeeperWait, KeeperWoken, KeeperRestart, broker
  <2>5. CASE \/ Post \/ Update \/ AuthProbe \/ EventStop \/ EventApply
             \/ WorkerQuit \/ WorkerStopListener \/ Crash
    BY <2>1, <2>5 DEF Post, Update, AuthProbe, EventStop, EventApply, WorkerQuit,
                      WorkerStopListener, Crash, Dies, broker
  <2>6. CASE UNCHANGED vars
    BY <2>1, <2>6 DEF vars, broker
  <2> QED
    BY <1>2, <2>2, <2>3, <2>4, <2>5, <2>6 DEF Next
<1> QED
  BY <1>1, <1>2, PTL DEF Spec

\* However many messages the broker posts, however many loops of earlier generations are
\* still about, whatever calls of the broker and the store fail, whichever messages cannot
\* be parsed or are not job messages, and wherever the worker is stopped or the process
\* dies: a message that is deleted, or that lies before the position the listener or its
\* successor asks from, had its jobs handled, or could not be parsed
\* (handleSessionMessage, SetLastMessageID).  The hypothesis is about the forge: a scale
\* set that vanished there and is created again has a new queue, and w.scaleSet keeps
\* the ID of the old one.
THEOREM NoMessageIsSkipped ==
    ASSUME "recreate" \notin Faults
    PROVE  Spec => []NoMessageSkipped
<1>1. MessageInv /\ JobsRead => NoMessageSkipped
  <2> SUFFICES ASSUME MessageInv, JobsRead, NEW m \in 1..posted,
                      m \notin queue \/ m <= dbLast \/ (up /\ m <= last)
               PROVE  m \in through
    BY DEF NoMessageSkipped, JobsRead
  <2>1. posted \in Nat /\ dbLast \in Nat /\ last \in Nat
    BY Numbers DEF MessageInv, ListenerInv
  <2> QED
    BY <2>1 DEF MessageInv, Positions, Prefix
<1> QED
  BY <1>1, MessageInvHolds, JobsReadHolds, PTL

\* Under the same hypothesis, once no message is on its way the desired count in the store
\* (SetDesiredRunnerCount) is that of the newest message, unless the store failed, the
\* process died between the two writes, or an older loop wrote last.
THEOREM CountIsOfLatestMessage ==
    ASSUME "recreate" \notin Faults
    PROVE  Spec => []CountIsLatest
<1>1. MessageInv => CountIsLatest
  <2> SUFFICES ASSUME MessageInv, up, lmux = 0, \A m \in queue : m <= last, ~missed
               PROVE  dbDesired = posted
    BY DEF CountIsLatest
  <2>1. posted \in Nat /\ last \in Nat /\ queue \in SUBSET Nat
    BY Numbers DEF MessageInv, ListenerInv
  <2>2. \A m \in 1..posted : m \in through
    BY <2>1 DEF MessageInv, Positions, Prefix
  <2>3. PICK n \in 0..MaxMessages :
           /\ Newest(n)
           /\ \/ dbDesired = n
              \/ n \in queue /\ n > dbLast /\ n > last
              \/ \E g \in Gens : loop[g].pc = "desired" /\ loop[g].msg = n /\ dbLast = n
    BY DEF MessageInv, Counted
  <2>4. dbDesired = n
    BY <2>1, <2>3, OneHandles DEF Handling
  <2>5. n = posted
    BY <2>1, <2>2, <2>3 DEF Newest, MessageInv, Positions
  <2> QED
    BY <2>4, <2>5
<1> QED
  BY <1>1, MessageInvHolds, PTL
=============================================================================
