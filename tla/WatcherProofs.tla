---------------------------- MODULE WatcherProofs ----------------------------
(***************************************************************************)
(* The watcher implements the event feed, for any number of writers, rows, *)
(* consumers and buffered events.  The four queues of a consumer are read  *)
(* as one: every step of dispatch and of the worker's loop moves an event  *)
(* within it, and the invariant is that it lists, in order, the events the *)
(* consumer wants between the last one it handled and the last one it was  *)
(* sent.  From that, and from what a writer knows between its commit and   *)
(* Notify, follows what the cache of a consumer holds.                     *)
(***************************************************************************)
EXTENDS Watcher, SequenceTheorems, TLAPS

Cat(a, b) == a \o b

\* What is on its way to the handler of c, the next one first
Pipe(c) == Cat(Cat(work[c], out[c]), Cat(queue[c], in[c]))

\* The events c filters for
Wants(c) == {e \in 1..Len(log) : log[e].key \in Interest[c]}

\* The last event that was offered to c
Offered(c) == IF c \in left /\ event # 0 THEN event - 1 ELSE fanned

\* p lists the members of W from from + 1 to to, in order
Lists(p, W, from, to) ==
    /\ \A i \in 1..Len(p) : p[i] \in W /\ p[i] \in (from + 1)..to
    /\ \A i, j \in 1..Len(p) : i < j => p[i] < p[j]
    /\ \A e \in W : e \in (from + 1)..to => \E i \in 1..Len(p) : p[i] = e

\* The channel holds what follows the last event fanned out.
ProducerInv ==
    /\ Len(log) = fanned + Len(channel)
    /\ \A i \in 1..Len(channel) : channel[i] = fanned + i
    /\ left # {} /\ event # 0 => event = fanned
    /\ \A c \in Consumers : place[c] <= fanned

ConsumerInv(c) ==
    IF Watching(c)
    THEN place[c] <= Offered(c) /\ Lists(Pipe(c), Wants(c), place[c], Offered(c))
    ELSE in[c] = <<>> /\ queue[c] = <<>> /\ out[c] = <<>> /\ work[c] = <<>>

TypeInv == TypeOK /\ \A k \in Keys : row[k] <= commits

FeedInv == TypeInv /\ ProducerInv /\ \A c \in Consumers : ConsumerInv(c)

\* Somebody is between the commit of k and Notify.
Pending(k) == \E p \in Writers : writer[p].pc # "idle" /\ writer[p].key = k

\* No event about k follows e.
NoneAfter(e, k) == \A f \in 1..Len(log) : f > e => log[f].key # k

\* A writer announces the row as it is; so does the last event about a row; and a
\* consumer that handled that event knows the row.
WritersCurrent ==
    \A p \in Writers : writer[p].pc = "notify" => writer[p].ver = row[writer[p].key]

LogCurrent ==
    \A e \in 1..Len(log) :
        ~Pending(log[e].key) /\ NoneAfter(e, log[e].key) => log[e].ver = row[log[e].key]

Knows(c) ==
    entry[c] = "open" =>
        \A k \in Interest[c] : ~Pending(k) /\ NoneAfter(place[c], k) => cache[c][k] = row[k]

CurrentInv ==
    ~lost /\ ~overlapped =>
        WritersCurrent /\ LogCurrent /\ \A c \in Consumers \ LoadFirst : Knows(c)

-----------------------------------------------------------------------------
\* Lemmas about lists of events and about queues in a row.

LEMMA ListsNone ==
    ASSUME NEW W, NEW t \in Nat
    PROVE  Lists(<<>>, W, t, t)
  BY DEF Lists

\* The next event is offered: it joins the list when it is wanted.
LEMMA ListsNext ==
    ASSUME NEW p \in Seq(Nat), NEW W, NEW f \in Nat, NEW t \in Nat, f <= t, Lists(p, W, f, t)
    PROVE  /\ t + 1 \in W => Lists(Append(p, t + 1), W, f, t + 1)
           /\ t + 1 \notin W => Lists(p, W, f, t + 1)
<1>1. ASSUME t + 1 \in W
      PROVE  Lists(Append(p, t + 1), W, f, t + 1)
  <2> DEFINE q == Append(p, t + 1)
  <2>1. /\ Len(p) \in Nat /\ Len(q) = Len(p) + 1
        /\ \A i \in 1..Len(p) : q[i] = p[i]
        /\ q[Len(p) + 1] = t + 1
    BY AppendProperties, LenProperties
  <2> HIDE DEF q
  <2>2. \A i \in 1..Len(q) : q[i] \in W /\ q[i] \in (f + 1)..(t + 1)
    BY <1>1, <2>1, SMTT(30) DEF Lists
  <2>3. ASSUME NEW i \in 1..Len(q), NEW j \in 1..Len(q), i < j
        PROVE  q[i] < q[j]
    <3>1. i \in 1..Len(p) /\ q[i] = p[i] /\ p[i] \in (f + 1)..t
      BY <2>1, <2>3 DEF Lists
    <3>2. CASE j = Len(p) + 1
      BY <2>1, <3>1, <3>2
    <3>3. CASE j # Len(p) + 1
      <4>1. j \in 1..Len(p) /\ q[j] = p[j]
        BY <2>1, <3>3
      <4> QED
        BY <2>3, <3>1, <4>1 DEF Lists
    <3> QED
      BY <3>2, <3>3
  <2>4. \A e \in W : e \in (f + 1)..(t + 1) => \E i \in 1..Len(q) : q[i] = e
    <3>1. ASSUME NEW e \in W, e \in (f + 1)..(t + 1)
          PROVE  \E i \in 1..Len(q) : q[i] = e
      <4>1. CASE e = t + 1
        BY <2>1, <4>1
      <4>2. CASE e # t + 1
        <5>1. PICK i \in 1..Len(p) : p[i] = e
          BY <3>1, <4>2 DEF Lists
        <5> QED
          BY <2>1, <5>1
      <4> QED
        BY <4>1, <4>2
    <3> QED
      BY <3>1
  <2> QED
    BY <2>2, <2>3, <2>4 DEF Lists, q
<1>2. ASSUME t + 1 \notin W
      PROVE  Lists(p, W, f, t + 1)
  <2>1. \A e \in W : e \in (f + 1)..(t + 1) => e \in (f + 1)..t
    BY <1>2
  <2> QED
    BY <2>1 DEF Lists
<1> QED
  BY <1>1, <1>2

\* The first of the list is taken: it is the next wanted event.
LEMMA ListsFirst ==
    ASSUME NEW p \in Seq(Nat), NEW W, NEW f \in Nat, NEW t \in Nat, p # <<>>,
           Lists(p, W, f, t)
    PROVE  /\ Head(p) \in W /\ Head(p) \in (f + 1)..t
           /\ \A e \in (f + 1)..(Head(p) - 1) : e \notin W
           /\ Lists(Tail(p), W, Head(p), t)
<1> DEFINE h == Head(p)
           q == Tail(p)
<1>1. /\ Len(p) \in Nat /\ Len(p) >= 1 /\ h = p[1]
      /\ Len(q) = Len(p) - 1 /\ \A i \in 1..Len(q) : q[i] = p[i + 1]
  BY HeadTailProperties, EmptySeq, LenProperties
<1> HIDE DEF h, q
<1>2. h \in W /\ h \in (f + 1)..t
  BY <1>1 DEF Lists
<1>3. \A i \in 2..Len(p) : p[i] > h
  BY <1>1 DEF Lists
<1>4. ASSUME NEW e \in W, e \in (f + 1)..t, e # h
      PROVE  \E i \in 2..Len(p) : p[i] = e
  BY <1>1, <1>4 DEF Lists
<1>5. \A e \in (f + 1)..(h - 1) : e \notin W
  BY <1>2, <1>3, <1>4, SMTT(30)
<1>6. ASSUME NEW i \in 1..Len(q)
      PROVE  q[i] \in W /\ q[i] \in (h + 1)..t
  <2>1. i + 1 \in 1..Len(p) /\ i + 1 \in 2..Len(p) /\ q[i] = p[i + 1]
    BY <1>1
  <2>2. p[i + 1] \in W /\ p[i + 1] \in (f + 1)..t /\ p[i + 1] > h
    BY <1>3, <2>1 DEF Lists
  <2> QED
    BY <1>2, <2>1, <2>2
<1>7. ASSUME NEW i \in 1..Len(q), NEW j \in 1..Len(q), i < j
      PROVE  q[i] < q[j]
  <2>1. /\ i + 1 \in 1..Len(p) /\ j + 1 \in 1..Len(p) /\ i + 1 < j + 1
        /\ q[i] = p[i + 1] /\ q[j] = p[j + 1]
    BY <1>1, <1>7
  <2> QED
    BY <2>1 DEF Lists
<1>8. ASSUME NEW e \in W, e \in (h + 1)..t
      PROVE  \E i \in 1..Len(q) : q[i] = e
  <2>1. PICK i \in 2..Len(p) : p[i] = e
    BY <1>2, <1>4, <1>8
  <2>2. i - 1 \in 1..Len(q) /\ q[i - 1] = e
    BY <1>1, <2>1
  <2> QED
    BY <2>2
<1> QED
  BY <1>2, <1>5, <1>6, <1>7, <1>8 DEF Lists, h, q

\* Only the wanted events in the range matter.
LEMMA ListsSame ==
    ASSUME NEW p, NEW W, NEW V, NEW f \in Nat, NEW t \in Nat, Lists(p, W, f, t),
           \A e \in (f + 1)..t : e \in W <=> e \in V
    PROVE  Lists(p, V, f, t)
  BY DEF Lists

\* Two queues in a row
LEMMA CatType ==
    ASSUME NEW S, NEW a \in Seq(S), NEW b \in Seq(S)
    PROVE  Cat(a, b) \in Seq(S)
  BY DEF Cat

LEMMA CatAssociative ==
    ASSUME NEW S, NEW a \in Seq(S), NEW b \in Seq(S), NEW c \in Seq(S)
    PROVE  Cat(Cat(a, b), c) = Cat(a, Cat(b, c))
  BY DEF Cat

LEMMA CatAppend ==
    ASSUME NEW S, NEW a \in Seq(S), NEW b \in Seq(S), NEW e \in S
    PROVE  Cat(a, Append(b, e)) = Append(Cat(a, b), e)
  BY DEF Cat

\* An event that moves from a queue to the one before it stays where it is in both.
LEMMA CatMove ==
    ASSUME NEW S, NEW a \in Seq(S), NEW b \in Seq(S), b # <<>>
    PROVE  Cat(Append(a, Head(b)), Tail(b)) = Cat(a, b)
  BY DEF Cat

LEMMA CatFirst ==
    ASSUME NEW S, NEW a \in Seq(S), NEW b \in Seq(S), a # <<>>
    PROVE  Cat(a, b) # <<>> /\ Head(Cat(a, b)) = Head(a) /\ Tail(Cat(a, b)) = Cat(Tail(a), b)
  BY DEF Cat

\* The first of four queues is read, the last one written, an event moves between the
\* two in the middle.
LEMMA FourFirst ==
    ASSUME NEW S, NEW w \in Seq(S), NEW o \in Seq(S), NEW r \in Seq(S), w # <<>>
    PROVE  /\ Cat(Cat(w, o), r) # <<>> /\ Head(Cat(Cat(w, o), r)) = Head(w)
           /\ Tail(Cat(Cat(w, o), r)) = Cat(Cat(Tail(w), o), r)
<1>1. /\ Cat(w, o) \in Seq(S) /\ Cat(w, o) # <<>>
      /\ Head(Cat(w, o)) = Head(w) /\ Tail(Cat(w, o)) = Cat(Tail(w), o)
  BY CatType, CatFirst
<1>2. \A x \in Seq(S) : x # <<>> =>
          /\ Cat(x, r) # <<>> /\ Head(Cat(x, r)) = Head(x)
          /\ Tail(Cat(x, r)) = Cat(Tail(x), r)
  BY CatFirst
<1> QED
  BY <1>1, <1>2, Zenon

LEMMA FourLast ==
    ASSUME NEW S, NEW x \in Seq(S), NEW q \in Seq(S), NEW i \in Seq(S), NEW e \in S
    PROVE  Cat(x, Cat(q, Append(i, e))) = Append(Cat(x, Cat(q, i)), e)
<1>1. Cat(q, i) \in Seq(S) /\ Cat(q, Append(i, e)) = Append(Cat(q, i), e)
  BY CatType, CatAppend
<1> QED
  BY <1>1, CatAppend

LEMMA FourMove ==
    ASSUME NEW S, NEW w \in Seq(S), NEW o \in Seq(S), NEW q \in Seq(S), NEW i \in Seq(S),
           q # <<>>
    PROVE  Cat(Cat(w, Append(o, Head(q))), Cat(Tail(q), i)) = Cat(Cat(w, o), Cat(q, i))
<1> DEFINE a == Append(o, Head(q))
           b == Tail(q)
<1>1. a \in Seq(S) /\ b \in Seq(S) /\ Cat(a, b) = Cat(o, q)
  BY CatMove
<1> HIDE DEF a, b
<1>2. Cat(w, a) \in Seq(S) /\ Cat(w, o) \in Seq(S)
  BY <1>1, CatType
<1>3. Cat(Cat(w, a), Cat(b, i)) = Cat(Cat(Cat(w, a), b), i)
  BY <1>1, <1>2, CatAssociative
<1>4. Cat(Cat(w, a), b) = Cat(w, Cat(a, b))
  BY <1>1, CatAssociative
<1>5. Cat(Cat(w, o), q) = Cat(w, Cat(o, q))
  BY CatAssociative
<1>6. Cat(Cat(w, o), Cat(q, i)) = Cat(Cat(Cat(w, o), q), i)
  BY <1>2, CatAssociative
<1>7. Cat(Cat(w, a), Cat(b, i)) = Cat(Cat(w, o), Cat(q, i))
  BY <1>1, <1>3, <1>4, <1>5, <1>6
<1> QED
  BY <1>7 DEF a, b

-----------------------------------------------------------------------------
\* Types.

LEMMA Numbers ==
    ASSUME TypeOK
    PROVE  /\ Len(log) \in Nat /\ fanned \in 0..Len(log) /\ event \in 0..Len(log)
           /\ commits \in Nat /\ commits <= MaxWrites /\ MaxWrites \in Nat
           /\ BufferSize \in Nat /\ BufferSize >= 1 /\ MaxRegister \in Nat
           /\ Ids \subseteq Nat
           /\ \A c \in Consumers : place[c] \in 0..Len(log) /\ Offered(c) \in Int
<1>1. Len(log) \in Nat
  BY LenProperties DEF TypeOK
<1> QED
  BY <1>1, WatcherAssumption DEF TypeOK, Ids, Versions, Offered

LEMMA Queues ==
    ASSUME TypeOK, NEW c \in Consumers
    PROVE  /\ work[c] \in Seq(Ids) /\ out[c] \in Seq(Ids) /\ queue[c] \in Seq(Ids)
           /\ in[c] \in Seq(Ids) /\ Cat(work[c], out[c]) \in Seq(Ids)
           /\ Cat(queue[c], in[c]) \in Seq(Ids)
           /\ Pipe(c) \in Seq(Ids) /\ Pipe(c) \in Seq(Nat)
<1>1. /\ work[c] \in Seq(Ids) /\ out[c] \in Seq(Ids) /\ queue[c] \in Seq(Ids)
      /\ in[c] \in Seq(Ids)
  BY DEF TypeOK
<1>2. Cat(work[c], out[c]) \in Seq(Ids) /\ Cat(queue[c], in[c]) \in Seq(Ids)
  BY <1>1, CatType
<1>3. Pipe(c) \in Seq(Ids)
  BY <1>2, CatType DEF Pipe
<1>4. Pipe(c) \in Seq(Nat)
  BY <1>3, Numbers, SeqMonotonic
<1> QED
  BY <1>1, <1>2, <1>3, <1>4

\* The next event a handler takes: the next one of the log its consumer filters for.
LEMMA NextHandled ==
    ASSUME FeedInv, NEW c \in Consumers, Handle(c)
    PROVE  LET e == Head(work[c])
           IN  /\ e \in Wants(c) /\ e \in (place[c] + 1)..Offered(c)
               /\ \A j \in (place[c] + 1)..(e - 1) : j \notin Wants(c)
               /\ Lists(Cat(Cat(Tail(work[c]), out[c]), Cat(queue[c], in[c])),
                        Wants(c), e, Offered(c))
<1>1. work[c] # <<>> /\ Watching(c)
  BY DEF Handle, Watching
<1>2. /\ place[c] \in Nat /\ place[c] <= Offered(c) /\ Offered(c) \in Nat
      /\ Lists(Pipe(c), Wants(c), place[c], Offered(c))
  BY <1>1, Numbers DEF FeedInv, TypeInv, ConsumerInv
<1>3. /\ Pipe(c) # <<>> /\ Head(Pipe(c)) = Head(work[c])
      /\ Tail(Pipe(c)) = Cat(Cat(Tail(work[c]), out[c]), Cat(queue[c], in[c]))
  <2>1. /\ work[c] \in Seq(Ids) /\ out[c] \in Seq(Ids)
        /\ Cat(queue[c], in[c]) \in Seq(Ids)
    BY Queues DEF FeedInv, TypeInv
  <2> DEFINE w == work[c]
             o == out[c]
             r == Cat(queue[c], in[c])
  <2>2. w # <<>> /\ w \in Seq(Ids) /\ o \in Seq(Ids) /\ r \in Seq(Ids)
    BY <1>1, <2>1
  <2>3. /\ Cat(Cat(w, o), r) # <<>> /\ Head(Cat(Cat(w, o), r)) = Head(w)
        /\ Tail(Cat(Cat(w, o), r)) = Cat(Cat(Tail(w), o), r)
    <3> HIDE DEF w, o, r
    <3> QED
      BY <2>2, FourFirst
  <2> QED
    BY <2>3 DEF Pipe
<1>4. Pipe(c) \in Seq(Nat)
  BY Queues DEF FeedInv, TypeInv
<1> DEFINE P == Pipe(c)
           W == Wants(c)
           f == place[c]
           t == Offered(c)
<1>5. P # <<>> /\ P \in Seq(Nat) /\ f \in Nat /\ t \in Nat /\ Lists(P, W, f, t)
  BY <1>2, <1>3, <1>4
<1>6. /\ Head(P) \in W /\ Head(P) \in (f + 1)..t
      /\ \A e \in (f + 1)..(Head(P) - 1) : e \notin W
      /\ Lists(Tail(P), W, Head(P), t)
  <2> HIDE DEF P, W, f, t
  <2> QED
    BY <1>5, ListsFirst
<1> QED
  BY <1>3, <1>6

LEMMA Typed ==
    ASSUME TypeOK, NEW e \in 1..Len(log)
    PROVE  log[e] \in Events /\ log[e].key \in Keys /\ log[e].ver \in Versions
<1>1. log[e] \in Events
  BY ElementOfSeq DEF TypeOK
<1> QED
  BY <1>1 DEF Events

LEMMA FeedInvInit == Init => FeedInv
<1> SUFFICES ASSUME Init PROVE FeedInv
  OBVIOUS
<1>1. Len(log) = 0 /\ Len(channel) = 0 /\ MaxWrites \in Nat
  BY WatcherAssumption DEF Init
<1>2. Idle \in Announcements
  BY <1>1, WatcherAssumption DEF Idle, Announcements, Versions
<1>3. TypeInv
  <2>1. <<>> \in Seq(Ids) /\ <<>> \in Seq(Events) /\ Len(<<>>) = 0
    BY EmptySeq
  <2>2. 0 \in Versions /\ 0 \in Ids /\ 0 \in 0..MaxRegister
    BY <1>1, WatcherAssumption DEF Versions, Ids
  <2>3. /\ in \in [Consumers -> Seq(Ids)] /\ queue \in [Consumers -> Seq(Ids)]
        /\ out \in [Consumers -> Seq(Ids)] /\ work \in [Consumers -> Seq(Ids)]
        /\ \A c \in Consumers : Len(in[c]) <= BufferSize /\ Len(out[c]) <= BufferSize
    BY <2>1, WatcherAssumption DEF Init
  <2>4. /\ row \in [Keys -> Versions] /\ writer \in [Writers -> Announcements]
        /\ place \in [Consumers -> Ids] /\ cache \in [Consumers -> [Keys -> Versions]]
        /\ registered \in [Consumers -> 0..MaxRegister]
    BY <1>2, <2>2 DEF Init
  <2>5. log \in Seq(Events) /\ channel \in Seq(Ids) /\ Len(channel) <= BufferSize
    BY <1>1, <2>1, WatcherAssumption DEF Init
  <2>6. entry \in [Consumers -> {"none", "loaded", "loading", "open", "closed"}]
    BY DEF Init
  <2>7. \A k \in Keys : row[k] <= commits
    BY DEF Init
  <2> QED
    BY <2>2, <2>3, <2>4, <2>5, <2>6, <2>7 DEF Init, TypeInv, TypeOK
<1>4. ProducerInv
  BY <1>1 DEF Init, ProducerInv
<1>5. \A c \in Consumers : ConsumerInv(c)
  BY DEF Init, ConsumerInv, Watching
<1> QED
  BY <1>3, <1>4, <1>5 DEF FeedInv

LEMMA CommitType ==
    ASSUME FeedInv, NEW p \in Writers, NEW k \in Keys, Commit(p, k)
    PROVE  TypeInv'
<1>1. commits < MaxWrites /\ row[k] <= commits /\ row[k] \in Nat /\ commits \in Nat /\ MaxWrites \in Nat
  BY Numbers DEF Commit, FeedInv, TypeInv, TypeOK, Versions
<1>2. row[k] + 1 \in Versions /\ commits' \in Versions
  BY <1>1 DEF Commit, Versions
<1>3. row' \in [Keys -> Versions] /\ \A j \in Keys : row'[j] <= commits'
  <2>1. \A j \in Keys : row[j] \in Nat /\ row[j] <= commits
    BY DEF FeedInv, TypeInv, TypeOK, Versions
  <2> QED
    BY <1>1, <1>2, <2>1 DEF Commit, FeedInv, TypeInv, TypeOK
<1>4. [pc |-> "read", key |-> k, ver |-> 0] \in Announcements
  BY <1>1 DEF Announcements, Versions
<1>5. writer' \in [Writers -> Announcements]
  BY <1>4 DEF Commit, FeedInv, TypeInv, TypeOK
<1>6. overlapped' \in BOOLEAN
  BY DEF Commit, FeedInv, TypeInv, TypeOK
<1> QED
  BY <1>2, <1>3, <1>5, <1>6
  DEF Commit, FeedInv, TypeInv, TypeOK, Ids, producer, pipe

LEMMA ReadBackType ==
    ASSUME FeedInv, NEW p \in Writers, ReadBack(p)
    PROVE  TypeInv'
<1>1. writer[p] \in Announcements /\ row[writer[p].key] \in Versions
  BY DEF FeedInv, TypeInv, TypeOK, Announcements
<1>2. [writer[p] EXCEPT !.pc = "notify", !.ver = row[writer[p].key]] \in Announcements
  BY <1>1 DEF Announcements
<1>3. writer' \in [Writers -> Announcements]
  BY <1>2 DEF ReadBack, FeedInv, TypeInv, TypeOK
<1> QED
  BY <1>3 DEF ReadBack, FeedInv, TypeInv, TypeOK, Ids, producer, pipe

\* Notify, when the event finds room in the channel
Announced(p) ==
    /\ open /\ Len(channel) < BufferSize
    /\ log' = Append(log, [key |-> writer[p].key, ver |-> writer[p].ver])
    /\ channel' = Append(channel, Len(log'))

LEMMA LogGrows ==
    ASSUME FeedInv, NEW p \in Writers, Announced(p)
    PROVE  /\ [key |-> writer[p].key, ver |-> writer[p].ver] \in Events
           /\ log' \in Seq(Events) /\ Len(log') = Len(log) + 1
           /\ \A e \in 1..Len(log) : log'[e] = log[e]
           /\ log'[Len(log) + 1] = [key |-> writer[p].key, ver |-> writer[p].ver]
           /\ channel' \in Seq(Ids') /\ Len(channel') = Len(channel) + 1
           /\ \A i \in 1..Len(channel) : channel'[i] = channel[i]
           /\ channel'[Len(channel) + 1] = Len(log) + 1
           /\ Ids \subseteq Ids'
<1>1. [key |-> writer[p].key, ver |-> writer[p].ver] \in Events
  <2>1. writer[p] \in Announcements
    BY DEF FeedInv, TypeInv, TypeOK
  <2> QED
    BY <2>1 DEF Announcements, Events
<1>2. log \in Seq(Events) /\ channel \in Seq(Ids)
  BY DEF FeedInv, TypeInv, TypeOK
<1>3. /\ log' \in Seq(Events) /\ Len(log') = Len(log) + 1
      /\ \A e \in 1..Len(log) : log'[e] = log[e]
      /\ log'[Len(log) + 1] = [key |-> writer[p].key, ver |-> writer[p].ver]
  <2> DEFINE x == [key |-> writer[p].key, ver |-> writer[p].ver]
  <2>1. x \in Events /\ log' = Append(log, x)
    BY <1>1 DEF Announced
  <2>2. /\ log' \in Seq(Events) /\ Len(log') = Len(log) + 1
        /\ \A e \in 1..Len(log) : log'[e] = log[e]
        /\ log'[Len(log) + 1] = x
    <3> HIDE DEF x
    <3> QED
      BY <1>2, <2>1, AppendProperties
  <2> QED
    BY <2>2
<1>4. Len(log) \in Nat /\ Ids \subseteq Ids' /\ Len(log') \in Ids'
  BY <1>2, <1>3, LenProperties DEF Ids
<1>5. channel \in Seq(Ids')
  BY <1>2, <1>4, SeqMonotonic
<1>6. /\ channel' \in Seq(Ids') /\ Len(channel') = Len(channel) + 1
      /\ \A i \in 1..Len(channel) : channel'[i] = channel[i]
      /\ channel'[Len(channel) + 1] = Len(log')
  BY <1>4, <1>5, AppendProperties DEF Announced
<1> QED
  BY <1>1, <1>3, <1>4, <1>6

LEMMA NotifyCases ==
    ASSUME NEW p \in Writers, Notify(p)
    PROVE  /\ writer' = [writer EXCEPT ![p] = Idle]
           /\ UNCHANGED <<row, commits, overlapped, producer, entry, pipe, place, cache, registered>>
           /\ \/ Announced(p) /\ UNCHANGED lost
              \/ UNCHANGED <<log, channel>> /\ lost'
  BY DEF Notify, Announced

LEMMA NotifyType ==
    ASSUME FeedInv, NEW p \in Writers, Notify(p)
    PROVE  TypeInv'
<1>1. Idle \in Announcements
  BY WatcherAssumption DEF Idle, Announcements, Versions
<1>2. writer' \in [Writers -> Announcements]
  BY <1>1, NotifyCases DEF FeedInv, TypeInv, TypeOK
<1>3. lost' \in BOOLEAN
  BY NotifyCases DEF Notify, FeedInv, TypeInv, TypeOK
<1>4. CASE Announced(p)
  <2>1. \A q \in Seq(Ids) : q \in Seq(Ids')
    BY <1>4, LogGrows, SeqMonotonic
  <2>2. Ids \subseteq Ids'
    BY <1>4, LogGrows
  <2>3. /\ in' \in [Consumers -> Seq(Ids')] /\ queue' \in [Consumers -> Seq(Ids')]
        /\ out' \in [Consumers -> Seq(Ids')] /\ work' \in [Consumers -> Seq(Ids')]
    <3> DEFINE S == Seq(Ids)
               T == Seq(Ids')
    <3>1. \A q \in S : q \in T
      BY <2>1
    <3>2. /\ in' = in /\ queue' = queue /\ out' = out /\ work' = work
          /\ in \in [Consumers -> S] /\ queue \in [Consumers -> S]
          /\ out \in [Consumers -> S] /\ work \in [Consumers -> S]
      BY NotifyCases DEF pipe, FeedInv, TypeInv, TypeOK
    <3> HIDE DEF S, T
    <3> SUFFICES /\ in' \in [Consumers -> T] /\ queue' \in [Consumers -> T]
                 /\ out' \in [Consumers -> T] /\ work' \in [Consumers -> T]
      BY DEF T
    <3> QED
      BY <3>1, <3>2
  <2>4. place' \in [Consumers -> Ids'] /\ event' \in Ids' /\ fanned' \in Ids'
    BY <2>2, NotifyCases DEF producer, FeedInv, TypeInv, TypeOK
  <2>5. log' \in Seq(Events) /\ channel' \in Seq(Ids') /\ Len(channel') <= BufferSize
    <3>1. /\ Len(channel') = Len(channel) + 1 /\ Len(channel) < BufferSize
          /\ Len(channel) \in Nat /\ BufferSize \in Nat
      BY <1>4, LogGrows, Numbers, LenProperties DEF Announced, FeedInv, TypeInv, TypeOK
    <3>2. Len(channel') <= BufferSize
      BY <3>1
    <3>3. log' \in Seq(Events) /\ channel' \in Seq(Ids')
      BY <1>4, LogGrows
    <3> QED
      BY <3>2, <3>3
  <2> QED
    BY <1>2, <1>3, <2>3, <2>4, <2>5, NotifyCases
    DEF producer, pipe, FeedInv, TypeInv, TypeOK
<1>5. CASE UNCHANGED <<log, channel>>
  BY <1>2, <1>3, <1>5, NotifyCases DEF producer, pipe, FeedInv, TypeInv, TypeOK, Ids
<1> QED
  BY <1>4, <1>5, NotifyCases

LEMMA ProducerType ==
    ASSUME FeedInv, FanOut \/ StopServing
    PROVE  TypeInv'
<1>1. CASE FanOut
  <2>1. event' \in Ids /\ fanned' \in Ids /\ channel' \in Seq(Ids) /\ Len(channel') <= BufferSize
    <3>1. CASE channel # <<>> /\ event' = Head(channel) /\ channel' = Tail(channel)
               /\ fanned' = Head(channel)
      <4>1. /\ Head(channel) \in Ids /\ Tail(channel) \in Seq(Ids)
            /\ Len(Tail(channel)) = Len(channel) - 1 /\ Len(channel) \in Nat
            /\ Len(channel) <= BufferSize
        BY <3>1, HeadTailProperties, LenProperties DEF FeedInv, TypeInv, TypeOK
      <4>2. BufferSize \in Nat
        BY Numbers DEF FeedInv, TypeInv
      <4>3. Len(Tail(channel)) <= BufferSize
        BY <4>1, <4>2
      <4> QED
        BY <3>1, <4>1, <4>3
    <3>2. CASE event' = 0 /\ UNCHANGED <<channel, fanned>>
      BY <3>2, Numbers DEF FeedInv, TypeInv, TypeOK, Ids
    <3> QED
      BY <1>1, <3>1, <3>2 DEF FanOut
  <2>2. left' \subseteq Consumers
    BY <1>1 DEF FanOut, Listed
  <2> QED
    BY <1>1, <2>1, <2>2 DEF FanOut, FeedInv, TypeInv, TypeOK, Ids, pipe
<1>2. CASE StopServing
  BY <1>2 DEF StopServing, FeedInv, TypeInv, TypeOK, Ids, store, pipe
<1> QED
  BY <1>1, <1>2

\* What the steps of one consumer leave alone
LEMMA PipeType ==
    ASSUME FeedInv, UNCHANGED <<row, commits, writer, log, channel, lost, overlapped>>,
           UNCHANGED <<open, serving, event, fanned>>, left' \subseteq Consumers,
           entry' \in [Consumers -> {"none", "loaded", "loading", "open", "closed"}],
           in' \in [Consumers -> Seq(Ids)], queue' \in [Consumers -> Seq(Ids)],
           out' \in [Consumers -> Seq(Ids)], work' \in [Consumers -> Seq(Ids)],
           \A c \in Consumers : Len(in'[c]) <= BufferSize /\ Len(out'[c]) <= BufferSize,
           place' \in [Consumers -> Ids], cache' \in [Consumers -> [Keys -> Versions]],
           registered' \in [Consumers -> 0..MaxRegister]
    PROVE  TypeInv'
  BY DEF FeedInv, TypeInv, TypeOK, Ids

LEMMA QueueWritten ==
    ASSUME NEW f \in [Consumers -> Seq(Ids)], NEW c \in Consumers, NEW s \in Seq(Ids)
    PROVE  /\ [f EXCEPT ![c] = s] \in [Consumers -> Seq(Ids)]
           /\ [f EXCEPT ![c] = s][c] = s
           /\ \A d \in Consumers \ {c} : [f EXCEPT ![c] = s][d] = f[d]
<1> DEFINE T == Seq(Ids)
<1>1. f \in [Consumers -> T] /\ s \in T
  OBVIOUS
<1> HIDE DEF T
<1>2. /\ [f EXCEPT ![c] = s] \in [Consumers -> T]
      /\ [f EXCEPT ![c] = s][c] = s
      /\ \A d \in Consumers \ {c} : [f EXCEPT ![c] = s][d] = f[d]
  BY <1>1
<1> QED
  BY <1>2 DEF T

\* A queue of positions: what a step takes off or puts on.
LEMMA QueueStep ==
    ASSUME NEW q \in Seq(Ids)
    PROVE  /\ Len(q) \in Nat
           /\ q # <<>> => /\ Head(q) \in Ids /\ Tail(q) \in Seq(Ids)
                          /\ Len(Tail(q)) = Len(q) - 1 /\ Len(Tail(q)) <= Len(q)
           /\ \A e \in Ids : Append(q, e) \in Seq(Ids) /\ Len(Append(q, e)) = Len(q) + 1
<1> DEFINE T == Ids
<1>1. q \in Seq(T)
  OBVIOUS
<1> HIDE DEF T
<1>2. /\ Len(q) \in Nat
      /\ q # <<>> => Head(q) \in T /\ Tail(q) \in Seq(T) /\ Len(Tail(q)) = Len(q) - 1
  BY <1>1, LenProperties, HeadTailProperties
<1>3. \A e \in T : Append(q, e) \in Seq(T) /\ Len(Append(q, e)) = Len(q) + 1
  BY <1>1, AppendProperties
<1> QED
  BY <1>2, <1>3 DEF T

-----------------------------------------------------------------------------
\* The steps of one consumer.

\* A step of c leaves the others alone.
LEMMA OnlyOne ==
    ASSUME FeedInv, TypeInv', NEW c \in Consumers,
           UNCHANGED <<log, channel, event, fanned>>, left' \subseteq left,
           \A d \in Consumers \ {c} :
               /\ d \in left => d \in left'
               /\ entry'[d] = entry[d] /\ place'[d] = place[d]
               /\ in'[d] = in[d] /\ queue'[d] = queue[d] /\ out'[d] = out[d]
               /\ work'[d] = work[d],
           place'[c] <= fanned, ConsumerInv(c)'
    PROVE  FeedInv'
<1>1. ProducerInv'
  <2>1. left' # {} => left # {}
    OBVIOUS
  <2>2. \A d \in Consumers : place'[d] <= fanned
    BY DEF FeedInv, ProducerInv
  <2> QED
    BY <2>1, <2>2 DEF FeedInv, ProducerInv
<1>2. ASSUME NEW d \in Consumers \ {c}
      PROVE  ConsumerInv(d)'
  <2>1. Offered(d)' = Offered(d)
    BY <1>2 DEF Offered
  <2>2. Watching(d)' = Watching(d) /\ Pipe(d)' = Pipe(d) /\ Wants(d)' = Wants(d)
    BY <1>2 DEF Watching, Pipe, Wants
  <2>3. ConsumerInv(d) /\ place'[d] = place[d]
    BY <1>2 DEF FeedInv
  <2> QED
    BY <1>2, <2>1, <2>2, <2>3 DEF ConsumerInv
<1> QED
  BY <1>1, <1>2 DEF FeedInv

\* An event moves within the pipe of c.
LEMMA PipeMoves ==
    ASSUME FeedInv, NEW c \in Consumers, DispatchAccept(c) \/ DispatchEmit(c) \/ Forward(c)
    PROVE  FeedInv'
<1>1. /\ TypeOK /\ in \in [Consumers -> Seq(Ids)] /\ queue \in [Consumers -> Seq(Ids)]
      /\ out \in [Consumers -> Seq(Ids)] /\ work \in [Consumers -> Seq(Ids)]
      /\ in[c] \in Seq(Ids) /\ queue[c] \in Seq(Ids) /\ out[c] \in Seq(Ids)
      /\ work[c] \in Seq(Ids) /\ Len(in[c]) <= BufferSize /\ Len(out[c]) <= BufferSize
      /\ BufferSize \in Nat
      /\ Cat(work[c], out[c]) \in Seq(Ids) /\ Cat(queue[c], in[c]) \in Seq(Ids)
  BY Queues, Numbers DEF FeedInv, TypeInv, TypeOK
<1>2. /\ UNCHANGED <<row, commits, writer, log, channel, lost, overlapped>>
      /\ UNCHANGED <<open, serving, event, left, fanned>>
      /\ UNCHANGED <<entry, place, cache, registered>>
  BY DEF DispatchAccept, DispatchEmit, Forward, store, producer
<1>3. /\ Watching(c) \/ out[c] # <<>>
      /\ in' \in [Consumers -> Seq(Ids)] /\ queue' \in [Consumers -> Seq(Ids)]
      /\ out' \in [Consumers -> Seq(Ids)] /\ work' \in [Consumers -> Seq(Ids)]
      /\ Len(in'[c]) <= BufferSize /\ Len(out'[c]) <= BufferSize
      /\ Pipe(c)' = Pipe(c)
      /\ \A d \in Consumers \ {c} :
            /\ in'[d] = in[d] /\ queue'[d] = queue[d] /\ out'[d] = out[d]
            /\ work'[d] = work[d]
  <2>1. CASE DispatchAccept(c)
    <3> DEFINE a == Tail(in[c])
               b == Append(queue[c], Head(in[c]))
    <3>1. /\ in[c] # <<>> /\ in' = [in EXCEPT ![c] = a] /\ queue' = [queue EXCEPT ![c] = b]
          /\ UNCHANGED <<out, work>> /\ Watching(c)
      BY <2>1 DEF DispatchAccept
    <3>2. a \in Seq(Ids) /\ b \in Seq(Ids) /\ Len(a) <= Len(in[c]) /\ Len(in[c]) \in Nat /\ Len(a) \in Nat
      BY <1>1, <3>1, QueueStep
    <3>3. Cat(b, a) = Cat(queue[c], in[c])
      BY <1>1, <3>1, CatMove
    <3> HIDE DEF a, b
    <3>4. /\ in' \in [Consumers -> Seq(Ids)] /\ queue' \in [Consumers -> Seq(Ids)]
          /\ in'[c] = a /\ queue'[c] = b
          /\ \A d \in Consumers \ {c} : in'[d] = in[d] /\ queue'[d] = queue[d]
      BY <1>1, <3>1, <3>2, QueueWritten
    <3>5. Pipe(c)' = Pipe(c)
      BY <3>1, <3>3, <3>4 DEF Pipe
    <3>6. Len(a) <= BufferSize
      BY <1>1, <3>2
    <3> QED
      BY <1>1, <3>1, <3>4, <3>5, <3>6
  <2>2. CASE DispatchEmit(c)
    <3> DEFINE a == Tail(queue[c])
               b == Append(out[c], Head(queue[c]))
    <3>1. /\ queue[c] # <<>> /\ queue' = [queue EXCEPT ![c] = a] /\ out' = [out EXCEPT ![c] = b]
          /\ UNCHANGED <<in, work>> /\ Watching(c) /\ Len(out[c]) < BufferSize
      BY <2>2 DEF DispatchEmit
    <3>2. /\ a \in Seq(Ids) /\ b \in Seq(Ids) /\ Len(b) = Len(out[c]) + 1
          /\ Len(out[c]) \in Nat
      BY <1>1, <3>1, QueueStep
    <3>3. Cat(Cat(work[c], b), Cat(a, in[c])) = Pipe(c)
      BY <1>1, <3>1, FourMove DEF Pipe
    <3> HIDE DEF a, b
    <3>4. /\ queue' \in [Consumers -> Seq(Ids)] /\ out' \in [Consumers -> Seq(Ids)]
          /\ queue'[c] = a /\ out'[c] = b
          /\ \A d \in Consumers \ {c} : queue'[d] = queue[d] /\ out'[d] = out[d]
      BY <1>1, <3>1, <3>2, QueueWritten
    <3>5. Pipe(c)' = Cat(Cat(work[c], b), Cat(a, in[c]))
      BY <3>1, <3>4 DEF Pipe
    <3>6. Len(b) <= BufferSize
      BY <1>1, <3>1, <3>2
    <3> QED
      BY <1>1, <3>1, <3>3, <3>4, <3>5, <3>6
  <2>3. CASE Forward(c)
    <3> DEFINE a == Tail(out[c])
               b == Append(work[c], Head(out[c]))
    <3>1. /\ out[c] # <<>> /\ out' = [out EXCEPT ![c] = a] /\ work' = [work EXCEPT ![c] = b]
          /\ UNCHANGED <<in, queue>>
      BY <2>3 DEF Forward
    <3>2. a \in Seq(Ids) /\ b \in Seq(Ids) /\ Len(a) <= Len(out[c]) /\ Len(out[c]) \in Nat /\ Len(a) \in Nat
      BY <1>1, <3>1, QueueStep
    <3>3. Cat(b, a) = Cat(work[c], out[c])
      BY <1>1, <3>1, CatMove
    <3> HIDE DEF a, b
    <3>4. /\ out' \in [Consumers -> Seq(Ids)] /\ work' \in [Consumers -> Seq(Ids)]
          /\ out'[c] = a /\ work'[c] = b
          /\ \A d \in Consumers \ {c} : out'[d] = out[d] /\ work'[d] = work[d]
      BY <1>1, <3>1, <3>2, QueueWritten
    <3>5. Pipe(c)' = Pipe(c)
      BY <3>1, <3>3, <3>4 DEF Pipe
    <3>6. Len(a) <= BufferSize
      BY <1>1, <3>2
    <3> QED
      BY <1>1, <3>1, <3>4, <3>5, <3>6
  <2> QED
    BY <2>1, <2>2, <2>3
<1>4. \A d \in Consumers : Len(in'[d]) <= BufferSize /\ Len(out'[d]) <= BufferSize
  BY <1>1, <1>3 DEF TypeOK
<1>5. TypeInv'
  BY <1>1, <1>2, <1>3, <1>4, PipeType DEF TypeOK
<1>6. Watching(c)
  BY <1>3 DEF FeedInv, ConsumerInv
<1>7. ConsumerInv(c)'
  <2>1. Watching(c)' /\ Offered(c)' = Offered(c) /\ Wants(c)' = Wants(c)
    BY <1>2, <1>6 DEF Watching, Offered, Wants
  <2>2. place[c] <= Offered(c) /\ Lists(Pipe(c), Wants(c), place[c], Offered(c))
    BY <1>6 DEF FeedInv, ConsumerInv
  <2> QED
    BY <1>2, <1>3, <2>1, <2>2 DEF ConsumerInv
<1>8. place[c] <= fanned
  BY DEF FeedInv, ProducerInv
<1> QED
  BY <1>2, <1>3, <1>5, <1>7, <1>8, OnlyOne

LEMMA SendStep == ASSUME FeedInv, NEW c \in Consumers, Send(c) PROVE FeedInv'
<1>1. /\ TypeOK /\ in \in [Consumers -> Seq(Ids)] /\ in[c] \in Seq(Ids)
      /\ Len(in[c]) \in Nat /\ BufferSize \in Nat /\ event \in Ids
      /\ event \in Nat /\ fanned \in Nat /\ fanned <= Len(log) /\ Len(log) \in Nat
      /\ place[c] \in Nat
  <2>1. /\ TypeOK /\ in \in [Consumers -> Seq(Ids)] /\ in[c] \in Seq(Ids) /\ event \in Ids
    BY DEF FeedInv, TypeInv, TypeOK
  <2>2. Len(in[c]) \in Nat
    BY <2>1, QueueStep
  <2> QED
    BY <2>1, <2>2, Numbers
<1>2. /\ UNCHANGED <<row, commits, writer, log, channel, lost, overlapped>>
      /\ UNCHANGED <<open, serving, event, fanned>>
      /\ UNCHANGED <<entry, queue, out, work, place, cache, registered>>
      /\ c \in left /\ left' = left \ {c}
  BY DEF Send, store
<1>3. event # 0 => event = fanned
  BY <1>2 DEF FeedInv, ProducerInv
<1>4. /\ Offered(c)' = fanned
      /\ event # 0 => Offered(c) + 1 = fanned /\ Offered(c) \in Nat
      /\ event = 0 => Offered(c) = fanned
      /\ Watching(c)' = Watching(c) /\ Wants(c)' = Wants(c)
  BY <1>1, <1>2, <1>3 DEF Offered, Watching, Wants
<1>5. Wanted(c, event) <=> event # 0 /\ event \in Wants(c)
  BY <1>1, <1>3 DEF Wanted, Wants
<1>6. Watching(c) => /\ place[c] <= Offered(c)
                     /\ Lists(Pipe(c), Wants(c), place[c], Offered(c))
  BY DEF FeedInv, ConsumerInv
<1>7. Pipe(c) \in Seq(Nat)
  BY <1>1, Queues
<1>8. CASE Watching(c) /\ Wanted(c, event)
  <2> DEFINE a == Append(in[c], event)
  <2>1. in' = [in EXCEPT ![c] = a] /\ Len(in[c]) < BufferSize
    BY <1>8 DEF Send
  <2>2. a \in Seq(Ids) /\ Len(a) = Len(in[c]) + 1
    BY <1>1, QueueStep
  <2>3. Cat(Cat(work[c], out[c]), Cat(queue[c], a)) = Append(Pipe(c), event)
    <3>1. /\ Cat(work[c], out[c]) \in Seq(Ids) /\ queue[c] \in Seq(Ids)
      BY <1>1, Queues
    <3> DEFINE x == Cat(work[c], out[c])
               y == queue[c]
               z == in[c]
    <3>2. x \in Seq(Ids) /\ y \in Seq(Ids) /\ z \in Seq(Ids)
      BY <1>1, <3>1
    <3>3. Cat(x, Cat(y, Append(z, event))) = Append(Cat(x, Cat(y, z)), event)
      <4> HIDE DEF x, y, z
      <4> QED
        BY <1>1, <3>2, FourLast
    <3> QED
      BY <3>3 DEF Pipe
  <2> HIDE DEF a
  <2>4. /\ in' \in [Consumers -> Seq(Ids)] /\ in'[c] = a
        /\ \A d \in Consumers \ {c} : in'[d] = in[d]
    BY <1>1, <2>1, <2>2, QueueWritten
  <2>5. \A d \in Consumers : Len(in'[d]) <= BufferSize /\ Len(out'[d]) <= BufferSize
    <3>1. Len(a) <= BufferSize
      BY <1>1, <2>1, <2>2
    <3> QED
      BY <1>1, <1>2, <2>4, <3>1 DEF TypeOK
  <2>6. TypeInv'
    BY <1>1, <1>2, <2>4, <2>5, PipeType DEF TypeOK
  <2>7. Pipe(c)' = Append(Pipe(c), event)
    BY <1>2, <2>3, <2>4 DEF Pipe
  <2>8. event # 0 /\ event \in Wants(c) /\ event = Offered(c) + 1
    BY <1>3, <1>4, <1>5, <1>8
  <2>9. Lists(Append(Pipe(c), event), Wants(c), place[c], event)
    <3> DEFINE P == Pipe(c)
               W == Wants(c)
               t == Offered(c)
               f == place[c]
    <3>1. /\ P \in Seq(Nat) /\ f \in Nat /\ t \in Nat /\ f <= t /\ Lists(P, W, f, t)
          /\ t + 1 \in W
      BY <1>1, <1>4, <1>6, <1>7, <1>8, <2>8
    <3>2. Lists(Append(P, t + 1), W, f, t + 1)
      <4> HIDE DEF P, W, t, f
      <4> QED
        BY <3>1, ListsNext
    <3> QED
      BY <2>8, <3>2
  <2>10. ConsumerInv(c)'
    <3>1. place[c] <= fanned
      BY DEF FeedInv, ProducerInv
    <3> QED
      BY <1>2, <1>3, <1>4, <1>8, <2>7, <2>8, <2>9, <3>1 DEF ConsumerInv
  <2>11. place'[c] <= fanned
    BY <1>2 DEF FeedInv, ProducerInv
  <2> QED
    BY <1>2, <2>4, <2>6, <2>10, <2>11, OnlyOne
<1>9. CASE ~(Watching(c) /\ Wanted(c, event))
  <2>1. UNCHANGED in
    BY <1>9 DEF Send
  <2>2. TypeInv'
    BY <1>1, <1>2, <2>1, PipeType DEF TypeOK
  <2>3. place'[c] <= fanned
    BY <1>2 DEF FeedInv, ProducerInv
  <2>4. Pipe(c)' = Pipe(c)
    BY <1>2, <2>1 DEF Pipe
  <2>5. CASE ~Watching(c)
    <3>1. ConsumerInv(c)'
      BY <1>2, <1>4, <2>1, <2>5 DEF FeedInv, ConsumerInv
    <3> QED
      BY <1>2, <2>1, <2>2, <2>3, <3>1, OnlyOne
  <2>6. CASE Watching(c)
    <3>1. Lists(Pipe(c), Wants(c), place[c], fanned)
      <4>1. CASE event = 0
        BY <1>4, <1>6, <2>6, <4>1
      <4>2. CASE event # 0
        <5> DEFINE P == Pipe(c)
                   W == Wants(c)
                   t == Offered(c)
                   f == place[c]
        <5>1. /\ P \in Seq(Nat) /\ f \in Nat /\ t \in Nat /\ f <= t /\ Lists(P, W, f, t)
              /\ t + 1 \notin W /\ t + 1 = fanned
          BY <1>1, <1>3, <1>4, <1>5, <1>6, <1>7, <1>9, <2>6, <4>2
        <5>2. Lists(P, W, f, t + 1)
          <6> HIDE DEF P, W, t, f
          <6> QED
            BY <5>1, ListsNext
        <5> QED
          BY <5>1, <5>2
      <4> QED
        BY <4>1, <4>2
    <3>2. ConsumerInv(c)'
      BY <1>2, <1>4, <2>3, <2>4, <2>6, <3>1 DEF ConsumerInv
    <3> QED
      BY <1>2, <2>1, <2>2, <2>3, <3>2, OnlyOne
  <2> QED
    BY <2>5, <2>6
<1> QED
  BY <1>8, <1>9

LEMMA HandleStep == ASSUME FeedInv, NEW c \in Consumers, Handle(c) PROVE FeedInv'
<1> DEFINE e == Head(work[c])
           a == Tail(work[c])
           p == Cat(Cat(a, out[c]), Cat(queue[c], in[c]))
<1>1. /\ e \in Wants(c) /\ e \in (place[c] + 1)..Offered(c)
      /\ Lists(p, Wants(c), e, Offered(c))
  BY NextHandled
<1>2. /\ TypeOK /\ work \in [Consumers -> Seq(Ids)] /\ a \in Seq(Ids)
      /\ Offered(c) \in Int /\ place[c] \in Nat /\ fanned \in Nat
  BY Queues, Numbers, QueueStep DEF FeedInv, TypeInv, TypeOK, Handle
<1>3. /\ UNCHANGED <<row, commits, writer, log, channel, lost, overlapped>>
      /\ UNCHANGED <<open, serving, event, left, fanned>>
      /\ UNCHANGED <<entry, in, queue, out, registered>>
      /\ entry[c] = "open" /\ work' = [work EXCEPT ![c] = a]
      /\ place' = [place EXCEPT ![c] = e]
      /\ cache' = [cache EXCEPT ![c][log[e].key] = log[e].ver]
  BY DEF Handle, store, producer
<1>4. e \in 1..Len(log) /\ e \in Ids
  BY <1>1 DEF Wants, Ids
<1>5. log[e].key \in Keys /\ log[e].ver \in Versions
  BY <1>2, <1>4, Typed
<1> HIDE DEF e, a, p
<1>6. /\ work' \in [Consumers -> Seq(Ids)] /\ work'[c] = a
      /\ \A d \in Consumers \ {c} : work'[d] = work[d]
  BY <1>2, <1>3, QueueWritten
<1>7. place' \in [Consumers -> Ids] /\ place'[c] = e
  BY <1>2, <1>3, <1>4 DEF TypeOK
<1>8. cache' \in [Consumers -> [Keys -> Versions]]
  BY <1>2, <1>3, <1>5 DEF TypeOK
<1>9. TypeInv'
  BY <1>2, <1>3, <1>6, <1>7, <1>8, PipeType DEF TypeOK
<1>10. e <= Offered(c) /\ e <= fanned
  <2>1. event = fanned \/ Offered(c) = fanned
    BY DEF FeedInv, ProducerInv, Offered
  <2>2. event \in Nat
    BY <1>2, Numbers
  <2> QED
    BY <1>1, <1>2, <2>1, <2>2 DEF Offered
<1>11. ConsumerInv(c)'
  <2>1. Watching(c)' /\ Offered(c)' = Offered(c) /\ Wants(c)' = Wants(c)
    BY <1>3 DEF Watching, Offered, Wants
  <2>2. Pipe(c)' = p
    BY <1>3, <1>6 DEF Pipe, p
  <2> QED
    BY <1>1, <1>7, <1>10, <2>1, <2>2 DEF ConsumerInv
<1>12. \A d \in Consumers \ {c} : place'[d] = place[d]
  BY <1>2, <1>3 DEF TypeOK
<1> QED
  BY <1>3, <1>6, <1>7, <1>9, <1>10, <1>11, <1>12, OnlyOne

\* Registration, loading and removal: the pipe of c is and stays empty, or is not touched.
LEMMA EntryStep ==
    ASSUME FeedInv, NEW c \in Consumers,
           LoadRows(c) \/ Register(c) \/ Load(c) \/ CloseConsumer(c) \/ RemoveConsumer(c)
    PROVE  FeedInv'
<1>1. /\ UNCHANGED <<row, commits, writer, log, channel, lost, overlapped>>
      /\ UNCHANGED <<open, serving, event, left, fanned>>
  BY DEF LoadRows, Register, Load, CloseConsumer, RemoveConsumer, store, producer
<1>2. /\ TypeOK /\ row \in [Keys -> Versions] /\ cache \in [Consumers -> [Keys -> Versions]]
      /\ entry \in [Consumers -> {"none", "loaded", "loading", "open", "closed"}]
      /\ place \in [Consumers -> Ids] /\ fanned \in Ids /\ fanned \in Nat
      /\ place[c] <= fanned /\ MaxRegister \in Nat /\ BufferSize \in Nat
      /\ registered \in [Consumers -> 0..MaxRegister]
  BY Numbers DEF FeedInv, TypeInv, ProducerInv, TypeOK
<1>3. CASE LoadRows(c)
  <2>1. /\ UNCHANGED <<in, queue, out, work, place, registered>>
        /\ entry[c] = "none" /\ entry' = [entry EXCEPT ![c] = "loaded"]
        /\ cache' = [cache EXCEPT ![c] = row]
    BY <1>3 DEF LoadRows, pipe
  <2>2. cache' \in [Consumers -> [Keys -> Versions]]
    BY <1>2, <2>1
  <2>3. /\ entry' \in [Consumers -> {"none", "loaded", "loading", "open", "closed"}]
        /\ entry'[c] = "loaded" /\ \A d \in Consumers \ {c} : entry'[d] = entry[d]
    BY <1>2, <2>1
  <2>4. TypeInv'
    BY <1>1, <1>2, <2>1, <2>2, <2>3, PipeType DEF TypeOK
  <2>5. ConsumerInv(c)'
    BY <2>1, <2>3 DEF FeedInv, ConsumerInv, Watching
  <2> QED
    BY <1>1, <1>2, <2>1, <2>3, <2>4, <2>5, OnlyOne
<1>4. CASE Register(c)
  <2>1. /\ UNCHANGED <<in, queue, out, work, cache>>
        /\ entry[c] \in {"none", "loaded"} /\ left = {}
        /\ entry' = [entry EXCEPT ![c] = IF c \in LoadFirst THEN "open" ELSE "loading"]
        /\ registered[c] < MaxRegister
        /\ registered' = [registered EXCEPT ![c] = registered[c] + 1]
        /\ place' = [place EXCEPT ![c] = fanned]
    BY <1>4 DEF Register, pipe, MuxFree
  <2>2. registered' \in [Consumers -> 0..MaxRegister]
    <3>1. registered[c] + 1 \in 0..MaxRegister
      BY <1>2, <2>1
    <3> QED
      BY <1>2, <2>1, <3>1
  <2>3. /\ entry' \in [Consumers -> {"none", "loaded", "loading", "open", "closed"}]
        /\ entry'[c] \in {"open", "loading"} /\ \A d \in Consumers \ {c} : entry'[d] = entry[d]
        /\ place' \in [Consumers -> Ids] /\ place'[c] = fanned
        /\ \A d \in Consumers \ {c} : place'[d] = place[d]
    BY <1>2, <2>1
  <2>4. TypeInv'
    BY <1>1, <1>2, <2>1, <2>2, <2>3, PipeType DEF TypeOK
  <2>5. in[c] = <<>> /\ queue[c] = <<>> /\ out[c] = <<>> /\ work[c] = <<>>
    BY <2>1 DEF FeedInv, ConsumerInv, Watching
  <2>6. Pipe(c)' = <<>>
    BY <2>1, <2>5 DEF Pipe, Cat
  <2>7. Offered(c)' = fanned
    BY <1>1, <2>1 DEF Offered
  <2>8. ConsumerInv(c)'
    <3>1. Watching(c)'
      BY <2>3 DEF Watching
    <3>2. Lists(<<>>, Wants(c)', fanned, fanned)
      BY <1>2, ListsNone
    <3>3. place'[c] <= Offered(c)'
      BY <1>2, <2>3, <2>7
    <3> QED
      BY <2>3, <2>6, <2>7, <3>1, <3>2, <3>3 DEF ConsumerInv
  <2> QED
    BY <1>1, <1>2, <2>1, <2>3, <2>4, <2>8, OnlyOne
<1>5. CASE Load(c)
  <2>1. /\ UNCHANGED <<in, queue, out, work, place, registered>>
        /\ entry[c] = "loading" /\ entry' = [entry EXCEPT ![c] = "open"]
        /\ cache' = [cache EXCEPT ![c] = row]
    BY <1>5 DEF Load, pipe
  <2>2. cache' \in [Consumers -> [Keys -> Versions]]
    BY <1>2, <2>1
  <2>3. /\ entry' \in [Consumers -> {"none", "loaded", "loading", "open", "closed"}]
        /\ entry'[c] = "open" /\ \A d \in Consumers \ {c} : entry'[d] = entry[d]
    BY <1>2, <2>1
  <2>4. TypeInv'
    BY <1>1, <1>2, <2>1, <2>2, <2>3, PipeType DEF TypeOK
  <2>5. Pipe(c)' = Pipe(c) /\ Offered(c)' = Offered(c) /\ Wants(c)' = Wants(c)
    BY <1>1, <2>1 DEF Pipe, Offered, Wants
  <2>6. ConsumerInv(c)'
    BY <2>1, <2>3, <2>5 DEF FeedInv, ConsumerInv, Watching
  <2> QED
    BY <1>1, <1>2, <2>1, <2>3, <2>4, <2>6, OnlyOne
<1>6. CASE CloseConsumer(c)
  <2>1. /\ UNCHANGED <<place, cache, registered>>
        /\ entry' = [entry EXCEPT ![c] = "closed"]
        /\ in' = [in EXCEPT ![c] = <<>>] /\ queue' = [queue EXCEPT ![c] = <<>>]
        /\ out' = [out EXCEPT ![c] = <<>>] /\ work' = [work EXCEPT ![c] = <<>>]
    BY <1>6 DEF CloseConsumer
  <2>2. /\ in \in [Consumers -> Seq(Ids)] /\ queue \in [Consumers -> Seq(Ids)]
        /\ out \in [Consumers -> Seq(Ids)] /\ work \in [Consumers -> Seq(Ids)]
        /\ <<>> \in Seq(Ids) /\ Len(<<>>) = 0
    BY <1>2, EmptySeq DEF TypeOK
  <2>3. /\ in' \in [Consumers -> Seq(Ids)] /\ in'[c] = <<>>
        /\ queue' \in [Consumers -> Seq(Ids)] /\ queue'[c] = <<>>
        /\ \A d \in Consumers \ {c} : in'[d] = in[d] /\ queue'[d] = queue[d]
    BY <2>1, <2>2, QueueWritten
  <2>4. /\ out' \in [Consumers -> Seq(Ids)] /\ out'[c] = <<>>
        /\ work' \in [Consumers -> Seq(Ids)] /\ work'[c] = <<>>
        /\ \A d \in Consumers \ {c} : out'[d] = out[d] /\ work'[d] = work[d]
    BY <2>1, <2>2, QueueWritten
  <2>5. /\ entry' \in [Consumers -> {"none", "loaded", "loading", "open", "closed"}]
        /\ entry'[c] = "closed" /\ \A d \in Consumers \ {c} : entry'[d] = entry[d]
    BY <1>2, <2>1
  <2>6. \A d \in Consumers : Len(in'[d]) <= BufferSize /\ Len(out'[d]) <= BufferSize
    <3>1. \A d \in Consumers : Len(in[d]) <= BufferSize /\ Len(out[d]) <= BufferSize
      BY <1>2 DEF TypeOK
    <3>2. Len(in'[c]) <= BufferSize /\ Len(out'[c]) <= BufferSize
      BY <1>2, <2>2, <2>3, <2>4
    <3>3. ASSUME NEW d \in Consumers \ {c}
          PROVE  Len(in'[d]) <= BufferSize /\ Len(out'[d]) <= BufferSize
      BY <2>3, <2>4, <3>1
    <3> QED
      BY <3>2, <3>3
  <2>7. TypeInv'
    BY <1>1, <1>2, <2>1, <2>3, <2>4, <2>5, <2>6, PipeType DEF TypeOK
  <2>8. ConsumerInv(c)'
    BY <2>3, <2>4, <2>5 DEF ConsumerInv, Watching
  <2> QED
    BY <1>1, <1>2, <2>1, <2>3, <2>4, <2>5, <2>7, <2>8, OnlyOne
<1>7. CASE RemoveConsumer(c)
  <2>1. /\ UNCHANGED <<in, queue, out, work, place, cache, registered>>
        /\ entry[c] = "closed" /\ entry' = [entry EXCEPT ![c] = "none"]
    BY <1>7 DEF RemoveConsumer, pipe
  <2>2. /\ entry' \in [Consumers -> {"none", "loaded", "loading", "open", "closed"}]
        /\ entry'[c] = "none" /\ \A d \in Consumers \ {c} : entry'[d] = entry[d]
    BY <1>2, <2>1
  <2>3. TypeInv'
    BY <1>1, <1>2, <2>1, <2>2, PipeType DEF TypeOK
  <2>4. ConsumerInv(c)'
    BY <2>1, <2>2 DEF FeedInv, ConsumerInv, Watching
  <2> QED
    BY <1>1, <1>2, <2>1, <2>2, <2>3, <2>4, OnlyOne
<1> QED
  BY <1>3, <1>4, <1>5, <1>6, <1>7

LEMMA CloseStep == ASSUME FeedInv, Close PROVE FeedInv'
<1>1. /\ UNCHANGED <<row, commits, writer, log, channel, lost, overlapped>>
      /\ UNCHANGED <<serving, event, left, fanned, place, cache, registered>>
      /\ open' = FALSE /\ left = {}
      /\ entry' = [c \in Consumers |-> IF Watching(c) THEN "closed" ELSE entry[c]]
      /\ in' = [c \in Consumers |-> <<>>] /\ queue' = [c \in Consumers |-> <<>>]
      /\ out' = [c \in Consumers |-> <<>>] /\ work' = [c \in Consumers |-> <<>>]
  BY DEF Close, store, MuxFree
<1>2. <<>> \in Seq(Ids) /\ Len(<<>>) = 0 /\ BufferSize \in Nat
  BY EmptySeq, Numbers DEF FeedInv, TypeInv
<1>3. /\ in' \in [Consumers -> Seq(Ids)] /\ queue' \in [Consumers -> Seq(Ids)]
      /\ out' \in [Consumers -> Seq(Ids)] /\ work' \in [Consumers -> Seq(Ids)]
      /\ \A c \in Consumers : Len(in'[c]) <= BufferSize /\ Len(out'[c]) <= BufferSize
  BY <1>1, <1>2
<1>4. entry' \in [Consumers -> {"none", "loaded", "loading", "open", "closed"}]
  BY <1>1 DEF FeedInv, TypeInv, TypeOK
<1>5. TypeInv'
  BY <1>1, <1>3, <1>4 DEF FeedInv, TypeInv, TypeOK, Ids
<1>6. ProducerInv'
  BY <1>1 DEF FeedInv, ProducerInv
<1>7. \A c \in Consumers : ConsumerInv(c)'
  BY <1>1 DEF ConsumerInv, Watching
<1> QED
  BY <1>5, <1>6, <1>7 DEF FeedInv

-----------------------------------------------------------------------------
\* The steps of the writers and of serviceProducer.

LEMMA FanOutStep == ASSUME FeedInv, FanOut PROVE FeedInv'
<1>1. TypeInv'
  BY ProducerType
<1>2. /\ left = {} /\ left' = Listed
      /\ UNCHANGED <<log, entry, in, queue, out, work, place>>
  BY DEF FanOut, MuxFree, pipe
<1>3. /\ fanned \in Nat /\ Len(log) \in Nat /\ Len(channel) \in Nat
      /\ Len(log) = fanned + Len(channel) /\ channel \in Seq(Ids)
      /\ \A i \in 1..Len(channel) : channel[i] = fanned + i
      /\ \A c \in Consumers : place[c] <= fanned /\ place[c] \in Nat
  BY Numbers, LenProperties DEF FeedInv, TypeInv, TypeOK, ProducerInv
<1>4. \A c \in Consumers : Offered(c) = fanned
  BY <1>2 DEF Offered
<1>5. ASSUME NEW c \in Consumers, Watching(c) => Offered(c)' = fanned
      PROVE  ConsumerInv(c)'
  <2>1. /\ Watching(c)' = Watching(c) /\ Wants(c)' = Wants(c) /\ Pipe(c)' = Pipe(c)
        /\ place'[c] = place[c] /\ in' = in /\ queue' = queue /\ out' = out /\ work' = work
    BY <1>2 DEF Watching, Wants, Pipe
  <2>2. ConsumerInv(c)
    BY <1>5 DEF FeedInv
  <2> QED
    BY <1>4, <1>5, <2>1, <2>2 DEF ConsumerInv
<1>6. CASE channel # <<>> /\ event' = Head(channel) /\ channel' = Tail(channel)
           /\ fanned' = Head(channel)
  <2>1. /\ Len(channel) >= 1 /\ Head(channel) = channel[1] /\ Len(Tail(channel)) = Len(channel) - 1
        /\ \A i \in 1..Len(Tail(channel)) : Tail(channel)[i] = channel[i + 1]
    BY <1>3, <1>6, HeadTailProperties, EmptySeq
  <2>2. fanned' = fanned + 1 /\ event' = fanned + 1
    BY <1>3, <1>6, <2>1
  <2>3. ProducerInv'
    <3>1. Len(log') = fanned' + Len(channel')
      BY <1>2, <1>3, <1>6, <2>1, <2>2
    <3>2. \A i \in 1..Len(channel') : channel'[i] = fanned' + i
      BY <1>3, <1>6, <2>1, <2>2
    <3>3. \A c \in Consumers : place'[c] <= fanned'
      BY <1>2, <1>3, <2>2
    <3> QED
      BY <2>2, <3>1, <3>2, <3>3 DEF ProducerInv
  <2>4. ASSUME NEW c \in Consumers, Watching(c)
        PROVE  Offered(c)' = fanned
    <3>1. c \in left' /\ event' # 0 /\ event' - 1 = fanned
      BY <1>2, <1>3, <2>2, <2>4 DEF Listed, Watching
    <3> QED
      BY <3>1 DEF Offered
  <2> QED
    BY <1>1, <1>5, <2>3, <2>4 DEF FeedInv
<1>7. CASE event' = 0 /\ UNCHANGED <<channel, fanned>>
  <2>1. ProducerInv'
    BY <1>2, <1>3, <1>7 DEF ProducerInv
  <2>2. \A c \in Consumers : Offered(c)' = fanned
    BY <1>7 DEF Offered
  <2> QED
    BY <1>1, <1>5, <2>1, <2>2 DEF FeedInv
<1> QED
  BY <1>6, <1>7 DEF FanOut

LEMMA NotifyStep == ASSUME FeedInv, NEW p \in Writers, Notify(p) PROVE FeedInv'
<1>1. TypeInv'
  BY NotifyType
<1>2. UNCHANGED <<event, left, fanned, entry, in, queue, out, work, place>>
  BY NotifyCases DEF producer, pipe
<1>3. /\ fanned \in Nat /\ Len(log) \in Nat /\ Len(channel) \in Nat /\ fanned <= Len(log)
      /\ event \in Nat /\ event <= Len(log) /\ \A c \in Consumers : place[c] \in Nat
  BY Numbers, LenProperties DEF FeedInv, TypeInv, TypeOK
<1>4. CASE Announced(p)
  <2>0. /\ Len(log') = Len(log) + 1 /\ \A e \in 1..Len(log) : log'[e] = log[e]
        /\ Len(channel') = Len(channel) + 1
        /\ \A i \in 1..Len(channel) : channel'[i] = channel[i]
        /\ channel'[Len(channel) + 1] = Len(log) + 1
    BY <1>4, LogGrows
  <2>1. ProducerInv'
    <3>1. Len(log') = fanned + Len(channel')
      BY <1>3, <2>0 DEF FeedInv, ProducerInv
    <3>2. ASSUME NEW i \in 1..Len(channel')
          PROVE  channel'[i] = fanned + i
      <4>1. CASE i = Len(channel) + 1
        BY <1>3, <2>0, <4>1 DEF FeedInv, ProducerInv
      <4>2. CASE i # Len(channel) + 1
        <5>1. i \in 1..Len(channel)
          BY <1>3, <2>0, <4>2
        <5> QED
          BY <2>0, <5>1 DEF FeedInv, ProducerInv
      <4> QED
        BY <4>1, <4>2
    <3> QED
      BY <1>2, <3>1, <3>2 DEF FeedInv, ProducerInv
  <2>2. ASSUME NEW c \in Consumers
        PROVE  ConsumerInv(c)'
    <3>1. /\ Watching(c)' = Watching(c) /\ Offered(c)' = Offered(c) /\ Pipe(c)' = Pipe(c)
          /\ place' = place /\ in' = in /\ queue' = queue /\ out' = out /\ work' = work
      BY <1>2 DEF Watching, Offered, Pipe
    <3>2. Offered(c) \in Int /\ Offered(c) <= Len(log)
      BY <1>3 DEF Offered
    <3>3. ConsumerInv(c)
      BY DEF FeedInv
    <3>4. CASE ~Watching(c)
      BY <3>1, <3>3, <3>4 DEF ConsumerInv
    <3>5. CASE Watching(c)
      <4> DEFINE P == Pipe(c)
                 W == Wants(c)
                 V == Wants(c)'
                 f == place[c]
                 t == Offered(c)
      <4>1. f \in Nat /\ t \in Nat /\ f <= t /\ Lists(P, W, f, t)
        BY <1>3, <3>2, <3>3, <3>5 DEF ConsumerInv
      <4>2. \A e \in (f + 1)..t : e \in W <=> e \in V
        <5>1. ASSUME NEW e \in (f + 1)..t
              PROVE  e \in 1..Len(log) /\ e \in 1..Len(log') /\ log'[e] = log[e]
          BY <1>3, <2>0, <3>2, <4>1
        <5> QED
          BY <5>1 DEF Wants
      <4>3. Lists(P, V, f, t)
        <5> HIDE DEF P, W, V, f, t
        <5> QED
          BY <4>1, <4>2, ListsSame
      <4> QED
        BY <3>1, <3>5, <4>1, <4>3 DEF ConsumerInv
    <3> QED
      BY <3>4, <3>5
  <2> QED
    BY <1>1, <2>1, <2>2 DEF FeedInv
<1>5. CASE UNCHANGED <<log, channel>>
  BY <1>1, <1>2, <1>5
  DEF FeedInv, ProducerInv, ConsumerInv, Watching, Offered, Pipe, Wants
<1> QED
  BY <1>4, <1>5, NotifyCases

\* What is not about the feed
LEMMA ElsewhereStep ==
    ASSUME FeedInv, TypeInv', UNCHANGED <<log, channel, event, left, fanned, entry, pipe, place>>
    PROVE  FeedInv'
  BY DEF FeedInv, ProducerInv, ConsumerInv, Watching, Offered, Pipe, Wants, pipe

LEMMA FeedInvNext == FeedInv /\ [Next]_vars => FeedInv'
<1> SUFFICES ASSUME FeedInv, [Next]_vars PROVE FeedInv'
  OBVIOUS
<1>1. ASSUME NEW p \in Writers, NEW k \in Keys, Commit(p, k)
      PROVE  FeedInv'
  <2>1. UNCHANGED <<log, channel, event, left, fanned, entry, pipe, place>>
    BY <1>1 DEF Commit, producer
  <2> QED
    BY <1>1, <2>1, CommitType, ElsewhereStep
<1>2. ASSUME NEW p \in Writers, ReadBack(p)
      PROVE  FeedInv'
  <2>1. UNCHANGED <<log, channel, event, left, fanned, entry, pipe, place>>
    BY <1>2 DEF ReadBack, producer
  <2> QED
    BY <1>2, <2>1, ReadBackType, ElsewhereStep
<1>3. CASE StopServing
  <2>1. UNCHANGED <<log, channel, event, left, fanned, entry, pipe, place>>
    BY <1>3 DEF StopServing, store
  <2> QED
    BY <1>3, <2>1, ProducerType, ElsewhereStep
<1>4. CASE UNCHANGED vars
  <2>1. UNCHANGED <<log, channel, event, left, fanned, entry, pipe, place>>
    BY <1>4 DEF vars, store, producer
  <2>2. TypeInv'
    BY <1>4 DEF vars, store, producer, pipe, FeedInv, TypeInv, TypeOK, Ids
  <2> QED
    BY <2>1, <2>2, ElsewhereStep
<1> QED
  BY <1>1, <1>2, <1>3, <1>4, NotifyStep, FanOutStep, CloseStep, SendStep, PipeMoves,
     HandleStep, EntryStep
  DEF Next, Consume

LEMMA FeedInvHolds == Spec => []FeedInv
  BY FeedInvInit, FeedInvNext, PTL DEF Spec

\* Rows, events, queues and places keep their types for any number of writers, rows and
\* consumers: no queue holds anything but positions of the log, the two channels stay
\* within their buffers (producer, consumer), and no handler gets the zero payload of the
\* closed channel.
THEOREM WatcherTypeCorrect == Spec => []TypeOK
<1>1. FeedInv => TypeOK
  BY DEF FeedInv, TypeInv
<1> QED
  BY <1>1, FeedInvHolds, PTL

-----------------------------------------------------------------------------
\* The refinement.

LEMMA FeedInit == Init => Feed!Init
  BY DEF Init, Feed!Init, Phase

LEMMA FeedStep == ASSUME FeedInv, [Next]_vars PROVE [Feed!Next]_(Feed!feedVars)
<1>1. ASSUME UNCHANGED <<log, entry, place, cache>>
      PROVE  UNCHANGED Feed!feedVars
  BY <1>1 DEF Feed!feedVars, Phase
<1>2. /\ TypeOK /\ Len(log) \in Nat /\ log \in Seq(Events) /\ fanned \in 0..Len(log)
      /\ place \in [Consumers -> Ids] /\ cache \in [Consumers -> [Keys -> Versions]]
      /\ entry \in [Consumers -> {"none", "loaded", "loading", "open", "closed"}]
      /\ row \in [Keys -> Nat] /\ MaxWrites \in Nat
      /\ \A c \in Consumers : place[c] \in Nat /\ place[c] <= fanned
  <2>1. TypeOK /\ \A c \in Consumers : place[c] <= fanned
    BY DEF FeedInv, TypeInv, ProducerInv
  <2>2. row \in [Keys -> Nat]
    BY <2>1, Numbers DEF TypeOK, Versions
  <2> QED
    BY <2>1, <2>2, Numbers DEF TypeOK
<1>3. ASSUME NEW p \in Writers, NEW k \in Keys, Commit(p, k)
      PROVE  UNCHANGED Feed!feedVars
  BY <1>1, <1>3 DEF Commit
<1>4. ASSUME NEW p \in Writers, ReadBack(p)
      PROVE  UNCHANGED Feed!feedVars
  BY <1>1, <1>4 DEF ReadBack
<1>5. ASSUME NEW p \in Writers, Notify(p)
      PROVE  [Feed!Next]_(Feed!feedVars)
  <2>1. UNCHANGED <<entry, place, cache>>
    BY <1>5, NotifyCases
  <2>2. CASE UNCHANGED log
    BY <1>1, <2>1, <2>2
  <2>3. CASE Announced(p)
    <3> DEFINE x == [key |-> writer[p].key, ver |-> writer[p].ver]
    <3>1. /\ x \in Events /\ Len(log') = Len(log) + 1 /\ log'[Len(log) + 1] = x
          /\ log' = Append(log, x)
      BY <2>3, LogGrows DEF Announced
    <3>2. x \in Feed!Events
      BY <1>2, <3>1 DEF Events, Feed!Events, Versions
    <3> HIDE DEF x
    <3>3. Feed!Publish
      BY <2>1, <3>1, <3>2 DEF Feed!Publish, Phase
    <3> QED
      BY <3>3 DEF Feed!Next
  <2> QED
    BY <1>5, <2>2, <2>3, NotifyCases
<1>6. CASE FanOut \/ StopServing
  BY <1>1, <1>6 DEF FanOut, StopServing, store
<1>7. CASE Close
  <2> DEFINE gone == {c \in Consumers : Watching(c)}
  <2>1. UNCHANGED <<log, place, cache>>
    BY <1>7 DEF Close, store
  <2>2. [c \in Consumers |-> Phase(c)]' =
            [c \in Consumers |-> IF c \in gone THEN "off" ELSE [d \in Consumers |-> Phase(d)][c]]
    <3>1. entry' = [c \in Consumers |-> IF Watching(c) THEN "closed" ELSE entry[c]]
      BY <1>7 DEF Close
    <3>2. \A c \in Consumers : Phase(c)' = IF c \in gone THEN "off" ELSE Phase(c)
      BY <3>1 DEF Phase, Watching
    <3> QED
      BY <3>2
  <2>3. Feed!Unsubscribe
    BY <2>1, <2>2 DEF Feed!Unsubscribe
  <2> QED
    BY <2>3 DEF Feed!Next
<1>8. ASSUME NEW c \in Consumers,
             Send(c) \/ DispatchAccept(c) \/ DispatchEmit(c) \/ Forward(c)
      PROVE  UNCHANGED Feed!feedVars
  BY <1>1, <1>8 DEF Send, DispatchAccept, DispatchEmit, Forward, store
<1>9. ASSUME NEW c \in Consumers, RemoveConsumer(c)
      PROVE  UNCHANGED Feed!feedVars
  <2>1. /\ entry[c] = "closed" /\ entry' = [entry EXCEPT ![c] = "none"]
        /\ UNCHANGED <<log, place, cache>>
    BY <1>9 DEF RemoveConsumer, store
  <2>2. \A d \in Consumers : Phase(d)' = Phase(d)
    BY <1>2, <2>1 DEF Phase
  <2> QED
    BY <2>1, <2>2 DEF Feed!feedVars
<1>10. ASSUME NEW c \in Consumers, LoadRows(c) \/ Load(c)
       PROVE  [Feed!Next]_(Feed!feedVars)
  <2>1. /\ UNCHANGED <<log, place>> /\ cache' = [cache EXCEPT ![c] = row]
        /\ \/ entry[c] = "none" /\ entry' = [entry EXCEPT ![c] = "loaded"]
           \/ entry[c] = "loading" /\ entry' = [entry EXCEPT ![c] = "open"]
    BY <1>10 DEF LoadRows, Load, store
  <2>2. /\ Phase(c) # "on" /\ Phase(c)' = IF Phase(c) = "loading" THEN "on" ELSE "off"
        /\ \A d \in Consumers \ {c} : Phase(d)' = Phase(d)
    BY <1>2, <2>1 DEF Phase
  <2>3. [d \in Consumers |-> Phase(d)]' =
            [[d \in Consumers |-> Phase(d)] EXCEPT ![c] = IF @ = "loading" THEN "on" ELSE "off"]
    BY <2>2
  <2>4. cache'[c] = row /\ cache' = [cache EXCEPT ![c] = cache'[c]]
    BY <1>2, <2>1
  <2>5. Feed!Load(c)
    BY <1>2, <2>1, <2>2, <2>3, <2>4 DEF Feed!Load
  <2> QED
    BY <2>5 DEF Feed!Next
<1>11. ASSUME NEW c \in Consumers, Register(c)
       PROVE  [Feed!Next]_(Feed!feedVars)
  <2> DEFINE now == IF c \in LoadFirst THEN "on" ELSE "loading"
  <2>1. /\ UNCHANGED <<log, cache>> /\ place' = [place EXCEPT ![c] = fanned]
        /\ entry[c] \in {"none", "loaded"}
        /\ entry' = [entry EXCEPT ![c] = IF c \in LoadFirst THEN "open" ELSE "loading"]
    BY <1>11 DEF Register, store
  <2>2. /\ Phase(c) = "off" /\ Phase(c)' = now
        /\ \A d \in Consumers \ {c} : Phase(d)' = Phase(d)
    BY <1>2, <2>1 DEF Phase
  <2>3. [d \in Consumers |-> Phase(d)]' = [[d \in Consumers |-> Phase(d)] EXCEPT ![c] = now]
    BY <2>2
  <2>4. fanned \in place[c]..Len(log)
    BY <1>2
  <2>5. Feed!Subscribe(c)
    BY <2>1, <2>2, <2>3, <2>4 DEF Feed!Subscribe
  <2> QED
    BY <2>5 DEF Feed!Next
<1>12. ASSUME NEW c \in Consumers, CloseConsumer(c)
       PROVE  [Feed!Next]_(Feed!feedVars)
  <2>1. UNCHANGED <<log, place, cache>> /\ entry' = [entry EXCEPT ![c] = "closed"]
    BY <1>12 DEF CloseConsumer, store
  <2>2. \A d \in Consumers : Phase(d)' = IF d \in {c} THEN "off" ELSE Phase(d)
    BY <1>2, <2>1 DEF Phase
  <2>3. [d \in Consumers |-> Phase(d)]' =
            [d \in Consumers |-> IF d \in {c} THEN "off" ELSE [b \in Consumers |-> Phase(b)][d]]
    BY <2>2
  <2>4. Feed!Unsubscribe
    BY <2>1, <2>3 DEF Feed!Unsubscribe
  <2> QED
    BY <2>4 DEF Feed!Next
<1>13. ASSUME NEW c \in Consumers, Handle(c)
       PROVE  [Feed!Next]_(Feed!feedVars)
  <2> DEFINE e == Head(work[c])
  <2>1. /\ UNCHANGED <<log, entry>> /\ place' = [place EXCEPT ![c] = e] /\ entry[c] = "open"
        /\ cache' = [cache EXCEPT ![c][log[e].key] = log[e].ver]
    BY <1>13 DEF Handle, store
  <2>2. /\ e \in Wants(c) /\ e \in (place[c] + 1)..Offered(c)
        /\ \A j \in (place[c] + 1)..(e - 1) : j \notin Wants(c)
    BY <1>13, NextHandled
  <2> HIDE DEF e
  <2>3. e \in 1..Len(log) /\ log[e].key \in Interest[c]
    BY <2>2 DEF Wants
  <2>4. e \in (place[c] + 1)..Len(log)
    BY <1>2, <2>2, <2>3, Numbers
  <2>5. \A j \in (place[c] + 1)..(e - 1) : log[j].key \notin Interest[c]
    <3>1. \A j \in (place[c] + 1)..(e - 1) : j \in 1..Len(log)
      BY <1>2, <2>3
    <3> QED
      BY <2>2, <3>1 DEF Wants
  <2>6. [d \in Consumers |-> Phase(d)][c] = "on" /\ \A d \in Consumers : Phase(d)' = Phase(d)
    BY <2>1 DEF Phase
  <2>7. Feed!Deliver(c)
    BY <2>1, <2>3, <2>4, <2>5, <2>6 DEF Feed!Deliver
  <2> QED
    BY <2>7 DEF Feed!Next
<1>14. CASE UNCHANGED vars
  BY <1>1, <1>14 DEF vars, store
<1> QED
  BY <1>3, <1>4, <1>5, <1>6, <1>7, <1>8, <1>9, <1>10, <1>11, <1>12, <1>13, <1>14
  DEF Next, Consume

\* The watcher implements the event feed: whatever the order in which writers, the
\* producer's goroutine, the dispatch goroutines and the handlers take their steps, and
\* wherever consumers register, close or the watcher shuts down, a consumer gets the
\* events of its filter in the order of Notify, each once and none left out
\* (serviceProducer, consumer.Send, dispatch, UnboundedChan).
THEOREM WatcherIsEventFeed == Spec => FeedSpec
  BY FeedInvHolds, FeedInit, FeedStep, PTL DEF Spec, FeedSpec, Feed!Spec

-----------------------------------------------------------------------------
\* What a consumer knows.

LEMMA CurrentInvInit == Init => CurrentInv
  BY DEF Init, CurrentInv, WritersCurrent, LogCurrent, Knows, Idle

LEMMA CommitCurrent ==
    ASSUME FeedInv, CurrentInv, NEW p \in Writers, NEW k \in Keys, Commit(p, k)
    PROVE  CurrentInv'
<1> SUFFICES ASSUME ~lost', ~overlapped'
             PROVE  WritersCurrent' /\ LogCurrent' /\ \A c \in Consumers \ LoadFirst : Knows(c)'
  BY DEF CurrentInv
<1>1. /\ ~lost /\ ~overlapped /\ writer[p].pc = "idle"
      /\ \A q \in Writers : writer[q].pc # "idle" => writer[q].key # k
  BY DEF Commit, Announcing
<1>2. WritersCurrent /\ LogCurrent /\ \A c \in Consumers \ LoadFirst : Knows(c)
  BY <1>1 DEF CurrentInv
<1>3. /\ UNCHANGED <<log, entry, place, cache>>
      /\ row' = [row EXCEPT ![k] = row[k] + 1]
      /\ writer' = [writer EXCEPT ![p] = [pc |-> "read", key |-> k, ver |-> 0]]
      /\ row \in [Keys -> Versions] /\ writer \in [Writers -> Announcements]
  BY DEF Commit, FeedInv, TypeInv, TypeOK
<1>4. /\ writer'[p].pc = "read" /\ writer'[p].key = k
      /\ \A q \in Writers \ {p} : writer'[q] = writer[q]
      /\ \A j \in Keys \ {k} : row'[j] = row[j]
  BY <1>3
<1>5. Pending(k)' /\ \A j \in Keys : ~Pending(j)' => ~Pending(j) /\ j # k
  BY <1>1, <1>4 DEF Pending
<1>6. \A f \in 1..Len(log) : log[f].key \in Keys
  BY Typed DEF FeedInv, TypeInv
<1>7. \A e, j : NoneAfter(e, j)' = NoneAfter(e, j)
  BY <1>3 DEF NoneAfter
<1>8. WritersCurrent'
  <2>1. ASSUME NEW q \in Writers, writer'[q].pc = "notify"
        PROVE  writer'[q].ver = row'[writer'[q].key]
    <3>1. q # p /\ writer'[q] = writer[q]
      BY <1>4, <2>1
    <3>2. writer[q].key \in Keys \ {k}
      BY <1>1, <1>3, <2>1, <3>1 DEF Announcements
    <3> QED
      BY <1>2, <1>4, <2>1, <3>1, <3>2 DEF WritersCurrent
  <2> QED
    BY <2>1 DEF WritersCurrent
<1>9. LogCurrent'
  BY <1>2, <1>3, <1>4, <1>5, <1>6, <1>7 DEF LogCurrent
<1>10. \A c \in Consumers \ LoadFirst : Knows(c)'
  <2>1. \A c \in Consumers : Interest[c] \subseteq Keys
    BY WatcherAssumption
  <2> QED
    BY <1>2, <1>3, <1>4, <1>5, <1>7, <2>1 DEF Knows
<1> QED
  BY <1>8, <1>9, <1>10

LEMMA ReadBackCurrent ==
    ASSUME FeedInv, CurrentInv, NEW p \in Writers, ReadBack(p)
    PROVE  CurrentInv'
<1>1. /\ UNCHANGED <<log, entry, place, cache, row, lost, overlapped>>
      /\ writer' = [writer EXCEPT ![p].pc = "notify", ![p].ver = row[writer[p].key]]
      /\ writer[p].pc = "read" /\ writer \in [Writers -> Announcements]
  BY DEF ReadBack, FeedInv, TypeInv, TypeOK
<1>2. /\ writer'[p].pc = "notify" /\ writer'[p].key = writer[p].key
      /\ writer'[p].ver = row[writer[p].key]
      /\ \A q \in Writers \ {p} : writer'[q] = writer[q]
  <2>1. writer[p] \in Announcements
    BY <1>1
  <2> QED
    BY <1>1, <2>1 DEF Announcements
<1>3. \A j : Pending(j)' = Pending(j)
  <2>1. \A q \in Writers : /\ writer'[q].pc # "idle" <=> writer[q].pc # "idle"
                           /\ writer'[q].key = writer[q].key
    BY <1>1, <1>2
  <2> QED
    BY <2>1 DEF Pending
<1>4. \A e, j : NoneAfter(e, j)' = NoneAfter(e, j)
  BY <1>1 DEF NoneAfter
<1>5. WritersCurrent => WritersCurrent'
  BY <1>1, <1>2 DEF WritersCurrent
<1>6. LogCurrent => LogCurrent'
  BY <1>1, <1>3, <1>4 DEF LogCurrent
<1>7. \A c \in Consumers : Knows(c) => Knows(c)'
  BY <1>1, <1>3, <1>4 DEF Knows
<1> QED
  BY <1>1, <1>5, <1>6, <1>7 DEF CurrentInv

LEMMA NotifyCurrent ==
    ASSUME FeedInv, CurrentInv, NEW p \in Writers, Notify(p)
    PROVE  CurrentInv'
<1> SUFFICES ASSUME ~lost', ~overlapped'
             PROVE  WritersCurrent' /\ LogCurrent' /\ \A c \in Consumers \ LoadFirst : Knows(c)'
  BY DEF CurrentInv
<1>1. /\ Announced(p) /\ ~lost /\ ~overlapped /\ UNCHANGED <<row, entry, place, cache>>
      /\ writer' = [writer EXCEPT ![p] = Idle] /\ writer[p].pc = "notify"
  <2>1. /\ writer' = [writer EXCEPT ![p] = Idle] /\ writer[p].pc = "notify"
        /\ UNCHANGED <<row, entry, place, cache, overlapped>>
    BY NotifyCases DEF Notify
  <2>2. Announced(p) /\ UNCHANGED lost
    BY NotifyCases
  <2> QED
    BY <2>1, <2>2
<1>2. WritersCurrent /\ LogCurrent /\ \A c \in Consumers \ LoadFirst : Knows(c)
  BY <1>1 DEF CurrentInv
<1>3. /\ Len(log) \in Nat /\ writer \in [Writers -> Announcements]
      /\ \A c \in Consumers : place[c] \in Nat /\ place[c] <= Len(log)
  <2>1. TypeOK
    BY DEF FeedInv, TypeInv
  <2> QED
    BY <2>1, Numbers, SMTT(30) DEF TypeOK
<1> DEFINE k == writer[p].key
           n == Len(log) + 1
<1>4. /\ Len(log') = n /\ log'[n].key = k /\ log'[n].ver = writer[p].ver
      /\ \A e \in 1..Len(log) : log'[e] = log[e]
  <2>1. /\ Len(log') = n /\ log'[n] = [key |-> k, ver |-> writer[p].ver]
        /\ \A e \in 1..Len(log) : log'[e] = log[e]
    BY <1>1, LogGrows
  <2> QED
    BY <2>1
<1>5. /\ writer'[p].pc = "idle" /\ \A q \in Writers \ {p} : writer'[q] = writer[q]
  BY <1>1, <1>3 DEF Idle
<1>6. writer[p].ver = row[k]
  BY <1>1, <1>2 DEF WritersCurrent
<1>7. \A j : j # k /\ ~Pending(j)' => ~Pending(j)
  BY <1>5 DEF Pending
<1> HIDE DEF k
<1>8. ASSUME NEW e \in Nat, NEW j, e <= Len(log), NoneAfter(e, j)'
      PROVE  j # k /\ NoneAfter(e, j)
  <2>1. n \in 1..Len(log') /\ n > e
    BY <1>3, <1>4, <1>8
  <2>2. \A f \in 1..Len(log) : f \in 1..Len(log') /\ log'[f] = log[f]
    BY <1>3, <1>4
  <2> QED
    BY <1>4, <1>8, <2>1, <2>2 DEF NoneAfter
<1>9. WritersCurrent'
  BY <1>1, <1>2, <1>5 DEF WritersCurrent
<1>10. LogCurrent'
  <2>1. ASSUME NEW e \in 1..Len(log'), NEW j, j = log'[e].key, ~Pending(j)', NoneAfter(e, j)'
        PROVE  log'[e].ver = row'[j]
    <3>1. CASE e = n
      BY <1>1, <1>4, <1>6, <2>1, <3>1
    <3>2. CASE e # n
      <4>1. e \in 1..Len(log) /\ e \in Nat /\ e <= Len(log) /\ log'[e] = log[e]
        BY <1>3, <1>4, <2>1, <3>2
      <4>2. j # k /\ NoneAfter(e, j)
        BY <1>8, <2>1, <4>1
      <4>3. ~Pending(j)
        BY <1>7, <2>1, <4>2
      <4> QED
        BY <1>1, <1>2, <2>1, <4>1, <4>2, <4>3 DEF LogCurrent
    <3> QED
      BY <3>1, <3>2
  <2> QED
    BY <2>1 DEF LogCurrent, Pending, NoneAfter
<1>11. ASSUME NEW c \in Consumers \ LoadFirst
       PROVE  Knows(c)'
  <2>1. ASSUME entry'[c] = "open", NEW j \in Interest[c], ~Pending(j)',
               NEW e, e = place[c], NoneAfter(e, j)'
        PROVE  cache'[c][j] = row'[j]
    <3>2. j # k /\ NoneAfter(e, j)
      BY <1>3, <1>8, <2>1
    <3>3. ~Pending(j)
      BY <1>7, <2>1, <3>2
    <3> QED
      BY <1>1, <1>2, <2>1, <3>2, <3>3 DEF Knows
  <2> QED
    BY <1>1, <2>1 DEF Knows, Pending, NoneAfter
<1> QED
  BY <1>9, <1>10, <1>11

\* The other steps leave the store alone.
LEMMA StoreSame ==
    ASSUME CurrentInv, UNCHANGED <<row, writer, log, lost, overlapped>>,
           ~lost /\ ~overlapped =>
               \A c \in Consumers \ LoadFirst : Knows(c) => Knows(c)'
    PROVE  CurrentInv'
<1>1. \A j : Pending(j)' = Pending(j)
  BY DEF Pending
<1>2. \A e, j : NoneAfter(e, j)' = NoneAfter(e, j)
  BY DEF NoneAfter
<1>3. WritersCurrent' = WritersCurrent
  BY DEF WritersCurrent
<1>4. LogCurrent => LogCurrent'
  BY <1>1, <1>2 DEF LogCurrent
<1> QED
  BY <1>3, <1>4 DEF CurrentInv

LEMMA KnowsSame ==
    ASSUME NEW c \in Consumers, Knows(c), UNCHANGED <<row, writer, log>>,
           entry'[c] = "open" =>
               entry[c] = "open" /\ place'[c] = place[c] /\ cache'[c] = cache[c]
    PROVE  Knows(c)'
<1>1. \A j : Pending(j)' = Pending(j)
  BY DEF Pending
<1>2. \A e, j : NoneAfter(e, j)' = NoneAfter(e, j)
  BY DEF NoneAfter
<1> QED
  BY <1>1, <1>2 DEF Knows

LEMMA HandleCurrent ==
    ASSUME FeedInv, CurrentInv, NEW c \in Consumers, Handle(c)
    PROVE  CurrentInv'
<1>0. PICK e : e = Head(work[c])
  OBVIOUS
<1>1. /\ UNCHANGED <<row, writer, log, lost, overlapped, entry>>
      /\ place' = [place EXCEPT ![c] = e]
      /\ cache' = [cache EXCEPT ![c][log[e].key] = log[e].ver]
      /\ place \in [Consumers -> Ids] /\ cache \in [Consumers -> [Keys -> Versions]]
  BY <1>0 DEF Handle, store, FeedInv, TypeInv, TypeOK
<1>2. /\ e \in Wants(c) /\ e \in (place[c] + 1)..Offered(c)
      /\ \A j \in (place[c] + 1)..(e - 1) : j \notin Wants(c)
  BY <1>0, NextHandled
<1>3. place[c] \in Nat /\ Len(log) \in Nat /\ Interest[c] \subseteq Keys
  BY Numbers, WatcherAssumption DEF FeedInv, TypeInv
<1>4. e \in 1..Len(log) /\ log[e].key \in Keys
  BY <1>2, Typed DEF Wants, FeedInv, TypeInv
<1>5. /\ place'[c] = e /\ cache'[c] = [cache[c] EXCEPT ![log[e].key] = log[e].ver]
      /\ cache[c] \in [Keys -> Versions]
      /\ \A d \in Consumers \ {c} : place'[d] = place[d] /\ cache'[d] = cache[d]
  BY <1>1
<1>6. \A d \in Consumers \ {c} : Knows(d) => Knows(d)'
  BY <1>1, <1>5, KnowsSame
<1>7. ASSUME LogCurrent, Knows(c)
      PROVE  Knows(c)'
  <2>1. ASSUME entry'[c] = "open", NEW k \in Interest[c], ~Pending(k)', NoneAfter(e, k)'
        PROVE  cache'[c][k] = row'[k]
    <3>1. ~Pending(k) /\ NoneAfter(e, k)
      BY <1>1, <2>1 DEF Pending, NoneAfter
    <3>2. CASE log[e].key = k
      BY <1>1, <1>3, <1>4, <1>5, <1>7, <3>1, <3>2 DEF LogCurrent
    <3>3. CASE log[e].key # k
      <4>1. ASSUME NEW f \in 1..Len(log), f > place[c]
            PROVE  log[f].key # k
        <5>1. CASE f > e
          BY <3>1, <5>1 DEF NoneAfter
        <5>2. CASE f = e
          BY <3>3, <5>2
        <5>3. CASE f < e
          <6>1. f \in (place[c] + 1)..(e - 1)
            BY <1>3, <1>4, <4>1, <5>3
          <6> QED
            BY <1>2, <2>1, <4>1, <6>1 DEF Wants
        <5> QED
          BY <1>3, <1>4, <5>1, <5>2, <5>3
      <4>2. NoneAfter(place[c], k)
        BY <4>1 DEF NoneAfter
      <4>3. cache[c][k] = row[k]
        BY <1>1, <1>7, <2>1, <3>1, <4>2 DEF Knows
      <4> QED
        BY <1>1, <1>3, <1>5, <3>3, <4>3
    <3> QED
      BY <3>2, <3>3
  <2> QED
    BY <1>5, <2>1 DEF Knows, Pending, NoneAfter
<1>8. ~lost /\ ~overlapped => \A d \in Consumers \ LoadFirst : Knows(d) => Knows(d)'
  BY <1>6, <1>7 DEF CurrentInv
<1> QED
  BY <1>1, <1>8, StoreSame

LEMMA ConsumerCurrent ==
    ASSUME FeedInv, CurrentInv, NEW c \in Consumers,
           LoadRows(c) \/ Register(c) \/ Load(c) \/ CloseConsumer(c) \/ RemoveConsumer(c)
    PROVE  CurrentInv'
<1>1. /\ UNCHANGED <<row, writer, log, lost, overlapped>>
      /\ place \in [Consumers -> Ids] /\ cache \in [Consumers -> [Keys -> Versions]]
      /\ entry \in [Consumers -> {"none", "loaded", "loading", "open", "closed"}]
  BY DEF LoadRows, Register, Load, CloseConsumer, RemoveConsumer, store, FeedInv, TypeInv, TypeOK
<1>2. \A d \in Consumers \ {c} :
          place'[d] = place[d] /\ cache'[d] = cache[d] /\ entry'[d] = entry[d]
  BY <1>1 DEF LoadRows, Register, Load, CloseConsumer, RemoveConsumer
<1>3. \A d \in Consumers \ {c} : Knows(d) => Knows(d)'
  BY <1>1, <1>2, KnowsSame
<1>4. CASE Load(c)
  <2>1. cache'[c] = row
    BY <1>1, <1>4 DEF Load
  <2>2. Knows(c)'
    BY <1>1, <2>1 DEF Knows
  <2> QED
    BY <1>1, <1>3, <2>2, StoreSame
<1>5. CASE LoadRows(c) \/ CloseConsumer(c) \/ RemoveConsumer(c)
  <2>1. entry'[c] # "open"
    BY <1>1, <1>5 DEF LoadRows, CloseConsumer, RemoveConsumer
  <2>2. Knows(c)'
    BY <2>1 DEF Knows
  <2> QED
    BY <1>1, <1>3, <2>2, StoreSame
<1>6. CASE Register(c)
  <2>1. c \notin LoadFirst => entry'[c] # "open"
    BY <1>1, <1>6 DEF Register
  <2>2. c \notin LoadFirst => Knows(c)'
    BY <2>1 DEF Knows
  <2> QED
    BY <1>1, <1>3, <2>2, StoreSame
<1> QED
  BY <1>4, <1>5, <1>6

LEMMA CurrentInvNext == FeedInv /\ CurrentInv /\ [Next]_vars => CurrentInv'
<1> SUFFICES ASSUME FeedInv, CurrentInv, [Next]_vars PROVE CurrentInv'
  OBVIOUS
<1>1. ASSUME UNCHANGED <<row, writer, log, lost, overlapped, place, cache>>,
             \A c \in Consumers : entry'[c] = "open" => entry[c] = "open"
      PROVE  CurrentInv'
  BY <1>1, KnowsSame, StoreSame
<1>2. CASE FanOut \/ StopServing \/ Close
  <2>1. UNCHANGED <<row, writer, log, lost, overlapped, place, cache>>
    BY <1>2 DEF FanOut, StopServing, Close, store
  <2>2. \A c \in Consumers : entry'[c] = "open" => entry[c] = "open"
    BY <1>2 DEF FanOut, StopServing, Close, Watching
  <2> QED
    BY <1>1, <2>1, <2>2
<1>3. ASSUME NEW c \in Consumers,
             Send(c) \/ DispatchAccept(c) \/ DispatchEmit(c) \/ Forward(c)
      PROVE  CurrentInv'
  BY <1>1, <1>3 DEF Send, DispatchAccept, DispatchEmit, Forward, store
<1>4. CASE UNCHANGED vars
  BY <1>1, <1>4 DEF vars, store
<1> QED
  BY <1>2, <1>3, <1>4, CommitCurrent, ReadBackCurrent, NotifyCurrent, HandleCurrent,
     ConsumerCurrent
  DEF Next, Consume

\* A consumer that registers before it loads (the provider worker) knows every row it
\* filters for as it is in the store once all events are handled, for any number of
\* writers and rows, unless Notify gave up on an event or two writers of one row
\* overlapped between commit and Notify.
THEOREM RegisterFirstIsCurrent == Spec => []CacheCurrent
<1>1. FeedInv /\ CurrentInv => CacheCurrent
  <2> SUFFICES ASSUME FeedInv, CurrentInv, NEW c \in Consumers \ LoadFirst, Quiet(c),
                      ~lost, ~overlapped, NEW k \in Interest[c]
               PROVE  cache[c][k] = row[k]
    BY DEF CacheCurrent
  <2>1. /\ entry[c] = "open" /\ Announcing = {} /\ channel = <<>> /\ left = {}
        /\ in[c] = <<>> /\ queue[c] = <<>> /\ out[c] = <<>> /\ work[c] = <<>>
    BY DEF Quiet
  <2>2. ~Pending(k)
    BY <2>1 DEF Announcing, Pending
  <2>3. Offered(c) = Len(log)
    <3>1. Len(channel) = 0 /\ fanned \in Nat /\ Len(log) \in Nat
      BY <2>1, Numbers DEF FeedInv, TypeInv
    <3> QED
      BY <2>1, <3>1 DEF Offered, FeedInv, ProducerInv
  <2>4. Pipe(c) = <<>>
    BY <2>1 DEF Pipe, Cat
  <2>5. Lists(<<>>, Wants(c), place[c], Len(log))
    BY <2>1, <2>3, <2>4 DEF FeedInv, ConsumerInv, Watching
  <2>6. NoneAfter(place[c], k)
    <3>1. ASSUME NEW f \in 1..Len(log), f > place[c]
          PROVE  log[f].key # k
      <4>1. place[c] \in Nat /\ Len(log) \in Nat
        BY Numbers DEF FeedInv, TypeInv
      <4>2. f \in (place[c] + 1)..Len(log)
        BY <3>1, <4>1
      <4>3. f \notin Wants(c)
        BY <2>5, <4>2 DEF Lists
      <4> QED
        BY <3>1, <4>3 DEF Wants
    <3> QED
      BY <3>1 DEF NoneAfter
  <2> QED
    BY <2>1, <2>2, <2>6 DEF CurrentInv, Knows
<1>2. FeedInv /\ CurrentInv /\ [Next]_vars => (FeedInv /\ CurrentInv)'
  BY FeedInvNext, CurrentInvNext
<1> QED
  BY <1>1, <1>2, FeedInvInit, CurrentInvInit, PTL DEF Spec
=============================================================================
