--------------------------- MODULE TimerSeqProofs ---------------------------
(***************************************************************************)
(* Theorems about two parts of the maodv engine that stand by themselves:  *)
(*  - RouteTimer, its timers against the clock, for any delays, retries,   *)
(*    timers and tasks;                                                    *)
(*  - SeqNum, its sequence numbers, for numbers of any width, any lag of   *)
(*    PDUs and entries below half their range, any number of PDUs and of   *)
(*    restarts.                                                            *)
(***************************************************************************)
EXTENDS RouteTimer, SeqNum, SequenceTheorems, TLAPS

\* Time limits that a busy machine does not exceed.
USE SMTT(30), ZenonT(30)

-----------------------------------------------------------------------------
(* RouteTimer: the inductive invariant *)

\* How many RREQs a discovery has sent when this timer runs.
Sent(e) == RREQ_RETRIES - e.n + 1

\* The least that j waits of 2 XOR 0, 2 XOR 1, ... come to: the third is
\* nothing, but the first two have made up for it.
Paid(j) == IF j <= 2 THEN 2 * j ELSE j + 1

\* By the time the timer e runs out its discovery has waited long enough for
\* the RREQs it has sent.
OnSchedule(e) ==
  e.id \in Dest => e.age = Traversals \/ e.age + e.left >= Paid(Sent(e)) * Net

\* So has that of the task t.
Waited(t) ==
  t.id \in Dest => t.age = Traversals \/ t.age >= Paid(Sent(t)) * Net

TimerInv ==
  /\ TimerTypeOK
  /\ \A e \in Range(list) : OnSchedule(e)
  /\ \A t \in Range(tasks) : Waited(t)

\* With the epoch beyond the horizon the kernel timer runs every jiffy.
Prompt ==
  armed \in {0, 1} /\ \A e \in Range(list) : e.left >= armed - 1

-----------------------------------------------------------------------------
(* RouteTimer: sequences *)

\* What is in a sequence has the type of its elements.
LEMMA RangeType ==
  ASSUME NEW S, NEW q \in Seq(S)
  PROVE  Range(q) \subseteq S /\ \A i \in DOMAIN q : q[i] \in Range(q)
BY DEF Range

\* The head is in the sequence, and the rest stays.
LEMMA RangeTail ==
  ASSUME NEW S, NEW q \in Seq(S), q # <<>>
  PROVE  /\ Tail(q) \in Seq(S) /\ Head(q) \in Range(q) /\ Head(q) \in S
         /\ Range(Tail(q)) \subseteq Range(q)
<1>1. /\ Len(q) \in Nat /\ DOMAIN q = 1..Len(q) /\ Len(q) >= 1 /\ Head(q) = q[1]
      /\ Tail(q) \in Seq(S) /\ DOMAIN Tail(q) = 1..(Len(q) - 1)
      /\ \A i \in 1..(Len(q) - 1) : Tail(q)[i] = q[i + 1]
  OBVIOUS
<1>2. Head(q) \in Range(q) /\ Head(q) \in S BY <1>1 DEF Range
<1>3. \A i \in 1..(Len(q) - 1) : i + 1 \in 1..Len(q) BY <1>1
<1>4. Range(Tail(q)) \subseteq Range(q) BY <1>1, <1>3 DEF Range
<1> QED BY <1>1, <1>2, <1>4

\* An element is added at the tail.
LEMMA RangeAppend ==
  ASSUME NEW S, NEW q \in Seq(S), NEW e \in S
  PROVE  Append(q, e) \in Seq(S) /\ Range(Append(q, e)) \subseteq Range(q) \cup {e}
<1>1. /\ Len(q) \in Nat /\ DOMAIN q = 1..Len(q) /\ Append(q, e) \in Seq(S)
      /\ DOMAIN Append(q, e) = 1..(Len(q) + 1)
      /\ Append(q, e)[Len(q) + 1] = e
      /\ \A i \in 1..Len(q) : Append(q, e)[i] = q[i]
  OBVIOUS
<1>2. 1..(Len(q) + 1) = (1..Len(q)) \cup {Len(q) + 1} BY <1>1
<1> QED BY <1>1, <1>2 DEF Range

\* An element is added at the head.
LEMMA RangeCons ==
  ASSUME NEW S, NEW q \in Seq(S), NEW e \in S
  PROVE  <<e>> \o q \in Seq(S) /\ Range(<<e>> \o q) \subseteq Range(q) \cup {e}
<1> DEFINE c == <<e>> \o q
<1>1. /\ Len(q) \in Nat /\ DOMAIN q = 1..Len(q) /\ c \in Seq(S)
      /\ DOMAIN c = 1..(Len(q) + 1) /\ c[1] = e
      /\ \A i \in 2..(Len(q) + 1) : c[i] = q[i - 1]
  OBVIOUS
<1>2. \A i \in 2..(Len(q) + 1) : i - 1 \in 1..Len(q) BY <1>1
<1>3. 1..(Len(q) + 1) = {1} \cup 2..(Len(q) + 1) BY <1>1
<1> HIDE DEF c
<1>4. Range(c) \subseteq Range(q) \cup {e} BY <1>1, <1>2, <1>3 DEF Range
<1> QED BY <1>1, <1>4 DEF c

\* An element is taken out.
LEMMA RangeRemove ==
  ASSUME NEW S, NEW q \in Seq(S), NEW k \in DOMAIN q
  PROVE  LIST_DEL(q, k) \in Seq(S) /\ Range(LIST_DEL(q, k)) \subseteq Range(q)
<1> DEFINE a == SubSeq(q, 1, k - 1)
           b == SubSeq(q, k + 1, Len(q))
<1>1. Len(q) \in Nat /\ DOMAIN q = 1..Len(q) /\ k \in 1..Len(q) OBVIOUS
<1>2. /\ a \in Seq(S) /\ Len(a) = k - 1
      /\ \A i \in 1..(k - 1) : a[i] = q[i]
  BY <1>1
<1>3. /\ b \in Seq(S) /\ Len(b) = Len(q) - k
      /\ \A i \in 1..(Len(q) - k) : b[i] = q[k + i]
  BY <1>1
<1> HIDE DEF a, b
<1> DEFINE c == a \o b
<1>4. /\ c \in Seq(S) /\ DOMAIN c = 1..(Len(q) - 1)
      /\ \A i \in 1..(k - 1) : c[i] = a[i]
      /\ \A i \in k..(Len(q) - 1) : c[i] = b[i - (k - 1)]
  <2>1. /\ c \in Seq(S) /\ Len(c) = Len(a) + Len(b)
        /\ \A i \in 1..Len(a) + Len(b) : c[i] = IF i <= Len(a) THEN a[i] ELSE b[i - Len(a)]
    BY <1>2, <1>3, ConcatProperties, ZenonT(30)
  <2> HIDE DEF c
  <2>2. Len(a) + Len(b) = Len(q) - 1 BY <1>1, <1>2, <1>3
  <2>3. DOMAIN c = 1..(Len(q) - 1) BY <2>1, <2>2
  <2>4. ASSUME NEW i \in 1..(k - 1) PROVE c[i] = a[i]
    <3>1. i \in 1..Len(a) + Len(b) /\ i <= Len(a) BY <1>1, <1>2, <2>2
    <3> QED BY <2>1, <3>1
  <2>5. ASSUME NEW i \in k..(Len(q) - 1) PROVE c[i] = b[i - (k - 1)]
    <3>1. i \in 1..Len(a) + Len(b) /\ ~(i <= Len(a)) BY <1>1, <1>2, <2>2
    <3>2. c[i] = b[i - Len(a)] BY <2>1, <3>1
    <3> QED BY <1>2, <3>2
  <2> QED BY <2>1, <2>3, <2>4, <2>5
<1>5. LIST_DEL(q, k) = c BY DEF LIST_DEL, a, b
<1> HIDE DEF c
<1>6. ASSUME NEW i \in DOMAIN c PROVE c[i] \in Range(q)
  <2>1. CASE i \in 1..(k - 1) BY <1>1, <1>2, <1>4, <2>1 DEF Range
  <2>2. CASE i \in k..(Len(q) - 1)
    <3>1. i - (k - 1) \in 1..(Len(q) - k) /\ i + 1 \in 1..Len(q) BY <1>1, <2>2
    <3>2. c[i] = q[k + (i - (k - 1))] BY <1>3, <1>4, <2>2, <3>1
    <3>3. k + (i - (k - 1)) = i + 1 BY <1>1, <2>2
    <3> QED BY <1>1, <3>1, <3>2, <3>3 DEF Range
  <2> QED BY <1>1, <1>4, <2>1, <2>2
<1>7. Range(c) \subseteq Range(q) BY <1>6 DEF Range
<1> QED BY <1>4, <1>5, <1>7

-----------------------------------------------------------------------------
(* RouteTimer: entries, waits and delays *)

\* The parts of an entry.
LEMMA EntryFacts ==
  ASSUME NEW e \in Entry
  PROVE  /\ e.id \in Periodic \cup Dest \cup Peer /\ e.n \in 0..RREQ_RETRIES
         /\ e.age \in 0..Traversals /\ e.left \in Int
BY DEF Entry

\* The traversals and the bound on lateness are numbers.
LEMMA TimerNumbers ==
  /\ Interval \in Nat \ {0} /\ NeighWait \in Nat \ {0} /\ Net \in Nat \ {0}
  /\ Horizon \in Nat \ {0} /\ Epoch \in Nat /\ RREQ_RETRIES \in Nat
  /\ Traversals \in Nat
<1>1. /\ Interval \in Nat \ {0} /\ NeighWait \in Nat \ {0} /\ Net \in Nat \ {0}
      /\ Horizon \in Nat \ {0} /\ Epoch \in Nat /\ RREQ_RETRIES \in Nat
  BY TimerAssumption
<1>2. Traversals \in Nat BY <1>1 DEF Traversals
<1> QED BY <1>1, <1>2

\* What C makes of 2 ^ k, and that the waits add up.
LEMMA XorFacts ==
  ASSUME NEW k \in Nat
  PROVE  /\ Xor2(k) \in Nat /\ Paid(k) \in Nat
         /\ Paid(k) + Xor2(k) >= Paid(k + 1)
         /\ Paid(k) >= k
<1>1. Xor2(k) \in {k + 2, k - 2} BY DEF Xor2
<1>2. k \in {0, 1} => Xor2(k) = k + 2 BY DEF Xor2
<1>3. k >= 3 => Xor2(k) >= 1 BY <1>1
<1>4. Xor2(k) \in Nat BY <1>1, <1>2
<1> QED BY <1>2, <1>3, <1>4 DEF Paid

\* A wait is a number, and long enough for the RREQ it follows.
LEMMA WaitFacts ==
  ASSUME NEW id \in Periodic \cup Dest \cup Peer, NEW n \in 0..RREQ_RETRIES
  PROVE  /\ Wait(id, n) \in Nat
         /\ id \in Dest => Wait(id, n) = Xor2(RREQ_RETRIES - n) * Net
<1>1. Xor2(RREQ_RETRIES - n) \in Nat BY TimerNumbers, XorFacts
<1>2. Xor2(RREQ_RETRIES - n) * Net \in Nat BY <1>1, TimerNumbers
<1>3. CASE id \in Periodic
  BY <1>3, TimerNumbers, TimerAssumption DEF Wait, Periodic
<1>4. CASE id \in Dest
  BY <1>2, <1>4, TimerAssumption DEF Wait, Periodic
<1>5. CASE id \in Peer
  BY <1>5, TimerNumbers, TimerAssumption DEF Wait, Periodic
<1> QED BY <1>3, <1>4, <1>5

\* When the kernel timer runs.
LEMMA DelayFacts ==
  ASSUME NEW left \in Int
  PROVE  /\ Delay(left) \in 1..Horizon
         /\ Epoch >= Horizon => Delay(left) = 1
BY TimerNumbers DEF Delay, Max2

LEMMA ExpiryFacts ==
  ASSUME NEW l \in Seq(Entry)
  PROVE  /\ Expiry(l) \subseteq 1..Horizon
         /\ Epoch >= Horizon => Expiry(l) \subseteq {1}
<1>1. l # <<>> => Head(l).left \in Int BY EntryFacts
<1> QED BY <1>1, DelayFacts DEF Expiry

\* The timer for the next RREQ of a discovery is on schedule, if the one
\* before was; that of the first one is.
LEMMA Scheduled ==
  ASSUME NEW d \in Dest, NEW n \in 0..RREQ_RETRIES, NEW age \in 0..Traversals,
         \/ age = Traversals
         \/ age >= Paid(RREQ_RETRIES - n) * Net
  PROVE  OnSchedule([id |-> d, n |-> n, age |-> age, left |-> Wait(d, n)])
<1> DEFINE k == RREQ_RETRIES - n
           e == [id |-> d, n |-> n, age |-> age, left |-> Wait(d, n)]
<1>1. k \in Nat BY TimerNumbers
<1>2. e.id = d /\ e.age = age /\ e.left = Xor2(k) * Net /\ Sent(e) = k + 1
  BY WaitFacts DEF Sent
<1>3. /\ Xor2(k) \in Nat /\ Paid(k) \in Nat /\ Paid(k + 1) \in Nat
      /\ Paid(k) + Xor2(k) >= Paid(k + 1)
  BY <1>1, XorFacts
<1>4. \A a, b, c, m \in Nat : a + b >= c => a * m + b * m >= c * m
  <2> SUFFICES ASSUME NEW a \in Nat, NEW b \in Nat, NEW c \in Nat, NEW m \in Nat,
                      a + b >= c
               PROVE  a * m + b * m >= c * m
    OBVIOUS
  <2>1. PICK x \in Nat : a + b = c + x
    <3> WITNESS (a + b) - c \in Nat
    <3> QED OBVIOUS
  <2>2. (a + b) * m = c * m + x * m BY <2>1
  <2>3. x * m \in Nat /\ (a + b) * m = a * m + b * m OBVIOUS
  <2> QED BY <2>2, <2>3
<1>5. Paid(k) * Net + Xor2(k) * Net >= Paid(k + 1) * Net BY <1>3, <1>4, TimerNumbers
<1>6. Paid(k) * Net \in Nat /\ Xor2(k) * Net \in Nat /\ Paid(k + 1) * Net \in Nat
  BY <1>3, TimerNumbers
<1>7. age = Traversals \/ age + Xor2(k) * Net >= Paid(k + 1) * Net
  BY <1>5, <1>6, TimerNumbers
<1> HIDE DEF k, e
<1>8. OnSchedule(e) BY <1>2, <1>7 DEF OnSchedule
<1> QED BY <1>8 DEF e

-----------------------------------------------------------------------------
(* RouteTimer: what a step does to the lists *)

\* An insertion adds one timer at most.
LEMMA InsertFacts ==
  ASSUME TimerTypeOK, NEW id \in Periodic \cup Dest \cup Peer,
         NEW n \in 0..RREQ_RETRIES, NEW age \in 0..Traversals,
         Insert(id, n, age)
  PROVE  /\ list' \in Seq(Entry) /\ armed' \in 1..Horizon
         /\ Range(list') \subseteq Range(list) \cup
              {[id |-> id, n |-> n, age |-> age, left |-> Wait(id, n)]}
         /\ Epoch >= Horizon => armed' = 1
<1> DEFINE e == [id |-> id, n |-> n, age |-> age, left |-> Wait(id, n)]
<1>1. e \in Entry BY WaitFacts DEF Entry
<1>2. list' = list \/ list' = <<e>> \o list BY DEF Insert, Enqueue
<1> HIDE DEF e
<1>3. /\ <<e>> \o list \in Seq(Entry) /\ list \in Seq(Entry)
      /\ Range(<<e>> \o list) \subseteq Range(list) \cup {e}
  BY <1>1, RangeCons, ZenonT(30) DEF TimerTypeOK
<1>4. list' \in Seq(Entry) /\ Range(list') \subseteq Range(list) \cup {e}
  BY <1>2, <1>3, ZenonT(30)
<1>5. armed' \in Expiry(list') BY DEF Insert
<1>6. /\ Expiry(list') \subseteq 1..Horizon
      /\ Epoch >= Horizon => Expiry(list') \subseteq {1}
  BY <1>4, ExpiryFacts
<1> QED BY <1>4, <1>5, <1>6 DEF e

\* What a handler inserts, if anything.
LEMMA HandleFacts ==
  ASSUME TimerTypeOK, NEW t \in Entry, Handle(t)
  PROVE  \/ Insert(t.id, 0, 0) /\ t.id \in Periodic
         \/ Insert(t.id, t.n - 1, t.age) /\ t.id \in Dest /\ t.n > 0
         \/ list' = list /\ armed' \in Expiry(list) \cup {armed}
<1>1. t.id \in Periodic \cup Dest \cup Peer BY EntryFacts
<1>2. CASE t.id \in Periodic BY <1>2, TimerAssumption, ZenonT(30) DEF Handle, Periodic
<1>3. CASE t.id \in Dest BY <1>3, TimerAssumption, ZenonT(30) DEF Handle, Periodic
<1>4. CASE t.id \in Peer BY <1>4, TimerAssumption, ZenonT(30) DEF Handle, Periodic
<1> QED BY <1>1, <1>2, <1>3, <1>4

\* An entry grows older.
LEMMA OlderFacts ==
  ASSUME NEW e \in Entry
  PROVE  /\ Older(e) \in Entry /\ Older(e).id = e.id /\ Older(e).n = e.n
         /\ Older(e).left \in Int /\ Older(e).left >= e.left - 1
         /\ Older(e).age =
              IF e.id \in Dest /\ e.age < Traversals THEN e.age + 1 ELSE e.age
<1> DEFINE f == [e EXCEPT !.left = Max2(e.left - 1, -Late)]
           age == IF e.id \in Dest /\ e.age < Traversals THEN e.age + 1 ELSE e.age
<1>1. Max2(e.left - 1, -Late) \in Int /\ Max2(e.left - 1, -Late) >= e.left - 1
  BY EntryFacts DEF Max2, Late
<1>2. /\ f \in Entry /\ f.id = e.id /\ f.n = e.n /\ f.age = e.age
      /\ f.left = Max2(e.left - 1, -Late)
  BY <1>1 DEF Entry
<1>3. Older(e) = [f EXCEPT !.age = age] BY DEF Older, Entry
<1>4. age \in 0..Traversals BY EntryFacts, TimerNumbers
<1> HIDE DEF f, age
<1>5. /\ Older(e) \in Entry /\ Older(e).id = f.id /\ Older(e).n = f.n
      /\ Older(e).left = f.left /\ Older(e).age = age
  BY <1>2, <1>3, <1>4 DEF Entry
<1> QED BY <1>1, <1>2, <1>5 DEF age

\* So does the list.
LEMMA TickFacts ==
  ASSUME TimerTypeOK, Tick
  PROVE  /\ list' \in Seq(Entry)
         /\ \A x \in Range(list') : \E e \in Range(list) : x = Older(e)
<1>1. list \in Seq(Entry) /\ Len(list) \in Nat /\ DOMAIN list = 1..Len(list)
  BY DEF TimerTypeOK
<1>2. list' = [i \in 1..Len(list) |-> Older(list[i])] BY <1>1 DEF Tick
<1>3. \A i \in 1..Len(list) : Older(list[i]) \in Entry BY <1>1, OlderFacts
<1>4. list' \in Seq(Entry) BY <1>1, <1>2, <1>3
<1>5. \A x \in Range(list') : \E i \in 1..Len(list) : x = Older(list[i])
  BY <1>2 DEF Range
<1> QED BY <1>1, <1>4, <1>5, ZenonT(30) DEF Range

-----------------------------------------------------------------------------
(* RouteTimer: types *)

LEMMA TimerInitType == TimerInit => TimerTypeOK
<1> SUFFICES ASSUME TimerInit PROVE TimerTypeOK OBVIOUS
<1> DEFINE c == [id |-> "CLEANUP", n |-> 0, age |-> 0, left |-> Interval]
           h == [id |-> "HELLO", n |-> 0, age |-> 0, left |-> Interval]
<1>1. c \in Entry /\ h \in Entry BY TimerNumbers DEF Entry, Periodic
<1>2. list = <<c, h>> /\ tasks = <<>> BY DEF TimerInit
<1> HIDE DEF c, h
<1>3. list \in Seq(Entry) BY <1>1, <1>2
<1>4. armed \in 1..Horizon BY <1>3, ExpiryFacts, ZenonT(30) DEF TimerInit
<1> QED BY <1>2, <1>3, <1>4, TimerNumbers DEF TimerInit, TimerTypeOK

LEMMA TimerNextType == TimerTypeOK /\ [TimerNext]_timerVars => TimerTypeOK'
<1> SUFFICES ASSUME TimerTypeOK, [TimerNext]_timerVars PROVE TimerTypeOK' OBVIOUS
<1>1. /\ list \in Seq(Entry) /\ tasks \in Seq(Entry) /\ armed \in 0..Horizon
      /\ 0 \in 0..RREQ_RETRIES /\ RREQ_RETRIES \in 0..RREQ_RETRIES /\ 0 \in 0..Traversals
      /\ 1..Horizon \subseteq 0..Horizon
  BY TimerNumbers DEF TimerTypeOK
<1>0. thread' \in {"awake", "leaving", "asleep"}
  BY DEF TimerTypeOK, TimerNext, timerVars, Request, RxHello, RxReply, Signal,
         SignalOne, SignalEnd, Run, Sleep, Wake, Tick
<1> SUFFICES list' \in Seq(Entry) /\ tasks' \in Seq(Entry) /\ armed' \in 0..Horizon
  BY <1>0 DEF TimerTypeOK
<1> DEFINE Typed == list' \in Seq(Entry) /\ tasks' \in Seq(Entry) /\ armed' \in 0..Horizon
<1>2. CASE UNCHANGED <<list, armed, tasks>> BY <1>1, <1>2
<1>3. ASSUME NEW d \in Dest, Request(d) PROVE Typed
  BY <1>1, <1>3, InsertFacts DEF Request
<1>4. ASSUME NEW p \in Peer, RxHello(p) PROVE Typed
  BY <1>1, <1>4, InsertFacts DEF RxHello
<1>5. CASE RxReply BY <1>1, <1>5, ExpiryFacts DEF RxReply
<1>6. CASE SignalOne
  <2>1. PICK i \in DOMAIN list : tasks' = Append(tasks, list[i]) /\ list' = LIST_DEL(list, i)
    BY <1>6 DEF SignalOne
  <2>2. list[i] \in Entry BY <1>1
  <2>3. tasks' \in Seq(Entry) /\ list' \in Seq(Entry)
    BY <1>1, <2>1, <2>2, RangeRemove
  <2> QED BY <1>1, <1>6, <2>3 DEF SignalOne
<1>7. CASE SignalEnd BY <1>1, <1>7, ExpiryFacts DEF SignalEnd
<1>8. CASE Run
  <2>1. Head(tasks) \in Entry /\ tasks' \in Seq(Entry) /\ Handle(Head(tasks))
    BY <1>1, <1>8, RangeTail DEF Run
  <2>2. /\ Head(tasks).id \in Periodic \cup Dest \cup Peer
        /\ Head(tasks).n > 0 => Head(tasks).n - 1 \in 0..RREQ_RETRIES
        /\ Head(tasks).age \in 0..Traversals
    BY <2>1, EntryFacts, TimerNumbers
  <2>3. list' \in Seq(Entry) /\ armed' \in 0..Horizon
    BY <1>1, <2>1, <2>2, HandleFacts, InsertFacts, ExpiryFacts
  <2> QED BY <2>1, <2>3
<1>9. CASE Tick
  <2>1. armed' \in 0..Horizon BY <1>1, <1>9, TimerNumbers DEF Tick
  <2> QED BY <1>1, <1>9, <2>1, TickFacts DEF Tick
<1> QED BY <1>2, <1>3, <1>4, <1>5, <1>6, <1>7, <1>8, <1>9
        DEF TimerNext, Signal, Sleep, Wake, timerVars

-----------------------------------------------------------------------------
(* RouteTimer: a discovery is not given up early *)

\* Nothing but HELLO and CLEANUP is there at the start.
LEMMA TimerInitInv == TimerInit => TimerInv
<1> SUFFICES ASSUME TimerInit PROVE TimerInv OBVIOUS
<1>1. TimerTypeOK BY TimerInitType
<1>2. Range(tasks) = {} BY DEF TimerInit, Range
<1>3. ASSUME NEW e \in Range(list) PROVE OnSchedule(e)
  <2>1. e.id \in Periodic BY DEF TimerInit, Range, Periodic
  <2> QED BY <2>1, TimerAssumption DEF OnSchedule, Periodic
<1> QED BY <1>1, <1>2, <1>3 DEF TimerInv

\* A timer that is due has waited.
LEMMA DueWaited ==
  ASSUME NEW e \in Entry, OnSchedule(e), Due(e)
  PROVE  Waited(e)
<1>1. Paid(Sent(e)) * Net \in Int
  <2>1. Sent(e) \in Nat BY EntryFacts, TimerNumbers DEF Sent
  <2>2. Paid(Sent(e)) \in Nat BY <2>1, XorFacts
  <2> QED BY <2>2, TimerNumbers
<1> QED BY <1>1, EntryFacts, TimerNumbers DEF OnSchedule, Due, Waited

\* A jiffy off the time to go is a jiffy on the age.
LEMMA OlderOnSchedule ==
  ASSUME NEW e \in Entry, OnSchedule(e)
  PROVE  OnSchedule(Older(e))
<1>1. Sent(Older(e)) = Sent(e) BY OlderFacts DEF Sent
<1>2. Paid(Sent(e)) * Net \in Int
  <2>1. Sent(e) \in Nat BY EntryFacts, TimerNumbers DEF Sent
  <2>2. Paid(Sent(e)) \in Nat BY <2>1, XorFacts
  <2> QED BY <2>2, TimerNumbers
<1>3. /\ e.age \in 0..Traversals /\ e.left \in Int /\ Older(e).left \in Int
      /\ Older(e).left >= e.left - 1 /\ Older(e).id = e.id
      /\ Older(e).age = IF e.id \in Dest /\ e.age < Traversals THEN e.age + 1 ELSE e.age
  BY EntryFacts, OlderFacts
<1> QED BY <1>1, <1>2, <1>3, TimerNumbers DEF OnSchedule

\* A timer that no discovery has set.
LEMMA Unscheduled ==
  ASSUME NEW id \in Periodic \cup Peer, NEW n, NEW age, NEW left
  PROVE  OnSchedule([id |-> id, n |-> n, age |-> age, left |-> left])
BY TimerAssumption DEF OnSchedule, Periodic

LEMMA TimerNextInv == TimerInv /\ [TimerNext]_timerVars => TimerInv'
<1> SUFFICES ASSUME TimerInv, [TimerNext]_timerVars PROVE TimerInv' OBVIOUS
<1>1. TimerTypeOK' BY TimerNextType DEF TimerInv
<1>2. /\ TimerTypeOK /\ list \in Seq(Entry) /\ tasks \in Seq(Entry)
      /\ Range(list) \subseteq Entry /\ Range(tasks) \subseteq Entry
      /\ \A e \in Range(list) : OnSchedule(e)
      /\ \A t \in Range(tasks) : Waited(t)
      /\ 0 \in 0..RREQ_RETRIES /\ RREQ_RETRIES \in 0..RREQ_RETRIES /\ 0 \in 0..Traversals
  BY RangeType, TimerNumbers DEF TimerInv, TimerTypeOK
<1> SUFFICES /\ \A e \in Range(list') : OnSchedule(e)
             /\ \A t \in Range(tasks') : Waited(t)
  BY <1>1 DEF TimerInv
<1>3. CASE UNCHANGED <<list, tasks>> BY <1>2, <1>3
<1>4. ASSUME NEW d \in Dest, Request(d)
      PROVE  /\ \A e \in Range(list') : OnSchedule(e)
             /\ \A t \in Range(tasks') : Waited(t)
  <2>1. 0 >= Paid(RREQ_RETRIES - RREQ_RETRIES) * Net BY TimerNumbers DEF Paid
  <2>2. OnSchedule([id |-> d, n |-> RREQ_RETRIES, age |-> 0, left |-> Wait(d, RREQ_RETRIES)])
    BY <1>2, <2>1, Scheduled
  <2>3. Range(list') \subseteq Range(list) \cup
          {[id |-> d, n |-> RREQ_RETRIES, age |-> 0, left |-> Wait(d, RREQ_RETRIES)]}
    BY <1>2, <1>4, InsertFacts DEF Request
  <2> QED BY <1>2, <1>4, <2>2, <2>3 DEF Request
<1>5. ASSUME NEW p \in Peer, RxHello(p)
      PROVE  /\ \A e \in Range(list') : OnSchedule(e)
             /\ \A t \in Range(tasks') : Waited(t)
  <2>1. OnSchedule([id |-> p, n |-> 0, age |-> 0, left |-> Wait(p, 0)])
    BY Unscheduled
  <2>2. Range(list') \subseteq Range(list) \cup
          {[id |-> p, n |-> 0, age |-> 0, left |-> Wait(p, 0)]}
    BY <1>2, <1>5, InsertFacts DEF RxHello
  <2> QED BY <1>2, <1>5, <2>1, <2>2 DEF RxHello
<1>6. CASE SignalOne
  <2>1. PICK i \in DOMAIN list :
          FirstDue(i) /\ tasks' = Append(tasks, list[i]) /\ list' = LIST_DEL(list, i)
    BY <1>6 DEF SignalOne
  <2>2. list[i] \in Entry /\ list[i] \in Range(list) BY <1>2, RangeType
  <2>3. Waited(list[i]) BY <1>2, <2>1, <2>2, DueWaited DEF FirstDue
  <2>4. Range(list') \subseteq Range(list) BY <1>2, <2>1, RangeRemove
  <2>5. Range(tasks') \subseteq Range(tasks) \cup {list[i]}
    BY <1>2, <2>1, <2>2, RangeAppend
  <2> QED BY <1>2, <2>3, <2>4, <2>5
<1>7. CASE Run
  <2> DEFINE t == Head(tasks)
  <2>1. tasks # <<>> /\ tasks' = Tail(tasks) /\ Handle(t) BY <1>7 DEF Run
  <2>2. t \in Entry /\ t \in Range(tasks) /\ Range(tasks') \subseteq Range(tasks)
    BY <1>2, <2>1, RangeTail
  <2>3. /\ t.id \in Periodic \cup Dest \cup Peer /\ t.n \in 0..RREQ_RETRIES
        /\ t.n > 0 => t.n - 1 \in 0..RREQ_RETRIES
        /\ t.age \in 0..Traversals /\ Waited(t)
    BY <1>2, <2>2, EntryFacts, TimerNumbers
  <2> HIDE DEF t
  <2>4. CASE Insert(t.id, 0, 0) /\ t.id \in Periodic
    <3>1. OnSchedule([id |-> t.id, n |-> 0, age |-> 0, left |-> Wait(t.id, 0)])
      BY <2>4, Unscheduled
    <3>2. Range(list') \subseteq Range(list) \cup
            {[id |-> t.id, n |-> 0, age |-> 0, left |-> Wait(t.id, 0)]}
      BY <1>2, <2>3, <2>4, InsertFacts
    <3> QED BY <1>2, <2>2, <3>1, <3>2
  <2>5. CASE Insert(t.id, t.n - 1, t.age) /\ t.id \in Dest /\ t.n > 0
    <3>1. RREQ_RETRIES - (t.n - 1) = Sent(t) BY <2>3, TimerNumbers DEF Sent
    <3>2. t.age = Traversals \/ t.age >= Paid(RREQ_RETRIES - (t.n - 1)) * Net
      BY <2>3, <2>5, <3>1 DEF Waited
    <3>3. OnSchedule([id |-> t.id, n |-> t.n - 1, age |-> t.age, left |-> Wait(t.id, t.n - 1)])
      BY <2>3, <2>5, <3>2, Scheduled
    <3>4. Range(list') \subseteq Range(list) \cup
            {[id |-> t.id, n |-> t.n - 1, age |-> t.age, left |-> Wait(t.id, t.n - 1)]}
      BY <1>2, <2>3, <2>5, InsertFacts
    <3> QED BY <1>2, <2>2, <3>3, <3>4
  <2>6. CASE list' = list BY <1>2, <2>2, <2>6
  <2> QED BY <1>2, <2>1, <2>2, <2>4, <2>5, <2>6, HandleFacts
<1>8. CASE Tick
  <2>1. \A x \in Range(list') : \E e \in Range(list) : x = Older(e)
    BY <1>2, <1>8, TickFacts
  <2>2. \A e \in Range(list) : OnSchedule(Older(e)) BY <1>2, OlderOnSchedule
  <2> QED BY <1>2, <1>8, <2>1, <2>2 DEF Tick
<1> QED BY <1>3, <1>4, <1>5, <1>6, <1>7, <1>8
        DEF TimerNext, Signal, SignalEnd, RxReply, Sleep, Wake, timerVars

\* The timer list and the task queue hold timers of known kinds, and the
\* kernel timer is never set beyond the horizon.
THEOREM TimersTypeCorrect == TimerSpec => []TimerTypeOK
BY TimerInitType, TimerNextType, PTL DEF TimerSpec

\* Whatever sets the kernel timer anew in between, and however often a
\* discovery's timer is found in the list already, a RESEND task without
\* retries comes no earlier than one NET_TRAVERSAL_TIME for each RREQ sent,
\* for every number of retries: the waits are 2 XOR 0, 2 XOR 1, ..., of which
\* one is nothing (_route_timer_insert_request, _engine_resend_request).
THEOREM DiscoveriesPatient == TimerSpec => []NotGivenUpEarly
<1>1. TimerInv => NotGivenUpEarly
  <2> SUFFICES ASSUME TimerInv, NEW i \in DOMAIN tasks,
                      tasks[i].id \in Dest, tasks[i].n = 0
               PROVE  tasks[i].age = Traversals
    BY DEF NotGivenUpEarly
  <2> DEFINE t == tasks[i]
  <2>1. t \in Entry /\ Waited(t) BY RangeType DEF TimerInv, TimerTypeOK
  <2>2. Sent(t) = RREQ_RETRIES + 1 /\ Sent(t) \in Nat BY TimerNumbers DEF Sent
  <2>3. Paid(Sent(t)) \in Nat /\ Paid(Sent(t)) >= RREQ_RETRIES + 1 BY <2>2, XorFacts
  <2>4. \A a, b, m \in Nat : a >= b => a * m >= b * m
    <3> SUFFICES ASSUME NEW a \in Nat, NEW b \in Nat, NEW m \in Nat, a >= b
                 PROVE  a * m >= b * m
      OBVIOUS
    <3>1. PICK x \in Nat : a = b + x
      <4> WITNESS a - b \in Nat
      <4> QED OBVIOUS
    <3>2. a * m = b * m + x * m /\ x * m \in Nat /\ b * m \in Nat BY <3>1
    <3> QED BY <3>2
  <2>5. Paid(Sent(t)) * Net >= Traversals /\ Paid(Sent(t)) * Net \in Nat
    BY <2>3, <2>4, TimerNumbers DEF Traversals
  <2> QED BY <2>1, <2>5, EntryFacts, TimerNumbers DEF Waited
<1> QED BY <1>1, TimerInitInv, TimerNextInv, PTL DEF TimerSpec

-----------------------------------------------------------------------------
(* RouteTimer: timers are served on time *)

LEMMA InitPrompt ==
  ASSUME Epoch >= Horizon
  PROVE  TimerInit => Prompt
<1> SUFFICES ASSUME TimerInit PROVE Prompt OBVIOUS
<1>1. TimerTypeOK BY TimerInitType
<1>2. armed = 1 BY <1>1, ExpiryFacts, ZenonT(30) DEF TimerInit, TimerTypeOK
<1>3. \A e \in Range(list) : e.left = Interval BY DEF TimerInit, Range
<1> QED BY <1>2, <1>3, TimerNumbers DEF Prompt

LEMMA NextPrompt ==
  ASSUME Epoch >= Horizon
  PROVE  TimerTypeOK /\ Prompt /\ [TimerNext]_timerVars => Prompt'
<1> SUFFICES ASSUME TimerTypeOK, Prompt, [TimerNext]_timerVars PROVE Prompt' OBVIOUS
<1>1. /\ list \in Seq(Entry) /\ tasks \in Seq(Entry) /\ Range(list) \subseteq Entry
      /\ armed \in {0, 1} /\ \A e \in Range(list) : e.left \in Int /\ e.left >= armed - 1
      /\ 0 \in 0..RREQ_RETRIES /\ RREQ_RETRIES \in 0..RREQ_RETRIES /\ 0 \in 0..Traversals
      /\ Expiry(list) \subseteq {1}
  BY RangeType, EntryFacts, ExpiryFacts, TimerNumbers DEF TimerTypeOK, Prompt
<1>2. ASSUME NEW id \in Periodic \cup Dest \cup Peer, NEW n \in 0..RREQ_RETRIES,
             NEW age \in 0..Traversals, Insert(id, n, age), armed # 0
      PROVE  Prompt'
  <2> DEFINE e == [id |-> id, n |-> n, age |-> age, left |-> Wait(id, n)]
  <2>1. armed' = 1 /\ armed = 1 BY <1>1, <1>2, InsertFacts
  <2>2. Range(list') \subseteq Range(list) \cup {e} BY <1>2, InsertFacts
  <2>3. e.left \in Nat BY WaitFacts
  <2> HIDE DEF e
  <2> QED BY <1>1, <2>1, <2>2, <2>3 DEF Prompt
<1>3. CASE UNCHANGED <<list, armed>> BY <1>3 DEF Prompt
<1>4. CASE \E d \in Dest : Request(d) BY <1>1, <1>2, <1>4 DEF Request
<1>5. CASE \E p \in Peer : RxHello(p) BY <1>1, <1>2, <1>5 DEF RxHello
<1>6. CASE RxReply BY <1>1, <1>6 DEF RxReply, Prompt
<1>7. CASE SignalOne
  <2>1. PICK i \in DOMAIN list : list' = LIST_DEL(list, i) BY <1>7 DEF SignalOne
  <2>2. Range(list') \subseteq Range(list) BY <1>1, <2>1, RangeRemove
  <2> QED BY <1>1, <1>7, <2>2 DEF SignalOne, Prompt
<1>8. CASE SignalEnd
  <2>1. armed' = 1 /\ list' = list BY <1>1, <1>8 DEF SignalEnd
  <2>2. \A e \in Range(list) : ~Due(e) BY <1>8 DEF SignalEnd, Range
  <2>3. \A e \in Range(list) : e.left >= 0 BY <1>1, <2>2 DEF Due
  <2> QED BY <2>1, <2>3 DEF Prompt
<1>9. CASE Run
  <2> DEFINE t == Head(tasks)
  <2>1. tasks # <<>> /\ armed # 0 /\ Handle(t) BY <1>9 DEF Run
  <2>2. t \in Entry BY <1>1, <2>1, RangeTail
  <2>3. /\ t.id \in Periodic \cup Dest \cup Peer
        /\ t.n > 0 => t.n - 1 \in 0..RREQ_RETRIES
        /\ t.age \in 0..Traversals
    BY <2>2, EntryFacts, TimerNumbers
  <2> HIDE DEF t
  <2>4. CASE Insert(t.id, 0, 0) BY <1>1, <1>2, <2>1, <2>3, <2>4
  <2>5. CASE Insert(t.id, t.n - 1, t.age) /\ t.n > 0 BY <1>1, <1>2, <2>1, <2>3, <2>5
  <2>6. CASE list' = list /\ armed' \in Expiry(list) \cup {armed}
    BY <1>1, <2>1, <2>6 DEF Prompt
  <2> QED BY <2>1, <2>2, <2>4, <2>5, <2>6, HandleFacts
<1>10. CASE Tick
  <2>1. armed = 1 /\ armed' = 0 BY <1>1, <1>10 DEF Tick
  <2>2. \A x \in Range(list') : \E e \in Range(list) : x = Older(e)
    BY <1>10, TickFacts
  <2>3. \A e \in Range(list) : Older(e).left \in Int /\ Older(e).left >= e.left - 1
    BY <1>1, OlderFacts
  <2> QED BY <1>1, <2>1, <2>2, <2>3 DEF Prompt
<1> QED BY <1>3, <1>4, <1>5, <1>6, <1>7, <1>8, <1>9, <1>10
        DEF TimerNext, Signal, Sleep, Wake, timerVars

\* If the wall clock was beyond the horizon when the module was loaded, as a
\* clock that is not in its first year is, every timer is served within a jiffy
\* of its time, although _route_timer_update sets the kernel timer for the
\* newest timer and adds the epoch to its delay: it then runs at every jiffy.
THEOREM TimersOnTime ==
  ASSUME Epoch >= Horizon
  PROVE  TimerSpec => []ServedOnTime
<1>1. TimerTypeOK /\ Prompt => ServedOnTime
  <2> SUFFICES ASSUME TimerTypeOK, Prompt, NEW i \in DOMAIN list PROVE list[i].left >= -1
    BY DEF ServedOnTime
  <2>1. list[i] \in Range(list) /\ list[i].left \in Int
    BY RangeType, EntryFacts DEF TimerTypeOK
  <2> QED BY <2>1 DEF Prompt
<1>2. TimerInit => Prompt BY InitPrompt
<1>3. TimerTypeOK /\ Prompt /\ [TimerNext]_timerVars => Prompt' BY NextPrompt
<1> QED BY <1>1, <1>2, <1>3, TimersTypeCorrect, PTL DEF TimerSpec
-----------------------------------------------------------------------------
(* SeqNum *)

Pdus == [seq : Numbers, lag : Lags]

Entries == [seq : Numbers, valid : BOOLEAN, life : 0..2, lag : Lags]

-----------------------------------------------------------------------------
(* Numbers that wrap *)

\* A lag that is known is a number far below half the range.
LEMMA LagFacts ==
  /\ Half \in Nat /\ Modulus \in Nat /\ Modulus = 2 * Half
  /\ MaxLag \in Nat /\ MaxLag + 2 <= Half
  /\ \A l \in Lags : l # Old => l \in 0..MaxLag
  /\ Old \in Lags /\ 0 \in Lags /\ 0 # Old
  /\ 1 \in Numbers
BY SeqAssumption DEF Modulus, Lags, Numbers

\* The next number is a number.
LEMMA PlusType == \A n \in Numbers : Plus(n, 1) \in Numbers
BY LagFacts DEF Plus, Numbers

\* A difference is a number.
LEMMA MinusType == \A a, b \in Numbers : Minus(a, b) \in Numbers
BY LagFacts DEF Minus, Numbers

\* A node that counts on by k leaves every number k further behind.
LEMMA MinusAdds ==
  ASSUME NEW a \in Numbers, NEW n \in Numbers, NEW s \in Numbers,
         Minus(a, s) + Minus(n, a) < Modulus
  PROVE  Minus(n, s) = Minus(a, s) + Minus(n, a)
BY LagFacts DEF Minus, Numbers

\* The same for the number after the node's.
LEMMA MinusAddsNext ==
  ASSUME NEW a \in Numbers, NEW n \in Numbers, NEW s \in Numbers,
         Minus(Plus(a, 1), s) + Minus(n, a) < Modulus
  PROVE  Minus(Plus(n, 1), s) = Minus(Plus(a, 1), s) + Minus(n, a)
<1>1. Minus(Plus(n, 1), Plus(a, 1)) = Minus(n, a)
  BY LagFacts DEF Minus, Plus, Numbers
<1> QED BY <1>1, PlusType, MinusAdds

\* What is known to be older stays at its distance (Later).
LEMMA LaterFacts ==
  ASSUME NEW l \in Lags, NEW k \in Nat
  PROVE  /\ Later(l, k) \in Lags
         /\ Later(l, k) # Old => /\ l # Old /\ l \in Nat /\ l + k <= MaxLag
                                 /\ Later(l, k) = l + k
<1>1. CASE l = Old BY <1>1, LagFacts DEF Later
<1>2. CASE l # Old
  <2>1. l \in 0..MaxLag BY <1>2, LagFacts
  <2>2. CASE l + k > MaxLag BY <2>2, LagFacts DEF Later
  <2>3. CASE ~(l + k > MaxLag)
    BY <1>2, <2>1, <2>3, LagFacts DEF Later, Lags
  <2> QED BY <2>2, <2>3
<1> QED BY <1>1, <1>2

-----------------------------------------------------------------------------
(* The inductive invariant *)

\* An entry stands where its lag says; an expired one is one number ahead.
Placed(e) == Minus(IF e.valid THEN own ELSE Plus(own, 1), e.seq) = e.lag

Lagging ==
  /\ \A x \in air : x.lag # Old => Minus(own, x.seq) = x.lag
  /\ entry # None /\ entry.lag # Old => Placed(entry)

IInv == TypeOK /\ Lagging

\* Types and lags of PDUs and of the entry.
LEMMA IInvFacts ==
  ASSUME IInv
  PROVE  /\ own \in Numbers /\ air \subseteq Pdus
         /\ entry # None => entry \in Entries
BY DEF IInv, TypeOK, Pdus, Entries

\* What the invariant says of the comparison in _engine_route_update.
LEMMA Compared == IInv => ComparedTruly
<1> SUFFICES ASSUME IInv, entry # None, entry.lag # Old,
                    NEW x \in air, x.lag # Old
             PROVE  Refused(entry, x) <=> x.lag >= Behind(entry)
  BY DEF ComparedTruly
<1> DEFINE o == own
           s == entry.seq
           l == entry.lag
           v == entry.valid
           xs == x.seq
           xl == x.lag
<1>1. /\ o \in Numbers /\ s \in Numbers /\ l \in 0..MaxLag /\ v \in BOOLEAN
      /\ xs \in Numbers /\ xl \in 0..MaxLag
  BY IInvFacts, LagFacts DEF Pdus, Entries
<1>2. Minus(o, xs) = xl BY DEF IInv, Lagging
<1>3. Minus(IF v THEN o ELSE Plus(o, 1), s) = l
  BY DEF IInv, Lagging, Placed
<1>4. Refused(entry, x) <=> Minus(s, xs) < Half BY DEF Refused, seq_greater
<1>5. Behind(entry) = IF v THEN l ELSE l - 1 BY DEF Behind
<1> HIDE DEF o, s, l, v, xs, xl
<1>6. CASE v
  <2>1. Minus(s, xs) < Half <=> xl >= l
    BY <1>1, <1>2, <1>3, <1>6, LagFacts DEF Minus, Numbers
  <2> QED BY <1>4, <1>5, <1>6, <2>1 DEF xl
<1>7. CASE ~v
  <2>1. Minus(s, xs) < Half <=> xl >= l - 1
    BY <1>1, <1>2, <1>3, <1>7, LagFacts DEF Minus, Plus, Numbers
  <2> QED BY <1>4, <1>5, <1>7, <2>1 DEF xl
<1> QED BY <1>6, <1>7

-----------------------------------------------------------------------------
(* The node with the number *)

\* The node counts on.
LEMMA AdvanceStep ==
  ASSUME IInv, NEW n \in Numbers, Advance(n, {Pdu(n)}), asks' \subseteq Numbers
  PROVE  IInv'
<1> DEFINE k == Minus(n, own)
<1>1. /\ own' = n /\ resets' <= MaxResets
      /\ resets' = IF k <= 2 THEN resets ELSE resets + 1
      /\ air' = {[x EXCEPT !.lag = Later(@, k)] : x \in air} \cup {Pdu(n)}
      /\ entry' = IF entry = None THEN None
                  ELSE [entry EXCEPT !.lag = Later(@, k)]
  BY DEF Advance
<1>2. own \in Numbers /\ air \subseteq Pdus /\ (entry # None => entry \in Entries)
  BY IInvFacts
<1>3. k \in Nat /\ k \in Numbers BY <1>2, MinusType DEF Numbers
<1> HIDE DEF k
<1>4. ASSUME NEW y \in air'
      PROVE  y \in Pdus /\ (y.lag # Old => Minus(n, y.seq) = y.lag)
  <2>1. CASE y = Pdu(n)
    <3>1. y.seq = n /\ y.lag = 0 /\ y \in Pdus
      BY <2>1, LagFacts DEF Pdu, Pdus
    <3>2. Minus(n, n) = 0 BY LagFacts DEF Minus, Numbers
    <3> QED BY <3>1, <3>2
  <2>2. CASE y # Pdu(n)
    <3>1. PICK x \in air : y = [x EXCEPT !.lag = Later(@, k)]
      BY <1>1, <2>2
    <3>2. x \in Pdus BY <1>2
    <3>3. x.seq \in Numbers /\ x.lag \in Lags BY <3>2 DEF Pdus
    <3>4. y.seq = x.seq /\ y.lag = Later(x.lag, k) BY <3>1, <3>2 DEF Pdus
    <3>5. y \in Pdus BY <1>3, <3>1, <3>2, <3>3, LaterFacts DEF Pdus
    <3>6. ASSUME y.lag # Old PROVE Minus(n, y.seq) = y.lag
      <4>1. /\ x.lag # Old /\ x.lag \in Nat /\ x.lag + k <= MaxLag
            /\ y.lag = x.lag + k
        BY <1>3, <3>3, <3>4, <3>6, LaterFacts
      <4>2. Minus(own, x.seq) = x.lag BY <4>1 DEF IInv, Lagging
      <4>3. Minus(own, x.seq) + Minus(n, own) < Modulus
        BY <1>3, <4>1, <4>2, LagFacts DEF k
      <4>4. Minus(n, x.seq) = Minus(own, x.seq) + Minus(n, own)
        BY <1>2, <3>3, <4>3, MinusAdds
      <4> QED BY <3>4, <4>1, <4>2, <4>4 DEF k
    <3> QED BY <3>5, <3>6
  <2> QED BY <2>1, <2>2
<1>5. ASSUME entry' # None
      PROVE  entry' \in Entries /\ (entry'.lag # Old => Placed(entry)')
  <2>1. entry # None /\ entry' = [entry EXCEPT !.lag = Later(@, k)]
    BY <1>1, <1>5
  <2>2. entry \in Entries BY <1>2, <2>1
  <2>3. entry.seq \in Numbers /\ entry.lag \in Lags /\ entry.valid \in BOOLEAN
    BY <2>2 DEF Entries
  <2>4. /\ entry'.seq = entry.seq /\ entry'.valid = entry.valid
        /\ entry'.lag = Later(entry.lag, k)
    BY <2>1, <2>2 DEF Entries
  <2>5. entry' \in Entries BY <1>3, <2>1, <2>2, <2>3, LaterFacts DEF Entries
  <2>6. ASSUME entry'.lag # Old PROVE Placed(entry)'
    <3>1. /\ entry.lag # Old /\ entry.lag \in Nat /\ entry.lag + k <= MaxLag
          /\ entry'.lag = entry.lag + k
      BY <1>3, <2>3, <2>4, <2>6, LaterFacts
    <3>2. Placed(entry) BY <2>1, <3>1 DEF IInv, Lagging
    <3>3. CASE entry.valid
      <4>1. Minus(own, entry.seq) = entry.lag BY <3>2, <3>3 DEF Placed
      <4>2. Minus(own, entry.seq) + Minus(n, own) < Modulus
        BY <1>3, <3>1, <4>1, LagFacts DEF k
      <4>3. Minus(n, entry.seq) = Minus(own, entry.seq) + Minus(n, own)
        BY <1>2, <2>3, <4>2, MinusAdds
      <4> QED BY <1>1, <2>4, <3>1, <3>3, <4>1, <4>3 DEF Placed, k
    <3>4. CASE ~entry.valid
      <4>1. Minus(Plus(own, 1), entry.seq) = entry.lag
        BY <3>2, <3>4 DEF Placed
      <4>2. Minus(Plus(own, 1), entry.seq) + Minus(n, own) < Modulus
        BY <1>3, <3>1, <4>1, LagFacts DEF k
      <4>3. Minus(Plus(n, 1), entry.seq)
              = Minus(Plus(own, 1), entry.seq) + Minus(n, own)
        BY <1>2, <2>3, <4>2, MinusAddsNext
      <4> QED BY <1>1, <2>4, <3>1, <3>4, <4>1, <4>3 DEF Placed, k
    <3> QED BY <3>3, <3>4
  <2> QED BY <2>5, <2>6
<1>6. resets' \in 0..MaxResets BY <1>1, SeqAssumption DEF IInv, TypeOK
<1>7. TypeOK' BY <1>1, <1>4, <1>5, <1>6 DEF TypeOK, Pdus, Entries
<1>8. Lagging' BY <1>1, <1>4, <1>5 DEF Lagging
<1> QED BY <1>7, <1>8 DEF IInv

\* The node answers a request, with a number of its own or a newer one.
LEMMA ReplyStep ==
  ASSUME IInv, NEW n \in Numbers, Reply(n), asks' \subseteq Numbers
  PROVE  IInv'
<1> DEFINE s == IF seq_less_or_equal(own, n) THEN Plus(n, 1) ELSE own
<1>1. Advance(s, {Pdu(s)}) BY DEF Reply
<1>2. s \in Numbers BY IInvFacts, PlusType
<1> HIDE DEF s
<1> QED BY <1>1, <1>2, AdvanceStep

\* After a restart nothing is known of the numbers in the air.
LEMMA RestartStep == IInv /\ Restart => IInv'
<1> SUFFICES ASSUME IInv, Restart PROVE IInv' OBVIOUS
<1>1. /\ own' = 1 /\ resets' \in 0..MaxResets /\ asks' \subseteq Numbers
      /\ air' = {[x EXCEPT !.lag = Old] : x \in air}
      /\ entry' = IF entry = None THEN None ELSE [entry EXCEPT !.lag = Old]
  BY SeqAssumption DEF Restart, IInv, TypeOK
<1>2. air \subseteq Pdus /\ (entry # None => entry \in Entries) BY IInvFacts
<1>3. \A y \in air' : y \in Pdus /\ y.lag = Old
  BY <1>1, <1>2, LagFacts DEF Pdus
<1>4. entry' # None => entry' \in Entries /\ entry'.lag = Old
  BY <1>1, <1>2, LagFacts DEF Entries
<1>5. TypeOK' BY <1>1, <1>3, <1>4, LagFacts DEF TypeOK, Pdus, Entries
<1>6. Lagging' BY <1>3, <1>4 DEF Lagging
<1> QED BY <1>5, <1>6 DEF IInv

-----------------------------------------------------------------------------
(* The node with the entry *)

\* An entry that is as it should be.
Good(e) == e # None => e \in Entries /\ (e.lag # Old => Placed(e))

\* Only the entry changes, to another one that is as it should be.
LEMMA EntryStep ==
  ASSUME IInv, UNCHANGED <<own, resets>>, asks' \subseteq Numbers,
         air' \subseteq air, NEW e, Good(e), entry' = e
  PROVE  IInv'
<1>1. TypeOK' BY DEF IInv, TypeOK, Good, Entries
<1>2. Lagging' BY DEF IInv, Lagging, Good, Placed
<1> QED BY <1>1, <1>2 DEF IInv

\* The invariant as a statement about the entry.
LEMMA EntryGood == IInv => Good(entry)
BY DEF IInv, TypeOK, Lagging, Good, Entries

\* Expiry moves a valid entry one number ahead, and calls it invalid.
LEMMA ExpireGood ==
  ASSUME own \in Numbers, NEW e \in Entries, Good(e), e # None, e.valid
  PROVE  Good(route_expire(e))
<1> DEFINE f == route_expire(e)
<1>1. /\ e.seq \in Numbers /\ e.lag \in Lags
      /\ e.lag # Old => Minus(own, e.seq) = e.lag
  BY DEF Good, Placed, Entries
<1>2. /\ f.seq = Plus(e.seq, 1) /\ f.valid = FALSE /\ f.lag = e.lag
      /\ f \in Entries
  <2>1. Plus(e.seq, 1) \in Numbers /\ 2 \in 0..2 BY <1>1, PlusType
  <2> QED BY <1>1, <2>1, ZenonT(30) DEF route_expire, Entries
<1> HIDE DEF f
<1>3. Minus(Plus(own, 1), Plus(e.seq, 1)) = Minus(own, e.seq)
  BY <1>1, LagFacts DEF Minus, Plus, Numbers
<1>4. f.lag # Old => Placed(f) BY <1>1, <1>2, <1>3 DEF Placed
<1> QED BY <1>2, <1>4 DEF Good, f

\* Looking an entry up keeps it as it should be.
LEMMA FindGood ==
  ASSUME own \in Numbers, NEW e, Good(e)
  PROVE  Good(route_find(e))
<1>1. CASE e # None /\ e.valid /\ e.life = 0
  BY <1>1, ExpireGood DEF route_find, Good
<1>2. CASE ~(e # None /\ e.valid /\ e.life = 0) BY <1>2 DEF route_find
<1> QED BY <1>1, <1>2

\* A PDU is refused, or the entry becomes what the PDU says.
LEMMA ReceiveStep ==
  ASSUME IInv, NEW x \in air, Receive(x)
  PROVE  IInv'
<1> DEFINE e == route_find(entry)
           f == [seq |-> x.seq, valid |-> TRUE, life |-> 2, lag |-> x.lag]
<1>1. own \in Numbers /\ x \in Pdus /\ asks \subseteq Numbers
  BY IInvFacts DEF IInv, TypeOK
<1>2. Good(e) BY <1>1, EntryGood, FindGood
<1>3. Good(f)
  <2>1. f \in Entries BY <1>1 DEF Pdus, Entries
  <2>2. x.lag # Old => Minus(own, x.seq) = x.lag BY DEF IInv, Lagging
  <2>3. f.seq = x.seq /\ f.valid = TRUE /\ f.lag = x.lag OBVIOUS
  <2> HIDE DEF f
  <2> QED BY <2>1, <2>2, <2>3 DEF Good, Placed
<1>4. /\ air' \subseteq air /\ asks' \subseteq Numbers
      /\ UNCHANGED <<own, resets>> /\ (entry' = e \/ entry' = f)
  BY <1>1 DEF Receive, Updated
<1> HIDE DEF e, f
<1> QED BY <1>2, <1>3, <1>4, EntryStep

\* A request for the node takes the number of the entry along.
LEMMA AskStep == IInv /\ Ask => IInv'
<1> SUFFICES ASSUME IInv, Ask PROVE IInv' OBVIOUS
<1> DEFINE e == route_find(entry)
<1>1. own \in Numbers /\ asks \subseteq Numbers BY DEF IInv, TypeOK
<1>2. Good(e) BY <1>1, EntryGood, FindGood
<1>3. 0 \in Numbers BY LagFacts DEF Numbers
<1>4. entry # None => e.seq \in Numbers
  <2>1. entry # None => entry \in Entries BY IInvFacts
  <2>2. entry # None => entry.seq \in Numbers BY <2>1 DEF Entries
  <2>3. entry # None => route_expire(entry).seq = Plus(entry.seq, 1)
    BY <2>1 DEF route_expire, Entries
  <2> QED BY <2>2, <2>3, PlusType DEF route_find
<1>5. asks' \subseteq Numbers BY <1>1, <1>3, <1>4 DEF Ask
<1>6. entry' = e /\ UNCHANGED <<own, air, resets>> BY DEF Ask
<1> HIDE DEF e
<1> QED BY <1>2, <1>5, <1>6, EntryStep

\* The lifetime goes by or is renewed, and CLEANUP expires or frees the entry.
LEMMA LapseStep == IInv /\ (Lapse \/ Pass \/ route_flush) => IInv'
<1> SUFFICES ASSUME IInv, Lapse \/ Pass \/ route_flush PROVE IInv' OBVIOUS
<1>1. /\ own \in Numbers /\ asks \subseteq Numbers
      /\ UNCHANGED <<own, air, asks, resets>> /\ entry # None
  BY DEF IInv, TypeOK, Lapse, Pass, route_flush
<1>2. entry \in Entries /\ Good(entry) BY <1>1, IInvFacts, EntryGood
<1>3. CASE Lapse \/ Pass
  <2>0. PICK k \in 0..2 : entry' = [entry EXCEPT !.life = k]
    <3>1. entry.life \in 0..2 BY <1>2 DEF Entries
    <3>2. CASE Lapse
      <4>1. entry.life - 1 \in 0..2 BY <3>1, <3>2 DEF Lapse
      <4>2. entry' = [entry EXCEPT !.life = entry.life - 1] BY <3>2 DEF Lapse
      <4> QED BY <4>1, <4>2
    <3>3. CASE Pass
      <4>1. 2 \in 0..2 OBVIOUS
      <4> QED BY <3>3, <4>1 DEF Pass
    <3> QED BY <1>3, <3>2, <3>3
  <2> DEFINE f == [entry EXCEPT !.life = k]
  <2>1. /\ f \in Entries /\ f.seq = entry.seq /\ f.valid = entry.valid
        /\ f.lag = entry.lag
    BY <1>2, ZenonT(30) DEF Entries
  <2>2. entry' = f BY <2>0
  <2> HIDE DEF f
  <2>3. Good(f) BY <1>1, <1>2, <2>1 DEF Good, Placed
  <2> QED BY <1>1, <2>2, <2>3, EntryStep
<1>4. CASE entry' = None
  <2>1. Good(None) BY DEF Good
  <2> QED BY <1>1, <1>4, <2>1, EntryStep
<1>5. CASE entry.valid /\ entry' = route_expire(entry)
  <2>1. Good(route_expire(entry)) BY <1>1, <1>2, <1>5, ExpireGood
  <2> QED BY <1>1, <1>5, <2>1, EntryStep
<1> QED BY <1>3, <1>4, <1>5 DEF route_flush

\* PDUs and requests are lost.
LEMMA LoseStep == IInv /\ (Lose \/ UNCHANGED vars) => IInv'
<1> SUFFICES ASSUME IInv, Lose \/ UNCHANGED vars PROVE IInv' OBVIOUS
<1>1. UNCHANGED <<own, entry, resets>> BY DEF Lose, vars
<1>2. air' \subseteq air /\ asks' \subseteq asks BY DEF Lose, vars
<1>3. asks' \subseteq Numbers BY <1>2 DEF IInv, TypeOK
<1> QED BY <1>1, <1>2, <1>3, EntryGood, EntryStep

-----------------------------------------------------------------------------
(* Theorems *)

\* Every step of both nodes keeps the invariant.
LEMMA NextInv == IInv /\ [Next]_vars => IInv'
<1> SUFFICES ASSUME IInv, [Next]_vars PROVE IInv' OBVIOUS
<1>1. own \in Numbers /\ asks \subseteq Numbers BY DEF IInv, TypeOK
<1>2. CASE SendRequest
  <2>1. Plus(own, 1) \in Numbers BY <1>1, PlusType
  <2> QED BY <1>1, <1>2, <2>1, AdvanceStep DEF SendRequest
<1>3. CASE RxUnknown
  <2>1. 0 \in Numbers BY LagFacts DEF Numbers
  <2> QED BY <1>1, <1>3, <2>1, ReplyStep DEF RxUnknown
<1>4. ASSUME NEW n \in Numbers, RxRequest(n) PROVE IInv'
  <2>1. asks' \subseteq Numbers BY <1>1, <1>4 DEF RxRequest
  <2> QED BY <1>4, <2>1, ReplyStep DEF RxRequest
<1>5. CASE Restart BY <1>5, RestartStep
<1>6. CASE Ask BY <1>6, AskStep
<1>7. CASE Lapse \/ Pass \/ route_flush BY <1>7, LapseStep
<1>8. CASE Lose \/ UNCHANGED vars BY <1>8, LoseStep
<1>9. ASSUME NEW x \in air, Receive(x) PROVE IInv' BY <1>9, ReceiveStep
<1> QED BY <1>2, <1>3, <1>4, <1>5, <1>6, <1>7, <1>8, <1>9 DEF Next

\* The inductive invariant holds in every state.
LEMMA Invariance == Spec => []IInv
<1>1. Init => IInv
  BY LagFacts, SeqAssumption DEF Init, IInv, TypeOK, Lagging
<1> QED BY <1>1, NextInv, PTL DEF Spec

\* Numbers stay within their width, PDUs and the entry keep their types
\* (u_int32_t, mesh_route_t).
THEOREM NumbersTypeCorrect == Spec => []TypeOK
<1>1. IInv => TypeOK BY DEF IInv
<1> QED BY <1>1, Invariance, PTL

\* For numbers of any width, as long as nothing lags behind by half of their
\* range, _engine_route_update refuses exactly the PDUs that are not newer
\* than the entry, in the order in which the node has counted, over every wrap
\* (seq_greater, _route_expire, __request_should_be_reply).
THEOREM ComparisonTrue == Spec => []ComparedTruly
BY Compared, Invariance, PTL
=============================================================================
