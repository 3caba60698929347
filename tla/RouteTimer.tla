----------------------------- MODULE RouteTimer -----------------------------
(***************************************************************************)
(* The timer list of wireless/routes/maodv against the clock: when is the  *)
(* one kernel timer armed for, and is a timer served when its time comes?  *)
(* RouteTask has the list's interleavings and no time; here insertion and  *)
(* task are atomic, nothing comes between the rounds of the signal, and    *)
(* time is explicit.                                                       *)
(*                                                                         *)
(* Time is counted in jiffies and relative: "left" is the time to go of an *)
(* entry, negative when it is overdue.                                     *)
(***************************************************************************)
EXTENDS Integers, Sequences

CONSTANTS
  Dest,          \* timers of discoveries, by destination
  Peer,          \* timers of neighbours whose HELLOs are heard
  Interval,      \* HELLO_INTERVAL
  NeighWait,     \* HELLO_INTERVAL * (1 + ALLOWED_HELLO_LOSS) + 100
  Net,           \* NET_TRAVERSAL_TIME
  RREQ_RETRIES,
  Epoch,         \* engine->epoch: the wall clock when the module was loaded
  Horizon,       \* 2^31: a kernel timer that far ahead counts as expired
  MaxTasks       \* bound: waiting tasks at which no new work arrives

ASSUME TimerAssumption ==
  /\ {Interval, NeighWait, Net, Horizon, MaxTasks} \subseteq Nat \ {0}
  /\ RREQ_RETRIES \in Nat /\ Epoch \in Nat
  /\ {"HELLO", "CLEANUP"} \cap (Dest \cup Peer) = {} /\ Dest \cap Peer = {}

VARIABLES
  list,   \* engine->timers, head first
  armed,  \* time to go of the kernel timer engine->timer
  tasks,  \* engine->tasks, oldest first
  thread  \* aodv_kthread: "awake", "leaving" (on its way to sleep) or "asleep"

timerVars == <<list, armed, tasks, thread>>

Periodic == {"HELLO", "CLEANUP"}

\* One NET_TRAVERSAL_TIME for each RREQ of a discovery.
Traversals == (RREQ_RETRIES + 1) * Net

\* A timer and the task it becomes: n retries are left, and the first RREQ
\* was sent age jiffies ago (history, up to Traversals).
Entry == [id : Periodic \cup Dest \cup Peer, n : 0..RREQ_RETRIES,
          age : 0..Traversals, left : Int]

\* Bound: an entry that is this overdue is late enough.
Late == 2

Max2(a, b) == IF a > b THEN a ELSE b

-----------------------------------------------------------------------------
(* The list *)

\* 2 ^ k is XOR in C: the second bit of k is the other one.
Xor2(k) == IF (k \div 2) % 2 = 0 THEN k + 2 ELSE k - 2

\* Mutant of Wait: the factor NET_TRAVERSAL_TIME is left out.
WaitShort(id, n) ==
  CASE id \in Periodic -> Interval
    [] id \in Peer     -> NeighWait
    [] id \in Dest     -> Xor2(RREQ_RETRIES - n)

\* The delays of timer_insert and timer_insert_request.
Wait(id, n) ==
  CASE id \in Periodic -> Interval
    [] id \in Peer     -> NeighWait
    [] id \in Dest     -> Xor2(RREQ_RETRIES - n) * Net

InList(id) == \E i \in DOMAIN list : list[i].id = id

\* __route_timer_enqueue: at the head, unless one of its kind is there.
Enqueue(id, n, age) ==
  IF InList(id) THEN list
  ELSE <<[id |-> id, n |-> n, age |-> age, left |-> Wait(id, n)]>> \o list

\* Mutant of Delay: the epoch is not added.
DelayOfHead(left) == Max2(1, left)

\* _route_timer_update adds the epoch to the delay, in seconds.  __tvtojiffies
\* saturates, and what is beyond the horizon is past: the timer runs at the
\* next jiffy.
Delay(left) ==
  IF left < 0 \/ left + Epoch >= Horizon THEN 1 ELSE Max2(1, left + Epoch)

\* The kernel timer is set for the head of the list.  An empty list gives the
\* list head for an entry, whose time is whatever lies there.
Expiry(l) == {Delay(t) : t \in IF l = <<>> THEN {-1, 0} ELSE {Head(l).left}}

Insert(id, n, age) ==
  /\ list' = Enqueue(id, n, age)
  /\ armed' \in Expiry(list')

-----------------------------------------------------------------------------
(* Actions; the bottom half of an expired timer comes before anything else. *)

\* The output hook starts a discovery (_engine_send_request).
Request(d) ==
  /\ armed # 0 /\ Len(tasks) < MaxTasks
  /\ ~InList(d)
  /\ Insert(d, RREQ_RETRIES, 0)
  /\ UNCHANGED <<tasks, thread>>

\* A HELLO of a neighbour: timer_delete swaps type and id and finds nothing,
\* so the watch is not renewed, but the kernel timer is set anew.
RxHello(p) ==
  /\ armed # 0 /\ thread = "awake" /\ Len(tasks) < MaxTasks
  /\ Insert(p, 0, 0)
  /\ UNCHANGED <<tasks, thread>>

\* A RREP of a valid neighbour: again nothing is deleted, and the timer is set
\* anew.
RxReply ==
  /\ armed # 0 /\ thread = "awake" /\ Len(tasks) < MaxTasks
  /\ armed' \in Expiry(list)
  /\ UNCHANGED <<list, tasks, thread>>

Due(e) == e.left <= 0

\* ROUTE_LIST_DEL
LIST_DEL(l, i) == SubSeq(l, 1, i - 1) \o SubSeq(l, i + 1, Len(l))

\* __route_timer_first_due
FirstDue(i) == Due(list[i]) /\ \A j \in 1..(i - 1) : ~Due(list[j])

\* __route_timer_queue_signal: one after another, whatever is due becomes a
\* task; kick_aodv wakes nobody who is not yet asleep.
SignalOne ==
  /\ armed = 0
  /\ \E i \in DOMAIN list :
       /\ FirstDue(i)
       /\ tasks' = Append(tasks, list[i])
       /\ list' = LIST_DEL(list, i)
  /\ thread' = IF thread = "asleep" THEN "awake" ELSE thread
  /\ UNCHANGED armed

\* When nothing is due any more, the kernel timer is set anew.
SignalEnd ==
  /\ armed = 0
  /\ \A i \in DOMAIN list : ~Due(list[i])
  /\ armed' \in Expiry(list)
  /\ UNCHANGED <<list, tasks, thread>>

Signal == SignalOne \/ SignalEnd

\* Mutant of Handle: HELLO and CLEANUP do not start again.
HandleOnce(t) ==
  IF t.id \in Dest /\ t.n > 0 THEN Insert(t.id, t.n - 1, t.age)
  ELSE UNCHANGED <<list, armed>>

\* HELLO and CLEANUP insert themselves again, a RESEND asks again or gives
\* up, a neighbour that is still known is forgotten (neigh_delete).
Handle(t) ==
  CASE t.id \in Periodic -> Insert(t.id, 0, 0)
    [] t.id \in Dest     -> IF t.n > 0 THEN Insert(t.id, t.n - 1, t.age)
                            ELSE UNCHANGED <<list, armed>>
    [] t.id \in Peer     -> armed' \in Expiry(list) \cup {armed} /\ UNCHANGED list

\* The daemon handles a task.
Run ==
  /\ tasks # <<>> /\ armed # 0 /\ thread = "awake"
  /\ Handle(Head(tasks))
  /\ tasks' = Tail(tasks)
  /\ UNCHANGED thread

\* It finds no task and goes to sleep, whatever has come since it looked
\* (interruptible_sleep_on).
Sleep ==
  /\ armed # 0
  /\ \/ thread = "awake" /\ tasks = <<>> /\ thread' = "leaving"
     \/ thread = "leaving" /\ thread' = "asleep"
  /\ UNCHANGED <<list, armed, tasks>>

\* A PDU is queued, and wakes the daemon.
Wake ==
  /\ armed # 0 /\ thread = "asleep" /\ thread' = "awake"
  /\ UNCHANGED <<list, armed, tasks>>

Older(e) == [e EXCEPT !.left = Max2(@ - 1, -Late),
                      !.age = IF e.id \in Dest /\ @ < Traversals THEN @ + 1 ELSE @]

\* A jiffy passes; tasks do not age, their time has come.
Tick ==
  /\ armed # 0
  /\ armed' = armed - 1
  /\ list' = [i \in DOMAIN list |-> Older(list[i])]
  /\ UNCHANGED <<tasks, thread>>

\* route_register_device has inserted HELLO and CLEANUP.
TimerInit ==
  /\ list = <<[id |-> "CLEANUP", n |-> 0, age |-> 0, left |-> Interval],
              [id |-> "HELLO", n |-> 0, age |-> 0, left |-> Interval]>>
  /\ armed \in Expiry(list)
  /\ tasks = <<>> /\ thread = "leaving"

TimerNext ==
  \/ \E d \in Dest : Request(d)
  \/ \E p \in Peer : RxHello(p)
  \/ RxReply \/ Signal \/ Run \/ Sleep \/ Wake \/ Tick

\* The clock ticks, bottom halves run, and a daemon that is not asleep runs
\* again and again between them. No PDU need come.
TimerSpec ==
  /\ TimerInit /\ [][TimerNext]_timerVars
  /\ WF_timerVars(Tick) /\ WF_timerVars(Signal) /\ SF_timerVars(Run \/ Sleep)

-----------------------------------------------------------------------------
(* Properties *)

\* The kernel timer is set to at most the horizon, and the list has timers
\* of known kinds (route_task_t, __tvtojiffies).
TimerTypeOK ==
  /\ armed \in 0..Horizon
  /\ list \in Seq(Entry) /\ tasks \in Seq(Entry)
  /\ thread \in {"awake", "leaving", "asleep"}

\* A timer is served when its time comes, at most a jiffy later, although the
\* kernel timer is set for the newest timer and not for the earliest: "Set
\* the timer to the actual seconds / microseconds from now"
\* (_route_timer_update).
ServedOnTime == \A i \in DOMAIN list : list[i].left >= -1

\* A discovery is given up no earlier than a NET_TRAVERSAL_TIME for each of
\* its RREQs, although the waits are 2 XOR n (_route_timer_insert_request).
NotGivenUpEarly ==
  \A i \in DOMAIN tasks :
    tasks[i].id \in Dest /\ tasks[i].n = 0 => tasks[i].age = Traversals

\* HELLOs go out again and again, whatever HELLOs, RREPs and discoveries set
\* the kernel timer anew in between, provided that PDUs go on waking a daemon
\* that has missed the wake-up of its own timers (_engine_send_hello,
\* aodv_kthread).
HelloRepeats ==
  SF_timerVars(Wake) => []<><<Run /\ Head(tasks).id = "HELLO">>_timerVars
=============================================================================
