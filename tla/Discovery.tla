------------------------------ MODULE Discovery ------------------------------
(***************************************************************************)
(* Route discovery at one node of wireless/routes/aodv (the first version) *)
(* with the packets that wait for it: the output hook, the retry timer,    *)
(* the daemon's handlers of RREP, RREQ, HELLO, RESEND and NEIGHBOR, and    *)
(* the queue of held packets, of which PacketHold is the specification.    *)
(*                                                                         *)
(* One processor, no kernel preemption: the hook and the kernel timer are  *)
(* bottom halves, atomic, and may come between any two steps of the        *)
(* daemon.  A discovery reaches the node's neighbours only, since          *)
(* aodv_pdu_request_rx does not pass a RREQ on; a destination answers for  *)
(* itself.  Lifetimes are abstracted: routes, neighbours and flood records *)
(* may lapse at any moment.  Memory does not run out.                      *)
(***************************************************************************)
EXTENDS Integers, Sequences

CONSTANTS
  Packets,       \* packets the node sends or forwards
  Dst,           \* Dst[p]: the destination of p, in the subnet
  RREQ_RETRIES,  \* how often an unanswered RREQ is repeated
  MaxSeq,        \* bound on sequence numbers
  Scenarios      \* what may happen, and how much of it (see scene)

ASSUME DiscoveryAssumption ==
  /\ RREQ_RETRIES \in Nat
  /\ MaxSeq \in Nat
  /\ Scenarios \subseteq [races : SUBSET {"hello", "lapse"}, packets : SUBSET Packets,
                         there : SUBSET {Dst[p] : p \in Packets}, maxTasks : Nat]

VARIABLES
  fate,    \* fate[p]: what has become of p
  behind,  \* history of PacketHold
  route,   \* route[d]: the entry for d in aodv->routes
  neigh,   \* neigh[d]: "none", "valid" or "lapsed" in aodv->neighs
  timer,   \* timer[d]: retries of the RESEND_RREQ timers in aodv->timers
  tasks,   \* aodv->tasks, oldest first
  pc,      \* how far the daemon is with the first task, or how far asleep
  ahead,   \* how far the rreq_ids on record in aodv->floods are ahead of the
           \* rreq_id in the node's own entry (0: that one is on record)
  draft,   \* of the RREQ the daemon is about to send again: its dst_seq, and
           \* how far the hook has moved rreq_id since the daemon read it
  untimed, \* history: the last RREQ for d was given up because its rreq_id
           \* was on record, and there was no timer for d
  rreqs,   \* rreqs[d]: dst_seq of the RREQs on their way to d
  seq,     \* seq[d]: what d knows as its own sequence number
  scene    \* chosen once: what may happen during a discovery, a HELLO of the
           \* destination ("hello") or the end of a lifetime ("lapse"); the
           \* packets that come; the destinations that are there, in range;
           \* a bound: the tasks up to which PDUs are received

queue == <<fate, behind>>
asking == <<ahead, untimed>>
vars == <<queue, route, neigh, timer, tasks, pc, asking, draft, rreqs, seq, scene>>

Queue == INSTANCE PacketHold

-----------------------------------------------------------------------------
(* Data *)

Dests == {Dst[p] : p \in Packets}

Entry == [known : BOOLEAN, valid : BOOLEAN, seq : Nat]

Absent == [known |-> FALSE, valid |-> FALSE, seq |-> 0]

Valid(s) == [known |-> TRUE, valid |-> TRUE, seq |-> s]

Pdu(t, d, s) == [type |-> t, dst |-> d, n |-> s]

Resend(d, r) == [type |-> "RESEND", dst |-> d, n |-> r]

Task == [type : {"RREP", "RREQ", "HELLO"}, dst : Dests, n : Nat]
        \cup [type : {"RESEND"}, dst : Dests, n : 0..RREQ_RETRIES]

Drafts == [dst_seq : Nat, moved : Nat]

NoDraft == [dst_seq |-> 0, moved |-> 0]

HeldFor(d) == {p \in Queue!Held : Dst[p] = d}

\* Where the daemon is when it has no task in hand: looking for one, on its
\* way to sleep, or asleep.
Resting == {"idle", "leave", "asleep"}

\* What the daemon is working on.
Busy(d) == tasks # <<>> /\ pc \notin Resting /\ Head(tasks).dst = d

Pending(t, d) == \E i \in DOMAIN tasks : tasks[i].type = t /\ tasks[i].dst = d

\* A discovery of d is under way.
Discovering(d) ==
  \/ timer[d] # {} \/ rreqs[d] # {} \/ HeldFor(d) # {} \/ Busy(d)
  \/ Pending("RREP", d) \/ Pending("RESEND", d)

\* __aodv_task_enqueue: kick_aodv wakes nobody who is not yet asleep.
Enqueue(t) ==
  /\ tasks' = Append(tasks, t)
  /\ pc' = IF pc = "asleep" THEN "idle" ELSE pc

-----------------------------------------------------------------------------
(* The routing table *)

\* aodv_route_expire
expire(e) == [e EXCEPT !.valid = FALSE, !.seq = @ + 1]

\* seq_greater is true of equal numbers.
seq_greater(a, b) == a >= b

\* aodv_route_update returns without a change.
Refused(d, s) ==
  neigh[d] # "valid" \/ (route[d].known /\ seq_greater(route[d].seq, s))

\* dst_seq of a RREQ for d.
DstSeq(d) == IF route[d].known THEN route[d].seq ELSE 0

\* A RREQ for d goes out; nobody hears it who is not there.
Broadcast(d, s) ==
  rreqs' = [rreqs EXCEPT ![d] = IF d \in scene.there THEN @ \cup {s} ELSE @]

-----------------------------------------------------------------------------
(* The output hook *)

\* A valid route: NF_ACCEPT.
Pass(p) ==
  /\ fate[p] = "new" /\ route[Dst[p]].valid
  /\ fate' = [fate EXCEPT ![p] = "passed"]
  /\ UNCHANGED <<behind, route, neigh, timer, tasks, pc, asking, draft, rreqs, seq, scene>>

\* The records when rreq_id has been counted up.
Counted == {i - 1 : i \in ahead \ {0}}

\* aodv_flood_insert with the records r fails with -EEXIST.
FloodExists(r, d) ==
  /\ 0 \in r /\ ahead' = r
  /\ untimed' = [untimed EXCEPT ![d] = timer[d] = {}]

\* aodv_flood_insert is successful.
FloodInsert(r) == 0 \notin r /\ ahead' = r \cup {0}

\* Mutant of request_create: the RREQ is sent without a timer.
request_untimed(d) ==
  IF timer[d] # {} THEN UNCHANGED <<timer, asking, draft, rreqs>>
  ELSE /\ draft' = IF pc = "count" THEN [draft EXCEPT !.moved = @ + 1] ELSE draft
       /\ \/ FloodExists(Counted, d) /\ UNCHANGED rreqs
          \/ FloodInsert(Counted) /\ Broadcast(d, DstSeq(d)) /\ UNCHANGED untimed
       /\ UNCHANGED timer

\* __aodv_pdu_request_create: nothing when a timer says that a RREQ has been
\* sent; otherwise a record, a timer and the RREQ, or neither of the last two
\* when the rreq_id is on record.
request_create(d) ==
  IF timer[d] # {} THEN UNCHANGED <<timer, asking, draft, rreqs>>
  ELSE /\ draft' = IF pc = "count" THEN [draft EXCEPT !.moved = @ + 1] ELSE draft
       /\ \/ FloodExists(Counted, d) /\ UNCHANGED <<timer, rreqs>>
          \/ /\ FloodInsert(Counted)
             /\ timer' = [timer EXCEPT ![d] = {RREQ_RETRIES}]
             /\ untimed' = [untimed EXCEPT ![d] = FALSE]
             /\ Broadcast(d, DstSeq(d))

\* No valid route: a discovery, and NF_QUEUE whatever has become of it; the
\* queue may be full.
Hook(p) ==
  /\ ~route[Dst[p]].valid
  /\ "hello" \in scene.races \/ ~Pending("HELLO", Dst[p])
  /\ request_create(Dst[p])
  /\ Queue!Hold(p) \/ Queue!Refuse(p)
  /\ UNCHANGED <<route, neigh, tasks, pc, seq, scene>>

-----------------------------------------------------------------------------
(* The kernel timer *)

\* __aodv_timer_queue_signal moves a timer to the task queue.
Fire(d) ==
  /\ \E r \in timer[d] :
       Enqueue(Resend(d, r)) /\ timer' = [timer EXCEPT ![d] = @ \ {r}]
  /\ UNCHANGED <<queue, route, neigh, asking, draft, rreqs, seq, scene>>

-----------------------------------------------------------------------------
(* The daemon, on the task t at the head of its queue *)

Done == tasks' = Tail(tasks) /\ pc' = "idle"

Stay(next) == pc' = next /\ UNCHANGED tasks

First(type) == tasks # <<>> /\ pc = "idle" /\ Head(tasks).type = type

\* __check_reply: the sender must be a neighbour; the timers go at once.
CheckReply ==
  /\ First("RREP")
  /\ LET d == Head(tasks).dst
     IN IF neigh[d] # "valid"
        THEN Done /\ UNCHANGED timer
        ELSE Stay("update") /\ timer' = [timer EXCEPT ![d] = {}]
  /\ UNCHANGED <<queue, route, neigh, asking, draft, rreqs, seq, scene>>

\* __check_request of a RREQ that d sends: its reverse route is next.
CheckRequest ==
  /\ First("RREQ")
  /\ IF neigh[Head(tasks).dst] # "valid" THEN Done ELSE Stay("update")
  /\ UNCHANGED <<queue, route, neigh, timer, asking, draft, rreqs, seq, scene>>

\* aodv_route_update up to ipq_send_ip.
Update ==
  /\ tasks # <<>> /\ pc = "update"
  /\ LET t == Head(tasks)
     IN IF Refused(t.dst, t.n)
        THEN Done /\ UNCHANGED route
        ELSE Stay("send") /\ route' = [route EXCEPT ![t.dst] = Valid(t.n)]
  /\ UNCHANGED <<queue, neigh, timer, asking, draft, rreqs, seq, scene>>

\* One round of the loop of ipq_send_ip or ipq_drop_ip, or its end.
Release(loop) ==
  /\ tasks # <<>> /\ pc = loop
  /\ \/ /\ \E p \in HeldFor(Head(tasks).dst) :
             IF loop = "send" THEN Queue!Send(p) ELSE Queue!Drop(p)
        /\ UNCHANGED <<tasks, pc>>
     \/ HeldFor(Head(tasks).dst) = {} /\ Done /\ UNCHANGED queue
  /\ UNCHANGED <<route, neigh, timer, asking, draft, rreqs, seq, scene>>

SendHeld == Release("send")

DropHeld == Release("drop")

\* Mutant of ResendTtl: nobody looks whether retries are left.
ResendUnchecked ==
  /\ First("RESEND")
  /\ Stay("count")
  /\ draft' = [dst_seq |-> DstSeq(Head(tasks).dst), moved |-> 0]
  /\ UNCHANGED <<queue, route, neigh, timer, asking, rreqs, seq, scene>>

\* aodv_pdu_request_resend_ttl: give up, or ask again.  The number of the
\* entry is read, then rreq_id, which the hook may count on before the daemon
\* has stored its own count.
ResendTtl ==
  /\ First("RESEND")
  /\ LET t == Head(tasks)
     IN IF t.n = 0
        THEN Stay("drop") /\ UNCHANGED draft
        ELSE Stay("count") /\ draft' = [dst_seq |-> DstSeq(t.dst), moved |-> 0]
  /\ UNCHANGED <<queue, route, neigh, timer, asking, rreqs, seq, scene>>

\* The daemon stores the number after the one it has read, and what the hook
\* has counted since is lost; the records of the hook are not.
ResendCount ==
  /\ tasks # <<>> /\ pc = "count"
  /\ LET m == draft.moved
     IN ahead' = 0..(m - 1) \cup ({i + m - 1 : i \in ahead} \cap Nat)
  /\ draft' = [draft EXCEPT !.moved = 0]
  /\ Stay("flood")
  /\ UNCHANGED <<queue, route, neigh, timer, untimed, rreqs, seq, scene>>

\* rreq_id is read again for the record; if that is there already, because
\* the hook has counted on, there is neither RREQ nor timer.
ResendFlood ==
  /\ tasks # <<>> /\ pc = "flood"
  /\ \/ FloodExists(ahead, Head(tasks).dst) /\ Done /\ draft' = NoDraft
     \/ FloodInsert(ahead) /\ Stay("search") /\ UNCHANGED <<untimed, draft>>
  /\ UNCHANGED <<queue, route, neigh, timer, rreqs, seq, scene>>

\* __aodv_timer_enqueue looks for a timer under the lock and inserts its own
\* under the next one; a timer that the hook has inserted before stays alone.
ResendSearch ==
  /\ tasks # <<>> /\ pc = "search"
  /\ LET d == Head(tasks).dst
     IN IF timer[d] = {} THEN Stay("add") /\ UNCHANGED <<draft, rreqs>>
        ELSE Done /\ draft' = NoDraft /\ Broadcast(d, draft.dst_seq)
  /\ UNCHANGED <<queue, route, neigh, timer, asking, seq, scene>>

\* Mutant of ResendAdd: the number of retries is not counted down.
ResendForEver ==
  /\ tasks # <<>> /\ pc = "add"
  /\ LET t == Head(tasks)
     IN /\ timer' = [timer EXCEPT ![t.dst] = @ \cup {t.n}]
        /\ untimed' = [untimed EXCEPT ![t.dst] = FALSE]
        /\ Broadcast(t.dst, draft.dst_seq)
  /\ Done /\ draft' = NoDraft
  /\ UNCHANGED <<queue, route, neigh, ahead, seq, scene>>

ResendAdd ==
  /\ tasks # <<>> /\ pc = "add"
  /\ LET t == Head(tasks)
     IN /\ timer' = [timer EXCEPT ![t.dst] = @ \cup {t.n - 1}]
        /\ untimed' = [untimed EXCEPT ![t.dst] = FALSE]
        /\ Broadcast(t.dst, draft.dst_seq)
  /\ Done /\ draft' = NoDraft
  /\ UNCHANGED <<queue, route, neigh, ahead, seq, scene>>

\* __recv_hello and aodv_neigh_update_route: the route is valid now; the
\* held packets are not looked at.
RecvHello ==
  /\ First("HELLO")
  /\ LET t == Head(tasks)
     IN /\ neigh' = [neigh EXCEPT ![t.dst] = "valid"]
        /\ route' = [route EXCEPT ![t.dst] = Valid(t.n)]
  /\ Done
  /\ UNCHANGED <<queue, timer, asking, draft, rreqs, seq, scene>>

\* aodv_kthread finds no task and goes to sleep, whatever has come since it
\* looked.
Sleep ==
  /\ \/ pc = "idle" /\ tasks = <<>> /\ pc' = "leave"
     \/ pc = "leave" /\ pc' = "asleep"
  /\ UNCHANGED <<queue, route, neigh, timer, tasks, asking, draft, rreqs, seq, scene>>

Daemon ==
  \/ CheckReply \/ CheckRequest \/ Update \/ SendHeld \/ DropHeld \/ RecvHello
  \/ ResendTtl \/ ResendCount \/ ResendFlood \/ ResendSearch \/ ResendAdd
  \/ Sleep

\* Another task, of which the model says no more, wakes the daemon: a PDU of
\* somebody else, CLEANUP, NEIGHBOR or the node's own HELLO.
Kick ==
  /\ pc = "asleep" /\ pc' = "idle"
  /\ UNCHANGED <<queue, route, neigh, timer, tasks, asking, draft, rreqs, seq, scene>>

\* The NEIGHBOR timer of d has run out: aodv_neigh_delete.  Its call of
\* aodv_pdu_error_send expires the route, and what is not valid it deletes.
NeighDelete(d) ==
  /\ pc = "idle" /\ neigh[d] # "none"
  /\ "lapse" \in scene.races \/ ~Discovering(d)
  /\ neigh' = [neigh EXCEPT ![d] = "none"]
  /\ route' = [route EXCEPT ![d] = Absent]
  /\ UNCHANGED <<queue, timer, tasks, pc, asking, draft, rreqs, seq, scene>>

\* __aodv_route_flush deletes what is long invalid.
RouteFlush(d) ==
  /\ pc = "idle" /\ route[d].known /\ ~route[d].valid
  /\ route' = [route EXCEPT ![d] = Absent]
  /\ UNCHANGED <<queue, neigh, timer, tasks, pc, asking, draft, rreqs, seq, scene>>

\* __aodv_flood_flush deletes what is past its lifetime.  The record of the
\* present rreq_id is of no account: it is counted up before the next look.
FloodFlush(i) ==
  /\ pc = "idle" /\ ahead' = ahead \ {i}
  /\ UNCHANGED <<queue, route, neigh, timer, tasks, pc, untimed, draft, rreqs, seq, scene>>

-----------------------------------------------------------------------------
(* Time and the neighbours *)

\* The lifetime is over: aodv_route_find, in whoever looks next, or
\* __aodv_route_flush.
RouteLapse(d) ==
  /\ route[d].valid /\ route[d].seq < MaxSeq
  /\ "lapse" \in scene.races \/ ~Discovering(d)
  /\ route' = [route EXCEPT ![d] = expire(@)]
  /\ UNCHANGED <<queue, neigh, timer, tasks, pc, asking, draft, rreqs, seq, scene>>

NeighLapse(d) ==
  /\ neigh[d] = "valid"
  /\ "lapse" \in scene.races \/ ~Busy(d)
  /\ neigh' = [neigh EXCEPT ![d] = "lapsed"]
  /\ UNCHANGED <<queue, route, timer, tasks, pc, asking, draft, rreqs, seq, scene>>

\* A PDU of d arrives (aodv_task_insert) or is lost.
Receive(t) ==
  \/ Len(tasks) < scene.maxTasks /\ Enqueue(t)
  \/ UNCHANGED <<tasks, pc>>

\* d answers a RREQ (aodv_pdu_request_reply).
Answer(d, x) ==
  LET s == IF seq[d] <= x THEN x + 1 ELSE seq[d]
  IN /\ x \in rreqs[d] /\ s <= MaxSeq
     /\ rreqs' = [rreqs EXCEPT ![d] = @ \ {x}]
     /\ seq' = [seq EXCEPT ![d] = s]
     /\ Receive(Pdu("RREP", d, s))
     /\ UNCHANGED <<queue, route, neigh, timer, asking, draft, scene>>

\* A RREQ does not reach d, or d does not take the node for a neighbour.
Lose(d, x) ==
  /\ x \in rreqs[d]
  /\ rreqs' = [rreqs EXCEPT ![d] = @ \ {x}]
  /\ UNCHANGED <<queue, route, neigh, timer, tasks, pc, asking, draft, seq, scene>>

\* d asks for a route of its own (__aodv_pdu_request_create at d).
Ask(d) ==
  /\ d \in scene.there /\ seq[d] < MaxSeq
  /\ seq' = [seq EXCEPT ![d] = @ + 1]
  /\ Receive(Pdu("RREQ", d, seq[d] + 1))
  /\ UNCHANGED <<queue, route, neigh, timer, asking, draft, rreqs, scene>>

\* d says HELLO (aodv_pdu_hello_send at d).
Hello(d) ==
  /\ d \in scene.there /\ Len(tasks) < scene.maxTasks
  /\ "hello" \in scene.races \/ ~Discovering(d)
  /\ Enqueue(Pdu("HELLO", d, seq[d]))
  /\ UNCHANGED <<queue, route, neigh, timer, asking, draft, rreqs, seq, scene>>

-----------------------------------------------------------------------------

Init ==
  /\ scene \in Scenarios
  /\ fate = [p \in Packets |-> IF p \in scene.packets THEN "new" ELSE "passed"]
  /\ behind = [p \in Packets |-> {}]
  /\ route = [d \in Dests |-> Absent]
  /\ neigh = [d \in Dests |-> "none"]
  /\ timer = [d \in Dests |-> {}]
  /\ tasks = <<>> /\ pc = "leave"
  /\ ahead = {} /\ untimed = [d \in Dests |-> FALSE]
  /\ draft = NoDraft
  /\ rreqs = [d \in Dests |-> {}]
  /\ seq = [d \in Dests |-> 1]

Next ==
  \/ \E p \in Packets : Pass(p) \/ Hook(p)
  \/ Daemon \/ Kick
  \/ \E i \in ahead \ {0} : FloodFlush(i)
  \/ \E d \in Dests :
       \/ Fire(d) \/ NeighDelete(d) \/ RouteFlush(d)
       \/ RouteLapse(d) \/ NeighLapse(d) \/ Ask(d) \/ Hello(d)
       \/ \E x \in rreqs[d] : Answer(d, x) \/ Lose(d, x)

\* A thread that is not asleep runs and the kernel timer runs out.  The
\* neighbours owe nothing, and nothing else need wake the daemon.
Fairness == WF_vars(Daemon) /\ \A d \in Dests : WF_vars(Fire(d))

Spec == Init /\ [][Next]_vars /\ Fairness

-----------------------------------------------------------------------------
(* Properties *)

\* Routes, neighbours, timers and tasks keep their types, and the daemon that
\* is in a handler has the task of that handler (aodv_kthread).
TypeOK ==
  /\ fate \in [Packets -> {"new", "held", "sent", "dropped", "passed"}]
  /\ route \in [Dests -> Entry]
  /\ neigh \in [Dests -> {"none", "valid", "lapsed"}]
  /\ timer \in [Dests -> SUBSET (0..RREQ_RETRIES)]
  /\ tasks \in Seq(Task)
  /\ pc \in Resting \cup {"update", "send", "drop", "count", "flood", "search", "add"}
  /\ pc \notin Resting => tasks # <<>>
  /\ ahead \subseteq Nat
  /\ untimed \in [Dests -> BOOLEAN] /\ draft \in Drafts
  /\ scene \in Scenarios
  /\ rreqs \in [Dests -> SUBSET Nat] /\ seq \in [Dests -> Nat]

\* Nothing comes between the RREQ and its answer.
Calm == scene.races = {}

\* Every packet the hook holds back gets its verdict: it is sent once the
\* route is there, or dropped once the retries are used up.  So it is while
\* neither a HELLO of the destination nor the end of a lifetime comes in
\* between, the rreq_id of a RREQ is not found on record, and other tasks wake
\* a daemon that has missed the wake-up (ipq_send_ip,
\* aodv_pdu_request_resend_ttl, aodv_kthread).
EveryPacketAnswered ==
  WF_vars(Kick) =>
    \A p \in Packets :
      (Calm /\ fate[p] = "held") ~> (fate[p] # "held" \/ untimed[Dst[p]])

\* Somebody will come back to a held packet: a retry timer, a RESEND task,
\* or the daemon, which is about to send, to drop or to ask again
\* (__check_reply deletes the timer before aodv_route_update has accepted the
\* answer).  Nobody does after a RREQ that was given up because its rreq_id
\* was on record (aodv_pdu_request_resend_ttl, __aodv_pdu_request_create).
Watched ==
  Calm => \A p \in Queue!Held :
    LET d == Dst[p]
    IN timer[d] # {} \/ Pending("RESEND", d) \/ Busy(d) \/ untimed[d]

\* "All of them must be fed back via nf_reinject()": a held packet gets its
\* verdict whatever else happens during its discovery (packet_queue.c).
AllFedBack ==
  WF_vars(Kick) => \A p \in Packets : fate[p] = "held" ~> fate[p] # "held"

\* A discovery ends: from some time on nothing is asked for again, although
\* the hook may start one while the last one's task is still in the queue, and
\* there may be two timers for one destination; provided that other tasks wake
\* a daemon that has missed the wake-up (aodv_pdu_request_resend_ttl).
DiscoveriesEnd ==
  WF_vars(Kick) => \A d \in Dests : <>[](timer[d] = {} /\ ~Pending("RESEND", d))
=============================================================================
