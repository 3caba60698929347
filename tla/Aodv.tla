-------------------------------- MODULE Aodv --------------------------------
(***************************************************************************)
(* The mesh routing protocol of wireless/routes/maodv: the engines of a    *)
(* set of nodes (routing table, neighbours, flood records, timers) and the *)
(* RREQ, RREP, RERR and HELLO messages they exchange.                      *)
(*                                                                         *)
(* A handler of the code is an operator from the engine it runs on to the  *)
(* engine it leaves and the PDUs it sends, so that the calls it makes are  *)
(* part of it.  Clock values are abstracted to the one thing the code asks *)
(* of them: has this lifetime passed.  Time passing is the group of Lapse  *)
(* actions.  The set of sent PDUs is never emptied: a PDU may be lost,     *)
(* delayed, reordered, duplicated and heard by any node of Hears.          *)
(***************************************************************************)
EXTENDS Integers, Sequences, FiniteSets

CONSTANTS
  Node,          \* addresses of the nodes; all in the subnet of the mesh
  Ext,           \* addresses outside the subnet
  Gateway,       \* the nodes loaded with paramGateway=1
  Hears,         \* <<p, n>>: n can receive what p transmits
  Traffic,       \* <<n, a>>: n has packets for address a
  NET_DIAMETER,  \* TTL of a RREQ
  RREQ_RETRIES,  \* how often an unanswered RREQ is repeated
  MaxRreq,       \* bound: the largest rreq_id a node reaches
  MaxHop,        \* bound: the largest hop count a RREP carries
  MaxTicks       \* bound: lifetimes and timers that run out

Addr == Node \cup Ext

\* Addresses, task types and the broadcast address are different things.
ASSUME AddrAssumption ==
  /\ Node \cap Ext = {}
  /\ {"RESEND_RREQ", "NEIGHBOR", "all"} \cap Addr = {}

ASSUME RoleAssumption == Gateway \subseteq Node

ASSUME HearsAssumption == Hears \subseteq Node \X Node

ASSUME TrafficAssumption == Traffic \subseteq Node \X Addr

ASSUME LimitAssumption == /\ NET_DIAMETER \in 1..255
                          /\ RREQ_RETRIES \in Nat
                          /\ MaxRreq \in Nat
                          /\ MaxHop \in 0..254
                          /\ MaxTicks \in Nat

VARIABLES
  engine,  \* engine[n]: the route_engine_t of node n
  tasks,   \* tasks[n]: expired timers queued for the daemon, oldest first
  up,      \* up[n]: the daemon thread of n runs
  net,     \* every PDU sent so far
  ticks    \* how many lifetimes and timers have run out

vars == <<engine, tasks, up, net, ticks>>

-----------------------------------------------------------------------------
(* Data *)

\* A routing table entry.  known: it is in the table; live: its lifetime
\* has not passed.  The entry of the node itself is its self_route.
Entry == [known : BOOLEAN, seq : Nat, nextHop : Addr, metric : Nat,
          valid : BOOLEAN, live : BOOLEAN]

Absent(a) == [known |-> FALSE, seq |-> 0, nextHop |-> a, metric |-> 0,
              valid |-> FALSE, live |-> FALSE]

Timer == [type : {"RESEND_RREQ"}, id : Addr, retries : Nat]
         \cup [type : {"NEIGHBOR"}, id : Node, retries : {0}]

Flood == [src : Node, id : Nat, live : BOOLEAN]

Engine == [ip : Node, route : [Addr -> Entry],
           neigh : [Node -> {"none", "live", "lapsed"}],
           floods : SUBSET Flood, timers : SUBSET Timer, rreq_id : Nat]

Rreq == [type : {"RREQ"}, from : Node, src : Node, dst : Addr, id : Nat,
         src_seq : Nat, dst_seq : Nat, metric : Nat, ttl : Nat]

\* A HELLO is a RREP whose src and dst are the sender.  asked is history: the
\* dst_seq of the RREQ that is answered.
Rrep == [type : {"RREP"}, from : Node, to : Addr \cup {"all"}, src : Node,
         dst : Addr, dst_seq : Nat, metric : Nat, asked : Nat]

Rerr == [type : {"RERR"}, from : Node,
         dests : SUBSET [ip : Addr, seq : Nat]]

Pdu == Rreq \cup Rrep \cup Rerr

\* The result of a handler.
Result == [e : Engine, out : SUBSET Pdu]

Done(e, out) == [e |-> e, out |-> out]

\* Signed differences of the 32-bit numbers, away from the wrap-around.
\* seq_greater answers 1 for equal numbers too.
seq_greater(a, b) == ~(a - b < 0)

\* Mutant: strictly less.
seq_less(a, b) == a - b < 0

seq_less_or_equal(a, b) == ~(a - b > 0)

\* Mutant: the hop is not counted.
SameHopCount(m) == m % 256

NextHopCount(m) == (m + 1) % 256

-----------------------------------------------------------------------------
(* Routing table *)

\* Mutant of HasDev: every entry is given a device.
AnyDev(a) == a \in Addr

\* Entries of addresses outside the subnet have no device (dev_lookup_by_ip
\* finds none), and expiring an entry without a device does nothing.
HasDev(a) == a \in Node

\* Mutant: the entry stays valid.
route_expire_valid(r) == [r EXCEPT !.seq = @ + 1, !.live = TRUE]

route_expire(r) ==
  [r EXCEPT !.seq = @ + 1, !.valid = FALSE, !.live = TRUE]

\* The entries a walk of the list expires when it passes them.
Lapsed(e) ==
  {a \in Addr \ {e.ip} : /\ HasDev(a)
                         /\ e.route[a].known /\ e.route[a].valid
                         /\ ~e.route[a].live}

Expire(e, S) ==
  [e EXCEPT !.route = [a \in Addr |-> IF a \in S THEN route_expire(e.route[a])
                                                 ELSE e.route[a]]]

\* Looking up a: entries are added at the head of the list and the self
\* route was the first, so the walk passes every entry when a is the node
\* itself or is not in the table.  The entries that happen to stand before
\* an entry that is found are the parameter X of the actions below.
lookup_all(e, A) ==
  Expire(e, IF \A a \in A : e.route[a].known /\ a # e.ip
            THEN Lapsed(e) \cap A ELSE Lapsed(e))

route_lookup(e, a) == lookup_all(e, {a})

neigh_validate(e, p) == e.neigh[p] = "live"

\* Mutant of NoNews: an older sequence number is news.
NoBetter(r, hops, seq) == r.known /\ r.valid /\ seq = r.seq /\ hops >= r.metric

\* What a node hears does not improve on the entry r it has.
NoNews(r, hops, seq) ==
  /\ r.known
  /\ seq_greater(r.seq, seq) \/ (r.valid /\ seq = r.seq /\ hops >= r.metric)

route_update(e0, a, p, hops, seq) ==
  LET e == route_lookup(e0, a)
  IN  IF ~neigh_validate(e, p) \/ NoNews(e.route[a], hops, seq) THEN e
      ELSE [e EXCEPT !.route[a] =
              [known |-> TRUE, seq |-> seq, nextHop |-> p, metric |-> hops,
               valid |-> TRUE, live |-> TRUE]]

-----------------------------------------------------------------------------
(* Timers and flood records *)

\* A timer of the same type and id that is already queued stays; the new
\* one is not queued.
timer_enqueue(ts, t) ==
  IF \E u \in ts : u.type = t.type /\ u.id = t.id THEN ts ELSE ts \cup {t}

\* The operation takes (type, id); every caller passes (address, type).
timer_delete(ts, type, id) == {t \in ts : ~(t.type = type /\ t.id = id)}

\* Mutant of timer_insert: type and id swapped, as by the callers above.
timer_insert_swapped(e, type, a) ==
  [e EXCEPT !.timers =
     timer_enqueue(@, [type |-> a, id |-> type, retries |-> 0])]

timer_insert(e, type, a) ==
  [e EXCEPT !.timers =
     timer_enqueue(@, [type |-> type, id |-> a, retries |-> 0])]

\* Records are added newest first with the same lifetime, so the walk that
\* stops at the first lapsed record sees every live one.
flood_lookup(e, src, id) ==
  \E f \in e.floods : f.src = src /\ f.id = id /\ f.live

\* A lapsed record that has not been flushed yet still refuses a new one.
flood_known(e, src, id) == \E f \in e.floods : f.src = src /\ f.id = id

flood_insert(e, src, id) ==
  IF flood_known(e, src, id) THEN e
  ELSE [e EXCEPT !.floods = @ \cup {[src |-> src, id |-> id, live |-> TRUE]}]

-----------------------------------------------------------------------------
(* Sending *)

\* Mutant of NextRreqId: the id is not counted up.
SameRreqId(e) == e.rreq_id

NextRreqId(e) == e.rreq_id + 1

\* What send_request and resend_request share: a new id and sequence number
\* of the node, a flood record of its own, the retry timer, the broadcast.
request(e0, a, retries) ==
  LET e   == route_lookup(route_lookup(e0, a), e0.ip)
      id  == NextRreqId(e)
      seq == e.route[e.ip].seq + 1
      n   == [e EXCEPT !.rreq_id = id, !.route[e.ip].seq = seq]
      rr  == [type |-> "RREQ", from |-> e.ip, src |-> e.ip, dst |-> a,
              id |-> id, src_seq |-> seq,
              dst_seq |-> IF e.route[a].known THEN e.route[a].seq ELSE 0,
              metric |-> 0, ttl |-> NET_DIAMETER]
  IN  IF flood_known(n, e.ip, id) THEN Done(n, {})
      ELSE Done([flood_insert(n, e.ip, id) EXCEPT !.timers =
                   timer_enqueue(@, [type |-> "RESEND_RREQ", id |-> a,
                                     retries |-> retries])],
                {rr})

send_request(e, a) ==
  IF \E t \in e.timers : t.type = "RESEND_RREQ" /\ t.id = a
  THEN Done(e, {})
  ELSE request(e, a, RREQ_RETRIES)

resend_request(e, t) ==
  IF t.retries <= 0 THEN Done(e, {}) ELSE request(e, t.id, t.retries - 1)

\* The POST_ROUTING hook, for a packet to address a that puts pdus on the
\* air when it passes.  A packet without a valid route starts a discovery
\* and is held back; the engine never asks for it again.
output_packet(e0, a, pdus) ==
  IF e0.ip \in Gateway /\ a \notin Node THEN Done(e0, pdus)
  ELSE LET e == route_lookup(e0, a)
       IN  IF ~(e.route[a].known /\ e.route[a].valid)
           THEN send_request(e, a)
           ELSE Done([e EXCEPT !.route[a].live = TRUE], pdus)

\* A unicast PDU leaves through the IP stack and so through the hook.
unicast(e, p, pdu) == output_packet(e, p, {pdu})

send_reply(e0, src, dst, asked) ==
  LET e == route_lookup(route_lookup(e0, src), dst)
      d == e.route[dst]
  IN  IF ~e.route[src].known THEN Done(e, {})
      ELSE unicast(e, e.route[src].nextHop,
                   [type |-> "RREP", from |-> e.ip,
                    to |-> e.route[src].nextHop, src |-> src, dst |-> dst,
                    dst_seq |-> d.seq, metric |-> d.metric, asked |-> asked])

\* engine->myRoute is the entry engine_init made; the entry of the device,
\* with the same address, was put before it in the list, so it is the one
\* every lookup finds and every RREQ counts up.  myRoute keeps its first
\* sequence number.
MyRouteSeq == 1

Hello(n) == [type |-> "RREP", from |-> n, to |-> "all", src |-> n,
             dst |-> n, dst_seq |-> MyRouteSeq, metric |-> 0, asked |-> 0]

send_error(e, p) ==
  LET bad == {a \in Addr \ {e.ip} : e.route[a].known
                                    /\ e.route[a].nextHop = p}
      err == [type |-> "RERR", from |-> e.ip,
              dests |-> {[ip |-> a, seq |-> e.route[a].seq] : a \in bad}]
  IN  Done(Expire(e, {a \in bad : e.route[a].valid /\ HasDev(a)}),
           IF bad = {} THEN {} ELSE {err})

-----------------------------------------------------------------------------
(* Receiving *)

rx_hello(e0, m) ==
  LET p  == m.dst
      e1 == [e0 EXCEPT !.timers = timer_delete(@, p, "NEIGHBOR")]
      e2 == route_lookup(timer_insert(e1, "NEIGHBOR", p), p)
  IN  Done([e2 EXCEPT !.neigh[p] = "live",
                      !.route[p] = [known |-> TRUE, seq |-> m.dst_seq,
                                    nextHop |-> p, metric |-> 1,
                                    valid |-> TRUE, live |-> TRUE]],
           {})

rx_reply(e0, m) ==
  LET hops == NextHopCount(m.metric)
      e1 == [e0 EXCEPT !.timers = timer_delete(@, m.dst, "RESEND_RREQ")]
      e2 == route_update(e1, m.dst, m.from, hops, m.dst_seq)
      e3 == route_lookup(e2, m.src)
      p  == e3.route[m.src].nextHop
  IN  IF m.src = m.dst THEN rx_hello(e0, m)
      ELSE IF ~neigh_validate(e0, m.from) THEN Done(e0, {})
      ELSE IF ~e3.route[m.src].known \/ m.src = e3.ip THEN Done(e3, {})
      ELSE unicast(e3, p, [m EXCEPT !.from = e3.ip, !.to = p,
                                    !.metric = hops])

\* The destination answers with a sequence number above the one it is asked
\* about.
own_reply(e, m) ==
  LET seq == e.route[e.ip].seq
  IN  send_reply([e EXCEPT !.route[e.ip].seq =
                    IF seq_less_or_equal(seq, m.dst_seq) THEN m.dst_seq + 1
                                                         ELSE seq],
                 m.src, m.dst, m.dst_seq)

\* A gateway answers for every address outside the subnet.
gateway_reply(e, m) ==
  LET r == e.route[m.dst]
      g == IF r.known THEN [r EXCEPT !.valid = TRUE, !.live = TRUE]
           ELSE [known |-> TRUE, seq |-> MyRouteSeq, nextHop |-> m.dst,
                 metric |-> 1, valid |-> TRUE, live |-> TRUE]
  IN  send_reply([e EXCEPT !.route[m.dst] = g], m.src, m.dst, m.dst_seq)

rx_request(e0, m) ==
  LET e1   == route_lookup(e0, m.src)
      hops == NextHopCount(m.metric)
      e2   == route_update(e1, m.src, m.from, hops, m.src_seq)
      e3   == route_lookup(flood_insert(e2, m.src, m.id), m.dst)
  IN  IF m.ttl <= 1 \/ flood_lookup(e0, m.src, m.id) THEN Done(e0, {})
      ELSE IF ~neigh_validate(e1, m.from) THEN Done(e1, {})
      ELSE IF m.dst \notin Node /\ e0.ip \in Gateway THEN gateway_reply(e3, m)
      ELSE IF m.dst = e0.ip THEN own_reply(e3, m)
      ELSE Done(e3, {[m EXCEPT !.from = e0.ip, !.metric = hops,
                               !.ttl = @ - 1]})

\* The listed destinations whose route leads over the sender.
Broken(e, m) ==
  {d \in m.dests : /\ d.ip # e.ip /\ e.route[d.ip].known
                   /\ e.route[d.ip].nextHop = m.from}

\* rx_error stores the listed sequence number and then writes through
\* lastEerrRoute, which is still NULL.  Where page zero is mapped the write
\* goes through and the loop ends normally.
rx_error(e0, m) ==
  LET e == lookup_all(e0, {d.ip : d \in m.dests})
      broken(a) == \E d \in Broken(e, m) : d.ip = a
      seq(a) == (CHOOSE d \in Broken(e, m) : d.ip = a).seq
      told(a) == [e.route[a] EXCEPT !.seq = seq(a)]
  IN  Done([e EXCEPT !.route =
              [a \in Addr |->
                 IF ~broken(a) THEN e.route[a]
                 ELSE IF e.route[a].valid /\ HasDev(a)
                 THEN route_expire(told(a)) ELSE told(a)]],
           {})

\* Everywhere else it is a fault: the first such destination d has its new
\* sequence number, its route is still valid, and the thread is gone.
rx_error_fault(e0, m, d) ==
  LET e == route_lookup(e0, d.ip)
  IN  Done([e EXCEPT !.route[d.ip].seq = d.seq], {})

\* Mutant of neigh_delete: a neighbour that was heard in time is kept.
neigh_delete_lapsed(e0, p) ==
  IF e0.neigh[p] = "lapsed" THEN Done([e0 EXCEPT !.neigh[p] = "none"], {})
  ELSE Done(e0, {})

neigh_delete(e0, p) ==
  LET e1  == [e0 EXCEPT !.neigh[p] = "none",
                        !.timers = timer_delete(@, p, "NEIGHBOR")]
      e2  == route_lookup(e1, p)
      err == send_error(e2, p)
  IN  IF e0.neigh[p] = "none" THEN Done(e0, {})
      ELSE IF ~(e2.route[p].known /\ e2.route[p].nextHop = p) THEN Done(e2, {})
      ELSE Done([err.e EXCEPT !.route[p] =
                   IF @.valid THEN route_expire(@) ELSE Absent(p)],
                err.out)

\* CLEANUP: flood_flush, then route_flush.
cleanup(e) ==
  LET flushed(a) ==
        LET r == e.route[a]
        IN  IF a = e.ip \/ ~r.known \/ r.live THEN r
            ELSE IF ~r.valid THEN Absent(a)
            ELSE IF HasDev(a) THEN route_expire(r) ELSE r
  IN  Done([e EXCEPT !.floods = {f \in @ : f.live},
                     !.route = [a \in Addr |-> flushed(a)]],
           {})

-----------------------------------------------------------------------------
(* The system *)

InitEngine(n) ==
  [ip |-> n,
   route |-> [a \in Addr |->
                IF a = n THEN [known |-> TRUE, seq |-> 1, nextHop |-> n,
                               metric |-> 0, valid |-> TRUE, live |-> TRUE]
                ELSE Absent(a)],
   neigh |-> [p \in Node |-> "none"], floods |-> {}, timers |-> {},
   rreq_id |-> 1]

Init == /\ engine = [n \in Node |-> InitEngine(n)]
        /\ tasks = [n \in Node |-> <<>>]
        /\ up = [n \in Node |-> TRUE]
        /\ net = {}
        /\ ticks = 0

\* Handler result r becomes the state of n, within the bound on RREQs.
Step(n, r) == /\ r.e.rreq_id <= MaxRreq
              /\ engine' = [engine EXCEPT ![n] = r.e]
              /\ net' = net \cup r.out

\* X: lapsed entries that the lookups of the handler pass on their way.
Walked(n, X) == X \subseteq Lapsed(engine[n])

Packet(n, a, X) ==
  /\ <<n, a>> \in Traffic /\ Walked(n, X)
  /\ Step(n, output_packet(Expire(engine[n], X), a, {}))
  /\ UNCHANGED <<tasks, up, ticks>>

CanHear(n, m) == /\ up[n] /\ m \in net /\ <<m.from, n>> \in Hears
                 /\ m.from # n

RxRequest(n, m, X) ==
  /\ CanHear(n, m) /\ m.type = "RREQ" /\ Walked(n, X)
  /\ Step(n, rx_request(Expire(engine[n], X), m))
  /\ UNCHANGED <<tasks, up, ticks>>

RxReply(n, m, X) ==
  /\ CanHear(n, m) /\ m.type = "RREP" /\ Walked(n, X)
  /\ m.to \in {"all", n} /\ m.metric < MaxHop
  /\ Step(n, rx_reply(Expire(engine[n], X), m))
  /\ UNCHANGED <<tasks, up, ticks>>

RxError(n, m, X) ==
  /\ CanHear(n, m) /\ m.type = "RERR" /\ Walked(n, X)
  /\ Step(n, rx_error(Expire(engine[n], X), m))
  /\ UNCHANGED <<tasks, up, ticks>>

RxErrorFault(n, m, X) ==
  /\ CanHear(n, m) /\ m.type = "RERR" /\ Walked(n, X)
  /\ \E d \in Broken(Expire(engine[n], X), m) :
        Step(n, rx_error_fault(Expire(engine[n], X), m, d))
  /\ up' = [up EXCEPT ![n] = FALSE]
  /\ UNCHANGED <<tasks, ticks>>

SendHello(n) == /\ up[n]
                /\ net' = net \cup {Hello(n)}
                /\ UNCHANGED <<engine, tasks, up, ticks>>

Cleanup(n) == /\ up[n]
              /\ Step(n, cleanup(engine[n]))
              /\ UNCHANGED <<tasks, up, ticks>>

Tick == ticks < MaxTicks /\ ticks' = ticks + 1

\* The kernel timer moves a timer that is due to the task queue.
TimerFires(n, t) ==
  /\ t \in engine[n].timers
  /\ engine' = [engine EXCEPT ![n].timers = @ \ {t}]
  /\ tasks' = [tasks EXCEPT ![n] = Append(@, t)]
  /\ Tick /\ UNCHANGED <<up, net>>

RunTask(n, X) ==
  /\ up[n] /\ tasks[n] # <<>> /\ Walked(n, X)
  /\ LET t == Head(tasks[n])
         e == Expire(engine[n], X)
     IN  Step(n, IF t.type = "NEIGHBOR" THEN neigh_delete(e, t.id)
                                        ELSE resend_request(e, t))
  /\ tasks' = [tasks EXCEPT ![n] = Tail(@)]
  /\ UNCHANGED <<up, ticks>>

\* Lifetimes pass.
LapseRoute(n, a) ==
  /\ a # n /\ engine[n].route[a].known /\ engine[n].route[a].live
  /\ engine' = [engine EXCEPT ![n].route[a].live = FALSE]
  /\ Tick /\ UNCHANGED <<tasks, up, net>>

LapseNeigh(n, p) ==
  /\ engine[n].neigh[p] = "live"
  /\ engine' = [engine EXCEPT ![n].neigh[p] = "lapsed"]
  /\ Tick /\ UNCHANGED <<tasks, up, net>>

LapseFlood(n, f) ==
  /\ f \in engine[n].floods /\ f.live
  /\ engine' = [engine EXCEPT ![n].floods =
                  (@ \ {f}) \cup {[f EXCEPT !.live = FALSE]}]
  /\ Tick /\ UNCHANGED <<tasks, up, net>>

Lapse(n) == \/ \E a \in Addr : LapseRoute(n, a)
            \/ \E p \in Node : LapseNeigh(n, p)
            \/ \E f \in engine[n].floods : LapseFlood(n, f)

Daemon(n, X) == \/ \E m \in net : RxRequest(n, m, X) \/ RxReply(n, m, X)
                                  \/ RxError(n, m, X) \/ RxErrorFault(n, m, X)
                \/ RunTask(n, X)

Next == \E n \in Node :
          \/ \E X \in SUBSET Lapsed(engine[n]) :
                Daemon(n, X) \/ (\E a \in Addr : Packet(n, a, X))
          \/ SendHello(n) \/ Cleanup(n) \/ Lapse(n)
          \/ \E t \in engine[n].timers : TimerFires(n, t)

Spec == Init /\ [][Next]_vars

\* The CLEANUP timer is inserted again each time it is handled, so a daemon
\* that runs cleans up again and again.
CleaningSpec == Spec /\ \A n \in Node : WF_vars(Cleanup(n))

-----------------------------------------------------------------------------
(* Properties *)

RreqPdus == {m \in net : m.type = "RREQ"}
RrepPdus == {m \in net : m.type = "RREP"}

\* The sequence number of node d, in its own routing table.
OwnSeq(d) == engine[d].route[d].seq

\* Engines, tasks, daemons and PDUs keep their types (route_engine_t,
\* route_task_t).
TypeOK == /\ engine \in [Node -> Engine]
          /\ \A n \in Node : engine[n].ip = n
          /\ tasks \in [Node -> Seq(Timer)]
          /\ up \in [Node -> BOOLEAN]
          /\ net \subseteq Pdu
          /\ ticks \in 0..MaxTicks

\* No message makes a node replace its own self route, the case for which
\* _engine_route_update only prints "updating a SELF-ROUTE!!!".
SelfRouteIntact ==
  \A n \in Node : LET r == engine[n].route[n]
                  IN  r.known /\ r.valid /\ r.nextHop = n /\ r.metric = 0

\* While its daemon runs, a node never holds a valid route with a sequence
\* number its destination has not reached: seq_greater would then refuse
\* everything the destination says (_engine_route_update).
NoFutureRoute ==
  \A n, d \in Node : up[n] /\ engine[n].route[d].valid
                       => engine[n].route[d].seq <= OwnSeq(d)

\* The answer of a node to a RREQ is accepted by the asker, from whichever
\* neighbour, whenever it comes and however often: unless the asker's entry is
\* about to be expired, or has another sequence number than it asked with, a
\* HELLO's for instance (__request_should_be_reply against
\* _engine_route_update, which refuses equal numbers).
AnswerAccepted ==
  \A m \in RrepPdus : m.dst \in Node /\ m.src # m.dst =>
    LET e == engine[m.src]
        r == e.route[m.dst]
        s == rx_reply(e, m).e.route[m.dst]
    IN  /\ neigh_validate(e, m.from)
        /\ r.known => r.seq = m.asked /\ (r.valid => r.live)
        => s.valid /\ s.seq = m.dst_seq /\ s.nextHop = m.from

\* (src, rreq_id), by which flood_lookup recognises a RREQ, means one
\* request wherever a copy of it is.
RreqIdIdentifies ==
  \A m, q \in RreqPdus : m.src = q.src /\ m.id = q.id =>
     m.dst = q.dst /\ m.src_seq = q.src_seq /\ m.dst_seq = q.dst_seq

\* A RREQ travels at most NET_DIAMETER - 1 hops from its source, counted by
\* its metric (the TTL test of _engine_rx_request), and a metric of 0 or a
\* route of one hop mean the destination itself was heard.
HopsTrue ==
  /\ \A m \in RreqPdus : m.metric + m.ttl = NET_DIAMETER
  /\ \A n, d \in Node : LET r == engine[n].route[d]
                        IN  r.valid /\ r.metric = 1 => r.nextHop = d

\* A neighbour stays under watch: as long as it is in the list, its
\* NEIGHBOR timer runs or has already become a task (_engine_rx_hello,
\* _engine_neigh_delete).
NeighWatched ==
  \A n, p \in Node : engine[n].neigh[p] # "none" =>
     \/ \E t \in engine[n].timers : t.type = "NEIGHBOR" /\ t.id = p
     \/ \E i \in DOMAIN tasks[n] : tasks[n][i].type = "NEIGHBOR"
                                   /\ tasks[n][i].id = p

\* A node never gives up or changes the gateway over which it first learnt
\* an address outside the subnet: the entry has no device, so nothing
\* expires it (_route_expire), and every gateway answers with the sequence
\* number 1 that the entry already has (__request_should_be_reply).
ExternalRouteFixed ==
  [][\A n \in Node, y \in Ext :
       LET r == engine[n].route[y]
           s == engine'[n].route[y]
       IN  r.known => s.known /\ s.valid /\ s.nextHop = r.nextHop]_vars

\* "maintain sequence of this node", the comment on engine->myRoute: the
\* sequence number of myRoute, the one HELLOs carry, is the node's own.
MyRouteMaintainsSequence == \A n \in Node : MyRouteSeq = OwnSeq(n)

\* "Removing route": after a RERR from its next hop, a route the RERR lists
\* is no longer valid (_engine_rx_error).
ErrorRemovesRoute ==
  [][\A n \in Node, m \in net : \A X \in SUBSET Lapsed(engine[n]) :
       RxError(n, m, X) \/ RxErrorFault(n, m, X) =>
         \A d \in Broken(engine[n], m) : ~engine'[n].route[d.ip].valid]_vars

\* "marks a route as expired": a route whose lifetime has passed is marked
\* at the latest by a CLEANUP, unless it is used again or the daemon is
\* gone (_route_expire, __aodv_route_flush).
LapsedRouteExpires ==
  \A n \in Node : \A a \in Addr \ {n} :
    LET r == engine[n].route[a]
    IN  (r.known /\ r.valid /\ ~r.live) ~> (~up[n] \/ ~r.valid \/ r.live)
=============================================================================
