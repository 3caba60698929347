-------------------------- MODULE AodvEngineProofs --------------------------
(***************************************************************************)
(* What the code of maodv keeps of one engine.  First the operations of    *)
(* route_mgmt_ops.c: they keep its type and the properties every handler   *)
(* relies on.  Then the handlers of route_proto_ops.c, the neighbour       *)
(* deletion and the CLEANUP task: what they keep, and what they send.      *)
(***************************************************************************)
EXTENDS Aodv, TLAPS

\* Time limits that a busy machine does not exceed.
USE SMTT(30), ZenonT(30)

-----------------------------------------------------------------------------
(* The operations of the engine keep its type *)

\* _route_expire leaves a routing table entry.
LEMMA ExpireEntry == ASSUME NEW r \in Entry PROVE route_expire(r) \in Entry
<1>1. r.seq + 1 \in Nat BY SMT DEF Entry
<1> QED BY <1>1, ZenonT(30) DEF route_expire, Entry

\* The entry of an address that is not in the table.
LEMMA AbsentEntry == ASSUME NEW a \in Addr PROVE Absent(a) \in Entry
BY DEF Absent, Entry

\* Storing a sequence number in an entry keeps its type.
LEMMA SetSeq ==
  ASSUME NEW r \in Entry, NEW s \in Nat
  PROVE  [r EXCEPT !.seq = s] \in Entry
BY ZenonT(30) DEF Entry

\* So does setting or ending its lifetime.
LEMMA SetLiveEntry ==
  ASSUME NEW r \in Entry, NEW v \in BOOLEAN
  PROVE  [r EXCEPT !.live = v] \in Entry
BY ZenonT(30) DEF Entry

\* Storing an entry keeps the type of the engine.
LEMMA SetRoute ==
  ASSUME NEW e \in Engine, NEW a \in Addr, NEW r \in Entry
  PROVE  [e EXCEPT !.route[a] = r] \in Engine
BY DEF Engine

\* So does expiring a set of entries.
LEMMA ExpireType ==
  ASSUME NEW e \in Engine, NEW S
  PROVE  Expire(e, S) \in Engine
<1>1. [a \in Addr |-> IF a \in S THEN route_expire(e.route[a])
                                 ELSE e.route[a]] \in [Addr -> Entry]
  BY ExpireEntry DEF Engine
<1> QED BY <1>1 DEF Expire, Engine

\* Looking up a route keeps the type of the engine.
LEMMA LookupType ==
  ASSUME NEW e \in Engine, NEW a
  PROVE  route_lookup(e, a) \in Engine
BY ExpireType DEF route_lookup, lookup_all

\* _engine_route_update keeps the type of the engine.
LEMMA UpdateType ==
  ASSUME NEW e \in Engine, NEW a \in Addr, NEW p \in Node,
         NEW hops \in Nat, NEW seq \in Nat
  PROVE  route_update(e, a, p, hops, seq) \in Engine
<1> DEFINE r == [known |-> TRUE, seq |-> seq, nextHop |-> p, metric |-> hops,
                 valid |-> TRUE, live |-> TRUE]
<1>1. r \in Entry BY DEF Entry, Addr
<1> QED BY <1>1, LookupType, SetRoute, ZenonT(30) DEF route_update

\* The result of a handler is typed when its parts are.
LEMMA DoneType ==
  ASSUME NEW e \in Engine, NEW out \in SUBSET Pdu
  PROVE  Done(e, out) \in Result
BY DEF Done, Result

\* Queueing a timer keeps the type of the timer list.
LEMMA EnqueueType ==
  ASSUME NEW ts \in SUBSET Timer, NEW t \in Timer
  PROVE  timer_enqueue(ts, t) \in SUBSET Timer
BY DEF timer_enqueue

\* Storing the timer list keeps the type of the engine.
LEMMA SetTimers ==
  ASSUME NEW e \in Engine, NEW ts \in SUBSET Timer
  PROVE  [e EXCEPT !.timers = ts] \in Engine
BY DEF Engine

\* Inserting a NEIGHBOR timer keeps the type of the engine.
LEMMA TimerInsertType ==
  ASSUME NEW e \in Engine, NEW p \in Node
  PROVE  timer_insert(e, "NEIGHBOR", p) \in Engine
<1>1. [type |-> "NEIGHBOR", id |-> p, retries |-> 0] \in Timer BY DEF Timer
<1>2. e.timers \in SUBSET Timer BY DEF Engine
<1> QED BY <1>1, <1>2, EnqueueType, SetTimers DEF timer_insert

\* Recording a RREQ keeps the type of the engine.
LEMMA FloodInsertType ==
  ASSUME NEW e \in Engine, NEW src \in Node, NEW id \in Nat
  PROVE  flood_insert(e, src, id) \in Engine
<1>1. [src |-> src, id |-> id, live |-> TRUE] \in Flood BY DEF Flood
<1> QED BY <1>1, ZenonT(30) DEF flood_insert, Engine

\* Starting or repeating a discovery leaves a typed result.
LEMMA RequestType ==
  ASSUME NEW e0 \in Engine, NEW a \in Addr, NEW retries \in Nat
  PROVE  request(e0, a, retries) \in Result
<1> DEFINE e   == route_lookup(route_lookup(e0, a), e0.ip)
           id  == NextRreqId(e)
           seq == e.route[e.ip].seq + 1
           n   == [e EXCEPT !.rreq_id = id, !.route[e.ip].seq = seq]
           rr  == [type |-> "RREQ", from |-> e.ip, src |-> e.ip, dst |-> a,
                   id |-> id, src_seq |-> seq,
                   dst_seq |-> IF e.route[a].known THEN e.route[a].seq ELSE 0,
                   metric |-> 0, ttl |-> NET_DIAMETER]
           t   == [type |-> "RESEND_RREQ", id |-> a, retries |-> retries]
           f   == flood_insert(n, e.ip, id)
<1>1. e \in Engine BY LookupType
<1>2. e.ip \in Node /\ e.ip \in Addr /\ id \in Nat /\ seq \in Nat
  BY <1>1 DEF Engine, Entry, NextRreqId, Addr
<1>3. n \in Engine
  <2>1. [e EXCEPT !.rreq_id = id] \in Engine BY <1>1, <1>2 DEF Engine
  <2>2. [e.route[e.ip] EXCEPT !.seq = seq] \in Entry
    BY <1>1, <1>2, SetSeq DEF Engine
  <2>3. n = [[e EXCEPT !.rreq_id = id] EXCEPT !.route[e.ip] =
               [e.route[e.ip] EXCEPT !.seq = seq]]
    BY <1>1, <1>2 DEF Engine
  <2> QED BY <2>1, <2>2, <2>3, <1>2, SetRoute, ZenonT(30)
<1>4. rr \in Pdu
  BY <1>1, <1>2, LimitAssumption DEF Pdu, Rreq, Engine, Entry
<1>5. t \in Timer BY DEF Timer
<1>6. f \in Engine BY <1>2, <1>3, FloodInsertType
<1>7. [f EXCEPT !.timers = timer_enqueue(@, t)] \in Engine
  <2> HIDE DEF f, t
  <2>1. f.timers \in SUBSET Timer BY <1>6 DEF Engine
  <2>2. timer_enqueue(f.timers, t) \in SUBSET Timer
    BY <1>5, <2>1, EnqueueType
  <2> QED BY <1>6, <2>2, SetTimers
<1>8. Done(n, {}) \in Result BY <1>3, DoneType
<1>9. Done([f EXCEPT !.timers = timer_enqueue(@, t)], {rr}) \in Result
  BY <1>4, <1>7, DoneType, ZenonT(30)
<1> HIDE DEF n, rr, t
<1> QED BY <1>8, <1>9, ZenonT(30) DEF request, n, rr, t

\* _engine_send_request leaves a typed result.
LEMMA SendRequestType ==
  ASSUME NEW e \in Engine, NEW a \in Addr
  PROVE  send_request(e, a) \in Result
BY RequestType, DoneType, LimitAssumption DEF send_request

\* _engine_resend_request leaves a typed result.
LEMMA ResendType ==
  ASSUME NEW e \in Engine, NEW t \in Timer
  PROVE  resend_request(e, t) \in Result
<1>1. CASE t.retries <= 0 BY <1>1, DoneType DEF resend_request
<1>2. CASE ~(t.retries <= 0)
  <2>1. t.retries - 1 \in Nat /\ t.id \in Addr BY <1>2 DEF Timer, Addr
  <2> QED BY <1>2, <2>1, RequestType DEF resend_request
<1> QED BY <1>1, <1>2

\* Renewing the lifetime of an entry keeps the type of the engine.
LEMMA SetLive ==
  ASSUME NEW e \in Engine, NEW a \in Addr
  PROVE  [e EXCEPT !.route[a].live = TRUE] \in Engine
<1>1. [e.route[a] EXCEPT !.live = TRUE] \in Entry
  BY SetLiveEntry, ZenonT(30) DEF Engine
<1>2. [e EXCEPT !.route[a].live = TRUE]
        = [e EXCEPT !.route[a] = [e.route[a] EXCEPT !.live = TRUE]]
  BY DEF Engine
<1> QED BY <1>1, <1>2, SetRoute, ZenonT(30)

\* The output hook leaves a typed result.
LEMMA OutputType ==
  ASSUME NEW e \in Engine, NEW a \in Addr, NEW pdus \in SUBSET Pdu
  PROVE  output_packet(e, a, pdus) \in Result
<1>1. Done(e, pdus) \in Result BY DoneType
<1>2. send_request(route_lookup(e, a), a) \in Result
  BY LookupType, SendRequestType
<1>3. Done([route_lookup(e, a) EXCEPT !.route[a].live = TRUE], pdus) \in Result
  BY LookupType, SetLive, DoneType
<1> QED BY <1>1, <1>2, <1>3 DEF output_packet

\* _engine_send_reply leaves a typed result.
LEMMA SendReplyType ==
  ASSUME NEW e0 \in Engine, NEW src \in Node, NEW dst \in Addr,
         NEW asked \in Nat
  PROVE  send_reply(e0, src, dst, asked) \in Result
<1> DEFINE e == route_lookup(route_lookup(e0, src), dst)
           d == e.route[dst]
           pdu == [type |-> "RREP", from |-> e.ip,
                   to |-> e.route[src].nextHop, src |-> src, dst |-> dst,
                   dst_seq |-> d.seq, metric |-> d.metric, asked |-> asked]
<1>1. e \in Engine BY LookupType
<1> HIDE DEF e
<1>2. e.route[src] \in Entry /\ d \in Entry BY <1>1 DEF Engine, Addr
<1>3. pdu \in Pdu BY <1>1, <1>2 DEF Pdu, Rrep, Entry, Engine
<1>4. e.route[src].nextHop \in Addr BY <1>2 DEF Entry
<1> HIDE DEF pdu
<1>5. unicast(e, e.route[src].nextHop, pdu) \in Result
  BY <1>1, <1>3, <1>4, OutputType DEF unicast
<1>6. Done(e, {}) \in Result BY <1>1, DoneType
<1> QED BY <1>5, <1>6 DEF send_reply, e, pdu

\* _engine_send_error leaves a typed result.
LEMMA SendErrorType ==
  ASSUME NEW e \in Engine, NEW p \in Node
  PROVE  send_error(e, p) \in Result
<1> DEFINE bad == {a \in Addr \ {e.ip} : e.route[a].known
                                         /\ e.route[a].nextHop = p}
           err == [type |-> "RERR", from |-> e.ip,
                   dests |-> {[ip |-> a, seq |-> e.route[a].seq] : a \in bad}]
           f   == Expire(e, {a \in bad : e.route[a].valid /\ HasDev(a)})
<1>1. f \in Engine BY ExpireType
<1>2. err \in Pdu BY DEF Pdu, Rerr, Engine, Entry
<1> HIDE DEF err, f
<1>3. (IF bad = {} THEN {} ELSE {err}) \in SUBSET Pdu BY <1>2
<1> QED BY <1>1, <1>3, DoneType, ZenonT(30) DEF send_error, err, f

\* timer_delete only takes timers away.
LEMMA TimerDeleteType ==
  ASSUME NEW e \in Engine, NEW type, NEW id
  PROVE  [e EXCEPT !.timers = timer_delete(@, type, id)] \in Engine
<1>1. timer_delete(e.timers, type, id) \in SUBSET Timer
  BY DEF timer_delete, Engine
<1> QED BY <1>1, SetTimers

\* _engine_rx_hello leaves a typed result.
LEMMA HelloType ==
  ASSUME NEW e0 \in Engine, NEW m \in Rrep, m.src = m.dst
  PROVE  rx_hello(e0, m) \in Result
<1> DEFINE p  == m.dst
           e1 == [e0 EXCEPT !.timers = timer_delete(@, p, "NEIGHBOR")]
           e2 == route_lookup(timer_insert(e1, "NEIGHBOR", p), p)
           r  == [known |-> TRUE, seq |-> m.dst_seq, nextHop |-> p,
                  metric |-> 1, valid |-> TRUE, live |-> TRUE]
           e3 == [e2 EXCEPT !.neigh[p] = "live", !.route[p] = r]
<1>1. p \in Node /\ p \in Addr BY DEF Rrep, Addr
<1>2. e2 \in Engine BY <1>1, TimerDeleteType, TimerInsertType, LookupType
<1>3. r \in Entry BY <1>1 DEF Entry, Rrep
<1> HIDE DEF e2, r, p
<1>4. [e2 EXCEPT !.neigh[p] = "live"] \in Engine BY <1>1, <1>2 DEF Engine
<1>5. e3 = [[e2 EXCEPT !.neigh[p] = "live"] EXCEPT !.route[p] = r]
  BY <1>1, <1>2 DEF Engine
<1>6. e3 \in Engine BY <1>1, <1>3, <1>4, <1>5, SetRoute, ZenonT(30)
<1>7. Done(e3, {}) \in Result BY <1>6, DoneType
<1> QED BY <1>7 DEF rx_hello, e3, e2, r, p

\* _engine_rx_reply leaves a typed result.
LEMMA ReplyType ==
  ASSUME NEW e0 \in Engine, NEW m \in Rrep
  PROVE  rx_reply(e0, m) \in Result
<1> DEFINE hops == NextHopCount(m.metric)
           e1 == [e0 EXCEPT !.timers = timer_delete(@, m.dst, "RESEND_RREQ")]
           e2 == route_update(e1, m.dst, m.from, hops, m.dst_seq)
           e3 == route_lookup(e2, m.src)
           p  == e3.route[m.src].nextHop
           pdu == [m EXCEPT !.from = e3.ip, !.to = p, !.metric = hops]
<1>1. hops \in Nat BY DEF NextHopCount, Rrep
<1>2. /\ m.src \in Node /\ m.src \in Addr /\ m.dst \in Addr
      /\ m.from \in Node /\ m.dst_seq \in Nat
  BY DEF Rrep, Addr
<1>3. e3 \in Engine
  BY <1>1, <1>2, TimerDeleteType, UpdateType, LookupType, ZenonT(30)
<1> HIDE DEF e3
<1>4. p \in Addr /\ e3.ip \in Node BY <1>2, <1>3 DEF Engine, Entry
<1> HIDE DEF p, hops
<1>5. pdu \in Pdu BY <1>1, <1>4, ZenonT(30) DEF Pdu, Rrep
<1>6. unicast(e3, p, pdu) \in Result
  BY <1>3, <1>4, <1>5, OutputType DEF unicast
<1>7. Done(e0, {}) \in Result /\ Done(e3, {}) \in Result BY <1>3, DoneType
<1>8. m.src = m.dst => rx_hello(e0, m) \in Result BY HelloType
<1> HIDE DEF pdu
<1> QED BY <1>6, <1>7, <1>8 DEF rx_reply, pdu, e3, p, hops

\* The answer of the destination is a typed result.
LEMMA OwnReplyType ==
  ASSUME NEW e \in Engine, NEW m \in Rreq
  PROVE  own_reply(e, m) \in Result
<1> DEFINE seq == e.route[e.ip].seq
           new == IF seq_less_or_equal(seq, m.dst_seq) THEN m.dst_seq + 1
                                                       ELSE seq
           f == [e EXCEPT !.route[e.ip].seq = new]
<1>1. e.ip \in Addr /\ e.route[e.ip] \in Entry BY DEF Engine, Addr
<1>2. new \in Nat BY <1>1 DEF Entry, Rreq
<1> HIDE DEF new
<1>3. [e.route[e.ip] EXCEPT !.seq = new] \in Entry BY <1>1, <1>2, SetSeq
<1>4. f = [e EXCEPT !.route[e.ip] = [e.route[e.ip] EXCEPT !.seq = new]]
  BY <1>1 DEF Engine
<1>5. f \in Engine BY <1>1, <1>3, <1>4, SetRoute
<1>6. m.src \in Node /\ m.dst \in Addr /\ m.dst_seq \in Nat BY DEF Rreq
<1> HIDE DEF f
<1>7. send_reply(f, m.src, m.dst, m.dst_seq) \in Result BY <1>5, <1>6, SendReplyType
<1> QED BY <1>7 DEF own_reply, f, new

\* The answer of a gateway is a typed result.
LEMMA GatewayReplyType ==
  ASSUME NEW e \in Engine, NEW m \in Rreq
  PROVE  gateway_reply(e, m) \in Result
<1> DEFINE r == e.route[m.dst]
           g == IF r.known THEN [r EXCEPT !.valid = TRUE, !.live = TRUE]
                ELSE [known |-> TRUE, seq |-> MyRouteSeq, nextHop |-> m.dst,
                      metric |-> 1, valid |-> TRUE, live |-> TRUE]
           f == [e EXCEPT !.route[m.dst] = g]
<1>1. m.src \in Node /\ m.dst \in Addr /\ m.dst_seq \in Nat BY DEF Rreq
<1>2. r \in Entry BY <1>1 DEF Engine
<1> HIDE DEF r
<1>3. [r EXCEPT !.valid = TRUE, !.live = TRUE] \in Entry
  BY <1>2, ZenonT(30) DEF Entry
<1>4. [known |-> TRUE, seq |-> MyRouteSeq, nextHop |-> m.dst,
       metric |-> 1, valid |-> TRUE, live |-> TRUE] \in Entry
  BY <1>1 DEF Entry, MyRouteSeq
<1>5. g \in Entry BY <1>3, <1>4
<1> HIDE DEF g
<1>6. f \in Engine BY <1>1, <1>5, SetRoute
<1> HIDE DEF f
<1>7. send_reply(f, m.src, m.dst, m.dst_seq) \in Result
  BY <1>1, <1>6, SendReplyType
<1> QED BY <1>7 DEF gateway_reply, f, g, r

\* _engine_rx_request leaves a typed result.
LEMMA RequestRxType ==
  ASSUME NEW e0 \in Engine, NEW m \in Rreq
  PROVE  rx_request(e0, m) \in Result
<1> DEFINE e1   == route_lookup(e0, m.src)
           hops == NextHopCount(m.metric)
           e2   == route_update(e1, m.src, m.from, hops, m.src_seq)
           e3   == route_lookup(flood_insert(e2, m.src, m.id), m.dst)
           pdu  == [m EXCEPT !.from = e0.ip, !.metric = hops, !.ttl = @ - 1]
<1>1. hops \in Nat BY DEF NextHopCount, Rreq
<1>2. /\ m.src \in Node /\ m.src \in Addr /\ m.dst \in Addr
      /\ m.from \in Node /\ m.src_seq \in Nat /\ m.id \in Nat
  BY DEF Rreq, Addr
<1>3. e1 \in Engine BY LookupType
<1> HIDE DEF e1, hops
<1>4. e3 \in Engine
  BY <1>1, <1>2, <1>3, UpdateType, FloodInsertType, LookupType, ZenonT(30)
<1> HIDE DEF e3
<1>5. ~(m.ttl <= 1) => pdu \in Pdu
  <2> DEFINE t == m.ttl - 1
  <2> SUFFICES ASSUME ~(m.ttl <= 1) PROVE pdu \in Pdu OBVIOUS
  <2>1. t \in Nat /\ e0.ip \in Node BY DEF Rreq, Engine
  <2> HIDE DEF t
  <2>2. [m EXCEPT !.from = e0.ip, !.metric = hops, !.ttl = t] \in Rreq
    BY <1>1, <2>1, ZenonT(30) DEF Rreq
  <2> QED BY <2>2 DEF Pdu, t
<1> HIDE DEF pdu
<1>6. Done(e0, {}) \in Result /\ Done(e1, {}) \in Result
  BY <1>3, DoneType
<1>7. gateway_reply(e3, m) \in Result /\ own_reply(e3, m) \in Result
  BY <1>4, GatewayReplyType, OwnReplyType
<1>8. ~(m.ttl <= 1) => Done(e3, {pdu}) \in Result BY <1>4, <1>5, DoneType
<1> QED BY <1>6, <1>7, <1>8 DEF rx_request, e1, e3, hops, pdu

\* _engine_rx_error leaves a typed result where its write goes through.
LEMMA ErrorType ==
  ASSUME NEW e0 \in Engine, NEW m \in Rerr
  PROVE  rx_error(e0, m) \in Result
<1> DEFINE e == lookup_all(e0, {d.ip : d \in m.dests})
           broken(a) == \E d \in Broken(e, m) : d.ip = a
           seq(a) == (CHOOSE d \in Broken(e, m) : d.ip = a).seq
           told(a) == [e.route[a] EXCEPT !.seq = seq(a)]
           new == [a \in Addr |->
                     IF ~broken(a) THEN e.route[a]
                     ELSE IF e.route[a].valid /\ HasDev(a)
                     THEN route_expire(told(a)) ELSE told(a)]
<1>1. e \in Engine BY ExpireType DEF lookup_all
<1> HIDE DEF e
<1>2. ASSUME NEW a \in Addr, broken(a) PROVE told(a) \in Entry
  <2>1. seq(a) \in Nat BY <1>2 DEF Broken, Rerr
  <2> QED BY <1>1, <2>1, SetSeq DEF Engine
<1> HIDE DEF told, broken
<1>3. new \in [Addr -> Entry] BY <1>1, <1>2, ExpireEntry DEF Engine
<1> HIDE DEF new
<1>4. [e EXCEPT !.route = new] \in Engine BY <1>1, <1>3 DEF Engine
<1>5. Done([e EXCEPT !.route = new], {}) \in Result BY <1>4, DoneType
<1> QED BY <1>5, ZenonT(30) DEF rx_error, e, new, broken, told

\* _engine_rx_error leaves a typed engine where it faults.
LEMMA ErrorFaultType ==
  ASSUME NEW e0 \in Engine, NEW m \in Rerr, NEW d \in m.dests
  PROVE  rx_error_fault(e0, m, d) \in Result
<1> DEFINE e == route_lookup(e0, d.ip)
           f == [e EXCEPT !.route[d.ip].seq = d.seq]
<1>1. d.ip \in Addr /\ d.seq \in Nat BY DEF Rerr
<1>2. e \in Engine BY LookupType
<1> HIDE DEF e
<1>3. [e.route[d.ip] EXCEPT !.seq = d.seq] \in Entry
  BY <1>1, <1>2, SetSeq DEF Engine
<1>4. f = [e EXCEPT !.route[d.ip] = [e.route[d.ip] EXCEPT !.seq = d.seq]]
  BY <1>1, <1>2 DEF Engine
<1>5. f \in Engine BY <1>1, <1>2, <1>3, <1>4, SetRoute
<1> QED BY <1>5, DoneType DEF rx_error_fault, e, f

\* _engine_neigh_delete leaves a typed result.
LEMMA NeighDeleteType ==
  ASSUME NEW e0 \in Engine, NEW p \in Node
  PROVE  neigh_delete(e0, p) \in Result
<1> DEFINE d   == [e0 EXCEPT !.neigh[p] = "none"]
           e1  == [d EXCEPT !.timers = timer_delete(@, p, "NEIGHBOR")]
           e2  == route_lookup(e1, p)
           err == send_error(e2, p)
           new == [err.e EXCEPT !.route[p] =
                     IF @.valid THEN route_expire(@) ELSE Absent(p)]
<1>0. e1 = [e0 EXCEPT !.neigh[p] = "none",
                      !.timers = timer_delete(@, p, "NEIGHBOR")]
  BY DEF Engine
<1>1. d \in Engine BY DEF Engine
<1> HIDE DEF d
<1>2. e1 \in Engine BY <1>1, TimerDeleteType
<1> HIDE DEF e1
<1>3. e2 \in Engine BY <1>2, LookupType
<1> HIDE DEF e2
<1>4. err \in Result BY <1>3, SendErrorType
<1> HIDE DEF err
<1>5. err.e \in Engine /\ err.out \in SUBSET Pdu BY <1>4 DEF Result
<1>6. p \in Addr /\ err.e.route[p] \in Entry BY <1>5 DEF Engine, Addr
<1>7. new \in Engine BY <1>5, <1>6, ExpireEntry, AbsentEntry, SetRoute
<1> HIDE DEF new
<1>8. /\ Done(e0, {}) \in Result /\ Done(e2, {}) \in Result
      /\ Done(new, err.out) \in Result
  BY <1>3, <1>5, <1>7, DoneType
<1> QED BY <1>0, <1>8 DEF neigh_delete, e2, err, new

\* flood_flush and route_flush leave a typed result.
LEMMA CleanupType ==
  ASSUME NEW e \in Engine
  PROVE  cleanup(e) \in Result
<1> DEFINE flushed(a) ==
             LET r == e.route[a]
             IN  IF a = e.ip \/ ~r.known \/ r.live THEN r
                 ELSE IF ~r.valid THEN Absent(a)
                 ELSE IF HasDev(a) THEN route_expire(r) ELSE r
           fl == {f \in e.floods : f.live}
           new == [a \in Addr |-> flushed(a)]
           g == [e EXCEPT !.floods = fl]
<1>1. new \in [Addr -> Entry] BY ExpireEntry, AbsentEntry DEF Engine
<1>2. fl \in SUBSET Flood BY DEF Engine
<1> HIDE DEF new, fl
<1>3. g \in Engine BY <1>2 DEF Engine
<1>4. [g EXCEPT !.route = new] \in Engine BY <1>1, <1>3, ZenonT(30) DEF Engine
<1>5. [e EXCEPT !.floods = fl, !.route = new] = [g EXCEPT !.route = new]
  BY DEF Engine
<1> QED BY <1>4, <1>5, DoneType DEF cleanup, new, fl

-----------------------------------------------------------------------------
(* What every handler preserves *)

\* The engine e of node n: the self route is in place, the node is not its
\* own neighbour, a one hop route leads to its destination, and an entry of
\* an address outside the subnet is valid and has the gateways' number.
Core(e, n) ==
  /\ e \in Engine /\ e.ip = n
  /\ e.route[n].known /\ e.route[n].valid
  /\ e.route[n].nextHop = n /\ e.route[n].metric = 0
  /\ e.route[n].seq >= 1
  /\ e.neigh[n] = "none"
  /\ \A d \in Node : e.route[d].valid /\ e.route[d].metric = 1
                       => e.route[d].nextHop = d
  /\ \A y \in Ext : e.route[y].known
                       => e.route[y].valid /\ e.route[y].seq = MyRouteSeq

\* No valid route is newer than the sequence number S[d] of its destination.
Fresh(e, n, S) ==
  \A d \in Node \ {n} : e.route[d].valid => e.route[d].seq <= S[d]

Safe(e, n, S) == Core(e, n) /\ Fresh(e, n, S) /\ e.route[n].seq >= S[n]

\* A NEIGHBOR timer of p runs.
Watches(e, p) == \E t \in e.timers : t.type = "NEIGHBOR" /\ t.id = p

\* Engine f comes from e by handlers: timers, rreq_id and the own sequence
\* number only grow, a new neighbour is watched, the entries of addresses
\* outside the subnet stay.
Later(e, f) ==
  /\ f.ip = e.ip /\ e.timers \subseteq f.timers
  /\ \A p \in Node : f.neigh[p] # "none"
                        => e.neigh[p] # "none" \/ Watches(f, p)
  /\ f.rreq_id >= e.rreq_id
  /\ f.route[e.ip].seq >= e.route[e.ip].seq
  /\ \A y \in Ext : e.route[y].known => /\ f.route[y].known
                                        /\ f.route[y].nextHop = e.route[y].nextHop

\* A PDU against the sequence numbers T of the nodes.
PduOK(m, T) ==
  /\ m.type = "RREQ" => /\ m.src_seq <= T[m.src]
                        /\ m.metric + m.ttl = NET_DIAMETER
                        /\ m.metric = 0 => m.from = m.src
  /\ m.type = "RREP" => /\ m.dst \in Node => m.dst_seq <= T[m.dst]
                        /\ m.src = m.dst => m.from = m.dst
                        /\ m.dst \in Node /\ m.metric = 0 => m.from = m.dst
                        /\ m.dst \in Ext => m.dst_seq = MyRouteSeq
                        /\ m.dst \in Node /\ m.src # m.dst
                             => m.asked < m.dst_seq
  /\ m.type = "RERR" => \A d \in m.dests :
                           d.ip \in Ext => d.seq = MyRouteSeq

\* p is the RREQ of a discovery started between e and f.
NewRreq(p, e, f) ==
  /\ p.type = "RREQ" /\ p.from = e.ip /\ p.src = e.ip
  /\ f.rreq_id > e.rreq_id /\ p.id = f.rreq_id
  /\ p.src_seq = f.route[e.ip].seq
  /\ p.metric = 0 /\ p.ttl = NET_DIAMETER

\* The handler with result r sends PDUs of the set pdus, or one new RREQ.
Sends(e, r, pdus) ==
  r.out \subseteq pdus \/ \E p : r.out = {p} /\ NewRreq(p, e, r.e)

\* Later is transitive.
LEMMA LaterTrans ==
  ASSUME NEW e \in Engine, NEW f \in Engine, NEW g \in Engine,
         Later(e, f), Later(f, g)
  PROVE  Later(e, g)
<1>1. /\ e.ip \in Addr /\ e.rreq_id \in Nat /\ f.rreq_id \in Nat
      /\ g.rreq_id \in Nat
  BY DEF Engine, Addr
<1>2. /\ e.route[e.ip].seq \in Nat /\ f.route[e.ip].seq \in Nat
      /\ g.route[e.ip].seq \in Nat
  BY <1>1 DEF Engine, Entry
<1> QED BY <1>1, <1>2 DEF Later, Watches

\* What a handler sends when it starts with a step from e to f.
LEMMA SendsTrans ==
  ASSUME NEW e \in Engine, NEW f \in Engine, NEW r \in Result, Later(e, f),
         NEW P, Sends(f, r, P), NEW Q, P \subseteq Q
  PROVE  Sends(e, r, Q)
<1>1. e.rreq_id \in Nat /\ f.rreq_id \in Nat /\ r.e.rreq_id \in Nat
  BY DEF Engine, Result
<1>2. e.ip = f.ip /\ f.rreq_id >= e.rreq_id BY DEF Later
<1>3. ASSUME NEW p, NewRreq(p, f, r.e) PROVE NewRreq(p, e, r.e)
  BY <1>1, <1>2, <1>3 DEF NewRreq
<1> QED BY <1>3 DEF Sends

\* An engine with the same routes and neighbours is as safe, and later when
\* it has at least the timers and the rreq_id.
LEMMA SameRoutes ==
  ASSUME NEW n \in Node, NEW S \in [Node -> Nat], NEW e, Safe(e, n, S),
         NEW f \in Engine, f.ip = e.ip, f.route = e.route, f.neigh = e.neigh
  PROVE  /\ Safe(f, n, S)
         /\ e.timers \subseteq f.timers /\ f.rreq_id >= e.rreq_id
              => Later(e, f)
<1>1. e \in Engine /\ n \in Addr BY DEF Safe, Core, Addr
<1>2. e.route[n].seq \in Nat BY <1>1 DEF Engine, Entry
<1> QED BY <1>2 DEF Safe, Core, Fresh, Later

\* Storing an entry of another address.
LEMMA SetRouteSafe ==
  ASSUME NEW n \in Node, NEW S \in [Node -> Nat], NEW e, Safe(e, n, S),
         NEW a \in Addr \ {n}, NEW r \in Entry,
         a \in Node /\ r.valid => r.seq <= S[a],
         a \in Node /\ r.valid /\ r.metric = 1 => r.nextHop = a,
         a \in Ext /\ r.known => r.valid /\ r.seq = MyRouteSeq,
         a \in Ext /\ e.route[a].known
           => r.known /\ r.nextHop = e.route[a].nextHop
  PROVE  LET f == [e EXCEPT !.route[a] = r]
         IN  Safe(f, n, S) /\ Later(e, f) /\ f.route[n] = e.route[n]
<1> DEFINE f == [e EXCEPT !.route[a] = r]
<1>1. e \in Engine /\ n \in Addr BY DEF Safe, Core, Addr
<1>2. f \in Engine BY <1>1, SetRoute
<1>3. /\ f.ip = e.ip /\ f.neigh = e.neigh /\ f.timers = e.timers
      /\ f.rreq_id = e.rreq_id
      /\ \A b \in Addr : f.route[b] = IF b = a THEN r ELSE e.route[b]
  BY <1>1 DEF Engine
<1>4. e.route[n].seq \in Nat /\ e.rreq_id \in Nat
  BY <1>1 DEF Engine, Entry
<1> HIDE DEF f
<1>5. f.route[n] = e.route[n] BY <1>1, <1>3
<1>6. Core(f, n) BY <1>2, <1>3, <1>5 DEF Safe, Core, Addr
<1>7. Fresh(f, n, S) BY <1>3 DEF Safe, Fresh, Addr
<1>8. Later(e, f)
  BY <1>3, <1>4, <1>5 DEF Later, Addr, Safe, Core
<1> QED BY <1>5, <1>6, <1>7, <1>8 DEF Safe, f

\* What storing a sequence number changes.
LEMMA SetSeqFacts ==
  ASSUME NEW e \in Engine, NEW a \in Addr, NEW s \in Nat
  PROVE  LET f == [e EXCEPT !.route[a].seq = s]
         IN  /\ f \in Engine
             /\ f.ip = e.ip /\ f.neigh = e.neigh /\ f.timers = e.timers
             /\ f.rreq_id = e.rreq_id
             /\ \A b \in Addr \ {a} : f.route[b] = e.route[b]
             /\ f.route[a].seq = s
             /\ f.route[a].known <=> e.route[a].known
             /\ f.route[a].valid <=> e.route[a].valid
             /\ f.route[a].nextHop = e.route[a].nextHop
             /\ f.route[a].metric = e.route[a].metric
<1> DEFINE r == [e.route[a] EXCEPT !.seq = s]
<1>1. e.route[a] \in Entry BY DEF Engine
<1>2. r \in Entry BY <1>1, SetSeq
<1>3. /\ r.seq = s
      /\ r.known <=> e.route[a].known
      /\ r.valid <=> e.route[a].valid
      /\ r.nextHop = e.route[a].nextHop /\ r.metric = e.route[a].metric
  BY <1>1 DEF Entry
<1>4. [e EXCEPT !.route[a].seq = s] = [e EXCEPT !.route[a] = r]
  BY DEF Engine
<1> HIDE DEF r
<1>5. [e EXCEPT !.route[a] = r] \in Engine BY <1>2, SetRoute
<1>6. LET f == [e EXCEPT !.route[a] = r]
      IN  /\ f.ip = e.ip /\ f.neigh = e.neigh /\ f.timers = e.timers
          /\ f.rreq_id = e.rreq_id
          /\ \A b \in Addr \ {a} : f.route[b] = e.route[b]
          /\ f.route[a] = r
  BY DEF Engine
<1> QED BY <1>3, <1>4, <1>5, <1>6

\* Counting up the node's own sequence number.
LEMMA SetOwnSafe ==
  ASSUME NEW n \in Node, NEW S \in [Node -> Nat], NEW e, Safe(e, n, S),
         NEW f \in Engine, f.ip = n, f.neigh = e.neigh,
         e.timers \subseteq f.timers, f.rreq_id >= e.rreq_id,
         \A b \in Addr \ {n} : f.route[b] = e.route[b],
         f.route[n].known, f.route[n].valid, f.route[n].nextHop = n,
         f.route[n].metric = 0, f.route[n].seq >= e.route[n].seq
  PROVE  Safe(f, n, S) /\ Later(e, f)
<1>1. e \in Engine /\ n \in Addr BY DEF Safe, Core, Addr
<1>2. e.route[n].seq \in Nat /\ f.route[n].seq \in Nat
  BY <1>1 DEF Engine, Entry
<1>3. n \notin Ext BY AddrAssumption
<1>4. \A y \in Ext : f.route[y] = e.route[y] BY <1>3 DEF Addr
<1>5. \A d \in Node : f.route[d].valid /\ f.route[d].metric = 1
                        => f.route[d].nextHop = d
  BY DEF Safe, Core, Addr
<1>6. f.route[n].seq >= 1 /\ f.route[n].seq >= S[n]
  BY <1>2 DEF Safe, Core
<1>7. Core(f, n) BY <1>4, <1>5, <1>6 DEF Safe, Core
<1>8. Fresh(f, n, S) BY DEF Safe, Fresh, Addr
<1>9. Later(e, f) BY <1>4 DEF Later, Safe, Core
<1> QED BY <1>6, <1>7, <1>8, <1>9 DEF Safe

\* Expiring entries changes nothing else.
LEMMA ExpireFacts ==
  ASSUME NEW e \in Engine, NEW X
  PROVE  LET f == Expire(e, X)
         IN  /\ f \in Engine
             /\ f.ip = e.ip /\ f.neigh = e.neigh /\ f.timers = e.timers
             /\ f.floods = e.floods /\ f.rreq_id = e.rreq_id
             /\ \A a \in Addr : f.route[a] = IF a \in X
                                             THEN route_expire(e.route[a])
                                             ELSE e.route[a]
<1>1. Expire(e, X) \in Engine BY ExpireType
<1> QED BY <1>1 DEF Expire, Engine

\* An expired entry is invalid and keeps its next hop.
LEMMA ExpireEntryFacts ==
  ASSUME NEW r \in Entry
  PROVE  /\ ~route_expire(r).valid /\ route_expire(r).known = r.known
         /\ route_expire(r).nextHop = r.nextHop
         /\ route_expire(r).metric = r.metric
BY ZenonT(30) DEF route_expire, Entry

\* Expiring routes to other nodes is safe.
LEMMA ExpireSafe ==
  ASSUME NEW n \in Node, NEW S \in [Node -> Nat], NEW e, Safe(e, n, S),
         NEW X, X \subseteq Node \ {n}
  PROVE  LET f == Expire(e, X)
         IN  Safe(f, n, S) /\ Later(e, f) /\ f.route[n] = e.route[n]
<1> DEFINE f == Expire(e, X)
<1>1. e \in Engine /\ n \in Addr BY DEF Safe, Core, Addr
<1>2. \A a \in Addr : e.route[a] \in Entry BY <1>1 DEF Engine
<1>3. /\ f \in Engine /\ f.ip = e.ip /\ f.neigh = e.neigh
      /\ f.timers = e.timers /\ f.rreq_id = e.rreq_id
      /\ \A a \in Addr : f.route[a] = IF a \in X
                                      THEN route_expire(e.route[a])
                                      ELSE e.route[a]
  BY <1>1, ExpireFacts
<1> HIDE DEF f
<1>4. \A a \in Addr : f.route[a].valid => f.route[a] = e.route[a]
  BY <1>2, <1>3, ExpireEntryFacts
<1>5. f.route[n] = e.route[n] BY <1>1, <1>3
<1>6. \A y \in Ext : f.route[y] = e.route[y]
  BY <1>3, AddrAssumption DEF Addr
<1>7. e.route[n].seq \in Nat /\ e.rreq_id \in Nat
  BY <1>1 DEF Engine, Entry
<1>8. Core(f, n) BY <1>3, <1>4, <1>5, <1>6 DEF Safe, Core, Addr
<1>9. Fresh(f, n, S) BY <1>4 DEF Safe, Fresh, Addr
<1>10. Later(e, f) BY <1>3, <1>5, <1>6, <1>7 DEF Later, Safe, Core
<1> QED BY <1>5, <1>8, <1>9, <1>10 DEF Safe, f

\* Looking up a route leaves rreq_id, neighbours, timers and floods alone.
LEMMA LookupFacts ==
  ASSUME NEW e \in Engine, NEW a
  PROVE  LET f == route_lookup(e, a)
         IN  /\ f \in Engine
             /\ f.ip = e.ip /\ f.neigh = e.neigh /\ f.timers = e.timers
             /\ f.floods = e.floods /\ f.rreq_id = e.rreq_id
BY ExpireFacts DEF route_lookup, lookup_all

\* So is looking up routes, which expires only lapsed ones of other nodes.
LEMMA LookupSafe ==
  ASSUME NEW n \in Node, NEW S \in [Node -> Nat], NEW e, Safe(e, n, S), NEW A
  PROVE  LET f == lookup_all(e, A)
         IN  Safe(f, n, S) /\ Later(e, f) /\ f.route[n] = e.route[n]
<1>1. Lapsed(e) \subseteq Node \ {n} BY DEF Lapsed, Safe, Core, HasDev
<1>2. Lapsed(e) \cap A \subseteq Node \ {n} BY <1>1
<1> QED BY <1>1, <1>2, ExpireSafe DEF lookup_all

\* Storing what a PDU says about a, when its number is one a has reached.
LEMMA UpdateSafe ==
  ASSUME NEW n \in Node, NEW S \in [Node -> Nat], NEW e0, Safe(e0, n, S),
         NEW a \in Addr, NEW p \in Node, NEW hops \in Nat, NEW seq \in Nat,
         a \in Node => seq <= S[a],
         a \in Node /\ hops = 1 => p = a,
         a \in Ext => seq = MyRouteSeq
  PROVE  LET f == route_update(e0, a, p, hops, seq)
         IN  Safe(f, n, S) /\ Later(e0, f) /\ f.route[n] = e0.route[n]
<1> DEFINE e == route_lookup(e0, a)
           r == [known |-> TRUE, seq |-> seq, nextHop |-> p, metric |-> hops,
                 valid |-> TRUE, live |-> TRUE]
           f == [e EXCEPT !.route[a] = r]
<1>1. Safe(e, n, S) /\ Later(e0, e) /\ e.route[n] = e0.route[n]
  BY LookupSafe DEF route_lookup
<1>2. e0 \in Engine /\ e \in Engine /\ n \in Addr
  BY <1>1, ZenonT(30) DEF Safe, Core, Addr
<1> HIDE DEF e
<1>3. r \in Entry BY DEF Entry, Addr
<1>4. CASE NoNews(e.route[a], hops, seq)
  BY <1>1, <1>4 DEF route_update, e
<1>5. CASE ~NoNews(e.route[a], hops, seq)
  <2>1. e.route[a].seq \in Nat BY <1>2 DEF Engine, Entry
  <2>2. a # n
    BY <1>1, <1>5, <2>1 DEF NoNews, seq_greater, Safe, Core
  <2>3. a \in Ext => ~e.route[a].known
    BY <1>1, <1>5, <2>1 DEF NoNews, seq_greater, Safe, Core, MyRouteSeq
  <2>4. Safe(f, n, S) /\ Later(e, f) /\ f.route[n] = e.route[n]
    <3> HIDE DEF f
    <3>1. /\ a \in Addr \ {n} /\ r.seq = seq /\ r.metric = hops
          /\ r.nextHop = p /\ r.known /\ r.valid
      BY <2>2
    <3> HIDE DEF r
    <3> QED BY <1>1, <1>3, <2>3, <3>1, SetRouteSafe DEF f
  <2>5. f \in Engine BY <2>4 DEF Safe, Core
  <2>6. Later(e0, f) BY <1>1, <1>2, <2>4, <2>5, LaterTrans
  <2> HIDE DEF f
  <2>7. route_update(e0, a, p, hops, seq) \in {e, f}
    BY DEF route_update, e, f
  <2> QED BY <1>1, <2>4, <2>6, <2>7
<1> QED BY <1>4, <1>5

\* A discovery sends one new RREQ or nothing.
LEMMA RequestSafe ==
  ASSUME NEW n \in Node, NEW S \in [Node -> Nat], NEW e0, Safe(e0, n, S),
         NEW a \in Addr, NEW retries \in Nat
  PROVE  LET r == request(e0, a, retries)
         IN  Safe(r.e, n, S) /\ Later(e0, r.e) /\ Sends(e0, r, {})
<1> DEFINE e   == route_lookup(route_lookup(e0, a), e0.ip)
           id  == NextRreqId(e)
           seq == e.route[e.ip].seq + 1
           g   == [e EXCEPT !.rreq_id = id]
           h   == [g EXCEPT !.route[n].seq = seq]
           rr  == [type |-> "RREQ", from |-> e.ip, src |-> e.ip, dst |-> a,
                   id |-> id, src_seq |-> seq,
                   dst_seq |-> IF e.route[a].known THEN e.route[a].seq ELSE 0,
                   metric |-> 0, ttl |-> NET_DIAMETER]
           t   == [type |-> "RESEND_RREQ", id |-> a, retries |-> retries]
           f   == flood_insert(h, e.ip, id)
           k   == [f EXCEPT !.timers = timer_enqueue(@, t)]
<1>1. Safe(e, n, S) /\ Later(e0, e)
  <2> DEFINE d == route_lookup(e0, a)
  <2>1. Safe(d, n, S) /\ Later(e0, d) BY LookupSafe DEF route_lookup
  <2> HIDE DEF d
  <2>2. Safe(route_lookup(d, e0.ip), n, S) /\ Later(d, route_lookup(d, e0.ip))
    BY <2>1, LookupSafe DEF route_lookup
  <2> QED BY <2>1, <2>2, LaterTrans, ZenonT(30) DEF Safe, Core, d
<1>2. e0 \in Engine /\ e \in Engine /\ n \in Addr /\ e.ip = n /\ e0.ip = n
  BY <1>1, ZenonT(30) DEF Safe, Core, Addr
<1>2a. e.rreq_id = e0.rreq_id
  <2> DEFINE d == route_lookup(e0, a)
  <2>1. d \in Engine /\ d.rreq_id = e0.rreq_id BY <1>2, LookupFacts
  <2> HIDE DEF d
  <2>2. route_lookup(d, e0.ip).rreq_id = d.rreq_id BY <2>1, LookupFacts
  <2> QED BY <2>1, <2>2 DEF d
<1> HIDE DEF e
<1>3. id \in Nat /\ id = e0.rreq_id + 1 /\ seq \in Nat
  BY <1>2, <1>2a DEF Engine, Entry, NextRreqId
<1>4. g \in Engine /\ g.ip = n /\ g.route = e.route /\ g.neigh = e.neigh
      /\ g.timers = e.timers /\ g.rreq_id = id
  BY <1>2, <1>3 DEF Engine
<1> HIDE DEF g, id
<1>5. Safe(g, n, S) BY <1>1, <1>2, <1>4, SameRoutes
<1>6. /\ h \in Engine /\ h.ip = n /\ h.neigh = e.neigh
      /\ h.timers = e.timers /\ h.rreq_id = id
      /\ \A b \in Addr \ {n} : h.route[b] = e.route[b]
  <2> HIDE DEF seq
  <2> QED BY <1>2, <1>3, <1>4, SetSeqFacts
<1>8. /\ h.route[n].known /\ h.route[n].valid /\ h.route[n].nextHop = n
      /\ h.route[n].metric = 0 /\ h.route[n].seq = seq
  <2>1. /\ g.route[n].known /\ g.route[n].valid
        /\ g.route[n].nextHop = n /\ g.route[n].metric = 0
    BY <1>5 DEF Safe, Core
  <2> HIDE DEF seq
  <2>2. g \in Engine /\ n \in Addr /\ seq \in Nat BY <1>2, <1>3, <1>4
  <2>3. h.route[n].seq = seq BY <2>2, SetSeqFacts, ZenonT(30)
  <2>4. h.route[n].known <=> g.route[n].known BY <2>2, SetSeqFacts
  <2>5. h.route[n].valid <=> g.route[n].valid BY <2>2, SetSeqFacts
  <2>6. h.route[n].nextHop = g.route[n].nextHop BY <2>2, SetSeqFacts
  <2>7. h.route[n].metric = g.route[n].metric BY <2>2, SetSeqFacts
  <2> HIDE DEF h
  <2> QED BY <2>1, <2>3, <2>4, <2>5, <2>6, <2>7
<1>7. h = [e EXCEPT !.rreq_id = id, !.route[e.ip].seq = seq]
  BY <1>2 DEF Engine, g
<1> HIDE DEF h
<1>9. seq >= e.route[n].seq /\ id >= e.rreq_id
  BY <1>2 DEF Engine, Entry, id, NextRreqId
<1> HIDE DEF seq
<1>10. Safe(h, n, S) /\ Later(e, h)
  BY <1>1, <1>6, <1>8, <1>9, SetOwnSafe
<1>11. f \in Engine BY <1>2, <1>3, <1>6, FloodInsertType
<1>12. /\ f.ip = n /\ f.neigh = e.neigh /\ f.timers = e.timers
       /\ f.rreq_id = id /\ f.route = h.route
  BY <1>6 DEF flood_insert, Engine
<1> HIDE DEF f
<1>13. t \in Timer BY DEF Timer
<1> HIDE DEF t
<1>14. timer_enqueue(f.timers, t) \in SUBSET Timer
  BY <1>11, <1>13, EnqueueType DEF Engine
<1>15. e.timers \subseteq timer_enqueue(f.timers, t)
  BY <1>12 DEF timer_enqueue
<1>16. /\ k \in Engine /\ k.ip = n /\ k.neigh = e.neigh
       /\ k.timers = timer_enqueue(f.timers, t)
       /\ k.rreq_id = id /\ k.route = h.route
  BY <1>11, <1>12, <1>14 DEF Engine
<1> HIDE DEF k
<1>17. Safe(k, n, S) /\ Later(h, k)
  <2>1. k.rreq_id >= h.rreq_id BY <1>3, <1>6, <1>16
  <2>2. h.timers \subseteq k.timers BY <1>6, <1>15, <1>16
  <2> QED BY <1>6, <1>10, <1>16, <2>1, <2>2, SameRoutes
<1>18. Later(e0, h) BY <1>1, <1>2, <1>6, <1>10, LaterTrans
<1>19. Later(e0, k) BY <1>2, <1>6, <1>16, <1>17, <1>18, LaterTrans, ZenonT(30)
<1>20. NewRreq(rr, e0, k)
  BY <1>2, <1>3, <1>8, <1>16 DEF NewRreq, Engine
<1> HIDE DEF rr
<1>21. \/ request(e0, a, retries) = Done(h, {})
       \/ request(e0, a, retries) = Done(k, {rr})
  BY <1>7, ZenonT(30) DEF request, e, id, seq, rr, t, f, k
<1> QED BY <1>10, <1>17, <1>18, <1>19, <1>20, <1>21 DEF Done, Sends

\* The two ways into a discovery.
LEMMA SendRequestSafe ==
  ASSUME NEW n \in Node, NEW S \in [Node -> Nat], NEW e, Safe(e, n, S),
         NEW a \in Addr
  PROVE  LET r == send_request(e, a)
         IN  Safe(r.e, n, S) /\ Later(e, r.e) /\ Sends(e, r, {})
<1>1. e \in Engine BY DEF Safe, Core
<1>2. Later(e, e) BY <1>1, SameRoutes DEF Engine
<1>3. CASE \E t \in e.timers : t.type = "RESEND_RREQ" /\ t.id = a
  BY <1>2, <1>3, ZenonT(30) DEF send_request, Done, Sends
<1>4. CASE ~(\E t \in e.timers : t.type = "RESEND_RREQ" /\ t.id = a)
  BY <1>4, RequestSafe, LimitAssumption, ZenonT(30) DEF send_request
<1> QED BY <1>3, <1>4

\* Repeating a discovery is safe and sends one new RREQ or nothing.
LEMMA ResendSafe ==
  ASSUME NEW n \in Node, NEW S \in [Node -> Nat], NEW e, Safe(e, n, S),
         NEW t \in Timer
  PROVE  LET r == resend_request(e, t)
         IN  Safe(r.e, n, S) /\ Later(e, r.e) /\ Sends(e, r, {})
<1>1. e \in Engine BY DEF Safe, Core
<1>2. Later(e, e) BY <1>1, SameRoutes DEF Engine
<1>3. CASE t.retries <= 0
  BY <1>2, <1>3, ZenonT(30) DEF resend_request, Done, Sends
<1>4. CASE ~(t.retries <= 0)
  <2>1. t.retries - 1 \in Nat /\ t.id \in Addr BY <1>4 DEF Timer, Addr
  <2> QED BY <1>4, <2>1, RequestSafe DEF resend_request
<1> QED BY <1>3, <1>4

\* Renewing the lifetime of an entry, or its end.
LEMMA SetLiveSafe ==
  ASSUME NEW n \in Node, NEW S \in [Node -> Nat], NEW e, Safe(e, n, S),
         NEW a \in Addr, NEW v \in BOOLEAN
  PROVE  LET f == [e EXCEPT !.route[a].live = v]
         IN  Safe(f, n, S) /\ Later(e, f)
<1> DEFINE r == [e.route[a] EXCEPT !.live = v]
           f == [e EXCEPT !.route[a] = r]
<1>1. e \in Engine /\ n \in Addr BY DEF Safe, Core, Addr
<1>2. e.route[a] \in Entry BY <1>1 DEF Engine
<1>3. r \in Entry BY <1>2, SetLiveEntry
<1>4. /\ r.seq = e.route[a].seq
      /\ r.known <=> e.route[a].known
      /\ r.valid <=> e.route[a].valid
      /\ r.nextHop = e.route[a].nextHop /\ r.metric = e.route[a].metric
  BY <1>2 DEF Entry
<1>5. [e EXCEPT !.route[a].live = v] = f BY <1>1 DEF Engine
<1> HIDE DEF r
<1>6. CASE a = n
  <2>1. f \in Engine BY <1>1, <1>3, SetRoute
  <2>2. /\ f.ip = n /\ f.neigh = e.neigh /\ f.timers = e.timers
        /\ f.rreq_id = e.rreq_id
        /\ \A b \in Addr \ {n} : f.route[b] = e.route[b]
        /\ f.route[n] = r
    BY <1>1, <1>6 DEF Engine, Safe, Core
  <2>3. e.route[n].seq \in Nat /\ e.rreq_id \in Nat
    BY <1>1 DEF Engine, Entry
  <2> HIDE DEF f
  <2>4. /\ r.known /\ r.valid /\ r.nextHop = n /\ r.metric = 0
        /\ r.seq >= e.route[n].seq
    BY <1>4, <1>6, <2>3 DEF Safe, Core
  <2>5. Safe(f, n, S) /\ Later(e, f) BY <2>1, <2>2, <2>3, <2>4, SetOwnSafe
  <2> QED BY <1>5, <2>5
<1>7. CASE a # n
  <2>1. a \in Node /\ r.valid => r.seq <= S[a]
    BY <1>4, <1>7 DEF Safe, Fresh
  <2>2. a \in Node /\ r.valid /\ r.metric = 1 => r.nextHop = a
    BY <1>4, ZenonT(30) DEF Safe, Core
  <2>3. a \in Ext /\ r.known => r.valid /\ r.seq = MyRouteSeq
    BY <1>4 DEF Safe, Core
  <2>4. a \in Addr \ {n} BY <1>7
  <2>5. Safe(f, n, S) /\ Later(e, f)
    BY <1>3, <1>4, <2>1, <2>2, <2>3, <2>4, SetRouteSafe, ZenonT(30)
  <2> QED BY <1>5, <2>5
<1> QED BY <1>6, <1>7

\* A packet that leaves, or waits for a route.
LEMMA OutputSafe ==
  ASSUME NEW n \in Node, NEW S \in [Node -> Nat], NEW e0, Safe(e0, n, S),
         NEW a \in Addr, NEW pdus \in SUBSET Pdu
  PROVE  LET r == output_packet(e0, a, pdus)
         IN  Safe(r.e, n, S) /\ Later(e0, r.e) /\ Sends(e0, r, pdus)
<1> DEFINE e == route_lookup(e0, a)
           s == send_request(e, a)
           k == [e EXCEPT !.route[a].live = TRUE]
<1>1. Safe(e, n, S) /\ Later(e0, e) BY LookupSafe DEF route_lookup
<1>2. e0 \in Engine /\ e \in Engine BY <1>1, ZenonT(30) DEF Safe, Core
<1>3. Later(e0, e0) BY <1>2, SameRoutes DEF Engine
<1> HIDE DEF e
<1>4. Safe(s.e, n, S) /\ Later(e, s.e) /\ Sends(e, s, {})
  BY <1>1, SendRequestSafe
<1>5. s \in Result /\ s.e \in Engine
  BY <1>2, <1>4, SendRequestType, ZenonT(30) DEF Safe, Core
<1> HIDE DEF s
<1>6. Later(e0, s.e) BY <1>1, <1>2, <1>4, <1>5, LaterTrans
<1>7. Sends(e0, s, pdus) BY <1>1, <1>2, <1>4, <1>5, SendsTrans
<1>8. Safe(k, n, S) /\ Later(e, k) BY <1>1, SetLiveSafe, ZenonT(30)
<1> HIDE DEF k
<1>9. Later(e0, k)
  <2>1. k \in Engine BY <1>8, ZenonT(30) DEF Safe, Core
  <2> QED BY <1>1, <1>2, <1>8, <2>1, LaterTrans
<1>10. output_packet(e0, a, pdus) \in {Done(e0, pdus), s, Done(k, pdus)}
  BY DEF output_packet, e, s, k
<1> QED BY <1>3, <1>4, <1>6, <1>7, <1>8, <1>9, <1>10 DEF Done, Sends

\* The RREPs for dst that node e.ip makes of its own table, asked with the
\* number asked.
Replies(e, src, dst, asked) ==
  {p \in Pdu : /\ p.type = "RREP" /\ p.from = e.ip /\ p.src = src
               /\ p.dst = dst /\ p.asked = asked
               /\ dst = e.ip => p.dst_seq = e.route[dst].seq
               /\ dst \in Ext => p.dst_seq = MyRouteSeq}

\* _engine_send_reply is safe and sends one of Replies or one new RREQ.
LEMMA SendReplySafe ==
  ASSUME NEW n \in Node, NEW S \in [Node -> Nat], NEW e0, Safe(e0, n, S),
         NEW src \in Node, NEW dst \in Addr, NEW asked \in Nat,
         dst \in Ext => e0.route[dst].known
  PROVE  LET r == send_reply(e0, src, dst, asked)
         IN  /\ Safe(r.e, n, S) /\ Later(e0, r.e)
             /\ Sends(e0, r, Replies(e0, src, dst, asked))
<1> DEFINE e == route_lookup(route_lookup(e0, src), dst)
           d == e.route[dst]
           p == e.route[src].nextHop
           pdu == [type |-> "RREP", from |-> e.ip, to |-> p, src |-> src,
                   dst |-> dst, dst_seq |-> d.seq, metric |-> d.metric,
                   asked |-> asked]
           r == unicast(e, p, pdu)
<1>1. Safe(e, n, S) /\ Later(e0, e) /\ e.route[n] = e0.route[n]
  <2> DEFINE c == route_lookup(e0, src)
  <2>1. Safe(c, n, S) /\ Later(e0, c) /\ c.route[n] = e0.route[n]
    BY LookupSafe DEF route_lookup
  <2> HIDE DEF c
  <2>2. LET f == route_lookup(c, dst)
        IN  Safe(f, n, S) /\ Later(c, f) /\ f.route[n] = c.route[n]
    BY <2>1, LookupSafe DEF route_lookup
  <2> QED BY <2>1, <2>2, LaterTrans, ZenonT(30) DEF Safe, Core, c
<1>2. e0 \in Engine /\ e \in Engine /\ e.ip = n /\ e0.ip = n
  BY <1>1, ZenonT(30) DEF Safe, Core
<1> HIDE DEF e
<1>3. e.route[src] \in Entry /\ d \in Entry BY <1>2 DEF Engine, Addr
<1>4. pdu \in Pdu /\ p \in Addr BY <1>2, <1>3 DEF Pdu, Rrep, Entry, Engine
<1>5. dst \in Ext => d.seq = MyRouteSeq
  BY <1>1, ZenonT(30) DEF Safe, Core, Later
<1>6. pdu \in Replies(e0, src, dst, asked)
  BY <1>1, <1>2, <1>4, <1>5, ZenonT(30) DEF Replies
<1> HIDE DEF pdu
<1>7. Safe(r.e, n, S) /\ Later(e, r.e) /\ Sends(e, r, {pdu})
  BY <1>1, <1>4, OutputSafe, ZenonT(30) DEF unicast
<1>8. r \in Result BY <1>2, <1>4, OutputType DEF unicast
<1> HIDE DEF r
<1>9. Sends(e0, r, Replies(e0, src, dst, asked))
  BY <1>1, <1>2, <1>6, <1>7, <1>8, SendsTrans
<1>10. Later(e0, r.e)
  BY <1>1, <1>2, <1>7, LaterTrans, ZenonT(30) DEF Safe, Core
<1>11. send_reply(e0, src, dst, asked) \in {Done(e, {}), r}
  BY ZenonT(30) DEF send_reply, e, r, pdu
<1> QED BY <1>1, <1>7, <1>9, <1>10, <1>11 DEF Done, Sends

-----------------------------------------------------------------------------
(* The handlers *)

\* The calls of timer_delete with swapped arguments delete nothing: an
\* address is not a task type.
LEMMA TimerDeleteNone ==
  ASSUME NEW e \in Engine, NEW a \in Addr, NEW id
  PROVE  [e EXCEPT !.timers = timer_delete(@, a, id)] = e
<1>1. \A t \in e.timers : t.type # a
  BY AddrAssumption DEF Engine, Timer
<1>2. timer_delete(e.timers, a, id) = e.timers BY <1>1 DEF timer_delete
<1> QED BY <1>2 DEF Engine

\* Adding a watched neighbour, or removing one.
LEMMA NeighSafe ==
  ASSUME NEW n \in Node, NEW S \in [Node -> Nat], NEW e, Safe(e, n, S),
         NEW f \in Engine, f.ip = e.ip, f.route = e.route,
         f.timers = e.timers, f.rreq_id = e.rreq_id, NEW p \in Node \ {n},
         \A q \in Node \ {p} : f.neigh[q] = e.neigh[q],
         f.neigh[p] = "none" \/ Watches(f, p)
  PROVE  Safe(f, n, S) /\ Later(e, f)
<1>1. e \in Engine /\ n \in Addr BY DEF Safe, Core, Addr
<1>2. e.route[n].seq \in Nat /\ e.rreq_id \in Nat
  BY <1>1 DEF Engine, Entry
<1>3. f.neigh[n] = "none" BY DEF Safe, Core
<1>4. Safe(f, n, S) BY <1>3 DEF Safe, Core, Fresh
<1>5. Later(e, f) BY <1>2 DEF Later, Safe, Core
<1> QED BY <1>4, <1>5

\* _engine_rx_hello is safe and watches the neighbour it stores.
LEMMA HelloSafe ==
  ASSUME NEW n \in Node, NEW S \in [Node -> Nat], NEW e0, Safe(e0, n, S),
         NEW m \in Rrep, m.src = m.dst, m.dst # n, m.dst_seq <= S[m.dst]
  PROVE  LET r == rx_hello(e0, m)
         IN  Safe(r.e, n, S) /\ Later(e0, r.e) /\ r.out = {}
<1> DEFINE p  == m.dst
           t  == [type |-> "NEIGHBOR", id |-> p, retries |-> 0]
           e1 == timer_insert(e0, "NEIGHBOR", p)
           e2 == route_lookup(e1, p)
           e3 == [e2 EXCEPT !.neigh[p] = "live"]
           r  == [known |-> TRUE, seq |-> m.dst_seq, nextHop |-> p,
                  metric |-> 1, valid |-> TRUE, live |-> TRUE]
           e4 == [e3 EXCEPT !.route[p] = r]
<1>1. p \in Node /\ p \in Addr /\ p \notin Ext /\ p \in Addr \ {n}
  BY AddrAssumption DEF Rrep, Addr
<1>2. e0 \in Engine BY DEF Safe, Core
<1>3. e1 \in Engine BY <1>1, <1>2, TimerInsertType
<1>4. /\ e1.ip = e0.ip /\ e1.route = e0.route /\ e1.neigh = e0.neigh
      /\ e1.rreq_id = e0.rreq_id /\ e1.timers = timer_enqueue(e0.timers, t)
  BY <1>2 DEF timer_insert, Engine
<1>5. e0.timers \subseteq e1.timers /\ Watches(e1, p)
  <2>1. t.type = "NEIGHBOR" /\ t.id = p OBVIOUS
  <2> HIDE DEF t, e1, p
  <2>2. CASE \E u \in e0.timers : u.type = t.type /\ u.id = t.id
    <3>1. e1.timers = e0.timers BY <1>4, <2>2 DEF timer_enqueue
    <3> QED BY <2>1, <2>2, <3>1 DEF Watches
  <2>3. CASE ~(\E u \in e0.timers : u.type = t.type /\ u.id = t.id)
    <3>1. e1.timers = e0.timers \cup {t}
      BY <1>4, <2>3, ZenonT(30) DEF timer_enqueue
    <3> QED BY <2>1, <3>1 DEF Watches
  <2> QED BY <2>2, <2>3
<1> HIDE DEF e1, p
<1>6. Safe(e1, n, S) /\ Later(e0, e1)
  BY <1>2, <1>3, <1>4, <1>5, SameRoutes DEF Engine
<1>7. Safe(e2, n, S) /\ Later(e1, e2) BY <1>6, LookupSafe DEF route_lookup
<1>8. e2 \in Engine /\ e2.timers = e1.timers BY <1>3, LookupFacts
<1> HIDE DEF e2
<1>9. /\ e3 \in Engine /\ e3.ip = e2.ip /\ e3.route = e2.route
      /\ e3.timers = e2.timers /\ e3.rreq_id = e2.rreq_id
      /\ \A q \in Node \ {p} : e3.neigh[q] = e2.neigh[q]
  BY <1>1, <1>8 DEF Engine
<1> HIDE DEF e3
<1>10. Watches(e3, p) BY <1>5, <1>8, <1>9, ZenonT(30) DEF Watches
<1>11. Safe(e3, n, S) /\ Later(e2, e3)
  BY <1>1, <1>7, <1>9, <1>10, NeighSafe DEF p
<1>12. /\ r \in Entry /\ r.seq <= S[p] /\ r.nextHop = p /\ r.metric = 1
  BY <1>1 DEF Entry, Rrep, p
<1> HIDE DEF r
<1>13. Safe(e4, n, S) /\ Later(e3, e4)
  BY <1>1, <1>11, <1>12, SetRouteSafe, ZenonT(30)
<1>14. e4 = [e2 EXCEPT !.neigh[p] = "live", !.route[p] = r]
  BY <1>1, <1>8, ZenonT(30) DEF Engine, e3
<1> HIDE DEF e4
<1>15. e4 \in Engine BY <1>13 DEF Safe, Core
<1>16. Later(e0, e3)
  <2>1. Later(e0, e2) BY <1>2, <1>3, <1>6, <1>7, <1>8, LaterTrans
  <2> QED BY <1>2, <1>8, <1>9, <1>11, <2>1, LaterTrans
<1>17. Later(e0, e4) BY <1>2, <1>9, <1>13, <1>15, <1>16, LaterTrans
<1>18. [e0 EXCEPT !.timers = timer_delete(@, p, "NEIGHBOR")] = e0
  BY <1>1, <1>2, TimerDeleteNone
<1>19. rx_hello(e0, m) = Done(e4, {})
  BY <1>14, <1>18, ZenonT(30) DEF rx_hello, e1, e2, r, p
<1> QED BY <1>13, <1>17, <1>19 DEF Done

\* The copies of a RREP that node n passes on.
Forwarded(n, m) ==
  {p \in Pdu : /\ p.type = "RREP" /\ p.from = n /\ p.src = m.src
               /\ p.dst = m.dst /\ p.dst_seq = m.dst_seq
               /\ p.asked = m.asked /\ p.metric = m.metric + 1 /\ m.src # m.dst}

\* _engine_rx_reply is safe and passes on what it got.
LEMMA ReplySafe ==
  ASSUME NEW n \in Node, NEW S \in [Node -> Nat], NEW e0, Safe(e0, n, S),
         NEW m \in Rrep, PduOK(m, S), m.from # n, m.metric < MaxHop
  PROVE  LET r == rx_reply(e0, m)
         IN  /\ Safe(r.e, n, S) /\ Later(e0, r.e)
             /\ Sends(e0, r, Forwarded(n, m))
<1> DEFINE hops == NextHopCount(m.metric)
           e2 == route_update(e0, m.dst, m.from, hops, m.dst_seq)
           e3 == route_lookup(e2, m.src)
           p  == e3.route[m.src].nextHop
           pdu == [m EXCEPT !.from = e3.ip, !.to = p, !.metric = hops]
           r  == unicast(e3, p, pdu)
<1>1. /\ m.src \in Node /\ m.src \in Addr /\ m.dst \in Addr
      /\ m.from \in Node /\ m.dst_seq \in Nat /\ m.metric \in Nat
      /\ m.type = "RREP"
  BY DEF Rrep, Addr
<1>2. hops \in Nat /\ hops = m.metric + 1
  BY <1>1, LimitAssumption DEF NextHopCount
<1> HIDE DEF hops
<1>3. /\ m.dst \in Node => m.dst_seq <= S[m.dst]
      /\ m.dst \in Node /\ hops = 1 => m.from = m.dst
      /\ m.dst \in Ext => m.dst_seq = MyRouteSeq
      /\ m.src = m.dst => m.from = m.dst
  BY <1>1, <1>2 DEF PduOK
<1>4. e0 \in Engine BY ZenonT(30) DEF Safe, Core
<1>5. Safe(e2, n, S) /\ Later(e0, e2)
  BY <1>1, <1>2, <1>3, UpdateSafe
<1> HIDE DEF e2
<1>6. Safe(e3, n, S) /\ Later(e2, e3)
  BY <1>5, LookupSafe, ZenonT(30) DEF route_lookup
<1> HIDE DEF e3
<1>7. e2 \in Engine /\ e3 \in Engine /\ e3.ip = n
  BY <1>5, <1>6, ZenonT(30) DEF Safe, Core
<1>8. Later(e0, e3) BY <1>4, <1>5, <1>6, <1>7, LaterTrans
<1>9. p \in Addr BY <1>1, <1>7 DEF Engine, Entry
<1> HIDE DEF p
<1>10. pdu \in Pdu BY <1>2, <1>7, <1>9, ZenonT(30) DEF Pdu, Rrep
<1>11. m.src # m.dst => pdu \in Forwarded(n, m)
  BY <1>2, <1>7, <1>10, ZenonT(30) DEF Forwarded, Rrep
<1> HIDE DEF pdu
<1>12. /\ r \in Result
       /\ Safe(r.e, n, S) /\ Later(e3, r.e) /\ Sends(e3, r, {pdu})
  BY <1>6, <1>7, <1>9, <1>10, OutputSafe, OutputType, ZenonT(30) DEF unicast
<1> HIDE DEF r
<1>13. Later(e0, r.e)
  BY <1>4, <1>7, <1>8, <1>12, LaterTrans, ZenonT(30) DEF Safe, Core
<1>14. m.src # m.dst => Sends(e0, r, Forwarded(n, m))
  BY <1>4, <1>7, <1>8, <1>11, <1>12, SendsTrans
<1>15. [e0 EXCEPT !.timers = timer_delete(@, m.dst, "RESEND_RREQ")] = e0
  BY <1>1, <1>4, TimerDeleteNone
<1>16. CASE m.src = m.dst
  <2>1. m.dst # n /\ m.dst_seq <= S[m.dst] BY <1>1, <1>3, <1>16
  <2> DEFINE h == rx_hello(e0, m)
  <2>2. Safe(h.e, n, S) /\ Later(e0, h.e) /\ h.out = {}
    BY <1>16, <2>1, HelloSafe
  <2>3. rx_reply(e0, m) = h BY <1>16, ZenonT(30) DEF rx_reply
  <2> HIDE DEF h
  <2> QED BY <2>2, <2>3 DEF Sends
<1>17. CASE m.src # m.dst
  <2>1. Later(e0, e0) BY <1>4, SameRoutes DEF Engine
  <2>2. rx_reply(e0, m) \in {Done(e0, {}), Done(e3, {}), r}
    BY <1>15, <1>17, ZenonT(30) DEF rx_reply, hops, e2, e3, p, pdu, r
  <2> QED BY <1>6, <1>8, <1>12, <1>13, <1>14, <1>17, <2>1, <2>2
          DEF Done, Sends
<1> QED BY <1>16, <1>17

\* What node n, with engine f afterwards, answers to RREQ m: a copy one hop
\* further, or a RREP, fresher than asked when it is about n itself.
Answers(n, m, f) ==
  {p \in Pdu :
     \/ /\ p.type = "RREQ" /\ p.from = n /\ p.src = m.src /\ p.dst = m.dst
        /\ p.id = m.id /\ p.src_seq = m.src_seq /\ p.dst_seq = m.dst_seq
        /\ p.metric = m.metric + 1 /\ p.ttl = m.ttl - 1
     \/ /\ p.type = "RREP" /\ p.from = n /\ p.src = m.src /\ p.dst = m.dst
        /\ p.asked = m.dst_seq
        /\ p.dst \in Ext => p.dst_seq = MyRouteSeq
        /\ p.dst \in Node => /\ p.dst = n
                             /\ p.dst_seq > m.dst_seq
                             /\ p.dst_seq <= f.route[n].seq}

\* The destination answers with one of Answers.
LEMMA OwnReplySafe ==
  ASSUME NEW n \in Node, NEW S \in [Node -> Nat], NEW e, Safe(e, n, S),
         NEW m \in Rreq, m.dst = n
  PROVE  LET r == own_reply(e, m)
         IN  /\ Safe(r.e, n, S) /\ Later(e, r.e)
             /\ Sends(e, r, Answers(n, m, r.e))
<1> DEFINE seq == e.route[e.ip].seq
           new == IF seq_less_or_equal(seq, m.dst_seq) THEN m.dst_seq + 1
                                                       ELSE seq
           f == [e EXCEPT !.route[n].seq = new]
           r == send_reply(f, m.src, m.dst, m.dst_seq)
<1>1. e \in Engine /\ n \in Addr /\ n \notin Ext /\ e.ip = n
  BY AddrAssumption DEF Safe, Core, Addr
<1>2. e.route[n].seq \in Nat /\ e.rreq_id \in Nat BY <1>1 DEF Engine, Entry
<1>3. new \in Nat /\ new >= e.route[n].seq /\ new > m.dst_seq
  BY <1>1, <1>2 DEF Rreq, seq_less_or_equal
<1>4. r = own_reply(e, m) BY <1>1 DEF own_reply
<1> HIDE DEF new
<1>5. /\ f \in Engine /\ f.ip = n /\ f.neigh = e.neigh
      /\ f.timers = e.timers /\ f.rreq_id = e.rreq_id
      /\ \A b \in Addr \ {n} : f.route[b] = e.route[b]
  BY <1>1, <1>3, SetSeqFacts
<1>6. f.route[n].seq = new BY <1>1, <1>3, SetSeqFacts, ZenonT(30)
<1>7. f.route[n].known <=> e.route[n].known BY <1>1, <1>3, SetSeqFacts
<1>8. f.route[n].valid <=> e.route[n].valid BY <1>1, <1>3, SetSeqFacts
<1>9. f.route[n].nextHop = e.route[n].nextHop BY <1>1, <1>3, SetSeqFacts
<1>10. f.route[n].metric = e.route[n].metric BY <1>1, <1>3, SetSeqFacts
<1> HIDE DEF f
<1>11. /\ f.route[n].known /\ f.route[n].valid
       /\ f.route[n].nextHop = n /\ f.route[n].metric = 0
  BY <1>7, <1>8, <1>9, <1>10, ZenonT(30) DEF Safe, Core
<1>12. Safe(f, n, S) /\ Later(e, f)
  BY <1>2, <1>3, <1>5, <1>6, <1>11, SetOwnSafe
<1>13. m.src \in Node /\ m.dst_seq \in Nat BY ZenonT(30) DEF Rreq
<1>14. /\ Safe(r.e, n, S) /\ Later(f, r.e)
       /\ Sends(f, r, Replies(f, m.src, m.dst, m.dst_seq))
  BY <1>1, <1>12, <1>13, SendReplySafe
<1>15. r \in Result BY <1>1, <1>5, <1>13, SendReplyType, ZenonT(30)
<1> HIDE DEF r
<1>16. r.e \in Engine BY <1>14, ZenonT(30) DEF Safe, Core
<1>17. Later(e, r.e) BY <1>1, <1>5, <1>12, <1>14, <1>16, LaterTrans, ZenonT(30)
<1>18. r.e.route[n].seq >= new BY <1>5, <1>6, <1>14, ZenonT(30) DEF Later
<1>19. Replies(f, m.src, m.dst, m.dst_seq) \subseteq Answers(n, m, r.e)
  <2> SUFFICES ASSUME NEW p \in Replies(f, m.src, m.dst, m.dst_seq)
               PROVE  p \in Answers(n, m, r.e)
    OBVIOUS
  <2>1. /\ p \in Pdu /\ p.type = "RREP" /\ p.from = n /\ p.src = m.src
        /\ p.dst = n /\ p.dst_seq = new /\ p.asked = m.dst_seq
    BY <1>5, <1>6 DEF Replies
  <2>2. r.e.route[n].seq \in Nat BY <1>1, <1>16, ZenonT(30) DEF Engine, Entry
  <2> QED BY <1>1, <1>3, <1>18, <2>1, <2>2 DEF Answers
<1>20. Sends(e, r, Answers(n, m, r.e))
  BY <1>1, <1>5, <1>12, <1>14, <1>15, <1>19, SendsTrans, ZenonT(30)
<1> QED BY <1>4, <1>14, <1>17, <1>20

\* A gateway answers with one of Answers.
LEMMA GatewayReplySafe ==
  ASSUME NEW n \in Node, NEW S \in [Node -> Nat], NEW e, Safe(e, n, S),
         NEW m \in Rreq, m.dst \in Ext
  PROVE  LET r == gateway_reply(e, m)
         IN  /\ Safe(r.e, n, S) /\ Later(e, r.e)
             /\ Sends(e, r, Answers(n, m, r.e))
<1> DEFINE d == e.route[m.dst]
           g == IF d.known THEN [d EXCEPT !.valid = TRUE, !.live = TRUE]
                ELSE [known |-> TRUE, seq |-> MyRouteSeq, nextHop |-> m.dst,
                      metric |-> 1, valid |-> TRUE, live |-> TRUE]
           f == [e EXCEPT !.route[m.dst] = g]
           r == send_reply(f, m.src, m.dst, m.dst_seq)
<1>1. e \in Engine /\ e.ip = n /\ m.src \in Node /\ m.dst_seq \in Nat
  BY DEF Safe, Core, Rreq
<1>2. m.dst \in Addr \ {n} /\ m.dst \notin Node /\ d \in Entry
  BY <1>1, AddrAssumption DEF Addr, Engine
<1>3. r = gateway_reply(e, m) BY DEF gateway_reply
<1>4. d.known => d.seq = MyRouteSeq BY DEF Safe, Core
<1> HIDE DEF d
<1>5. /\ g \in Entry /\ g.known /\ g.valid /\ g.seq = MyRouteSeq
      /\ d.known => g.nextHop = d.nextHop
  <2>1. CASE d.known
    <3>1. g = [d EXCEPT !.valid = TRUE, !.live = TRUE] BY <2>1
    <3>2. [d EXCEPT !.valid = TRUE, !.live = TRUE] \in Entry
      BY <1>2, ZenonT(30) DEF Entry
    <3>3. /\ g.valid = TRUE /\ g.known = d.known /\ g.seq = d.seq
          /\ g.nextHop = d.nextHop
      BY <1>2, <3>1, ZenonT(30) DEF Entry
    <3> HIDE DEF g
    <3> QED BY <1>4, <2>1, <3>1, <3>2, <3>3
  <2>2. CASE ~d.known
    BY <1>2, <2>2 DEF Entry, MyRouteSeq
  <2> QED BY <2>1, <2>2
<1> HIDE DEF g
<1>6. Safe(f, n, S) /\ Later(e, f)
  BY <1>2, <1>5, SetRouteSafe, ZenonT(30) DEF d
<1>7. f \in Engine /\ f.ip = n BY <1>6 DEF Safe, Core
<1>8. f.route[m.dst].known BY <1>1, <1>2, <1>5 DEF Engine
<1> HIDE DEF f
<1>9. /\ Safe(r.e, n, S) /\ Later(f, r.e)
      /\ Sends(f, r, Replies(f, m.src, m.dst, m.dst_seq))
  BY <1>1, <1>2, <1>6, <1>8, SendReplySafe
<1>10. r \in Result BY <1>1, <1>2, <1>7, SendReplyType
<1> HIDE DEF r
<1>11. Later(e, r.e)
  BY <1>1, <1>6, <1>7, <1>9, LaterTrans, ZenonT(30) DEF Safe, Core
<1>12. Replies(f, m.src, m.dst, m.dst_seq) \subseteq Answers(n, m, r.e)
  BY <1>2, <1>7, ZenonT(30) DEF Replies, Answers
<1>13. Sends(e, r, Answers(n, m, r.e))
  BY <1>1, <1>6, <1>7, <1>9, <1>10, <1>12, SendsTrans, ZenonT(30)
<1> QED BY <1>3, <1>9, <1>11, <1>13

\* _engine_rx_request is safe and sends one of Answers.
LEMMA RequestRxSafe ==
  ASSUME NEW n \in Node, NEW S \in [Node -> Nat], NEW e0, Safe(e0, n, S),
         NEW m \in Rreq, PduOK(m, S)
  PROVE  LET r == rx_request(e0, m)
         IN  /\ Safe(r.e, n, S) /\ Later(e0, r.e)
             /\ Sends(e0, r, Answers(n, m, r.e))
<1> DEFINE e1   == route_lookup(e0, m.src)
           hops == NextHopCount(m.metric)
           e2   == route_update(e1, m.src, m.from, hops, m.src_seq)
           fl   == flood_insert(e2, m.src, m.id)
           e3   == route_lookup(fl, m.dst)
           pdu  == [m EXCEPT !.from = e0.ip, !.metric = hops, !.ttl = @ - 1]
           g    == gateway_reply(e3, m)
           o    == own_reply(e3, m)
<1>1. /\ m.src \in Node /\ m.src \in Addr /\ m.dst \in Addr
      /\ m.from \in Node /\ m.src_seq \in Nat /\ m.id \in Nat
      /\ m.metric \in Nat /\ m.ttl \in Nat /\ m.type = "RREQ"
  BY DEF Rreq, Addr
<1>2. e0 \in Engine /\ e0.ip = n /\ Later(e0, e0)
  <2>1. e0 \in Engine /\ e0.ip = n BY DEF Safe, Core
  <2> QED BY <2>1, SameRoutes DEF Engine
<1>3. CASE m.ttl <= 1
  BY <1>2, <1>3, ZenonT(30) DEF rx_request, Done, Sends
<1>4. CASE ~(m.ttl <= 1)
  <2>1. /\ m.src_seq <= S[m.src] /\ m.metric + m.ttl = NET_DIAMETER
        /\ m.metric = 0 => m.from = m.src
    BY <1>1 DEF PduOK
  <2>2. hops \in Nat /\ hops = m.metric + 1
    BY <1>1, <1>4, <2>1, LimitAssumption DEF NextHopCount
  <2> HIDE DEF hops
  <2>3. Safe(e1, n, S) /\ Later(e0, e1) BY LookupSafe DEF route_lookup
  <2> HIDE DEF e1
  <2>4. m.src \notin Ext /\ (hops = 1 => m.from = m.src)
    BY <1>1, <2>1, <2>2, AddrAssumption
  <2>5. Safe(e2, n, S) /\ Later(e1, e2)
    BY <1>1, <2>1, <2>2, <2>3, <2>4, UpdateSafe
  <2> HIDE DEF e2
  <2>6. e1 \in Engine /\ e2 \in Engine BY <2>3, <2>5, ZenonT(30) DEF Safe, Core
  <2>7. fl \in Engine BY <1>1, <2>6, FloodInsertType, ZenonT(30)
  <2>8. /\ fl.ip = e2.ip /\ fl.route = e2.route /\ fl.neigh = e2.neigh
        /\ fl.timers = e2.timers /\ fl.rreq_id = e2.rreq_id
    BY <2>6 DEF flood_insert, Engine
  <2> HIDE DEF fl
  <2>9. Safe(fl, n, S) /\ Later(e2, fl)
    BY <2>5, <2>6, <2>7, <2>8, SameRoutes DEF Engine
  <2>10. Safe(e3, n, S) /\ Later(fl, e3)
    BY <2>9, LookupSafe, ZenonT(30) DEF route_lookup
  <2> HIDE DEF e3
  <2>11. e3 \in Engine BY <2>10 DEF Safe, Core
  <2>12. Later(e0, e3)
    <3>1. Later(e0, e2) BY <1>2, <2>3, <2>5, <2>6, LaterTrans
    <3>2. Later(e0, fl) BY <1>2, <2>6, <2>7, <2>9, <3>1, LaterTrans, ZenonT(30)
    <3> QED BY <1>2, <2>7, <2>10, <2>11, <3>2, LaterTrans
  <2>13. pdu \in Answers(n, m, e3)
    <3> DEFINE ttl == m.ttl - 1
    <3>1. ttl \in Nat BY <1>1, <1>4
    <3> HIDE DEF ttl
    <3>2. pdu = [m EXCEPT !.from = n, !.metric = hops, !.ttl = ttl]
      BY <1>2 DEF Rreq, ttl
    <3>3. pdu \in Rreq BY <2>2, <3>1, <3>2, ZenonT(30) DEF Rreq
    <3>4. /\ pdu.type = "RREQ" /\ pdu.from = n /\ pdu.src = m.src
          /\ pdu.dst = m.dst /\ pdu.id = m.id /\ pdu.src_seq = m.src_seq
          /\ pdu.dst_seq = m.dst_seq /\ pdu.metric = hops /\ pdu.ttl = ttl
      BY <3>2, ZenonT(30) DEF Rreq
    <3> HIDE DEF pdu
    <3> QED BY <2>2, <3>3, <3>4 DEF Answers, Pdu, ttl
  <2> HIDE DEF pdu
  <2>14. m.dst \notin Node =>
           /\ Safe(g.e, n, S) /\ Later(e0, g.e)
           /\ Sends(e0, g, Answers(n, m, g.e))
    <3> SUFFICES ASSUME m.dst \notin Node
                 PROVE  /\ Safe(g.e, n, S) /\ Later(e0, g.e)
                        /\ Sends(e0, g, Answers(n, m, g.e))
      OBVIOUS
    <3>1. m.dst \in Ext BY <1>1, ZenonT(30) DEF Addr
    <3>2. /\ Safe(g.e, n, S) /\ Later(e3, g.e)
          /\ Sends(e3, g, Answers(n, m, g.e))
      BY <2>10, <3>1, GatewayReplySafe
    <3>3. g \in Result /\ g.e \in Engine
      BY <2>11, <3>2, GatewayReplyType, ZenonT(30) DEF Safe, Core
    <3> HIDE DEF g
    <3> QED BY <1>2, <2>11, <2>12, <3>2, <3>3, LaterTrans, SendsTrans,
        ZenonT(30)
  <2>15. m.dst = n =>
           /\ Safe(o.e, n, S) /\ Later(e0, o.e)
           /\ Sends(e0, o, Answers(n, m, o.e))
    <3> SUFFICES ASSUME m.dst = n
                 PROVE  /\ Safe(o.e, n, S) /\ Later(e0, o.e)
                        /\ Sends(e0, o, Answers(n, m, o.e))
      OBVIOUS
    <3>1. /\ Safe(o.e, n, S) /\ Later(e3, o.e)
          /\ Sends(e3, o, Answers(n, m, o.e))
      BY <2>10, OwnReplySafe
    <3>2. o \in Result /\ o.e \in Engine
      BY <2>11, <3>1, OwnReplyType, ZenonT(30) DEF Safe, Core
    <3> HIDE DEF o
    <3> QED BY <1>2, <2>11, <2>12, <3>1, <3>2, LaterTrans, SendsTrans,
        ZenonT(30)
  <2> HIDE DEF g, o
  <2>16. LET r == rx_request(e0, m)
         IN  \/ r = Done(e0, {}) \/ r = Done(e1, {})
             \/ r = g /\ m.dst \notin Node
             \/ r = o /\ m.dst = n
             \/ r = Done(e3, {pdu})
    BY <1>2, ZenonT(30) DEF rx_request, e1, hops, e2, fl, e3, pdu, g, o
  <2> QED BY <1>2, <2>3, <2>10, <2>12, <2>13, <2>14, <2>15, <2>16
          DEF Done, Sends
<1> QED BY <1>3, <1>4

\* Replacing the table by one in which an entry that is valid is as before
\* and the entries of addresses outside the subnet keep what Core asks.
LEMMA TableSafe ==
  ASSUME NEW n \in Node, NEW S \in [Node -> Nat], NEW e, Safe(e, n, S),
         NEW f \in Engine, f.ip = e.ip, f.neigh = e.neigh,
         f.timers = e.timers, f.rreq_id = e.rreq_id,
         f.route[n] = e.route[n],
         \A d \in Node : f.route[d].valid => f.route[d] = e.route[d],
         \A y \in Ext : \/ f.route[y] = e.route[y]
                        \/ /\ f.route[y].known /\ f.route[y].valid
                           /\ f.route[y].seq = MyRouteSeq
                           /\ f.route[y].nextHop = e.route[y].nextHop
  PROVE  Safe(f, n, S) /\ Later(e, f)
<1>1. e \in Engine /\ n \in Addr BY DEF Safe, Core, Addr
<1>2. e.route[n].seq \in Nat /\ e.rreq_id \in Nat
  BY <1>1, ZenonT(30) DEF Engine, Entry
<1>3. \A d \in Node : f.route[d].valid /\ f.route[d].metric = 1
                        => f.route[d].nextHop = d
  BY DEF Safe, Core
<1>4. \A y \in Ext : f.route[y].known
                       => f.route[y].valid /\ f.route[y].seq = MyRouteSeq
  BY DEF Safe, Core
<1>5. Core(f, n) BY <1>3, <1>4, ZenonT(30) DEF Safe, Core
<1>6. Fresh(f, n, S) BY ZenonT(30) DEF Safe, Fresh
<1>7. Later(e, f) BY <1>2 DEF Later, Safe, Core
<1> QED BY <1>5, <1>6, <1>7, ZenonT(30) DEF Safe

\* _engine_rx_error is safe where its write goes through.
LEMMA ErrorSafe ==
  ASSUME NEW n \in Node, NEW S \in [Node -> Nat], NEW e0, Safe(e0, n, S),
         NEW m \in Rerr, PduOK(m, S)
  PROVE  LET r == rx_error(e0, m)
         IN  Safe(r.e, n, S) /\ Later(e0, r.e) /\ r.out = {}
<1> DEFINE e == lookup_all(e0, {d.ip : d \in m.dests})
           broken(a) == \E d \in Broken(e, m) : d.ip = a
           seq(a) == (CHOOSE d \in Broken(e, m) : d.ip = a).seq
           told(a) == [e.route[a] EXCEPT !.seq = seq(a)]
           new == [a \in Addr |->
                     IF ~broken(a) THEN e.route[a]
                     ELSE IF e.route[a].valid /\ HasDev(a)
                     THEN route_expire(told(a)) ELSE told(a)]
           f == [e EXCEPT !.route = new]
<1>1. Safe(e, n, S) /\ Later(e0, e) BY LookupSafe
<1>2. e0 \in Engine /\ e \in Engine /\ e.ip = n /\ n \in Addr
  BY <1>1, ZenonT(30) DEF Safe, Core, Addr
<1> HIDE DEF e
<1>3. ASSUME NEW a \in Addr, broken(a)
      PROVE  /\ e.route[a] \in Entry /\ seq(a) \in Nat
             /\ e.route[a].known /\ a # n
             /\ a \in Ext => seq(a) = MyRouteSeq
  <2> DEFINE d == CHOOSE d \in Broken(e, m) : d.ip = a
  <2>1. d \in Broken(e, m) /\ d.ip = a BY <1>3
  <2> HIDE DEF d
  <2>2. /\ d \in m.dests /\ d.seq \in Nat /\ m.type = "RERR"
        /\ e.route[a].known /\ a # n
    BY <1>2, <2>1, ZenonT(30) DEF Broken, Rerr
  <2>3. a \in Ext => d.seq = MyRouteSeq BY <2>1, <2>2 DEF PduOK
  <2> QED BY <1>2, <2>2, <2>3, ZenonT(30) DEF Engine, d
<1> HIDE DEF seq
<1>4. ASSUME NEW a \in Addr, broken(a)
      PROVE  /\ told(a) \in Entry /\ told(a).seq = seq(a)
             /\ told(a).known <=> e.route[a].known
             /\ told(a).valid <=> e.route[a].valid
             /\ told(a).nextHop = e.route[a].nextHop
  <2>1. e.route[a] \in Entry /\ seq(a) \in Nat BY <1>3, <1>4
  <2>2. told(a) \in Entry BY <2>1, SetSeq
  <2>3. /\ told(a).seq = seq(a)
        /\ told(a).known <=> e.route[a].known
        /\ told(a).valid <=> e.route[a].valid
        /\ told(a).nextHop = e.route[a].nextHop
    BY <2>1, ZenonT(30) DEF Entry
  <2> QED BY <2>2, <2>3
<1> HIDE DEF told, broken
<1>5. new \in [Addr -> Entry] BY <1>2, <1>4, ExpireEntry, ZenonT(30) DEF Engine
<1>6. \A d \in Node : new[d].valid => new[d] = e.route[d]
  <2> SUFFICES ASSUME NEW d \in Node, new[d].valid
               PROVE  new[d] = e.route[d]
    OBVIOUS
  <2>1. d \in Addr /\ HasDev(d) BY DEF Addr, HasDev
  <2>2. CASE broken(d)
    <3>1. told(d) \in Entry /\ (told(d).valid <=> e.route[d].valid)
      BY <1>4, <2>1, <2>2
    <3>2. ~route_expire(told(d)).valid BY <3>1, ExpireEntryFacts
    <3> QED BY <2>1, <2>2, <3>1, <3>2
  <2>3. CASE ~broken(d) BY <2>1, <2>3
  <2> QED BY <2>2, <2>3
<1>7. \A y \in Ext : \/ new[y] = e.route[y]
                     \/ /\ new[y].known /\ new[y].valid
                        /\ new[y].seq = MyRouteSeq
                        /\ new[y].nextHop = e.route[y].nextHop
  <2> SUFFICES ASSUME NEW y \in Ext, broken(y)
               PROVE  /\ new[y].known /\ new[y].valid
                      /\ new[y].seq = MyRouteSeq
                      /\ new[y].nextHop = e.route[y].nextHop
    BY ZenonT(30) DEF Addr
  <2>1. y \in Addr /\ ~HasDev(y) BY AddrAssumption DEF Addr, HasDev
  <2>2. new[y] = told(y) BY <2>1
  <2>3. e.route[y].valid BY <1>1, <1>3, <2>1, ZenonT(30) DEF Safe, Core
  <2> QED BY <1>3, <1>4, <2>1, <2>2, <2>3, ZenonT(30)
<1>8. new[n] = e.route[n] BY <1>2, <1>3
<1> HIDE DEF new
<1>9. /\ f \in Engine /\ f.ip = e.ip /\ f.neigh = e.neigh
      /\ f.timers = e.timers /\ f.rreq_id = e.rreq_id /\ f.route = new
  BY <1>2, <1>5 DEF Engine
<1> HIDE DEF f
<1>10. Safe(f, n, S) /\ Later(e, f)
  BY <1>1, <1>6, <1>7, <1>8, <1>9, TableSafe, ZenonT(30)
<1>11. Later(e0, f) BY <1>1, <1>2, <1>9, <1>10, LaterTrans
<1>12. rx_error(e0, m) = Done(f, {})
  BY DEF rx_error, e, broken, seq, told, new, f
<1> QED BY <1>10, <1>11, <1>12 DEF Done

\* The daemon that faults leaves an engine that is as before but for the
\* freshness of the one route.
LEMMA ErrorFaultSafe ==
  ASSUME NEW n \in Node, NEW S \in [Node -> Nat], NEW e0, Safe(e0, n, S),
         NEW m \in Rerr, PduOK(m, S), NEW d \in Broken(e0, m)
  PROVE  LET r == rx_error_fault(e0, m, d)
         IN  Core(r.e, n) /\ Later(e0, r.e) /\ r.out = {}
<1> DEFINE e == route_lookup(e0, d.ip)
           a == d.ip
           s == d.seq
           f == [e EXCEPT !.route[a].seq = s]
<1>1. Safe(e, n, S) /\ Later(e0, e) BY LookupSafe DEF route_lookup
<1>2. e0 \in Engine /\ e \in Engine /\ e.ip = n /\ n \in Addr /\ e0.ip = n
  BY <1>1, ZenonT(30) DEF Safe, Core, Addr
<1> HIDE DEF e
<1>3. /\ d \in m.dests /\ a \in Addr /\ s \in Nat /\ a # n
      /\ m.type = "RERR"
  BY <1>2 DEF Broken, Rerr
<1>4. a \in Ext => s = MyRouteSeq BY <1>3 DEF PduOK
<1> HIDE DEF a, s
<1>0. e \in Engine /\ a \in Addr /\ s \in Nat BY <1>2, <1>3
<1>5. /\ f \in Engine /\ f.ip = e.ip /\ f.neigh = e.neigh
      /\ f.timers = e.timers /\ f.rreq_id = e.rreq_id
      /\ \A b \in Addr \ {a} : f.route[b] = e.route[b]
  BY <1>0, SetSeqFacts
<1>6. f.route[a].seq = s BY <1>0, SetSeqFacts, ZenonT(30)
<1>7. f.route[a].known <=> e.route[a].known
  BY <1>0, SetSeqFacts
<1>8. f.route[a].valid <=> e.route[a].valid
  BY <1>0, SetSeqFacts
<1>9. f.route[a].nextHop = e.route[a].nextHop
  BY <1>0, SetSeqFacts
<1>10. f.route[a].metric = e.route[a].metric
  BY <1>0, SetSeqFacts
<1> HIDE DEF f
<1>11. f.route[n] = e.route[n] BY <1>2, <1>3, <1>5
<1>18. \A b \in Node \cup Ext : b # a => f.route[b] = e.route[b]
  BY <1>5, ZenonT(30) DEF Addr
<1>12. \A b \in Node : f.route[b].valid /\ f.route[b].metric = 1
                         => f.route[b].nextHop = b
  <2>1. \A b \in Node : e.route[b].valid /\ e.route[b].metric = 1
                           => e.route[b].nextHop = b
    BY <1>1, ZenonT(30) DEF Safe, Core
  <2> QED BY <1>8, <1>9, <1>10, <1>18, <2>1
<1>13. \A y \in Ext : f.route[y].known
                        => f.route[y].valid /\ f.route[y].seq = MyRouteSeq
  <2>1. \A y \in Ext : e.route[y].known
                          => e.route[y].valid /\ e.route[y].seq = MyRouteSeq
    BY <1>1, ZenonT(30) DEF Safe, Core
  <2> QED BY <1>4, <1>6, <1>7, <1>8, <1>18, <2>1
<1>14. Core(f, n) BY <1>1, <1>5, <1>11, <1>12, <1>13, ZenonT(30) DEF Safe, Core
<1>15. Later(e, f)
  <2>1. e.route[n].seq \in Nat /\ e.rreq_id \in Nat
    BY <1>2, ZenonT(30) DEF Engine, Entry
  <2>2. \A y \in Ext : e.route[y].known
                         => /\ f.route[y].known
                            /\ f.route[y].nextHop = e.route[y].nextHop
    BY <1>7, <1>9, <1>18, ZenonT(30)
  <2>3. /\ f.route[e.ip].seq >= e.route[e.ip].seq /\ f.rreq_id >= e.rreq_id
    BY <1>2, <1>5, <1>11, <2>1
  <2> QED BY <1>5, <2>2, <2>3, ZenonT(30) DEF Later
<1>16. Later(e0, f) BY <1>1, <1>2, <1>5, <1>15, LaterTrans
<1>17. rx_error_fault(e0, m, d) = Done(f, {}) BY DEF rx_error_fault, e, f, a, s
<1> QED BY <1>14, <1>16, <1>17 DEF Done

\* The RERRs of node n.
Errors(n) ==
  {p \in Pdu : /\ p.type = "RERR" /\ p.from = n
               /\ \A d \in p.dests : d.ip \in Ext => d.seq = MyRouteSeq}

\* _engine_send_error is safe and sends one of Errors.
LEMMA SendErrorSafe ==
  ASSUME NEW n \in Node, NEW S \in [Node -> Nat], NEW e, Safe(e, n, S),
         NEW p \in Node
  PROVE  LET r == send_error(e, p)
         IN  Safe(r.e, n, S) /\ Later(e, r.e) /\ r.out \subseteq Errors(n)
<1> DEFINE bad == {a \in Addr \ {e.ip} : e.route[a].known
                                         /\ e.route[a].nextHop = p}
           err == [type |-> "RERR", from |-> e.ip,
                   dests |-> {[ip |-> a, seq |-> e.route[a].seq] : a \in bad}]
           X == {a \in bad : e.route[a].valid /\ HasDev(a)}
           f == Expire(e, X)
<1>1. e \in Engine /\ e.ip = n BY DEF Safe, Core
<1>2. X \subseteq Node \ {n} BY <1>1, ZenonT(30) DEF HasDev
<1>3. Safe(f, n, S) /\ Later(e, f) BY <1>2, ExpireSafe, ZenonT(30)
<1>4. err \in Pdu BY <1>1 DEF Pdu, Rerr, Engine, Entry
<1>5. \A d \in err.dests : d.ip \in Ext => d.seq = MyRouteSeq
  BY DEF Safe, Core
<1>6. err \in Errors(n) BY <1>1, <1>4, <1>5 DEF Errors
<1>7. send_error(e, p) = Done(f, IF bad = {} THEN {} ELSE {err})
  BY ZenonT(30) DEF send_error
<1> HIDE DEF err, f, bad
<1> QED BY <1>3, <1>6, <1>7 DEF Done

\* _engine_neigh_delete is safe and leaves p no neighbour.
LEMMA NeighDeleteSafe ==
  ASSUME NEW n \in Node, NEW S \in [Node -> Nat], NEW e0, Safe(e0, n, S),
         NEW p \in Node
  PROVE  LET r == neigh_delete(e0, p)
         IN  /\ Safe(r.e, n, S) /\ Later(e0, r.e) /\ r.out \subseteq Errors(n)
             /\ r.e.neigh[p] = "none"
<1> DEFINE e1  == [e0 EXCEPT !.neigh[p] = "none"]
           e2  == route_lookup(e1, p)
           err == send_error(e2, p)
           q   == IF err.e.route[p].valid THEN route_expire(err.e.route[p])
                                          ELSE Absent(p)
           new == [err.e EXCEPT !.route[p] = q]
<1>1. e0 \in Engine BY DEF Safe, Core
<1>2. CASE e0.neigh[p] = "none"
  <2>1. Later(e0, e0) BY <1>1, SameRoutes DEF Engine
  <2>2. neigh_delete(e0, p) = Done(e0, {}) BY <1>2, ZenonT(30) DEF neigh_delete
  <2> QED BY <1>2, <2>1, <2>2 DEF Done
<1>3. CASE e0.neigh[p] # "none"
  <2>1. p \in Node \ {n} /\ p \in Addr \ {n} /\ p \notin Ext
    BY <1>3, AddrAssumption DEF Safe, Core, Addr
  <2>2. /\ e1 \in Engine /\ e1.ip = e0.ip /\ e1.route = e0.route
        /\ e1.timers = e0.timers /\ e1.rreq_id = e0.rreq_id
        /\ \A b \in Node \ {p} : e1.neigh[b] = e0.neigh[b]
        /\ e1.neigh[p] = "none"
    BY <1>1 DEF Engine
  <2>3. [e0 EXCEPT !.neigh[p] = "none",
                   !.timers = timer_delete(@, p, "NEIGHBOR")] = e1
    <3>1. [e0 EXCEPT !.neigh[p] = "none",
                     !.timers = timer_delete(@, p, "NEIGHBOR")]
            = [e1 EXCEPT !.timers = timer_delete(@, p, "NEIGHBOR")]
      BY <1>1, ZenonT(30) DEF Engine
    <3> HIDE DEF e1
    <3> QED BY <2>1, <2>2, <3>1, TimerDeleteNone
  <2> HIDE DEF e1
  <2>4. Safe(e1, n, S) /\ Later(e0, e1) BY <2>1, <2>2, NeighSafe
  <2>5. Safe(e2, n, S) /\ Later(e1, e2) BY <2>4, LookupSafe DEF route_lookup
  <2>6. e2 \in Engine /\ e2.neigh = e1.neigh BY <2>2, LookupFacts
  <2> HIDE DEF e2
  <2>7. Later(e0, e2) BY <1>1, <2>2, <2>4, <2>5, <2>6, LaterTrans, ZenonT(30)
  <2>8. /\ Safe(err.e, n, S) /\ Later(e2, err.e)
        /\ err.out \subseteq Errors(n)
    BY <2>5, SendErrorSafe
  <2>9. err.e.neigh = e2.neigh
    <3>1. \E X : err.e = Expire(e2, X) BY ZenonT(30) DEF send_error, Done
    <3> HIDE DEF err
    <3> QED BY <2>6, <3>1, ExpireFacts
  <2> HIDE DEF err
  <2>10. err.e \in Engine BY <2>8, ZenonT(30) DEF Safe, Core
  <2>11. err.e.route[p] \in Entry BY <2>1, <2>10, ZenonT(30) DEF Engine
  <2>12. q \in Entry /\ ~q.valid
    BY <2>1, <2>11, ExpireEntry, ExpireEntryFacts, AbsentEntry DEF Absent
  <2> HIDE DEF q
  <2>13. Safe(new, n, S) /\ Later(err.e, new)
    BY <2>1, <2>8, <2>12, SetRouteSafe
  <2>14. new.neigh = err.e.neigh /\ new \in Engine
    BY <2>10, <2>13, ZenonT(30) DEF Engine, Safe, Core
  <2>15. Later(e0, new)
    <3>1. Later(e0, err.e) BY <1>1, <2>6, <2>7, <2>8, <2>10, LaterTrans
    <3> QED BY <1>1, <2>10, <2>13, <2>14, <3>1, LaterTrans, ZenonT(30)
  <2>16. neigh_delete(e0, p) \in {Done(e2, {}), Done(new, err.out)}
    BY <1>3, <2>3, ZenonT(30) DEF neigh_delete, e2, err, q
  <2> HIDE DEF new
  <2> QED BY <2>2, <2>5, <2>6, <2>7, <2>8, <2>9, <2>13, <2>14, <2>15, <2>16
          DEF Done
<1> QED BY <1>2, <1>3, ZenonT(30)

\* CLEANUP is safe.
LEMMA CleanupSafe ==
  ASSUME NEW n \in Node, NEW S \in [Node -> Nat], NEW e, Safe(e, n, S)
  PROVE  LET r == cleanup(e)
         IN  Safe(r.e, n, S) /\ Later(e, r.e) /\ r.out = {}
<1> DEFINE flushed(a) ==
             LET r == e.route[a]
             IN  IF a = e.ip \/ ~r.known \/ r.live THEN r
                 ELSE IF ~r.valid THEN Absent(a)
                 ELSE IF HasDev(a) THEN route_expire(r) ELSE r
           fl == {f \in e.floods : f.live}
           new == [a \in Addr |-> flushed(a)]
           g == [e EXCEPT !.floods = fl, !.route = new]
<1>1. e \in Engine /\ e.ip = n /\ n \in Addr BY DEF Safe, Core, Addr
<1>2. \A a \in Addr : e.route[a] \in Entry BY <1>1, ZenonT(30) DEF Engine
<1>3. new \in [Addr -> Entry] BY <1>2, ExpireEntry, AbsentEntry, ZenonT(30)
<1>4. \A d \in Node : new[d].valid => new[d] = e.route[d]
  BY <1>2, ExpireEntryFacts, ZenonT(30) DEF Absent, HasDev, Addr
<1>5. \A y \in Ext : new[y] = e.route[y]
  BY AddrAssumption, ZenonT(30) DEF Safe, Core, HasDev, Addr
<1>6. new[n] = e.route[n] BY <1>1
<1>7. fl \in SUBSET Flood BY <1>1 DEF Engine
<1> HIDE DEF new, fl
<1>8. /\ g \in Engine /\ g.ip = e.ip /\ g.neigh = e.neigh
      /\ g.timers = e.timers /\ g.rreq_id = e.rreq_id /\ g.route = new
  BY <1>1, <1>3, <1>7, ZenonT(30) DEF Engine
<1> HIDE DEF g
<1>9. Safe(g, n, S) /\ Later(e, g)
  BY <1>4, <1>5, <1>6, <1>8, TableSafe
<1>10. cleanup(e) = Done(g, {}) BY DEF cleanup, g, fl, new
<1> QED BY <1>9, <1>10 DEF Done
=============================================================================
