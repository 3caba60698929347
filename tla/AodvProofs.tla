----------------------------- MODULE AodvProofs -----------------------------
(***************************************************************************)
(* The inductive invariant of Aodv, why a handler of one node that sends   *)
(* good PDUs preserves it, and why every action is such a handler; the     *)
(* theorems about Aodv, for every set of nodes and every value of the      *)
(* bounds.                                                                 *)
(***************************************************************************)
EXTENDS AodvEngineProofs

\* Time limits that a busy machine does not exceed.
USE SMTT(30), ZenonT(30)

-----------------------------------------------------------------------------
(* The PDUs of the network *)

\* The PDUs of the network have their types.
LEMMA PduKind ==
  ASSUME NEW m \in Pdu
  PROVE  /\ m.from \in Node
         /\ m.type = "RREQ" => m \in Rreq
         /\ m.type = "RREP" => m \in Rrep
         /\ m.type = "RERR" => m \in Rerr
BY DEF Pdu, Rreq, Rrep, Rerr

-----------------------------------------------------------------------------
(* The inductive invariant *)

\* The sequence numbers of the nodes, each in its own table.
Own == [d \in Node |-> OwnSeq(d)]

\* A RREQ in the network is the same request as p.
Copied(p) == \E o \in RreqPdus :
  /\ o.src = p.src /\ o.id = p.id /\ o.dst = p.dst
  /\ o.src_seq = p.src_seq /\ o.dst_seq = p.dst_seq

\* All of the invariant but the tasks.
StateOK ==
  /\ engine \in [Node -> Engine] /\ up \in [Node -> BOOLEAN]
  /\ net \subseteq Pdu
  /\ \A n \in Node : Core(engine[n], n)
  /\ \A n \in Node : up[n] => Fresh(engine[n], n, Own)
  /\ \A m \in net : PduOK(m, Own)
  /\ \A m \in RreqPdus : m.id <= engine[m.src].rreq_id
  /\ RreqIdIdentifies

IInv == /\ StateOK
        /\ tasks \in [Node -> Seq(Timer)] /\ ticks \in 0..MaxTicks
        /\ NeighWatched

\* What a PDU that node n sends, with engine f afterwards, has to satisfy.
Good(p, n, f) ==
  /\ PduOK(p, [Own EXCEPT ![n] = f.route[n].seq])
  /\ p.type = "RREQ" => Copied(p)

\* Higher sequence numbers of the nodes only weaken what is asked of a PDU.
LEMMA PduMono ==
  ASSUME NEW m \in Pdu, NEW S \in [Node -> Nat], NEW T \in [Node -> Nat],
         \A d \in Node : S[d] <= T[d], PduOK(m, S)
  PROVE  PduOK(m, T)
<1>1. CASE m.type = "RREQ"
  <2>1. m.src \in Node /\ m.src_seq \in Nat BY <1>1, PduKind DEF Rreq
  <2>2. m.src_seq <= T[m.src] BY <1>1, <2>1 DEF PduOK
  <2> QED BY <1>1, <2>2 DEF PduOK
<1>2. CASE m.type = "RREP"
  <2>1. m.dst_seq \in Nat BY <1>2, PduKind DEF Rrep
  <2>2. m.dst \in Node => m.dst_seq <= T[m.dst] BY <1>2, <2>1 DEF PduOK
  <2> QED BY <1>2, <2>2 DEF PduOK
<1>3. CASE m.type \notin {"RREQ", "RREP"} BY <1>3 DEF PduOK
<1> QED BY <1>1, <1>2, <1>3

\* A handler of n that keeps to what the lemmas above say preserves StateOK.
LEMMA StepSafe ==
  ASSUME StateOK, NEW n \in Node, NEW f \in Engine, Core(f, n),
         f.rreq_id >= engine[n].rreq_id,
         f.route[n].seq >= engine[n].route[n].seq,
         engine' = [engine EXCEPT ![n] = f],
         NEW out \in SUBSET Pdu, net' = net \cup out,
         up' \in [Node -> BOOLEAN], \A q \in Node : up'[q] => up[q],
         up'[n] => Fresh(f, n, Own),
         \/ \A p \in out : Good(p, n, f)
         \/ \E p : out = {p} /\ NewRreq(p, engine[n], f)
  PROVE  StateOK'
<1> DEFINE T == [Own EXCEPT ![n] = f.route[n].seq]
<1>1. /\ engine \in [Node -> Engine] /\ net \subseteq Pdu
      /\ \A q \in Node : Core(engine[q], q)
  BY DEF StateOK
<1>2. engine' \in [Node -> Engine] /\ net' \subseteq Pdu BY <1>1
<1>3. \A q \in Node : engine'[q] = IF q = n THEN f ELSE engine[q] BY <1>1
<1>4. \A q \in Node : q \in Addr /\ engine[q].route[q].seq \in Nat
  BY <1>1 DEF Engine, Entry, Addr
<1>5. f.route[n].seq \in Nat BY DEF Engine, Entry, Addr
<1>6. Own \in [Node -> Nat] BY <1>4 DEF Own, OwnSeq
<1>7. T \in [Node -> Nat] /\ \A d \in Node : Own[d] <= T[d]
  BY <1>4, <1>5, <1>6 DEF Own, OwnSeq
<1>8. Own' = T BY <1>1, <1>3 DEF Own, OwnSeq
<1> HIDE DEF T
<1>9. \A q \in Node : Core(engine'[q], q) BY <1>1, <1>3
<1>10. ASSUME NEW q \in Node, up'[q] PROVE Fresh(engine'[q], q, Own')
  <2>1. Fresh(engine'[q], q, Own)
    BY <1>3, <1>10 DEF StateOK
  <2>2. engine'[q] \in Engine BY <1>2
  <2>3. \A d \in Node : engine'[q].route[d].seq \in Nat
    BY <2>2 DEF Engine, Entry, Addr
  <2> QED BY <1>6, <1>7, <1>8, <2>1, <2>3 DEF Fresh
<1>11. \A m \in net : PduOK(m, T)
  BY <1>1, <1>6, <1>7, PduMono DEF StateOK
<1>12. CASE \A p \in out : Good(p, n, f)
  <2>1. \A m \in net' : PduOK(m, Own')
    BY <1>8, <1>11, <1>12, ZenonT(30) DEF Good, T
  <2>2. ASSUME NEW m \in net', m.type = "RREQ" PROVE Copied(m)
    BY <1>12, <2>2 DEF Copied, Good, RreqPdus
  <2>3. \A m \in RreqPdus' : m.id <= engine'[m.src].rreq_id
    <3> SUFFICES ASSUME NEW m \in net', m.type = "RREQ"
                 PROVE  m.id <= engine'[m.src].rreq_id
      BY DEF RreqPdus
    <3>1. PICK o \in RreqPdus : o.src = m.src /\ o.id = m.id
      BY <2>2 DEF Copied
    <3>2. o \in Rreq BY <1>1, PduKind DEF RreqPdus
    <3>3. /\ o.src \in Node /\ o.id \in Nat /\ o.id <= engine[o.src].rreq_id
          /\ engine[o.src].rreq_id \in Nat /\ f.rreq_id \in Nat
      BY <1>1, <3>2 DEF Rreq, StateOK, Engine
    <3> QED BY <1>3, <3>1, <3>3
  <2>4. RreqIdIdentifies'
    <3> SUFFICES ASSUME NEW m \in net', m.type = "RREQ",
                        NEW q \in net', q.type = "RREQ",
                        m.src = q.src, m.id = q.id
                 PROVE  /\ m.dst = q.dst /\ m.src_seq = q.src_seq
                        /\ m.dst_seq = q.dst_seq
      BY DEF RreqIdIdentifies, RreqPdus
    <3>1. Copied(m) /\ Copied(q) BY <2>2
    <3> QED BY <3>1 DEF Copied, StateOK, RreqIdIdentifies
  <2> QED BY <1>2, <1>9, <1>10, <2>1, <2>3, <2>4 DEF StateOK
<1>13. CASE \E p : out = {p} /\ NewRreq(p, engine[n], f)
  <2>1. PICK p : out = {p} /\ NewRreq(p, engine[n], f) BY <1>13
  <2>2. p \in Pdu /\ engine[n].ip = n BY <1>1, <2>1 DEF Core
  <2>3. /\ p.type = "RREQ" /\ p.src = n /\ p.from = n /\ p.metric = 0
        /\ p.ttl = NET_DIAMETER /\ p.src_seq = f.route[n].seq
        /\ p.id = f.rreq_id /\ f.rreq_id > engine[n].rreq_id
    BY <2>1, <2>2 DEF NewRreq
  <2>4. PduOK(p, T) BY <1>5, <1>6, <2>3, LimitAssumption DEF PduOK, T
  <2>5. \A m \in net' : PduOK(m, Own') BY <1>8, <1>11, <2>1, <2>4
  <2>6. ASSUME NEW m \in net, m.type = "RREQ"
        PROVE  m.src \in Node /\ m.id \in Nat /\ m.id <= engine[m.src].rreq_id
    BY <1>1, <2>6, PduKind DEF Rreq, RreqPdus, StateOK
  <2>7. f.rreq_id \in Nat /\ \A q \in Node : engine[q].rreq_id \in Nat
    BY <1>1 DEF Engine
  <2>8. \A m \in RreqPdus' : m.id <= engine'[m.src].rreq_id
    <3> SUFFICES ASSUME NEW m \in net', m.type = "RREQ"
                 PROVE  m.id <= engine'[m.src].rreq_id
      BY DEF RreqPdus
    <3>1. CASE m = p BY <1>3, <2>3, <2>7, <3>1
    <3>2. CASE m \in net BY <1>3, <2>6, <2>7, <3>2
    <3> QED BY <2>1, <3>1, <3>2
  <2>9. RreqIdIdentifies'
    <3> SUFFICES ASSUME NEW m \in net', m.type = "RREQ",
                        NEW q \in net', q.type = "RREQ",
                        m.src = q.src, m.id = q.id
                 PROVE  /\ m.dst = q.dst /\ m.src_seq = q.src_seq
                        /\ m.dst_seq = q.dst_seq
      BY DEF RreqIdIdentifies, RreqPdus
    <3>1. CASE m \in net /\ q \in net
      BY <3>1 DEF StateOK, RreqIdIdentifies, RreqPdus
    <3>2. \A o \in net : o.type = "RREQ" /\ o.src = n => o.id # p.id
      BY <2>3, <2>6, <2>7
    <3>3. CASE m = p \/ q = p
      <4>1. m = p /\ q = p BY <2>1, <2>3, <3>2, <3>3
      <4> QED BY <4>1
    <3> QED BY <2>1, <3>1, <3>3
  <2> QED BY <1>2, <1>9, <1>10, <2>5, <2>8, <2>9 DEF StateOK
<1> QED BY <1>12, <1>13

\* Entries of addresses outside the subnet stay and keep their next hop.
ExtStep ==
  \A n \in Node, y \in Ext :
    engine[n].route[y].known
      => /\ engine'[n].route[y].known
         /\ engine'[n].route[y].nextHop = engine[n].route[y].nextHop

\* In a state of the invariant the handler lemmas apply: with the present
\* sequence numbers while the daemon of n runs, with some bound in any case.
LEMMA NodeSafe ==
  ASSUME StateOK, NEW n \in Node
  PROVE  /\ Own \in [Node -> Nat]
         /\ up[n] => Safe(engine[n], n, Own)
         /\ \E S \in [Node -> Nat] : Safe(engine[n], n, S)
<1>1. /\ engine \in [Node -> Engine] /\ \A q \in Node : Core(engine[q], q)
      /\ \A q \in Node : up[q] => Fresh(engine[q], q, Own)
  BY DEF StateOK
<1>2. \A q, d \in Node : engine[q].route[d].seq \in Nat
  BY <1>1 DEF Engine, Entry, Addr
<1>3. Own \in [Node -> Nat] BY <1>2 DEF Own, OwnSeq
<1>4. up[n] => Safe(engine[n], n, Own)
  BY <1>1, <1>2 DEF Safe, Own, OwnSeq
<1>5. \E S \in [Node -> Nat] : Safe(engine[n], n, S)
  <2> DEFINE S == [d \in Node |-> engine[n].route[d].seq]
  <2>1. S \in [Node -> Nat] BY <1>2
  <2>2. Safe(engine[n], n, S) BY <1>1, <1>2 DEF Safe, Fresh
  <2> QED BY <2>1, <2>2
<1> QED BY <1>3, <1>4, <1>5

\* The entries a handler's lookups pass are those of other nodes.
LEMMA WalkSafe ==
  ASSUME NEW n \in Node, NEW S \in [Node -> Nat], Safe(engine[n], n, S),
         NEW X, Walked(n, X)
  PROVE  LET e == Expire(engine[n], X)
         IN  e \in Engine /\ Safe(e, n, S) /\ Later(engine[n], e)
<1>1. X \subseteq Node \ {n}
  BY ZenonT(30) DEF Walked, Lapsed, HasDev, Safe, Core
<1>2. Safe(Expire(engine[n], X), n, S) /\ Later(engine[n], Expire(engine[n], X))
  BY <1>1, ExpireSafe
<1> QED BY <1>2, ZenonT(30) DEF Safe, Core

\* What Core says does not depend on floods, timers or other neighbours.
LEMMA CoreSame ==
  ASSUME NEW n, NEW e, NEW f \in Engine, Core(e, n), f.ip = e.ip,
         f.route = e.route, f.neigh[n] = e.neigh[n]
  PROVE  Core(f, n)
BY DEF Core

\* The tasks stay and the engine is later: neighbours are still watched, and
\* with StepSafe everything else holds.
LEMMA Moves ==
  ASSUME IInv, NEW n \in Node, NEW f \in Engine, Core(f, n),
         Later(engine[n], f), engine' = [engine EXCEPT ![n] = f],
         NEW out \in SUBSET Pdu, net' = net \cup out,
         up' \in [Node -> BOOLEAN], \A q \in Node : up'[q] => up[q],
         up'[n] => Fresh(f, n, Own),
         \/ \A p \in out : Good(p, n, f)
         \/ \E p : out = {p} /\ NewRreq(p, engine[n], f)
  PROVE  StateOK' /\ ExtStep /\ (tasks' = tasks => NeighWatched')
<1>1. StateOK /\ engine \in [Node -> Engine] /\ engine[n].ip = n
  BY ZenonT(30) DEF IInv, StateOK, Core
<1>2. \A q \in Node : engine'[q] = IF q = n THEN f ELSE engine[q] BY <1>1
<1>3. /\ f.rreq_id >= engine[n].rreq_id
      /\ f.route[n].seq >= engine[n].route[n].seq
  BY <1>1 DEF Later
<1>4. StateOK' BY <1>1, <1>3, StepSafe, ZenonT(30)
<1>5. ExtStep
  <2>1. \A y \in Ext : engine[n].route[y].known
                          => /\ f.route[y].known
                             /\ f.route[y].nextHop = engine[n].route[y].nextHop
    BY <1>1, ZenonT(30) DEF Later
  <2> QED BY <1>2, <2>1 DEF ExtStep
<1>6. ASSUME tasks' = tasks PROVE NeighWatched'
  <2> SUFFICES ASSUME NEW q \in Node, NEW p \in Node,
                      engine'[q].neigh[p] # "none"
               PROVE  \/ \E t \in engine'[q].timers : t.type = "NEIGHBOR"
                                                      /\ t.id = p
                      \/ \E i \in DOMAIN tasks[q] :
                            tasks[q][i].type = "NEIGHBOR"
                            /\ tasks[q][i].id = p
    BY <1>6 DEF NeighWatched
  <2>1. CASE q # n BY <1>2, <2>1 DEF IInv, NeighWatched
  <2>2. CASE q = n
    <3>0. engine'[q] = f BY <1>2, <2>2
    <3>1. engine[n].neigh[p] # "none" \/ Watches(f, p)
      BY <3>0, ZenonT(30) DEF Later
    <3>2. engine[n].timers \subseteq f.timers BY ZenonT(30) DEF Later
    <3> QED BY <1>2, <2>2, <3>1, <3>2 DEF IInv, NeighWatched, Watches
  <2> QED BY <2>1, <2>2
<1> QED BY <1>4, <1>5, <1>6

\* The PDUs the handlers send are as StepSafe wants them.
LEMMA AnswersGood ==
  ASSUME StateOK, NEW n \in Node, NEW f \in Engine,
         NEW m \in net, m.type = "RREQ",
         f.route[n].seq >= engine[n].route[n].seq
  PROVE  \A p \in Answers(n, m, f) : Good(p, n, f)
<1> DEFINE T == [Own EXCEPT ![n] = f.route[n].seq]
<1> SUFFICES ASSUME NEW p \in Answers(n, m, f) PROVE Good(p, n, f)
  OBVIOUS
<1>1. Own \in [Node -> Nat] BY NodeSafe
<1>2. m \in Rreq /\ p \in Pdu BY PduKind DEF StateOK, Answers
<1>3. /\ m.src \in Node /\ m.src_seq \in Nat /\ m.metric \in Nat
      /\ m.ttl \in Nat /\ m.dst \in Addr /\ m.dst_seq \in Nat
  BY <1>2 DEF Rreq
<1>4. f.route[n].seq \in Nat BY DEF Engine, Entry, Addr
<1>5. T \in [Node -> Nat] /\ (\A d \in Node : Own[d] <= T[d]) /\ T[n] = f.route[n].seq
  BY <1>1, <1>4 DEF Own, OwnSeq
<1> HIDE DEF T
<1>6. /\ m.src_seq <= Own[m.src] /\ m.metric + m.ttl = NET_DIAMETER
  BY DEF StateOK, PduOK
<1>7. m \in RreqPdus BY DEF RreqPdus
<1>8. CASE p.type = "RREQ"
  <2>1. /\ p.from = n /\ p.src = m.src /\ p.dst = m.dst
        /\ p.id = m.id /\ p.src_seq = m.src_seq /\ p.dst_seq = m.dst_seq
        /\ p.metric = m.metric + 1 /\ p.ttl = m.ttl - 1
    BY <1>8 DEF Answers
  <2>2. /\ p.src_seq <= T[p.src] /\ p.metric + p.ttl = NET_DIAMETER
        /\ p.metric # 0
    BY <1>1, <1>3, <1>5, <1>6, <2>1
  <2>3. Copied(p) BY <1>7, <2>1 DEF Copied
  <2> QED BY <1>8, <2>2, <2>3 DEF Good, PduOK, T
<1>9. CASE p.type = "RREP"
  <2>1. /\ p.from = n /\ p.src = m.src /\ p.dst = m.dst
        /\ p.dst \in Ext => p.dst_seq = MyRouteSeq
        /\ p.asked = m.dst_seq
        /\ p.dst \in Node => /\ p.dst = n
                             /\ p.dst_seq > m.dst_seq
                             /\ p.dst_seq <= f.route[n].seq
    BY <1>9 DEF Answers
  <2>2. p.dst_seq \in Nat BY <1>2, <1>9, PduKind DEF Rrep
  <2>3. PduOK(p, T) BY <1>3, <1>5, <1>9, <2>1, <2>2 DEF PduOK
  <2> QED BY <1>9, <2>3 DEF Good, T
<1> QED BY <1>8, <1>9 DEF Answers

\* So are the RREPs a node passes on.
LEMMA ForwardedGood ==
  ASSUME StateOK, NEW n \in Node, NEW f \in Engine,
         NEW m \in net, m.type = "RREP",
         f.route[n].seq >= engine[n].route[n].seq
  PROVE  \A p \in Forwarded(n, m) : Good(p, n, f)
<1> DEFINE T == [Own EXCEPT ![n] = f.route[n].seq]
<1> SUFFICES ASSUME NEW p \in Forwarded(n, m) PROVE Good(p, n, f)
  OBVIOUS
<1>1. Own \in [Node -> Nat] BY NodeSafe
<1>2. m \in Rrep BY PduKind DEF StateOK
<1>3. m.dst_seq \in Nat /\ m.metric \in Nat BY <1>2 DEF Rrep
<1>4. f.route[n].seq \in Nat BY DEF Engine, Entry, Addr
<1>5. T \in [Node -> Nat] /\ \A d \in Node : Own[d] <= T[d]
  BY <1>1, <1>4 DEF Own, OwnSeq
<1> HIDE DEF T
<1>6. /\ m.dst \in Node => m.dst_seq <= Own[m.dst]
      /\ m.dst \in Ext => m.dst_seq = MyRouteSeq
      /\ m.dst \in Node /\ m.src # m.dst => m.asked < m.dst_seq
  BY DEF StateOK, PduOK
<1>7. /\ p.type = "RREP" /\ p.src = m.src
      /\ p.dst = m.dst /\ p.dst_seq = m.dst_seq /\ p.asked = m.asked
      /\ p.metric = m.metric + 1 /\ m.src # m.dst
  BY DEF Forwarded
<1>8. p.metric # 0 BY <1>3, <1>7
<1>9. p.dst \in Node => p.dst_seq <= T[p.dst]
  BY <1>1, <1>3, <1>5, <1>6, <1>7
<1>10. PduOK(p, T) BY <1>6, <1>7, <1>8, <1>9 DEF PduOK
<1> QED BY <1>7, <1>10 DEF Good, T

\* And the RERRs.
LEMMA ErrorsGood ==
  ASSUME NEW n \in Node, NEW f
  PROVE  \A p \in Errors(n) : Good(p, n, f)
BY DEF Errors, Good, PduOK
-----------------------------------------------------------------------------
(* Every action preserves the invariant *)

\* A handler that starts on the walked table, sends what Good allows or one
\* new RREQ, and leaves tasks and daemons alone.
LEMMA HandlerStep ==
  ASSUME IInv, NEW n \in Node, NEW e \in Engine, Later(engine[n], e),
         NEW r \in Result, Core(r.e, n), Later(e, r.e), Step(n, r),
         up' = up, up[n] => Fresh(r.e, n, Own),
         NEW P, Sends(e, r, P),
         r.e.route[n].seq >= engine[n].route[n].seq
           => \A p \in P : Good(p, n, r.e)
  PROVE  StateOK' /\ ExtStep /\ (tasks' = tasks => NeighWatched')
<1>1. /\ r.e \in Engine /\ r.out \in SUBSET Pdu
      /\ engine' = [engine EXCEPT ![n] = r.e] /\ net' = net \cup r.out
  BY DEF Result, Step
<1>2. engine[n] \in Engine /\ engine[n].ip = n /\ up \in [Node -> BOOLEAN]
  BY ZenonT(30) DEF IInv, StateOK, Core
<1>3. Later(engine[n], r.e) BY <1>1, <1>2, LaterTrans, ZenonT(30)
<1>4. r.e.route[n].seq >= engine[n].route[n].seq
  BY <1>2, <1>3, ZenonT(30) DEF Later
<1>5. Sends(engine[n], r, P) BY <1>2, SendsTrans
<1>6. \/ \A p \in r.out : Good(p, n, r.e)
      \/ \E p : r.out = {p} /\ NewRreq(p, engine[n], r.e)
  BY <1>4, <1>5, ZenonT(30) DEF Sends
<1>7. \A q \in Node : up'[q] => up[q] OBVIOUS
<1> QED BY <1>1, <1>2, <1>3, <1>6, <1>7, Moves, ZenonT(30)

-----------------------------------------------------------------------------
(* The actions *)

\* A packet that meets the output hook preserves the invariant.
LEMMA PacketStep ==
  ASSUME IInv, NEW n \in Node, NEW a \in Addr, NEW X, Packet(n, a, X)
  PROVE  IInv' /\ ExtStep
<1> DEFINE e == Expire(engine[n], X)
           r == output_packet(e, a, {})
<1>1. StateOK BY DEF IInv
<1>2. Walked(n, X) /\ Step(n, r) /\ UNCHANGED <<tasks, up, ticks>>
  BY DEF Packet
<1>3. PICK S \in [Node -> Nat] : Safe(engine[n], n, S) BY <1>1, NodeSafe
<1>4. e \in Engine /\ Safe(e, n, S) /\ Later(engine[n], e)
  BY <1>2, <1>3, WalkSafe
<1>5. up[n] => Safe(e, n, Own) BY <1>1, <1>2, NodeSafe, WalkSafe
<1> HIDE DEF e
<1>6. r \in Result BY <1>4, OutputType
<1>7. Safe(r.e, n, S) /\ Later(e, r.e) /\ Sends(e, r, {})
  BY <1>4, OutputSafe
<1>8. up[n] => Safe(r.e, n, Own) BY <1>1, <1>5, OutputSafe, NodeSafe
<1> HIDE DEF r
<1>9. Core(r.e, n) /\ (up[n] => Fresh(r.e, n, Own))
  BY <1>7, <1>8 DEF Safe
<1>10. StateOK' /\ ExtStep /\ NeighWatched'
  BY <1>2, <1>4, <1>6, <1>7, <1>9, HandlerStep, ZenonT(30)
<1> QED BY <1>2, <1>10 DEF IInv

\* So does receiving a RREQ,
LEMMA RxRequestStep ==
  ASSUME IInv, NEW n \in Node, NEW m \in net, NEW X, RxRequest(n, m, X)
  PROVE  IInv' /\ ExtStep
<1> DEFINE e == Expire(engine[n], X)
           r == rx_request(e, m)
<1>1. StateOK /\ Own \in [Node -> Nat] BY NodeSafe DEF IInv
<1>2. /\ Walked(n, X) /\ Step(n, r) /\ UNCHANGED <<tasks, up, ticks>>
      /\ up[n] /\ m.type = "RREQ"
  BY DEF RxRequest, CanHear
<1>3. m \in Rreq /\ PduOK(m, Own) BY <1>1, <1>2, PduKind DEF StateOK
<1>4. e \in Engine /\ Safe(e, n, Own) /\ Later(engine[n], e)
  BY <1>1, <1>2, NodeSafe, WalkSafe, ZenonT(30)
<1> HIDE DEF e
<1>5. r \in Result BY <1>3, <1>4, RequestRxType
<1>6. Safe(r.e, n, Own) /\ Later(e, r.e) /\ Sends(e, r, Answers(n, m, r.e))
  BY <1>1, <1>3, <1>4, RequestRxSafe, ZenonT(30)
<1> HIDE DEF r
<1>7. Core(r.e, n) /\ Fresh(r.e, n, Own) /\ r.e \in Engine
  BY <1>6, ZenonT(30) DEF Safe, Core
<1>8. r.e.route[n].seq >= engine[n].route[n].seq
        => \A p \in Answers(n, m, r.e) : Good(p, n, r.e)
  BY <1>1, <1>2, <1>7, AnswersGood, ZenonT(30)
<1>9. StateOK' /\ ExtStep /\ NeighWatched'
  BY <1>2, <1>4, <1>5, <1>6, <1>7, <1>8, HandlerStep, ZenonT(30)
<1> QED BY <1>2, <1>9 DEF IInv

\* receiving a RREP or a HELLO,
LEMMA RxReplyStep ==
  ASSUME IInv, NEW n \in Node, NEW m \in net, NEW X, RxReply(n, m, X)
  PROVE  IInv' /\ ExtStep
<1> DEFINE e == Expire(engine[n], X)
           r == rx_reply(e, m)
<1>1. StateOK /\ Own \in [Node -> Nat] BY NodeSafe DEF IInv
<1>2. /\ Walked(n, X) /\ Step(n, r) /\ UNCHANGED <<tasks, up, ticks>>
      /\ up[n] /\ m.type = "RREP" /\ m.from # n /\ m.metric < MaxHop
  BY DEF RxReply, CanHear
<1>3. m \in Rrep /\ PduOK(m, Own) BY <1>1, <1>2, PduKind DEF StateOK
<1>4. e \in Engine /\ Safe(e, n, Own) /\ Later(engine[n], e)
  BY <1>1, <1>2, NodeSafe, WalkSafe, ZenonT(30)
<1> HIDE DEF e
<1>5. r \in Result BY <1>3, <1>4, ReplyType
<1>6. Safe(r.e, n, Own) /\ Later(e, r.e) /\ Sends(e, r, Forwarded(n, m))
  BY <1>1, <1>2, <1>3, <1>4, ReplySafe, ZenonT(30)
<1> HIDE DEF r
<1>7. Core(r.e, n) /\ Fresh(r.e, n, Own) /\ r.e \in Engine
  BY <1>6, ZenonT(30) DEF Safe, Core
<1>8. r.e.route[n].seq >= engine[n].route[n].seq
        => \A p \in Forwarded(n, m) : Good(p, n, r.e)
  BY <1>1, <1>2, <1>7, ForwardedGood, ZenonT(30)
<1>9. StateOK' /\ ExtStep /\ NeighWatched'
  BY <1>2, <1>4, <1>5, <1>6, <1>7, <1>8, HandlerStep, ZenonT(30)
<1> QED BY <1>2, <1>9 DEF IInv

\* receiving a RERR,
LEMMA RxErrorStep ==
  ASSUME IInv, NEW n \in Node, NEW m \in net, NEW X, RxError(n, m, X)
  PROVE  IInv' /\ ExtStep
<1> DEFINE e == Expire(engine[n], X)
           r == rx_error(e, m)
<1>1. StateOK /\ Own \in [Node -> Nat] BY NodeSafe DEF IInv
<1>2. /\ Walked(n, X) /\ Step(n, r) /\ UNCHANGED <<tasks, up, ticks>>
      /\ up[n] /\ m.type = "RERR"
  BY DEF RxError, CanHear
<1>3. m \in Rerr /\ PduOK(m, Own) BY <1>1, <1>2, PduKind DEF StateOK
<1>4. e \in Engine /\ Safe(e, n, Own) /\ Later(engine[n], e)
  BY <1>1, <1>2, NodeSafe, WalkSafe
<1> HIDE DEF e
<1>5. r \in Result BY <1>3, <1>4, ErrorType
<1>6. Safe(r.e, n, Own) /\ Later(e, r.e) /\ r.out = {}
  BY <1>1, <1>3, <1>4, ErrorSafe
<1> HIDE DEF r
<1>7. Core(r.e, n) /\ Fresh(r.e, n, Own) /\ Sends(e, r, {})
  BY <1>6, ZenonT(30) DEF Safe, Sends
<1>8. StateOK' /\ ExtStep /\ NeighWatched'
  BY <1>2, <1>4, <1>5, <1>6, <1>7, HandlerStep
<1> QED BY <1>2, <1>8 DEF IInv

\* a fault while a RERR is handled,
LEMMA RxErrorFaultStep ==
  ASSUME IInv, NEW n \in Node, NEW m \in net, NEW X, RxErrorFault(n, m, X)
  PROVE  IInv' /\ ExtStep
<1> DEFINE e == Expire(engine[n], X)
<1>1. StateOK /\ Own \in [Node -> Nat] BY NodeSafe DEF IInv
<1>2. /\ Walked(n, X) /\ up' = [up EXCEPT ![n] = FALSE]
      /\ UNCHANGED <<tasks, ticks>> /\ up[n] /\ m.type = "RERR"
  BY DEF RxErrorFault, CanHear
<1>3. PICK d \in Broken(e, m) : Step(n, rx_error_fault(e, m, d))
  BY DEF RxErrorFault
<1> DEFINE r == rx_error_fault(e, m, d)
<1>4. m \in Rerr /\ PduOK(m, Own) BY <1>1, <1>2, PduKind DEF StateOK
<1>5. e \in Engine /\ Safe(e, n, Own) /\ Later(engine[n], e)
  BY <1>1, <1>2, NodeSafe, WalkSafe
<1> HIDE DEF e
<1>6. Core(r.e, n) /\ Later(e, r.e) /\ r.out = {}
  BY <1>1, <1>3, <1>4, <1>5, ErrorFaultSafe
<1>7. engine' = [engine EXCEPT ![n] = r.e] /\ net' = net \cup r.out
  BY <1>3 DEF Step
<1> HIDE DEF r
<1>8. r.e \in Engine /\ engine[n] \in Engine
  BY <1>1, <1>6, ZenonT(30) DEF Core, StateOK
<1>9. Later(engine[n], r.e) BY <1>5, <1>6, <1>8, LaterTrans
<1>10. /\ up' \in [Node -> BOOLEAN] /\ ~up'[n]
       /\ \A q \in Node : up'[q] => up[q]
  BY <1>1, <1>2 DEF StateOK
<1>11. r.out \in SUBSET Pdu /\ \A p \in r.out : Good(p, n, r.e) BY <1>6
<1>12. StateOK' /\ ExtStep /\ NeighWatched'
  BY <1>2, <1>6, <1>7, <1>8, <1>9, <1>10, <1>11, Moves, ZenonT(30)
<1> QED BY <1>2, <1>12 DEF IInv

\* a CLEANUP,
LEMMA CleanupStep ==
  ASSUME IInv, NEW n \in Node, Cleanup(n)
  PROVE  IInv' /\ ExtStep
<1> DEFINE e == engine[n]
           r == cleanup(e)
<1>1. StateOK /\ Own \in [Node -> Nat] BY NodeSafe DEF IInv
<1>2. Step(n, r) /\ UNCHANGED <<tasks, up, ticks>> /\ up[n] BY DEF Cleanup
<1>3. Safe(e, n, Own) BY <1>1, <1>2, NodeSafe
<1>4. e \in Engine BY <1>3 DEF Safe, Core
<1>5. Later(engine[n], e) BY <1>1, <1>3, <1>4, SameRoutes DEF Engine
<1>6. r \in Result BY <1>4, CleanupType
<1>7. Safe(r.e, n, Own) /\ Later(e, r.e) /\ r.out = {}
  BY <1>1, <1>3, CleanupSafe
<1> HIDE DEF r
<1>8. Core(r.e, n) /\ Fresh(r.e, n, Own) /\ Sends(e, r, {})
  BY <1>7, ZenonT(30) DEF Safe, Sends
<1>9. StateOK' /\ ExtStep /\ NeighWatched'
  BY <1>2, <1>4, <1>5, <1>6, <1>7, <1>8, HandlerStep
<1> QED BY <1>2, <1>9 DEF IInv

\* sending a HELLO,
LEMMA SendHelloStep ==
  ASSUME IInv, NEW n \in Node, SendHello(n)
  PROVE  IInv' /\ ExtStep
<1> DEFINE e == engine[n]
<1>1. StateOK /\ Own \in [Node -> Nat] BY NodeSafe DEF IInv
<1>2. net' = net \cup {Hello(n)} /\ UNCHANGED <<engine, tasks, up, ticks>>
      /\ up[n]
  BY DEF SendHello
<1>3. Safe(e, n, Own) BY <1>1, <1>2, NodeSafe
<1>4. e \in Engine /\ Core(e, n) /\ Fresh(e, n, Own)
  BY <1>3, ZenonT(30) DEF Safe, Core
<1>5. Later(engine[n], e) BY <1>1, <1>3, <1>4, SameRoutes DEF Engine
<1>6. /\ engine' = [engine EXCEPT ![n] = e] /\ up' \in [Node -> BOOLEAN]
      /\ \A q \in Node : up'[q] => up[q]
  BY <1>1, <1>2 DEF StateOK
<1>7. Hello(n) \in Pdu BY DEF Hello, Pdu, Rrep, Addr, MyRouteSeq
<1>8. Good(Hello(n), n, e)
  <2>1. e.route[n].seq \in Nat /\ e.route[n].seq >= 1
    BY <1>4 DEF Core, Engine, Entry, Addr
  <2>2. n \notin Ext BY AddrAssumption
  <2>3. [Own EXCEPT ![n] = e.route[n].seq][n] = e.route[n].seq BY <1>1
  <2> QED BY <2>1, <2>2, <2>3, ZenonT(30) DEF Good, PduOK, Hello, MyRouteSeq
<1>9. {Hello(n)} \in SUBSET Pdu /\ \A p \in {Hello(n)} : Good(p, n, e)
  BY <1>7, <1>8
<1> HIDE DEF e
<1>10. StateOK' /\ ExtStep /\ NeighWatched'
  BY <1>2, <1>4, <1>5, <1>6, <1>9, Moves, ZenonT(30)
<1> QED BY <1>2, <1>10 DEF IInv

\* and running the oldest timer task.
LEMMA RunTaskStep ==
  ASSUME IInv, NEW n \in Node, NEW X, RunTask(n, X)
  PROVE  IInv' /\ ExtStep
<1> DEFINE e == Expire(engine[n], X)
           t == Head(tasks[n])
           r == IF t.type = "NEIGHBOR" THEN neigh_delete(e, t.id)
                                       ELSE resend_request(e, t)
<1>1. StateOK /\ Own \in [Node -> Nat] BY NodeSafe DEF IInv
<1>2. /\ Walked(n, X) /\ Step(n, r) /\ UNCHANGED <<up, ticks>> /\ up[n]
      /\ tasks[n] # <<>> /\ tasks' = [tasks EXCEPT ![n] = Tail(@)]
  BY DEF RunTask
<1>3. tasks \in [Node -> Seq(Timer)] /\ tasks[n] \in Seq(Timer)
  BY DEF IInv
<1>4. t \in Timer /\ Tail(tasks[n]) \in Seq(Timer) BY <1>2, <1>3
<1>5. tasks' \in [Node -> Seq(Timer)] BY <1>2, <1>3, <1>4
<1>6. e \in Engine /\ Safe(e, n, Own) /\ Later(engine[n], e)
  BY <1>1, <1>2, NodeSafe, WalkSafe, ZenonT(30)
<1> HIDE DEF e
<1>7. /\ r \in Result /\ Safe(r.e, n, Own) /\ Later(e, r.e)
      /\ Sends(e, r, Errors(n))
      /\ t.type = "NEIGHBOR" => r.e.neigh[t.id] = "none"
  <2> HIDE DEF t
  <2>1. CASE t.type = "NEIGHBOR"
    <3>1. t.id \in Node BY <1>4, <2>1 DEF Timer
    <3>2. r = neigh_delete(e, t.id) BY <2>1, ZenonT(30)
    <3> HIDE DEF r
    <3>3. r \in Result BY <1>6, <3>1, <3>2, NeighDeleteType, ZenonT(30)
    <3>4. /\ Safe(r.e, n, Own) /\ Later(e, r.e) /\ r.out \subseteq Errors(n)
          /\ r.e.neigh[t.id] = "none"
      BY <1>1, <1>6, <3>1, <3>2, NeighDeleteSafe, ZenonT(30)
    <3> QED BY <3>3, <3>4, ZenonT(30) DEF Sends
  <2>2. CASE t.type # "NEIGHBOR"
    BY <1>1, <1>4, <1>6, <2>2, ResendType, ResendSafe, ZenonT(30) DEF Sends
  <2> QED BY <2>1, <2>2, ZenonT(30)
<1> HIDE DEF r
<1>8. Core(r.e, n) /\ Fresh(r.e, n, Own) /\ r.e \in Engine
  BY <1>7, ZenonT(30) DEF Safe, Core
<1>9. \A p \in Errors(n) : Good(p, n, r.e) BY ErrorsGood
<1>10. StateOK' /\ ExtStep
  BY <1>2, <1>6, <1>7, <1>8, <1>9, HandlerStep, ZenonT(30)
<1>11. engine \in [Node -> Engine] BY <1>1 DEF StateOK
<1>12. Later(engine[n], r.e) BY <1>6, <1>7, <1>8, <1>11, LaterTrans
<1>13. NeighWatched'
  <2> SUFFICES ASSUME NEW q \in Node, NEW p \in Node,
                      engine'[q].neigh[p] # "none"
               PROVE  \/ \E u \in engine'[q].timers : u.type = "NEIGHBOR"
                                                      /\ u.id = p
                      \/ \E i \in DOMAIN tasks'[q] :
                            tasks'[q][i].type = "NEIGHBOR"
                            /\ tasks'[q][i].id = p
    BY DEF NeighWatched
  <2>1. engine'[q] = IF q = n THEN r.e ELSE engine[q]
    BY <1>2, <1>11 DEF Step
  <2>2. CASE q # n
    <3>1. engine'[q] = engine[q] /\ tasks'[q] = tasks[q]
      BY <1>2, <1>3, <2>1, <2>2
    <3> QED BY <3>1 DEF IInv, NeighWatched
  <2>3. CASE q = n
    <3>1. tasks'[q] = Tail(tasks[n]) BY <1>2, <1>3, <2>3
    <3>2. engine[n].timers \subseteq r.e.timers BY <1>12, ZenonT(30) DEF Later
    <3>3. CASE Watches(r.e, p) BY <2>1, <2>3, <3>3 DEF Watches
    <3>4. CASE engine[n].neigh[p] # "none"
      <4>1. \/ \E u \in engine[n].timers : u.type = "NEIGHBOR" /\ u.id = p
            \/ \E i \in DOMAIN tasks[n] : tasks[n][i].type = "NEIGHBOR"
                                          /\ tasks[n][i].id = p
        BY <3>4 DEF IInv, NeighWatched
      <4>2. CASE \E u \in engine[n].timers : u.type = "NEIGHBOR" /\ u.id = p
        BY <2>1, <2>3, <3>2, <4>2
      <4>3. CASE \E i \in DOMAIN tasks[n] : tasks[n][i].type = "NEIGHBOR"
                                            /\ tasks[n][i].id = p
        <5>1. PICK i \in DOMAIN tasks[n] : tasks[n][i].type = "NEIGHBOR"
                                           /\ tasks[n][i].id = p
          BY <4>3, ZenonT(30)
        <5>2. i # 1
          BY <1>2, <1>3, <1>7, <2>1, <2>3, <5>1
        <5>3. i - 1 \in DOMAIN Tail(tasks[n])
              /\ Tail(tasks[n])[i - 1] = tasks[n][i]
          BY <1>2, <1>3, <5>1, <5>2
        <5> QED BY <3>1, <5>1, <5>3
      <4> QED BY <4>1, <4>2, <4>3
    <3> QED BY <1>12, <2>1, <2>3, <3>3, <3>4, ZenonT(30) DEF Later
  <2> QED BY <2>2, <2>3
<1>14. ticks' \in 0..MaxTicks BY <1>2 DEF IInv
<1> QED BY <1>5, <1>10, <1>13, <1>14 DEF IInv

\* The actions of time passing change one engine and send nothing.
LEMMA LapseStep ==
  ASSUME IInv, NEW n \in Node, NEW f \in Engine, Core(f, n),
         f.rreq_id = engine[n].rreq_id,
         f.route[n].seq = engine[n].route[n].seq,
         up[n] => Fresh(f, n, Own),
         engine' = [engine EXCEPT ![n] = f], net' = net, up' = up
  PROVE  StateOK'
<1>1. StateOK BY DEF IInv
<1>2. engine[n] \in Engine /\ up \in [Node -> BOOLEAN]
  BY <1>1 DEF StateOK
<1>3. engine[n].route[n].seq \in Nat /\ engine[n].rreq_id \in Nat
  BY <1>2 DEF Engine, Entry, Addr
<1>4. net' = net \cup {} OBVIOUS
<1>5. {} \in SUBSET Pdu /\ \A p \in {} : Good(p, n, f) OBVIOUS
<1>6. /\ f.rreq_id >= engine[n].rreq_id
      /\ f.route[n].seq >= engine[n].route[n].seq
      /\ up' \in [Node -> BOOLEAN] /\ \A q \in Node : up'[q] => up[q]
      /\ up'[n] => Fresh(f, n, Own)
  BY <1>2, <1>3
<1> QED BY <1>1, <1>4, <1>5, <1>6, StepSafe, ZenonT(30)

\* The bound on ticks is kept.
LEMMA TickType ==
  ASSUME IInv, Tick
  PROVE  ticks' \in 0..MaxTicks
BY LimitAssumption DEF IInv, Tick

\* A timer that fires preserves the invariant.
LEMMA TimerFiresStep ==
  ASSUME IInv, NEW n \in Node, NEW t \in engine[n].timers, TimerFires(n, t)
  PROVE  IInv' /\ ExtStep
<1> DEFINE e == engine[n]
           f == [e EXCEPT !.timers = @ \ {t}]
<1>1. StateOK /\ Own \in [Node -> Nat] BY NodeSafe DEF IInv
<1>2. /\ engine' = [engine EXCEPT ![n].timers = @ \ {t}]
      /\ tasks' = [tasks EXCEPT ![n] = Append(@, t)]
      /\ Tick /\ UNCHANGED <<up, net>>
  BY DEF TimerFires
<1>3. engine \in [Node -> Engine] /\ e \in Engine /\ Core(e, n)
  BY <1>1 DEF StateOK
<1>4. engine' = [engine EXCEPT ![n] = f] BY <1>2, <1>3
<1>5. /\ f \in Engine /\ f.ip = e.ip /\ f.route = e.route
      /\ f.neigh = e.neigh /\ f.rreq_id = e.rreq_id
      /\ f.timers = e.timers \ {t}
  BY <1>3, ZenonT(30) DEF Engine
<1> HIDE DEF f
<1>6. Core(f, n) BY <1>3, <1>5 DEF Core
<1>7. up[n] => Fresh(f, n, Own) BY <1>1, <1>5 DEF StateOK, Fresh
<1>8. StateOK' BY <1>2, <1>4, <1>5, <1>6, <1>7, LapseStep, ZenonT(30)
<1>9. ExtStep BY <1>3, <1>4, <1>5 DEF ExtStep
<1>10. t \in Timer /\ tasks[n] \in Seq(Timer) /\ tasks \in [Node -> Seq(Timer)]
  BY <1>3 DEF Engine, IInv
<1>11. tasks' \in [Node -> Seq(Timer)] BY <1>2, <1>10
<1>12. NeighWatched'
  <2> SUFFICES ASSUME NEW q \in Node, NEW p \in Node,
                      engine'[q].neigh[p] # "none"
               PROVE  \/ \E u \in engine'[q].timers : u.type = "NEIGHBOR"
                                                      /\ u.id = p
                      \/ \E i \in DOMAIN tasks'[q] :
                            tasks'[q][i].type = "NEIGHBOR"
                            /\ tasks'[q][i].id = p
    BY DEF NeighWatched
  <2>1. engine'[q] = IF q = n THEN f ELSE engine[q] BY <1>3, <1>4
  <2>2. CASE q # n
    <3>1. engine'[q] = engine[q] /\ tasks'[q] = tasks[q]
      BY <1>2, <1>10, <2>1, <2>2
    <3> QED BY <3>1 DEF IInv, NeighWatched
  <2>3. CASE q = n
    <3>1. tasks'[q] = Append(tasks[n], t) BY <1>2, <1>10, <2>3
    <3>2. \/ \E u \in e.timers : u.type = "NEIGHBOR" /\ u.id = p
          \/ \E i \in DOMAIN tasks[n] : tasks[n][i].type = "NEIGHBOR"
                                        /\ tasks[n][i].id = p
      BY <1>5, <2>1, <2>3 DEF IInv, NeighWatched
    <3>3. CASE \E u \in e.timers : u.type = "NEIGHBOR" /\ u.id = p
      <4>1. PICK u \in e.timers : u.type = "NEIGHBOR" /\ u.id = p BY <3>3
      <4>2. CASE u = t
        <5>1. Len(tasks[n]) + 1 \in DOMAIN Append(tasks[n], t)
              /\ Append(tasks[n], t)[Len(tasks[n]) + 1] = t
          BY <1>10
        <5> QED BY <3>1, <4>1, <4>2, <5>1
      <4>3. CASE u # t BY <1>5, <2>1, <2>3, <4>1, <4>3, ZenonT(30)
      <4> QED BY <4>2, <4>3
    <3>4. CASE \E i \in DOMAIN tasks[n] : tasks[n][i].type = "NEIGHBOR"
                                          /\ tasks[n][i].id = p
      <4>1. \A i \in DOMAIN tasks[n] :
               /\ i \in DOMAIN Append(tasks[n], t)
               /\ Append(tasks[n], t)[i] = tasks[n][i]
        BY <1>10
      <4> QED BY <3>1, <3>4, <4>1
    <3> QED BY <3>2, <3>3, <3>4
  <2> QED BY <2>2, <2>3
<1> QED BY <1>2, <1>8, <1>9, <1>11, <1>12, TickType DEF IInv

\* The tasks and timers stay and no neighbour is added.
LEMMA LapseWatched ==
  ASSUME IInv, NEW n \in Node, NEW f \in Engine,
         f.timers = engine[n].timers,
         \A p \in Node : f.neigh[p] # "none" => engine[n].neigh[p] # "none",
         engine' = [engine EXCEPT ![n] = f], tasks' = tasks
  PROVE  NeighWatched'
<1>1. engine \in [Node -> Engine] BY DEF IInv, StateOK
<1>2. \A q \in Node : engine'[q] = IF q = n THEN f ELSE engine[q] BY <1>1
<1>3. \A q, p \in Node : engine'[q].neigh[p] # "none"
                           => engine[q].neigh[p] # "none"
  BY <1>2
<1>4. \A q \in Node : engine'[q].timers = engine[q].timers BY <1>2
<1> QED BY <1>3, <1>4 DEF IInv, NeighWatched

\* So does the end of a route's lifetime,
LEMMA LapseRouteStep ==
  ASSUME IInv, NEW n \in Node, NEW a \in Addr, LapseRoute(n, a)
  PROVE  IInv' /\ ExtStep
<1> DEFINE e == engine[n]
           f == [e EXCEPT !.route[a].live = FALSE]
<1>1. StateOK /\ Own \in [Node -> Nat] BY NodeSafe DEF IInv
<1>2. /\ engine' = [engine EXCEPT ![n].route[a].live = FALSE]
      /\ a # n /\ Tick /\ UNCHANGED <<tasks, up, net>>
  BY DEF LapseRoute
<1>3. engine \in [Node -> Engine] /\ e \in Engine /\ e.ip = n /\ n \in Addr
  BY <1>1, ZenonT(30) DEF StateOK, Core, Addr
<1>4. engine' = [engine EXCEPT ![n] = f] BY <1>2, <1>3
<1>5. PICK S \in [Node -> Nat] : Safe(e, n, S) BY <1>1, NodeSafe
<1>6. Safe(f, n, S) /\ Later(e, f) BY <1>5, SetLiveSafe, ZenonT(30)
<1>7. up[n] => Safe(f, n, Own) BY <1>1, NodeSafe, SetLiveSafe, ZenonT(30)
<1>8. /\ f.rreq_id = e.rreq_id /\ f.timers = e.timers /\ f.neigh = e.neigh
      /\ f.route[n] = e.route[n]
  BY <1>2, <1>3 DEF Engine
<1> HIDE DEF f
<1>9. f \in Engine /\ Core(f, n) /\ (up[n] => Fresh(f, n, Own))
  BY <1>6, <1>7, ZenonT(30) DEF Safe, Core
<1>10. StateOK' BY <1>2, <1>4, <1>8, <1>9, LapseStep, ZenonT(30)
<1>11. NeighWatched'
  <2>1. \A p \in Node : f.neigh[p] # "none" => engine[n].neigh[p] # "none"
    BY <1>8
  <2> QED BY <1>2, <1>4, <1>8, <1>9, <2>1, LapseWatched, ZenonT(30)
<1>12. ExtStep BY <1>3, <1>4, <1>6 DEF ExtStep, Later
<1> QED BY <1>2, <1>10, <1>11, <1>12, TickType DEF IInv

\* of a neighbour's lifetime,
LEMMA LapseNeighStep ==
  ASSUME IInv, NEW n \in Node, NEW p \in Node, LapseNeigh(n, p)
  PROVE  IInv' /\ ExtStep
<1> DEFINE e == engine[n]
           f == [e EXCEPT !.neigh[p] = "lapsed"]
<1>1. StateOK BY DEF IInv
<1>2. /\ engine' = [engine EXCEPT ![n].neigh[p] = "lapsed"]
      /\ e.neigh[p] = "live" /\ Tick /\ UNCHANGED <<tasks, up, net>>
  BY DEF LapseNeigh
<1>3. engine \in [Node -> Engine] /\ e \in Engine /\ Core(e, n)
  BY <1>1 DEF StateOK
<1>4. engine' = [engine EXCEPT ![n] = f] BY <1>2, <1>3
<1>5. /\ f \in Engine /\ f.ip = e.ip /\ f.route = e.route
      /\ f.timers = e.timers /\ f.rreq_id = e.rreq_id
      /\ \A q \in Node : f.neigh[q] # "none" => e.neigh[q] # "none"
      /\ \A q \in Node \ {p} : f.neigh[q] = e.neigh[q]
  BY <1>2, <1>3, ZenonT(30) DEF Engine
<1> HIDE DEF f
<1>6. p # n BY <1>2, <1>3, ZenonT(30) DEF Core
<1>7. Core(f, n)
  <2>1. f.neigh[n] = e.neigh[n] BY <1>5, <1>6
  <2> QED BY <1>3, <1>5, <2>1, CoreSame, ZenonT(30)
<1>8. up[n] => Fresh(f, n, Own) BY <1>1, <1>5 DEF StateOK, Fresh
<1>9. StateOK' BY <1>2, <1>4, <1>5, <1>7, <1>8, LapseStep, ZenonT(30)
<1>10. NeighWatched' BY <1>2, <1>4, <1>5, LapseWatched, ZenonT(30)
<1>11. ExtStep BY <1>3, <1>4, <1>5 DEF ExtStep
<1> QED BY <1>2, <1>9, <1>10, <1>11, TickType DEF IInv

\* and of a flood record's lifetime.
LEMMA LapseFloodStep ==
  ASSUME IInv, NEW n \in Node, NEW d \in engine[n].floods, LapseFlood(n, d)
  PROVE  IInv' /\ ExtStep
<1> DEFINE e == engine[n]
           fl == (e.floods \ {d}) \cup {[d EXCEPT !.live = FALSE]}
           f == [e EXCEPT !.floods = fl]
<1>1. StateOK BY DEF IInv
<1>2. /\ engine' = [engine EXCEPT ![n].floods =
                      (@ \ {d}) \cup {[d EXCEPT !.live = FALSE]}]
      /\ Tick /\ UNCHANGED <<tasks, up, net>>
  BY ZenonT(30) DEF LapseFlood
<1>3. engine \in [Node -> Engine] /\ e \in Engine /\ Core(e, n)
  BY <1>1 DEF StateOK
<1>4. engine' = [engine EXCEPT ![n] = f] BY <1>2, <1>3
<1>5. fl \in SUBSET Flood
  <2>1. e.floods \in SUBSET Flood /\ d \in Flood BY <1>3 DEF Engine
  <2>2. [d EXCEPT !.live = FALSE] \in Flood BY <2>1, ZenonT(30) DEF Flood
  <2> QED BY <2>1, <2>2, ZenonT(30)
<1> HIDE DEF fl
<1>6. /\ f \in Engine /\ f.ip = e.ip /\ f.route = e.route
      /\ f.timers = e.timers /\ f.rreq_id = e.rreq_id /\ f.neigh = e.neigh
  BY <1>3, <1>5, ZenonT(30) DEF Engine
<1> HIDE DEF f
<1>7. Core(f, n)
  <2>1. f.neigh[n] = e.neigh[n] BY <1>6, ZenonT(30)
  <2> QED BY <1>3, <1>6, <2>1, CoreSame, ZenonT(30)
<1>8. up[n] => Fresh(f, n, Own) BY <1>1, <1>6 DEF StateOK, Fresh
<1>9. StateOK' BY <1>2, <1>4, <1>6, <1>7, <1>8, LapseStep, ZenonT(30)
<1>10. NeighWatched'
  <2>1. \A p \in Node : f.neigh[p] # "none" => engine[n].neigh[p] # "none"
    BY <1>6
  <2> QED BY <1>2, <1>4, <1>6, <2>1, LapseWatched, ZenonT(30)
<1>11. ExtStep BY <1>3, <1>4, <1>6 DEF ExtStep
<1> QED BY <1>2, <1>9, <1>10, <1>11, TickType DEF IInv
-----------------------------------------------------------------------------
(* Theorems *)

\* The engines engine_init leaves satisfy the invariant.
LEMMA InitInv == Init => IInv
<1> SUFFICES ASSUME Init PROVE IInv OBVIOUS
<1>1. ASSUME NEW n \in Node PROVE InitEngine(n) \in Engine
  <2> DEFINE self == [known |-> TRUE, seq |-> 1, nextHop |-> n,
                      metric |-> 0, valid |-> TRUE, live |-> TRUE]
             table == [a \in Addr |-> IF a = n THEN self ELSE Absent(a)]
  <2>1. self \in Entry BY DEF Entry, Addr
  <2> HIDE DEF self
  <2>2. table \in [Addr -> Entry] BY <2>1, AbsentEntry
  <2> HIDE DEF table
  <2>3. InitEngine(n) = [ip |-> n, route |-> table,
                         neigh |-> [p \in Node |-> "none"], floods |-> {},
                         timers |-> {}, rreq_id |-> 1]
    BY DEF InitEngine, table, self
  <2> QED BY <2>2, <2>3 DEF Engine
<1>2. engine \in [Node -> Engine] /\ \A n \in Node : engine[n] = InitEngine(n)
  BY <1>1 DEF Init
<1>3. \A n \in Node : n \in Addr /\ n \notin Ext
  BY AddrAssumption DEF Addr
<1>10. ASSUME NEW n \in Node, NEW a \in Addr \ {n}
      PROVE  LET r == InitEngine(n).route[a] IN ~r.valid /\ ~r.known
  <2>1. InitEngine(n).route[a] = Absent(a) BY DEF InitEngine
  <2>2. ~Absent(a).valid /\ ~Absent(a).known BY DEF Absent
  <2> QED BY <2>1, <2>2
<1>4. ASSUME NEW n \in Node PROVE Core(engine[n], n)
  <2>1. engine[n].ip = n /\ engine[n].neigh[n] = "none"
    BY <1>2 DEF InitEngine
  <2>2. LET r == engine[n].route[n]
        IN  /\ r.known /\ r.valid /\ r.nextHop = n /\ r.metric = 0
            /\ r.seq >= 1
    BY <1>2, <1>3 DEF InitEngine
  <2>3. \A a \in Addr \ {n} : ~engine[n].route[a].valid
                              /\ ~engine[n].route[a].known
    BY <1>2, <1>10
  <2>4. \A d \in Node : ~(engine[n].route[d].valid
                          /\ engine[n].route[d].metric = 1)
    BY <1>3, <2>2, <2>3
  <2>5. \A y \in Ext : ~engine[n].route[y].known
    BY <1>3, <2>3 DEF Addr
  <2> QED BY <1>2, <2>1, <2>2, <2>4, <2>5 DEF Core
<1>5. ASSUME NEW n \in Node PROVE Fresh(engine[n], n, Own)
  BY <1>2, <1>3, <1>10 DEF Fresh
<1>6. net = {} /\ RreqPdus = {} /\ RrepPdus = {}
  BY DEF Init, RreqPdus, RrepPdus
<1>7. StateOK
  BY <1>2, <1>4, <1>5, <1>6, ZenonT(30)
     DEF StateOK, Init, RreqIdIdentifies
<1>8. \A n, p \in Node : engine[n].neigh[p] = "none"
  BY <1>2 DEF InitEngine
<1>9. tasks \in [Node -> Seq(Timer)] /\ ticks \in 0..MaxTicks
  BY LimitAssumption DEF Init
<1> QED BY <1>7, <1>8, <1>9 DEF IInv, NeighWatched

\* Every step preserves the invariant and the routes out of the subnet.
LEMMA NextInv == IInv /\ [Next]_vars => IInv' /\ (Next => ExtStep)
<1> SUFFICES ASSUME IInv, [Next]_vars PROVE IInv' /\ (Next => ExtStep)
  OBVIOUS
<1>1. ASSUME Next PROVE IInv' /\ ExtStep
  <2>1. PICK n \in Node :
          \/ \E X \in SUBSET Lapsed(engine[n]) :
                Daemon(n, X) \/ (\E a \in Addr : Packet(n, a, X))
          \/ SendHello(n) \/ Cleanup(n) \/ Lapse(n)
          \/ \E t \in engine[n].timers : TimerFires(n, t)
    BY <1>1, ZenonT(30) DEF Next
  <2>2. ASSUME NEW X, Daemon(n, X) PROVE IInv' /\ ExtStep
    BY <2>2, RxRequestStep, RxReplyStep, RxErrorStep, RxErrorFaultStep,
       RunTaskStep DEF Daemon
  <2>3. ASSUME NEW X, \E a \in Addr : Packet(n, a, X) PROVE IInv' /\ ExtStep
    BY <2>3, PacketStep
  <2>4. CASE SendHello(n) BY <2>4, SendHelloStep
  <2>5. CASE Cleanup(n) BY <2>5, CleanupStep
  <2>6. CASE Lapse(n)
    BY <2>6, LapseRouteStep, LapseNeighStep, LapseFloodStep DEF Lapse
  <2>7. CASE \E t \in engine[n].timers : TimerFires(n, t)
    BY <2>7, TimerFiresStep
  <2> QED BY <2>1, <2>2, <2>3, <2>4, <2>5, <2>6, <2>7, ZenonT(30)
<1>2. CASE UNCHANGED vars
  <2>1. UNCHANGED <<engine, tasks, up, net, ticks>> BY <1>2 DEF vars
  <2>2. StateOK'
    BY <2>1, ZenonT(30) DEF IInv, StateOK, Own, OwnSeq, RreqPdus, RreqIdIdentifies
  <2>3. NeighWatched' BY <2>1 DEF IInv, NeighWatched
  <2>4. IInv' BY <2>1, <2>2, <2>3 DEF IInv
  <2> QED BY <1>1, <2>4
<1> QED BY <1>1, <1>2

\* IInv is an invariant.
LEMMA Invariance == Spec => []IInv
BY InitInv, NextInv, PTL DEF Spec

\* Type correctness of engines, tasks, daemons and PDUs.
THEOREM TypeCorrect == Spec => []TypeOK
<1>1. IInv => TypeOK BY ZenonT(30) DEF IInv, StateOK, TypeOK, Core
<1> QED BY <1>1, Invariance, PTL

\* Whatever arrives, in whatever order, no node replaces its self route,
\* the case _engine_route_update only warns about.
THEOREM SelfRouteSafe == Spec => []SelfRouteIntact
<1>1. IInv => SelfRouteIntact
  BY ZenonT(30) DEF IInv, StateOK, SelfRouteIntact, Core
<1> QED BY <1>1, Invariance, PTL

\* No valid route of a node that runs is ahead of its destination's own
\* sequence number, however PDUs are lost, delayed, repeated and reordered
\* (_engine_route_update, _engine_rx_hello, _engine_rx_error).
THEOREM NeverAhead == Spec => []NoFutureRoute
<1>1. IInv => NoFutureRoute
  <2> SUFFICES ASSUME IInv, NEW n \in Node, NEW d \in Node,
                      up[n], engine[n].route[d].valid
               PROVE  engine[n].route[d].seq <= OwnSeq(d)
    BY DEF NoFutureRoute
  <2>1. engine[n] \in Engine /\ Fresh(engine[n], n, Own)
    BY DEF IInv, StateOK
  <2>2. engine[n].route[d].seq \in Nat BY <2>1 DEF Engine, Entry, Addr
  <2>3. CASE d = n BY <2>2, <2>3 DEF OwnSeq
  <2>4. CASE d # n BY <2>1, <2>4 DEF Fresh, Own
  <2> QED BY <2>3, <2>4
<1> QED BY <1>1, Invariance, PTL

\* What _engine_rx_reply stores at the node that asked.
LEMMA AnswerStored ==
  ASSUME NEW n \in Node, NEW e \in Engine, e.ip = n, NEW m \in Rrep,
         m.src = n, m.dst \in Node \ {n}, m.asked < m.dst_seq,
         neigh_validate(e, m.from),
         LET r == e.route[m.dst]
         IN  r.known => r.seq = m.asked /\ (r.valid => r.live)
  PROVE  LET s == rx_reply(e, m).e.route[m.dst]
         IN  s.valid /\ s.seq = m.dst_seq /\ s.nextHop = m.from
<1> DEFINE d  == m.dst
           hops == NextHopCount(m.metric)
           e1 == route_lookup(e, d)
           s  == [known |-> TRUE, seq |-> m.dst_seq, nextHop |-> m.from,
                  metric |-> hops, valid |-> TRUE, live |-> TRUE]
           e2 == [e1 EXCEPT !.route[d] = s]
           e3 == route_lookup(e2, n)
<1>1. /\ d \in Addr /\ d # n /\ n \in Addr /\ m.from \in Node
      /\ m.dst_seq \in Nat /\ m.asked \in Nat /\ m.metric \in Nat
  BY DEF Rrep, Addr
<1>2. hops \in Nat BY <1>1 DEF NextHopCount
<1>3. s \in Entry /\ s.valid /\ s.live /\ s.seq = m.dst_seq /\ s.nextHop = m.from
  BY <1>1, <1>2 DEF Entry, Addr
<1> HIDE DEF s, hops
<1>4. d \notin Lapsed(e) BY DEF Lapsed
<1>5. /\ e1 \in Engine /\ e1.ip = n /\ e1.neigh = e.neigh
      /\ e1.route[d] = e.route[d]
  <2>1. e1 \in Engine BY <1>1, LookupType
  <2>2. e1.ip = e.ip /\ e1.neigh = e.neigh
    BY <1>1 DEF route_lookup, lookup_all, Expire, Engine
  <2>3. e1.route[d] = e.route[d]
    BY <1>1, <1>4 DEF route_lookup, lookup_all, Expire, Engine
  <2> QED BY <2>1, <2>2, <2>3
<1> HIDE DEF e1
<1>6. ~NoNews(e1.route[d], hops, m.dst_seq)
  <2>1. e1.route[d] = e.route[d] BY <1>5
  <2> QED BY <1>1, <2>1 DEF NoNews, seq_greater
<1>7. route_update(e, d, m.from, hops, m.dst_seq) = e2
  BY <1>5, <1>6 DEF route_update, neigh_validate, e1, s
<1>8. e2 \in Engine /\ e2.ip = n /\ e2.route[d] = s
  <2>1. e2 \in Engine BY <1>1, <1>3, <1>5, SetRoute
  <2>2. e2.ip = n /\ e2.route[d] = s BY <1>1, <1>5 DEF Engine
  <2> QED BY <2>1, <2>2
<1> HIDE DEF e2
<1>9. d \notin Lapsed(e2) BY <1>3, <1>8 DEF Lapsed
<1>10. e3.route[d] = s /\ e3.ip = n
  BY <1>1, <1>8, <1>9 DEF route_lookup, lookup_all, Expire, Engine
<1> HIDE DEF e3
<1>11. [e EXCEPT !.timers = timer_delete(@, d, "RESEND_RREQ")] = e
  BY <1>1, TimerDeleteNone
<1>12. rx_reply(e, m) = Done(e3, {})
  BY <1>1, <1>7, <1>10, <1>11, ZenonT(30) DEF rx_reply, hops, e3
<1> QED BY <1>3, <1>10, <1>12 DEF Done

\* The answer of a node to a RREQ is accepted by the node that asked while
\* that has the number it asked with (__request_should_be_reply,
\* _engine_route_update).
THEOREM AnswersAccepted == Spec => []AnswerAccepted
<1>1. IInv => AnswerAccepted
  <2> SUFFICES ASSUME IInv, NEW m \in RrepPdus, m.dst \in Node,
                      m.src # m.dst, neigh_validate(engine[m.src], m.from),
                      LET r == engine[m.src].route[m.dst]
                      IN  r.known => r.seq = m.asked /\ (r.valid => r.live)
               PROVE  LET s == rx_reply(engine[m.src], m).e.route[m.dst]
                      IN  s.valid /\ s.seq = m.dst_seq /\ s.nextHop = m.from
    BY DEF AnswerAccepted
  <2>1. m \in net /\ m.type = "RREP" /\ m \in Rrep
    BY PduKind DEF RrepPdus, IInv, StateOK
  <2>2. m.src \in Node BY <2>1 DEF Rrep
  <2>3. engine[m.src] \in Engine /\ engine[m.src].ip = m.src
    BY <2>2, ZenonT(30) DEF IInv, StateOK, Core
  <2>4. m.asked < m.dst_seq BY <2>1 DEF IInv, StateOK, PduOK
  <2> QED BY <2>1, <2>2, <2>3, <2>4, AnswerStored
<1> QED BY <1>1, Invariance, PTL

\* All RREQs with the same source and rreq_id are the same request, also
\* when the daemon and the output hook start discoveries in any order
\* (_engine_send_request, _engine_resend_request).
THEOREM RreqIdsUnique == Spec => []RreqIdIdentifies
<1>1. IInv => RreqIdIdentifies BY DEF IInv, StateOK
<1> QED BY <1>1, Invariance, PTL

\* The hop count of a RREQ and its TTL add up, and a one hop route is a
\* route to the node that was heard (_engine_rx_request, _engine_rx_reply).
THEOREM HopCountsTrue == Spec => []HopsTrue
<1>1. IInv => HopsTrue
  BY ZenonT(30) DEF IInv, StateOK, HopsTrue, Core, PduOK, RreqPdus
<1> QED BY <1>1, Invariance, PTL

\* Every neighbour has its NEIGHBOR timer or task (_engine_rx_hello,
\* _engine_neigh_delete).
THEOREM NeighboursWatched == Spec => []NeighWatched
<1>1. IInv => NeighWatched BY DEF IInv
<1> QED BY <1>1, Invariance, PTL

\* A route to an address outside the subnet never changes its next hop and
\* never becomes invalid (_route_expire, _engine_route_update).
THEOREM ExternalRoutesFixed == Spec => ExternalRouteFixed
<1> DEFINE Fixed == \A n \in Node, y \in Ext :
                      LET r == engine[n].route[y]
                          s == engine'[n].route[y]
                      IN  r.known => s.known /\ s.valid
                                     /\ s.nextHop = r.nextHop
<1>1. IInv /\ [Next]_vars => [Fixed]_vars
  <2> SUFFICES ASSUME IInv, Next PROVE Fixed OBVIOUS
  <2>1. IInv' /\ ExtStep BY NextInv
  <2>2. \A n \in Node : Core(engine'[n], n)
    BY <2>1, ZenonT(30) DEF IInv, StateOK
  <2> QED BY <2>1, <2>2 DEF ExtStep, Core
<1> QED BY <1>1, Invariance, PTL DEF Spec, ExternalRouteFixed
=============================================================================
