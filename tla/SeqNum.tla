------------------------------- MODULE SeqNum -------------------------------
(***************************************************************************)
(* The sequence number of one node of maodv, as another node keeps it: 32  *)
(* bits that wrap, compared by the sign of their difference, with PDUs that *)
(* arrive late, in any order or not at all, and a node that is restarted   *)
(* and counts from 1 again.                                                *)
(*                                                                         *)
(* Aodv has the whole protocol with numbers that do not wrap.  Here is one *)
(* pair of nodes that are not neighbours, so that no HELLO passes between  *)
(* them.  lag tells how many numbers ago a number was the node's own, and  *)
(* is Old when the node has been restarted, or has left its numbers behind, *)
(* since.                                                                  *)
(***************************************************************************)
EXTENDS Integers, FiniteSets

CONSTANTS
  Half,         \* half the range of the numbers, 2^31 in the code
  MaxLag,       \* how far PDUs and entries are behind at most
  MaxAir,       \* bound on PDUs under way
  MaxResets,    \* bound on resets
  Old,
  None

Modulus == 2 * Half
Numbers == 0..(Modulus - 1)
Lags == 0..MaxLag \cup {Old}

ASSUME SeqAssumption ==
  /\ Half \in Nat \ {0, 1} /\ MaxLag \in 1..(Half - 2)
  /\ MaxAir \in Nat /\ MaxResets \in Nat
  /\ Old \notin Int

VARIABLES
  own,       \* seq of the self route of the node
  entry,     \* the other node's route to it, or None
  air,       \* PDUs with a number of the node (RREQ of its own, RREP)
  asks,      \* dst_seq of RREQs that look for the node
  resets     \* how often the node has left its numbers behind

vars == <<own, entry, air, asks, resets>>

-----------------------------------------------------------------------------
(* route_lib.c *)

Minus(a, b) == IF a >= b THEN a - b ELSE a - b + Modulus

Plus(a, k) == IF a + k < Modulus THEN a + k ELSE a + k - Modulus

\* Mutant of seq_greater: the numbers are compared without a wrap.
seq_greater_plain(a, b) == a >= b

\* The difference as an int is not negative.
seq_greater(a, b) == Minus(a, b) < Half

\* The difference as an int is not positive.
seq_less_or_equal(a, b) == Minus(a, b) = 0 \/ Minus(a, b) >= Half

-----------------------------------------------------------------------------
(* The node with the number *)

Later(lag, k) == IF lag = Old \/ lag + k > MaxLag THEN Old ELSE lag + k

\* The node's number becomes n, and everything else is that much older.  A PDU
\* or an entry does not outlive MaxLag numbers that are counted one by one.
Advance(n, pdus) ==
  LET k == Minus(n, own)
  IN  /\ own' = n
      /\ resets' = IF k <= 2 THEN resets ELSE resets + 1
      /\ resets' <= MaxResets
      /\ k <= 2 => \A x \in air \cup ({entry} \ {None}) : x.lag # Old => x.lag + k <= MaxLag
      /\ air' = {[x EXCEPT !.lag = Later(@, k)] : x \in air} \cup pdus
      /\ entry' = IF entry = None THEN None ELSE [entry EXCEPT !.lag = Later(@, k)]

Pdu(n) == [seq |-> n, lag |-> 0]

\* _engine_send_request: the node looks for some other one.
SendRequest ==
  /\ Cardinality(air) < MaxAir
  /\ Advance(Plus(own, 1), {Pdu(Plus(own, 1))})
  /\ UNCHANGED asks

\* __request_should_be_reply and _engine_send_reply: the node is asked for
\* with the number n, which is 0 if the asker has no entry.
Reply(n) ==
  /\ Cardinality(air) < MaxAir
  /\ LET s == IF seq_less_or_equal(own, n) THEN Plus(n, 1) ELSE own
     IN  Advance(s, {Pdu(s)})

RxRequest(n) ==
  /\ n \in asks /\ asks' = asks \ {n}
  /\ Reply(n)

\* A third node without an entry asks.  If the number is in the upper half it
\* is below 0 as an int, and the node falls back to 1.
RxUnknown ==
  /\ Reply(0)
  /\ UNCHANGED asks

\* The module is loaded again (route_register_device).
Restart ==
  /\ resets < MaxResets
  /\ resets' = resets + 1
  /\ own' = 1
  /\ air' = {[x EXCEPT !.lag = Old] : x \in air}
  /\ entry' = IF entry = None THEN None ELSE [entry EXCEPT !.lag = Old]
  /\ UNCHANGED asks

-----------------------------------------------------------------------------
(* The node with the entry *)

\* _route_expire
route_expire(e) == [e EXCEPT !.seq = Plus(@, 1), !.valid = FALSE, !.life = 2]

\* _engine_route_find expires a valid entry whose lifetime is over.
route_find(e) == IF e # None /\ e.valid /\ e.life = 0 THEN route_expire(e) ELSE e

\* _engine_route_update refuses a number that is not news.
Refused(e, x) == e # None /\ seq_greater(e.seq, x.seq)

\* Mutant of Updated: a refused PDU makes the entry live on.
UpdatedAlways(e, x) ==
  IF Refused(e, x) THEN [e EXCEPT !.life = 2]
  ELSE [seq |-> x.seq, valid |-> TRUE, life |-> 2, lag |-> x.lag]

Updated(e, x) ==
  IF Refused(e, x) THEN e
  ELSE [seq |-> x.seq, valid |-> TRUE, life |-> 2, lag |-> x.lag]

\* _engine_rx_request, _engine_rx_reply
Receive(x) ==
  /\ x \in air /\ air' = air \ {x}
  /\ entry' = Updated(route_find(entry), x)
  /\ UNCHANGED <<own, asks, resets>>

\* _engine_send_request and _engine_resend_request for the node.
Ask ==
  /\ Cardinality(asks) < MaxAir
  /\ entry' = route_find(entry)
  /\ asks' = asks \cup {IF entry = None THEN 0 ELSE route_find(entry).seq}
  /\ UNCHANGED <<own, air, resets>>

\* Time passes: of the whole lifetime (2) a part is left (1), or nothing (0).
Lapse ==
  /\ entry # None /\ entry.life > 0
  /\ entry' = [entry EXCEPT !.life = @ - 1]
  /\ UNCHANGED <<own, air, asks, resets>>

\* _ip_packet_output: a data packet to the node gives a valid entry the whole
\* lifetime again.
Pass ==
  /\ entry # None /\ entry.valid /\ entry.life > 0
  /\ entry' = [entry EXCEPT !.life = 2]
  /\ UNCHANGED <<own, air, asks, resets>>

\* __aodv_route_flush: a lapsed entry is expired, or freed if it was already.
route_flush ==
  /\ entry # None /\ entry.life = 0
  /\ entry' = IF entry.valid THEN route_expire(entry) ELSE None
  /\ UNCHANGED <<own, air, asks, resets>>

Lose ==
  /\ \/ \E x \in air : air' = air \ {x} /\ UNCHANGED asks
     \/ \E n \in asks : asks' = asks \ {n} /\ UNCHANGED air
  /\ UNCHANGED <<own, entry, resets>>

-----------------------------------------------------------------------------

Init == own = 1 /\ entry = None /\ air = {} /\ asks = {} /\ resets = 0

Next ==
  \/ SendRequest \/ RxUnknown \/ Restart \/ Ask \/ Lapse \/ Pass \/ route_flush
  \/ Lose
  \/ \E n \in Numbers : RxRequest(n)
  \/ \E x \in air : Receive(x)

\* Time passes.
Spec == Init /\ [][Next]_vars /\ WF_vars(Lapse)

-----------------------------------------------------------------------------
(* Properties *)

\* Numbers, entry and PDUs keep their types (u_int32_t, mesh_route_t).
TypeOK ==
  /\ own \in Numbers /\ asks \subseteq Numbers /\ resets \in 0..MaxResets
  /\ air \subseteq [seq : Numbers, lag : Lags]
  /\ entry \in [seq : Numbers, valid : BOOLEAN, life : 0..2, lag : Lags] \cup {None}

\* Where the number of an entry stands against the node's: an expired entry
\* is one ahead of the number it was made of.
Behind(e) == IF e.valid THEN e.lag ELSE e.lag - 1

\* A PDU is refused exactly if its number is not newer than the entry's, in
\* the order in which the node has counted them and not in that of the wrapped
\* values (seq_greater, _engine_route_update).
ComparedTruly ==
  entry # None /\ entry.lag # Old =>
    \A x \in air : x.lag # Old => (Refused(entry, x) <=> x.lag >= Behind(entry))

\* A node that is restarted, and is ahead of its own number in the entry of
\* another, is not refused for ever: the entry is freed or is the new node's
\* (__aodv_route_flush, __request_should_be_reply).  Provided that the other
\* node ends its traffic to it, each packet of which makes the entry live on
\* (_ip_packet_output), and that its CLEANUP goes on being served.
HeardAgain ==
  WF_vars(route_flush) /\ <>[][~Pass]_vars =>
    ((entry # None /\ entry.lag = Old) ~> (entry = None \/ entry.lag # Old))
=============================================================================
