----------------------------- MODULE PacketHold -----------------------------
(***************************************************************************)
(* What the queue of held packets promises to netfilter and to the routing *)
(* modules: a packet handed over is refused at once or held; a held packet *)
(* gets one verdict, and packets to one destination are sent in the order  *)
(* in which they came.                                                     *)
(***************************************************************************)
CONSTANTS
  Packets,  \* packets the output hook returns NF_QUEUE for
  Dst       \* Dst[p]: rt_info.daddr of p

VARIABLES
  fate,   \* what has become of a packet
  behind  \* history: the packets to its destination held when p was taken

vars == <<fate, behind>>

Fates == {"new", "held", "sent", "dropped"}

Held == {p \in Packets : fate[p] = "held"}

Init ==
  /\ fate = [p \in Packets |-> "new"]
  /\ behind = [p \in Packets |-> {}]

\* The packet is taken over.
Hold(p) ==
  /\ fate[p] = "new"
  /\ fate' = [fate EXCEPT ![p] = "held"]
  /\ behind' = [behind EXCEPT ![p] = {r \in Held : Dst[r] = Dst[p]}]

\* The packet is not taken; netfilter frees it.
Refuse(p) ==
  /\ fate[p] = "new"
  /\ fate' = [fate EXCEPT ![p] = "dropped"]
  /\ UNCHANGED behind

\* The packet goes on, after every packet it queued behind.
Send(p) ==
  /\ fate[p] = "held"
  /\ behind[p] \cap Held = {}
  /\ fate' = [fate EXCEPT ![p] = "sent"]
  /\ UNCHANGED behind

Drop(p) ==
  /\ fate[p] = "held"
  /\ fate' = [fate EXCEPT ![p] = "dropped"]
  /\ UNCHANGED behind

Next == \E p \in Packets : Hold(p) \/ Refuse(p) \/ Send(p) \/ Drop(p)

Spec == Init /\ [][Next]_vars
=============================================================================
