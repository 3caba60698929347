----------------------------- MODULE MCIpQueue ------------------------------
(* Small instances of IpQueue. *)
EXTENDS IpQueue

CONSTANTS a1, a2, a3, b1, ipa, ipb

\* Three packets to one destination, one to another.
FourPackets == {a1, a2, a3, b1}
FourDst == [p \in FourPackets |-> IF p = b1 THEN ipb ELSE ipa]
=============================================================================
