------------------------------- MODULE MCAodv -------------------------------
(* Instances of Aodv for TLC. *)
EXTENDS Aodv, TLC

CONSTANTS a, b, c, x

All == {<<p, n>> \in Node \X Node : p # n}
Line == {<<a, b>>, <<b, a>>, <<b, c>>, <<c, b>>}
OneWay == {<<a, c>>}
Outside == {<<a, x>>}
=============================================================================
