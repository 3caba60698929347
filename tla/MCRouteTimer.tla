---------------------------- MODULE MCRouteTimer ----------------------------
(* Small instances of RouteTimer. *)
EXTENDS RouteTimer

CONSTANTS d1, n1

OneDest == {d1}
OnePeer == {n1}
=============================================================================
