----------------------------- MODULE MCRouteTask -----------------------------
(* Small instances of RouteTask. *)
EXTENDS RouteTask, TLC

CONSTANTS d1, p1

OneDest == {d1}
OnePeer == {p1}
=============================================================================
