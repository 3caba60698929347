---------------------------- MODULE MCDiscovery -----------------------------
(* Small instances of Discovery. *)
EXTENDS Discovery

CONSTANTS p1, p2, p3, p4, da, db

FourPackets == {p1, p2, p3, p4}

TwoDsts == [p \in FourPackets |-> IF p \in {p1, p2} THEN da ELSE db]

Scene(races, packets, there, maxTasks) ==
  [races |-> races, packets |-> packets, there |-> there, maxTasks |-> maxTasks]

\* In peace: one destination, two of which one is there, two that are not;
\* and one with everything that may come in between.
Scenes == {Scene({}, {p1, p2}, {da}, 2), Scene({}, {p1, p3}, {da}, 1),
           Scene({}, FourPackets, {}, 0), Scene({"hello", "lapse"}, {p1}, {da}, 2)}

HelloScenes == {Scene({"hello"}, {p1}, {da}, 1)}
=============================================================================
