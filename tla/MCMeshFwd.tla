----------------------------- MODULE MCMeshFwd ------------------------------
(* Small instances of MeshFwd. *)
EXTENDS MeshFwd

CONSTANTS w1, a1, m0, s1, group

OneWifi == {w1}
OwnMac == [p \in OneWifi |-> a1]
ThreeMacs == {a1, m0, s1}
Talk == {<<s1, a1>>, <<s1, group>>, <<a1, s1>>, <<group, s1>>}
Station == {s1}
Default == {m0}
=============================================================================
