------------------------------ MODULE MCMeshRx ------------------------------
(* Small instances of MeshRx. *)
EXTENDS MeshRx

CONSTANTS f1, f2, f3, f4, f5, wifi, portal

FiveFrames == {f1, f2, f3, f4, f5}
TwoPorts == {wifi, portal}
MixedPort == [f \in FiveFrames |-> IF f \in {f1, f3} THEN portal ELSE wifi]
Wifi == {wifi}
=============================================================================
