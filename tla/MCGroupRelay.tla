---------------------------- MODULE MCGroupRelay ----------------------------
(* Instances of GroupRelay for TLC: one user speaks, the others listen.    *)
EXTENDS GroupRelay

CONSTANTS u1

OwnerOfAll == [m \in OwnMessages |-> u1]
=============================================================================
