--------------------------- MODULE MCGatewayRooms ---------------------------
(* Instances of GatewayRooms for TLC.  Users, ghosts and handlers are         *)
(* interchangeable: no CHOOSE picks one, every property is about all.       *)
EXTENDS GatewayRooms, TLC

\* Bound: nothing is explored after a second kind of mishap.  Every property
\* excuses some, so that little can be learnt there.
OneMishap == Cardinality(mishaps) <= 1

Symmetry == Permutations(Users) \cup Permutations(Ghosts) \cup Permutations(Handlers)
=============================================================================
