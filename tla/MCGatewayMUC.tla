---------------------------- MODULE MCGatewayMUC ----------------------------
(* Instances of GatewayMUC for TLC.                                        *)
EXTENDS GatewayMUC, TLC

\* Users, resources and join ids are only compared with each other.
Symmetry == Permutations(Users) \cup Permutations(Resources) \cup Permutations(JoinIds)
=============================================================================
