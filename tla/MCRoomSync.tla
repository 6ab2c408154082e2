----------------------------- MODULE MCRoomSync -----------------------------
(* Instances of RoomSync for TLC, without symmetry: lists are picked with  *)
(* CHOOSE and the runs check liveness.                                     *)
EXTENDS RoomSync, TLC
=============================================================================
