--------------------------- MODULE MCRoomCreation ---------------------------
(* Instances of RoomCreation for TLC: a module of its own, so that the     *)
(* assumptions on the constants are evaluated.                             *)
EXTENDS RoomCreation

\* Bound: a direct chat is opened beside one call that has begun, at most.
OneCallBesideDirect == direct # "none" => \E c \in Calls : At(c, "idle")
=============================================================================
