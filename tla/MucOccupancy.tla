---------------------------- MODULE MucOccupancy ----------------------------
(***************************************************************************)
(* What a gatewayed MUC promises its XMPP clients, with nothing of how the *)
(* bridge keeps it: a device gets into the room only by asking, it gets    *)
(* out alone, or with every device of its user when that user was kicked;  *)
(* a bridge that starts again brings back only devices it has on record,   *)
(* and records only devices that were in the room.  The promise is weak    *)
(* for those who were kicked: as long as a kick may be held against a user *)
(* it may be put out again, whether it has come back or not.  GatewayMUC   *)
(* is shown to implement this specification.                               *)
(***************************************************************************)
CONSTANTS Users,      \* bare JIDs
          Resources   \* device names

VARIABLES asking,     \* devices whose join request is being handled
          present,    \* devices that are in the room
          kicked,     \* users whose kick is on its way to the bridge
          outcasts,   \* users whom a kick may still be held against
          remembered, \* devices on record, for the next start
          recovering  \* the bridge has not read its record yet

vars == <<asking, present, kicked, outcasts, remembered, recovering>>

Devices == Users \X Resources
DevicesOf(u) == {u} \X Resources

Init ==
    /\ asking = {} /\ present = {} /\ kicked = {} /\ outcasts = {} /\ remembered = {}
    /\ recovering = FALSE

\* The record may lag behind, but it never holds a device that was not there.
Record == remembered' \subseteq remembered \cup present'

\* A kick may be forgotten at any time; only a kick makes an outcast.
Relent == outcasts' \subseteq outcasts

\* A device asks to join; a later question may supersede an earlier one.
Ask(d) ==
    /\ asking' \in SUBSET (asking \cup {d})
    /\ d \in asking'
    /\ Relent
    /\ UNCHANGED <<present, kicked, remembered, recovering>>

\* The oldest question of a device is answered; it may have asked again.
Answered(d) == d \in asking /\ asking' \in {asking, asking \ {d}}

Admit(d) ==
    /\ Answered(d)
    /\ present' = present \cup {d}
    /\ Relent
    /\ UNCHANGED <<kicked, remembered, recovering>>

Refuse(d) ==
    /\ Answered(d)
    /\ Relent
    /\ UNCHANGED <<present, kicked, remembered, recovering>>

Exit(d) ==
    /\ present' = present \ {d}
    /\ Record /\ Relent
    /\ UNCHANGED <<asking, kicked, recovering>>

\* Nobody comes or goes: the record is written, or a kick forgotten.
Settle ==
    /\ Record /\ Relent
    /\ UNCHANGED <<asking, present, kicked, recovering>>

Kick(u) ==
    /\ kicked' = kicked \cup {u}
    /\ outcasts' = outcasts \cup {u}
    /\ UNCHANGED <<asking, present, remembered, recovering>>

\* A kick takes all devices of its user and no other, or is not understood.
Expel(u) ==
    /\ u \in kicked
    /\ kicked' = kicked \ {u}
    /\ present' \in {present, present \ DevicesOf(u)}
    /\ Relent
    /\ UNCHANGED <<asking, remembered, recovering>>

\* So does what the gateway remembers of an earlier one.
PutOut(u) ==
    /\ u \in outcasts
    /\ present' \in {present, present \ DevicesOf(u)}
    /\ Relent
    /\ UNCHANGED <<asking, kicked, remembered, recovering>>

Crash ==
    /\ asking' = {} /\ present' = {}
    /\ recovering' = TRUE
    /\ Record /\ Relent
    /\ UNCHANGED kicked

Recover ==
    /\ recovering
    /\ recovering' = FALSE
    /\ present \subseteq present'
    /\ present' \subseteq present \cup remembered
    /\ Record /\ Relent
    /\ UNCHANGED <<asking, kicked>>

Next ==
    \/ \E d \in Devices : Ask(d) \/ Admit(d) \/ Refuse(d) \/ Exit(d)
    \/ \E u \in Users : Kick(u) \/ Expel(u) \/ PutOut(u)
    \/ Settle \/ Crash \/ Recover

Spec == Init /\ [][Next]_vars
=============================================================================
