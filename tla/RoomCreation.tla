---------------------------- MODULE RoomCreation ----------------------------
(***************************************************************************)
(* MatrixRoomHandler and MatrixEventHandler: which Matrix room a message   *)
(* of the remote network goes to, and who creates it.                      *)
(*                                                                         *)
(* Several handlers ask for the room of one conversation at a time.  The   *)
(* map roomCreationLock holds the promise of the room that is being made:  *)
(* who finds one waits for it before it looks into the store.  The promise *)
(* of a call is the call itself here; it is pending while the call is at   *)
(* "creating" or "storing".  Rooms are also stored by direct chats that    *)
(* Matrix users open, by plumbing and by the gateway.                      *)
(*                                                                         *)
(* An action runs from one await to the next.  When a promise settles,     *)
(* everybody who waits for it goes on before any other event is handled.   *)
(***************************************************************************)
EXTENDS Naturals, FiniteSets

CONSTANTS
    Calls,          \* calls of the handlers; each runs once
    Chats,          \* conversations of a Matrix user and a remote user
    Groups,         \* remote group chats
    Texts,          \* messages the Matrix user sends in a direct chat
    DirectRoom,     \* the Matrix room of a direct chat the user opens
    PlumbedRoom,    \* the Matrix room an admin plumbs
    AliasRoom,      \* the Matrix room a gateway alias names
    Nobody,         \* no call
    NoRoom,         \* undefined
    WaitOnJoin,     \* the user matches tuning.waitOnJoinBeforePM
    Environment     \* the events of the environment a run allows

EnvironmentEvents ==
    {"fail",        \* a call to the homeserver or the store fails
     "unjoinable",  \* a ghost cannot join the room any more
     "direct",      \* the Matrix user opens a direct chat with the ghost
     "plumb"}       \* an admin plumbs and unplumbs a group

Keys == Chats \cup Groups
Kinds == {"im",         \* handleIncomingIM
          "chat",       \* chat-joined-new, invites and group messages
          "known",      \* presence, topics, typing, receipts: getOnly
          "gateway"}    \* a member of the gateway, with its alias

\* Every call may make a room, and one more if its ghost cannot join it.
NewRooms == Calls \X BOOLEAN
Rooms == NewRooms \cup {DirectRoom, PlumbedRoom, AliasRoom}

ASSUME RoomCreationAssumption ==
    /\ Chats \cap Groups = {} /\ Keys # {}
    /\ Nobody \notin Calls
    /\ NoRoom \notin Rooms
    /\ WaitOnJoin \in BOOLEAN
    /\ Environment \subseteq EnvironmentEvents

Stages == {"idle", "waiting", "lookup", "creating", "storing", "joinwait",
           "joining", "removing", "alias", "sending", "done"}

Call == [stage: Stages, kind: Kinds, key: Keys, on: Calls \cup {Nobody},
         room: Rooms \cup {NoRoom}, joined: BOOLEAN, again: BOOLEAN]

NewCall == [stage |-> "idle", kind |-> "im", key |-> CHOOSE k \in Keys : TRUE,
            on |-> Nobody, room |-> NoRoom, joined |-> FALSE, again |-> FALSE]

VARIABLES
    calls,      \* where each call is
    lock,       \* roomCreationLock: whose promise it holds
    rows,       \* rows of im_rooms and group_rooms
    together,   \* pairs of calls whose lookups overlapped
    direct,     \* how far handling the invite to the direct chat is
    texts,      \* what became of each message in the direct chat
    relayed,    \* how often it was sent to the remote network
    plumbing    \* a command to plumb is being handled

roomVars   == <<calls, lock, together>>
directVars == <<direct, texts, relayed>>
vars == <<calls, lock, rows, together, direct, texts, relayed, plumbing>>

-----------------------------------------------------------------------------

At(c, s) == calls[c].stage = s

\* The promise of a call is neither resolved nor rejected.
Pending(c) == calls[c].stage \in {"creating", "storing"}

InCreation(c) == calls[c].stage \in {"creating", "storing", "joinwait"}

Waiters(c) == {w \in Calls : At(w, "waiting") /\ calls[w].on = c}

RoomsOf(k) == {r \in Rooms : <<k, r>> \in rows}

\* What a call has found out goes with its frame.
Finished(c) == [calls EXCEPT ![c] = [NewCall EXCEPT !.stage = "done"]]

\* getIMRoomId and createOrGetGroupChatRoom look for a lock first.  A promise
\* that has settled holds nobody up.
\* Mutant: they do not look.
LooksUpAtOnce(c, k) == [calls[c] EXCEPT !.stage = "lookup", !.key = k, !.on = Nobody]
Entered(c, k) ==
    IF lock[k] # Nobody /\ Pending(lock[k])
    THEN [calls[c] EXCEPT !.stage = "waiting", !.key = k, !.on = lock[k]]
    ELSE [calls[c] EXCEPT !.stage = "lookup", !.key = k, !.on = Nobody]

\* Two lookups overlap: neither sees what the other is about to make.  Nor
\* does a call that is woken look whether another has set the lock meanwhile.
LookingUp(k) == {c \in Calls : At(c, "lookup") /\ calls[c].key = k}
Paired(S) == UNION {{{c, d} : d \in S \ {c}} : c \in S}
PendingHolder(k) == {d \in Calls : lock[k] = d /\ Pending(d)}

\* The promise of c settles: it moves to rec, its waiters to stage s.
\* Mutant: nobody tells the waiters.
SettledUnnoticed(c, rec, s) == [calls EXCEPT ![c] = rec]
Settled(c, rec, s) ==
    [d \in Calls |-> IF d = c THEN rec
                     ELSE IF d \in Waiters(c)
                     THEN [calls[d] EXCEPT !.stage = s, !.on = Nobody]
                     ELSE calls[d]]

\* Mutant: the lock is kept.
Kept(k) == lock
Released(k) == [lock EXCEPT ![k] = Nobody]

-----------------------------------------------------------------------------
(* Finding a room                                                          *)

Begin(c, kind, k) ==
    /\ At(c, "idle")
    /\ (k \in Chats) <=> (kind = "im")
    /\ LET new == [Entered(c, k) EXCEPT !.kind = kind]
       IN  /\ calls' = [calls EXCEPT ![c] = new]
           /\ together' = IF new.stage = "lookup"
                          THEN together \cup Paired(LookingUp(k) \cup {c})
                          ELSE together
    /\ UNCHANGED <<lock, rows, directVars, plumbing>>

\* Mutant: an unknown stage.
FoundNothing(c) == "found"
\* An IM goes on to intent.join the first time; all others just send.
FoundStage(c) == IF calls[c].kind = "im" /\ ~calls[c].again THEN "joining" ELSE "sending"

FindRoom(c, r) ==
    /\ At(c, "lookup")
    /\ r \in RoomsOf(calls[c].key)
    /\ calls' = [calls EXCEPT ![c].stage = FoundStage(c), ![c].room = r]
    /\ UNCHANGED <<lock, rows, together, directVars, plumbing>>

\* The room is to be made: the lock is set in the same step.
StartCreation(c) ==
    /\ At(c, "lookup")
    /\ RoomsOf(calls[c].key) = {}
    /\ calls[c].kind \in {"im", "chat"}
    /\ calls' = [calls EXCEPT ![c].stage = "creating"]
    /\ lock' = [lock EXCEPT ![calls[c].key] = c]
    /\ UNCHANGED <<rows, together, directVars, plumbing>>

\* getOnly: "Room doesn't exist, refusing to make room" ends the call.
RefuseToMake(c) ==
    /\ At(c, "lookup")
    /\ RoomsOf(calls[c].key) = {}
    /\ calls[c].kind = "known"
    /\ calls' = Finished(c)
    /\ UNCHANGED <<lock, rows, together, directVars, plumbing>>

\* A gateway alias names the room.  No lock is taken.
AskForAlias(c) ==
    /\ At(c, "lookup")
    /\ RoomsOf(calls[c].key) = {}
    /\ calls[c].kind = "gateway"
    /\ calls' = [calls EXCEPT ![c].stage = "alias"]
    /\ UNCHANGED <<lock, rows, together, directVars, plumbing>>

AliasStored(c) ==
    /\ At(c, "alias")
    /\ rows' = rows \cup {<<calls[c].key, AliasRoom>>}
    /\ calls' = [calls EXCEPT ![c].stage = "sending", ![c].room = AliasRoom]
    /\ UNCHANGED <<lock, together, directVars, plumbing>>

\* A lookup that throws ends as undefined: an IM goes on to make a room,
\* anything else is given up.
LookupFails(c) ==
    /\ "fail" \in Environment
    /\ calls[c].stage \in {"lookup", "alias"}
    /\ IF calls[c].kind = "im"
       THEN /\ calls' = [calls EXCEPT ![c].stage = "creating"]
            /\ lock' = [lock EXCEPT ![calls[c].key] = c]
       ELSE /\ calls' = Finished(c)
            /\ UNCHANGED lock
    /\ UNCHANGED <<rows, together, directVars, plumbing>>

-----------------------------------------------------------------------------
(* Making a room.  The promise of a group room is a Promise whose executor *)
(* resolves nothing: the homeserver makes the room, and a call of kind     *)
(* "chat" stays at "creating".                                             *)

RoomMade(c) ==
    /\ At(c, "creating")
    /\ calls[c].kind = "im"
    /\ calls' = [calls EXCEPT ![c].stage = "storing", ![c].room = <<c, calls[c].again>>]
    /\ UNCHANGED <<lock, rows, together, directVars, plumbing>>

\* The row is written and the promise resolved.  The lock stays while the
\* creator waits for the user, but it holds nobody up any more.
RoomStored(c) ==
    /\ At(c, "storing")
    /\ LET k == calls[c].key
           next == IF WaitOnJoin THEN "joinwait" ELSE FoundStage(c)
       IN  /\ rows' = rows \cup {<<k, calls[c].room>>}
           /\ calls' = Settled(c, [calls[c] EXCEPT !.stage = next], "lookup")
           /\ lock' = IF WaitOnJoin THEN lock ELSE Released(k)
           /\ together' = together \cup Paired(LookingUp(k) \cup Waiters(c) \cup PendingHolder(k))
    /\ UNCHANGED <<directVars, plumbing>>

\* A rejected promise: the creator goes on without a room, and everybody who
\* waited for it makes one.
CreationFails(c) ==
    /\ "fail" \in Environment
    /\ Pending(c) /\ calls[c].kind = "im"
    /\ calls' = Settled(c, [calls[c] EXCEPT !.stage = FoundStage(c), !.room = NoRoom], "creating")
    /\ IF Waiters(c) = {}
       THEN lock' = Released(calls[c].key)
       ELSE \E w \in Waiters(c) : lock' = [lock EXCEPT ![calls[c].key] = w]
    /\ together' = together \cup Paired(LookingUp(calls[c].key) \cup Waiters(c))
    /\ UNCHANGED <<rows, directVars, plumbing>>

\* waitForJoinResolve: a join that is handled before waitForJoin registers
\* its resolver is not noticed, and the creator waits in vain.
UserJoins(c) ==
    /\ calls[c].stage \in {"storing", "joinwait"} /\ ~calls[c].joined
    /\ IF At(c, "joinwait")
       THEN /\ calls' = [calls EXCEPT ![c].joined = FALSE, ![c].stage = FoundStage(c)]
            /\ lock' = Released(calls[c].key)
       ELSE /\ calls' = [calls EXCEPT ![c].joined = TRUE]
            /\ UNCHANGED lock
    /\ UNCHANGED <<rows, together, directVars, plumbing>>

\* The wait for the user ends after a minute at the latest.
JoinWaitExpires(c) ==
    /\ At(c, "joinwait")
    /\ calls' = [calls EXCEPT ![c].joined = FALSE, ![c].stage = FoundStage(c)]
    /\ lock' = Released(calls[c].key)
    /\ UNCHANGED <<rows, together, directVars, plumbing>>

-----------------------------------------------------------------------------
(* Sending the message                                                     *)

GhostJoins(c) ==
    /\ At(c, "joining") /\ calls[c].room # NoRoom
    /\ calls' = [calls EXCEPT ![c].stage = "sending"]
    /\ UNCHANGED <<lock, rows, together, directVars, plumbing>>

\* "Not joined to room, discarding": also when there is no room at all.
GhostCannotJoin(c) ==
    /\ At(c, "joining")
    /\ calls[c].room = NoRoom \/ "unjoinable" \in Environment
    /\ calls' = [calls EXCEPT ![c].stage = "removing"]
    /\ UNCHANGED <<lock, rows, together, directVars, plumbing>>

\* removeRoomByRoomId, then all over again, but once only.
RowRemoved(c) ==
    /\ At(c, "removing")
    /\ rows' = {row \in rows : row[2] # calls[c].room}
    /\ LET k == calls[c].key
           new == [Entered(c, k) EXCEPT !.again = TRUE, !.room = NoRoom]
       IN  /\ calls' = [calls EXCEPT ![c] = new]
           /\ together' = IF new.stage = "lookup"
                          THEN together \cup Paired(LookingUp(k) \cup {c})
                          ELSE together
    /\ UNCHANGED <<lock, directVars, plumbing>>

Send(c) ==
    /\ At(c, "sending")
    /\ calls' = Finished(c)
    /\ UNCHANGED <<lock, rows, together, directVars, plumbing>>

CallFails(c) ==
    /\ "fail" \in Environment
    /\ calls[c].stage \in {"removing", "sending"}
    /\ calls' = Finished(c)
    /\ UNCHANGED <<lock, rows, together, directVars, plumbing>>

-----------------------------------------------------------------------------
(* A direct chat that the Matrix user opens                                *)

\* The ghost joins the room it is invited to; a failure is only logged.
GhostJoinsDirect ==
    /\ direct = "invited"
    /\ \/ direct' = "joined"
       \/ "fail" \in Environment /\ direct' = "unjoined"
    /\ UNCHANGED <<roomVars, rows, texts, relayed, plumbing>>

OpenDirect ==
    /\ "direct" \in Environment
    /\ direct = "none"
    /\ direct' = "invited"
    /\ UNCHANGED <<roomVars, rows, texts, relayed, plumbing>>

DirectStored(k) ==
    /\ direct \in {"joined", "unjoined"}
    /\ rows' = rows \cup {<<k, DirectRoom>>}
    /\ direct' = IF direct = "joined" THEN "stored" ELSE "handled"
    /\ UNCHANGED <<roomVars, texts, relayed, plumbing>>

DirectFails ==
    /\ "fail" \in Environment
    /\ direct \in {"joined", "unjoined", "stored"}
    /\ direct' = "handled"
    /\ UNCHANGED <<roomVars, rows, texts, relayed, plumbing>>

\* The homeserver pushes the events of a room the ghost is in.
GhostInDirect == direct \in {"joined", "stored", "handled"}

WriteText(m) ==
    /\ direct # "none" /\ texts[m] = "unwritten"
    /\ texts' = [texts EXCEPT ![m] = IF GhostInDirect THEN "pushed" ELSE "before"]
    /\ UNCHANGED <<roomVars, rows, direct, relayed, plumbing>>

Relay(S) == [m \in Texts |-> relayed[m] + IF m \in S THEN 1 ELSE 0]

\* onEvent drops a message of a room without a row.
HandleText(m) ==
    /\ texts[m] = "pushed"
    /\ texts' = [texts EXCEPT ![m] = "handled"]
    /\ relayed' = Relay(IF \E k \in Keys : <<k, DirectRoom>> \in rows THEN {m} ELSE {})
    /\ UNCHANGED <<roomVars, rows, direct, plumbing>>

\* getMessagesBeforeJoin stops at the ghost's own membership event.
\* Mutant: it does not stop.
AllTexts == {m \in Texts : texts[m] # "unwritten"}
TextsBeforeJoin == {m \in Texts : texts[m] = "before"}

FetchMissedTexts ==
    /\ direct = "stored"
    /\ direct' = "handled"
    /\ relayed' = Relay(TextsBeforeJoin)
    /\ texts' = [m \in Texts |-> IF m \in TextsBeforeJoin THEN "handled" ELSE texts[m]]
    /\ UNCHANGED <<roomVars, rows, plumbing>>

-----------------------------------------------------------------------------
(* !bifrost bridge and !bifrost leave                                      *)

\* The room is not in the store: the remote chat is joined to try it.
StartPlumbing ==
    /\ "plumb" \in Environment
    /\ ~plumbing /\ \A k \in Keys : <<k, PlumbedRoom>> \notin rows
    /\ plumbing' = TRUE
    /\ UNCHANGED <<roomVars, rows, directVars>>

\* Joining the chat has made other handlers ask for its room: "remove-room-
\* lock" takes away the lock they may have set.
Plumb(g) ==
    /\ plumbing
    /\ plumbing' = FALSE
    /\ rows' = rows \cup {<<g, PlumbedRoom>>}
    /\ lock' = Released(g)
    /\ UNCHANGED <<calls, together, directVars>>

PlumbingFails ==
    /\ "fail" \in Environment
    /\ plumbing
    /\ plumbing' = FALSE
    /\ UNCHANGED <<roomVars, rows, directVars>>

Unplumb ==
    /\ \E k \in Keys : <<k, PlumbedRoom>> \in rows
    /\ rows' = {row \in rows : row[2] # PlumbedRoom}
    /\ UNCHANGED <<roomVars, directVars, plumbing>>

-----------------------------------------------------------------------------

Init ==
    /\ calls = [c \in Calls |-> NewCall]
    /\ lock = [k \in Keys |-> Nobody]
    /\ rows = {} /\ together = {}
    /\ direct = "none"
    /\ texts = [m \in Texts |-> "unwritten"]
    /\ relayed = [m \in Texts |-> 0]
    /\ plumbing = FALSE

FindAnyRoom(c) == \E r \in Rooms : FindRoom(c, r)

\* What a call does by itself once its awaits are answered.
Proceed(c) ==
    \/ FindAnyRoom(c) \/ StartCreation(c) \/ RefuseToMake(c)
    \/ AskForAlias(c) \/ AliasStored(c)
    \/ RoomMade(c) \/ RoomStored(c) \/ JoinWaitExpires(c)
    \/ GhostJoins(c) \/ GhostCannotJoin(c) \/ RowRemoved(c) \/ Send(c)

CallNext(c) ==
    \/ \E kind \in Kinds, k \in Keys : Begin(c, kind, k)
    \/ Proceed(c) \/ LookupFails(c) \/ CreationFails(c) \/ CallFails(c) \/ UserJoins(c)

DirectNext ==
    \/ OpenDirect \/ GhostJoinsDirect \/ (\E k \in Chats : DirectStored(k)) \/ DirectFails
    \/ FetchMissedTexts
    \/ \E m \in Texts : WriteText(m) \/ HandleText(m)

PlumbingNext == StartPlumbing \/ (\E g \in Groups : Plumb(g)) \/ PlumbingFails \/ Unplumb

Next ==
    \/ \E c \in Calls : CallNext(c)
    \/ DirectNext
    \/ PlumbingNext

Spec == Init /\ [][Next]_vars

\* Awaited calls are answered, well or badly, and timers fire.  Nobody has to
\* join a room or to write.
FairSpec == Spec /\ \A c \in Calls : WF_vars(Proceed(c))

-----------------------------------------------------------------------------
(* Properties                                                              *)

TypeOK ==
    /\ calls \in [Calls -> Call]
    /\ lock \in [Keys -> Calls \cup {Nobody}]
    /\ rows \subseteq Keys \X Rooms
    /\ together \subseteq SUBSET Calls
    /\ direct \in {"none", "invited", "joined", "unjoined", "stored", "handled"}
    /\ texts \in [Texts -> {"unwritten", "before", "pushed", "handled"}]
    /\ relayed \in [Texts -> Nat]
    /\ plumbing \in BOOLEAN

\* Whoever set, overwrote or deleted it, a lock is always that of a call that
\* is still making a room of this conversation, and whoever waits does so for
\* a promise that somebody is going to settle.
LocksAreLive ==
    /\ \A k \in Keys : lock[k] # Nobody =>
           InCreation(lock[k]) /\ calls[lock[k]].key = k
    /\ \A c \in Calls : At(c, "waiting") =>
           calls[c].on # Nobody /\ Pending(calls[c].on) /\ calls[calls[c].on].key = calls[c].key

\* While a call that makes a room holds the lock, no other starts to make a
\* second room for the conversation, however often rooms are removed, lookups
\* fail and promises are rejected; but for the calls that were looking at the
\* store before the lock was set, or were woken by another promise since.
OnlyOverlappingLookupsRace ==
    [][\A c, d \in Calls :
          /\ At(c, "lookup") /\ calls'[c].stage = "creating"
          /\ lock[calls[c].key] = d /\ Pending(d)
          => {c, d} \in together]_vars

\* A message in a direct chat reaches the remote user once at most, although
\* two handlers may take care of it while the chat is being set up.
TextsRelayedOnce == \A m \in Texts : relayed[m] <= 1

\* No IM is held up for ever: not by a creation that fails, not by a user who
\* does not join, not by other messages that wait or make rooms meanwhile.
ImCallsFinish ==
    \A c \in Calls : (calls[c].kind = "im" /\ ~At(c, "idle")) ~> At(c, "done")

\* A message, an invite or a join of a group chat is handled in the end, and
\* does not keep all later ones waiting.
ChatCallsFinish ==
    \A c \in Calls : (calls[c].kind = "chat" /\ ~At(c, "idle")) ~> At(c, "done")
=============================================================================
