---------------------------- MODULE GatewayRooms ----------------------------
(***************************************************************************)
(* GatewayHandler and GatewayStateResolve: what the gateway knows of the   *)
(* Matrix half of one bridged room.                                        *)
(*                                                                         *)
(* roomIdCache keeps a copy of the room's state.  It is filled by the      *)
(* first handler that misses it, kept up by the membership and state       *)
(* events that follow, and dropped when a join fails.  Two handlers may    *)
(* miss it at a time, and events may overtake each other: MatrixEvent-     *)
(* Handler.onEvent awaits the store before it looks at an event.  The MUC  *)
(* member list is derived from the copy, and what each XMPP occupant has   *)
(* been told is derived from the list.                                     *)
(*                                                                         *)
(* An action runs from one await to the next.  A handler that hydrates     *)
(* takes its snapshot when it asks: had the server read the state later,   *)
(* the handler could as well have asked later.  A handler or a join that   *)
(* waits for somebody's avatar keeps the copy it was given, whatever is    *)
(* cached by then.                                                         *)
(***************************************************************************)
EXTENDS Naturals, Sequences, FiniteSets, SequencesExt

CONSTANTS
    Users,          \* Matrix users
    Ghosts,         \* XMPP users, each with the ghost that stands for it
    Names,          \* display names, and names of the room
    Aliases,        \* aliases of the room: each is a MUC of its own
    Handlers,       \* event handlers that may hydrate at a time
    NoName,         \* undefined: no display name, not in the member list
    NoAlias,        \* the room has no entry in the store
    NoRoom,         \* nothing cached
    NoEvent,        \* nothing being handled
    MaxSteps,       \* bound: joins, leaves, changes and messages
    MaxPending,     \* bound: events on their way at a time
    Environment     \* the events of the environment a run allows

EnvironmentEvents == {"fail", "ban", "kick"}

ASSUME GatewayRoomsAssumption ==
    /\ Names # {} /\ Aliases # {}
    /\ NoName \notin Names
    /\ NoAlias \notin Aliases
    /\ NoRoom \notin [users: [Users -> [mem: {"none", "join", "leave", "ban"}, name: Names \cup {NoName}]],
                      again: [Users -> Seq([mem: {"none", "join", "leave", "ban"}, name: Names \cup {NoName}])],
                      ghosts: [Ghosts -> {"none", "join", "left", "kicked"}],
                      title: Names]
    /\ Users \cap Ghosts = {}
    /\ MaxSteps \in Nat /\ MaxPending \in Nat
    /\ Environment \subseteq EnvironmentEvents

MaybeName == Names \cup {NoName}
MaybeAlias == Aliases \cup {NoAlias}

\* IGatewayRoom.  "users" has the first entry of each user in the list of
\* members, the one that find returns, and "again" those pushed after it.  A
\* ghost is "left" when the sender of its leave is a ghost (isRemote),
\* "kicked" when it is a Matrix user.
UserEntry == [mem: {"none", "join", "leave", "ban"}, name: MaybeName]
Room == [users: [Users -> UserEntry],
         again: [Users -> Seq(UserEntry)],
         ghosts: [Ghosts -> {"none", "join", "left", "kicked"}],
         title: Names]

Event == [type: {"member", "kick", "title", "text"}, who: Users \cup Ghosts,
          mem: {"join", "leave"}, name: MaybeName]

NewRoom == [users |-> [u \in Users |-> [mem |-> "none", name |-> NoName]],
            again |-> [u \in Users |-> <<>>],
            ghosts |-> [g \in Ghosts |-> "none"],
            title |-> CHOOSE n \in Names : TRUE]
NewHandler == [stage |-> "idle", event |-> NoEvent, alias |-> NoAlias, room |-> NewRoom]
NewJoin == [stage |-> "idle", alias |-> CHOOSE a \in Aliases : TRUE,
            room |-> NewRoom, list |-> [u \in Users |-> NoName]]

\* What can go wrong in a behaviour, recorded when it does.
Mishaps == {"reordered",    \* an event overtook another
            "overlapped",   \* two handlers asked for the state at the same time
            "dropped",      \* the cached copy, or an event, was dropped
            "missed",       \* the list changed while it was refreshed, or a joiner entering
            "doubled",      \* a user got a second entry in the list of members
            "kicked"}       \* a ghost was kicked by a Matrix user

VARIABLES
    home,       \* the state of the Matrix room
    events,     \* events the homeserver has pushed
    steps,      \* how much has happened
    handlers,   \* handlers that wait for the state of the room or an avatar
    joins,      \* handleRoomJoin of each XMPP user
    cache,      \* roomIdCache
    row,        \* the alias in the room's entry
    nicks,      \* Matrix members of each MUC, by the resource they have
    occupants,  \* XMPP members of each MUC
    told,       \* the Matrix members each occupant has been told of
    lost,       \* a message was not relayed although somebody was there
    mishaps

vars == <<home, events, steps, handlers, joins, cache, row, nicks, occupants, told, lost, mishaps>>
envVars == <<home, events, steps>>
mucVars == <<cache, nicks, occupants, told, lost>>

-----------------------------------------------------------------------------
(* The member list                                                         *)

Absent == [u \in Users |-> NoName]

\* updateMatrixMemberListForRoom: "Ensure our membership is accurate".  It
\* adds who joined, removes who left, and leaves the others and the names.
\* It goes through all the entries of a user, in order: whoever is listed
\* stays until an entry says that it left, and the first one after the last
\* of those that says "join" adds it.
\* Mutant: it only adds.
AddsOnly(room, list) ==
    [u \in Users |-> IF room.users[u].mem = "join" /\ list[u] = NoName
                     THEN room.users[u].name ELSE list[u]]
Entries(room, u) == <<room.users[u]>> \o room.again[u]
RefreshedNicks(room, list) ==
    [u \in Users |->
        LET all == Entries(room, u)
            gone == {i \in DOMAIN all : all[i].mem = "leave"}
            back == {i \in DOMAIN all : all[i].mem = "join" /\ \A j \in gone : j < i}
        IN  IF gone = {} /\ list[u] # NoName THEN list[u]
            ELSE IF back = {} THEN NoName ELSE all[Min(back)].name]

\* removeMatrixMember takes whoever has the id, an XMPP member as well; only
\* the sender of the last event tells that it is one.
\* Mutant: isRemote is not looked at.
AllButLeft(room, members) == {g \in members : room.ghosts[g] \notin {"left", "kicked"}}
RefreshedOccupants(room, members) == {g \in members : room.ghosts[g] # "kicked"}

\* resolveMatrixStateToXMPP, called once or (for a new name) twice.  Without
\* devices in the room it does nothing, and a member that is listed already
\* keeps its name unless this is a rename.
\* Mutant: a new name is only announced.
NameKept(e, list, renamed) ==
    IF e.mem = "join" /\ list[e.who] = NoName THEN [list EXCEPT ![e.who] = e.name]
    ELSE IF e.mem = "leave" \/ renamed THEN [list EXCEPT ![e.who] = NoName]
    ELSE list
Resolved(e, list, renamed) ==
    IF e.mem = "leave" THEN [list EXCEPT ![e.who] = NoName]
    ELSE IF list[e.who] = NoName \/ renamed THEN [list EXCEPT ![e.who] = e.name]
    ELSE list

\* Presence that changes an entry of the list goes to everybody there.
Announced(a, list) ==
    [g \in Ghosts |-> IF g \in occupants[a]
                      THEN [u \in Users |-> IF list[u] # nicks[a][u] THEN list[u] ELSE told[a][g][u]]
                      ELSE told[a][g]]

-----------------------------------------------------------------------------
(* Handling an event with a copy of the room.  The copy that is kept is the *)
(* one the handler was given.                                              *)

\* An avatar is fetched for an entry that is to be added, and for those that
\* came with the state when a message refreshes the list.  (One that needs no
\* fetching is one that has arrived at once.)
Fetches(e, room, a) ==
    \/ e.type = "member" /\ room.users[e.who].mem = "none"
    \/ e.type = "text" /\ nicks[a] = Absent

\* sendMatrixMembership of a Matrix user who has an entry.
\* Mutant: the copy is not updated.
NotNoted(room, e) == room
Noted(room, e) == [room EXCEPT !.users[e.who] = [mem |-> e.mem, name |-> e.name]]

HandleMember(e, room, a) ==
    /\ e.type = "member"
    /\ cache' = Noted(room, e)
    /\ LET before == room.users[e.who]
           known == before.mem = e.mem
           list == IF occupants[a] = {} \/ (known /\ before.name = e.name)
                   THEN nicks[a] ELSE Resolved(e, nicks[a], known)
       IN  /\ nicks' = [nicks EXCEPT ![a] = list]
           /\ told' = [told EXCEPT ![a] = Announced(a, list)]
    /\ UNCHANGED <<occupants, lost>>

\* "This might be a kick or ban": the copy is not touched.
HandleKick(e, room, a) ==
    /\ e.type = "kick"
    /\ cache' = room
    /\ occupants' = [occupants EXCEPT ![a] = @ \ {e.who}]
    /\ UNCHANGED <<nicks, told, lost>>

\* sendStateEvent.
\* Mutant: the wrong field of the event is taken.
Mistitled(room, e) == [room EXCEPT !.title = e.mem]
Retitled(room, e) == [room EXCEPT !.title = e.name]

HandleTitle(e, room, a) ==
    /\ e.type = "title"
    /\ cache' = Retitled(room, e)
    /\ UNCHANGED <<nicks, occupants, told, lost>>

\* The user is in the room, and no event is under way that says so.
IsMemberOf(e, u) == e # NoEvent /\ e.type = "member" /\ e.who = u
Settled(u) == /\ home.users[u].mem = "join"
              /\ \A i \in DOMAIN events' : ~IsMemberOf(events'[i], u)
              /\ \A h \in Handlers : ~IsMemberOf(handlers[h].event, u)

\* "Cannot send: No member cached": the sender is not on the list, and there
\* is somebody to send to.
Unsent(e, list, a) == list[e.who] = NoName /\ occupants[a] # {} /\ Settled(e.who)

\* sendMatrixMessage, which does not look at the copy unless the list is empty.
HandleText(e, room, a) ==
    /\ e.type = "text"
    /\ cache' = room
    /\ lost' = (lost \/ Unsent(e, nicks[a], a))
    /\ UNCHANGED <<nicks, occupants, told>>

Handle(e, room, a) ==
    /\ ~Fetches(e, room, a)
    /\ \/ HandleMember(e, room, a) \/ HandleKick(e, room, a)
       \/ HandleTitle(e, room, a) \/ HandleText(e, room, a)

Happened(S) == mishaps' = mishaps \cup S
If(p, m) == IF p THEN {m} ELSE {}

\* The list changes, or would if somebody were there, while it is refreshed
\* from what the copy said, or while a user is entering who was sent the old
\* one.
Fetching == {"fetching", "adrift"}
Readers(a) ==
    {<<"join", g>> : g \in {g \in Ghosts : joins[g].stage \in Fetching \cup {"entering"} /\ joins[g].alias = a}}
    \cup {<<"text", h>> : h \in {h \in Handlers : /\ handlers[h].stage \in Fetching
                                                /\ handlers[h].event.type = "text"
                                                /\ handlers[h].alias = a}}
Missed(a, self) == If(Readers(a) \ {self} # {} /\ <<cache, nicks>>' # <<cache, nicks>>, "missed")

\* The later answer overwrites the copy that came of the earlier one.
Asking == (\E h \in Handlers : handlers[h].stage = "asked") \/ (\E g \in Ghosts : joins[g].stage = "asked")

\* Whoever waits for an avatar is left with a copy that is not cached any more
\* when another one is, or none.
Adrift(waiting) ==
    [w \in DOMAIN waiting |-> IF waiting[w].stage = "fetching"
                              THEN [waiting[w] EXCEPT !.stage = "adrift"] ELSE waiting[w]]

\* The refresh waits for avatars on its way: an entry is seen as it was when
\* it began, or as it is by the end.  What happens to a copy that is not
\* cached any more is not followed.
Seen(waiter) ==
    IF waiter.stage = "adrift" THEN {waiter.room}
    ELSE {[waiter.room EXCEPT !.users = [u \in Users |-> IF u \in late THEN cache.users[u] ELSE @[u]],
                              !.again = [u \in Users |-> IF u \in late THEN cache.again[u] ELSE @[u]]]
          : late \in SUBSET Users}

Idle(h) == handlers[h].stage = "idle"

\* onEvent: without an entry there is nothing to do.
IgnoreEvent(i) ==
    /\ i \in DOMAIN events
    /\ row = NoAlias
    /\ events' = RemoveAt(events, i)
    /\ Happened(If(i > 1, "reordered"))
    /\ UNCHANGED <<home, steps, handlers, joins, mucVars, row>>

HandleEvent(i) ==
    /\ i \in DOMAIN events
    /\ row # NoAlias /\ cache # NoRoom
    /\ events' = RemoveAt(events, i)
    /\ Handle(events[i], cache, row)
    /\ Happened(If(i > 1, "reordered") \cup Missed(row, <<>>))
    /\ UNCHANGED <<home, steps, handlers, joins, row>>

\* The handler asks for an avatar, and has found no entry of the user by then.
FetchAvatar(h, i) ==
    /\ Idle(h)
    /\ i \in DOMAIN events
    /\ row # NoAlias /\ cache # NoRoom
    /\ Fetches(events[i], cache, row)
    /\ events' = RemoveAt(events, i)
    /\ handlers' = [handlers EXCEPT ![h] =
           [stage |-> "fetching", event |-> events[i], alias |-> row, room |-> cache]]
    /\ Happened(If(i > 1, "reordered"))
    /\ UNCHANGED <<home, steps, joins, mucVars, row>>

\* The entry is pushed whether or not there is one by now.
Pushed(room, e) ==
    IF room.users[e.who].mem = "none" THEN Noted(room, e)
    ELSE [room EXCEPT !.again[e.who] = Append(@, [mem |-> e.mem, name |-> e.name])]

PushEntry(h) ==
    LET e == handlers[h].event
        a == handlers[h].alias
        list == IF occupants[a] = {} THEN nicks[a] ELSE Resolved(e, nicks[a], FALSE)
        cached == handlers[h].stage = "fetching"
    IN  /\ handlers[h].stage \in Fetching /\ e.type = "member"
        /\ cache' = IF cached THEN Pushed(cache, e) ELSE cache
        /\ nicks' = [nicks EXCEPT ![a] = list]
        /\ told' = [told EXCEPT ![a] = Announced(a, list)]
        /\ handlers' = [handlers EXCEPT ![h] = NewHandler]
        /\ Happened(Missed(a, <<>>) \cup If(cached /\ cache.users[e.who].mem # "none", "doubled"))
        /\ UNCHANGED <<envVars, joins, row, occupants, lost>>

\* The list is refreshed, and the message goes out.
RefreshForText(h) ==
    LET e == handlers[h].event
        a == handlers[h].alias
    IN  /\ handlers[h].stage \in Fetching /\ e.type = "text"
        /\ \E room \in Seen(handlers[h]) :
               LET list == RefreshedNicks(room, nicks[a])
               IN  /\ nicks' = [nicks EXCEPT ![a] = list]
                   /\ occupants' = [occupants EXCEPT ![a] = RefreshedOccupants(room, @)]
                   /\ UNCHANGED <<envVars, joins, cache, row, told>>
                   /\ lost' = (lost \/ Unsent(e, list, a))
        /\ handlers' = [handlers EXCEPT ![h] = NewHandler]
        /\ Happened(Missed(a, <<"text", h>>))

\* getVirtualRoom misses the cache and asks for the state of the room.
AskForState(h, i) ==
    /\ Idle(h)
    /\ i \in DOMAIN events
    /\ row # NoAlias /\ cache = NoRoom
    /\ events' = RemoveAt(events, i)
    /\ handlers' = [handlers EXCEPT ![h] =
           [stage |-> "asked", event |-> events[i], alias |-> row, room |-> home]]
    /\ Happened(If(i > 1, "reordered") \cup If(Asking, "overlapped"))
    /\ UNCHANGED <<home, steps, joins, mucVars, row>>

\* The member of an event is in the state that was asked for after it.
Hydrate(h) ==
    /\ handlers[h].stage = "asked"
    /\ UNCHANGED <<envVars, row>>
    /\ Handle(handlers[h].event, handlers[h].room, handlers[h].alias)
    /\ handlers' = [Adrift(handlers) EXCEPT ![h] = NewHandler]
    /\ joins' = Adrift(joins)
    /\ Happened(Missed(handlers[h].alias, <<>>))

HydrateAndFetch(h) ==
    /\ handlers[h].stage = "asked"
    /\ Fetches(handlers[h].event, handlers[h].room, handlers[h].alias)
    /\ cache' = handlers[h].room
    /\ handlers' = [Adrift(handlers) EXCEPT ![h].stage = "fetching"]
    /\ joins' = Adrift(joins)
    /\ UNCHANGED <<envVars, row, nicks, occupants, told, lost>>
    /\ Happened(Missed(handlers[h].alias, <<>>))

\* "Failed to Hydrate Virtual Room": the event is lost.
HydrateFails(h) ==
    /\ "fail" \in Environment
    /\ handlers[h].stage = "asked"
    /\ handlers' = [handlers EXCEPT ![h] = NewHandler]
    /\ Happened({"dropped"})
    /\ UNCHANGED <<envVars, joins, mucVars, row>>

-----------------------------------------------------------------------------
(* handleRoomJoin                                                          *)

\* The ghost has joined the Matrix room.
StartJoin(g, a) ==
    /\ steps < MaxSteps
    /\ joins[g].stage = "idle"
    /\ steps' = steps + 1
    /\ home' = [home EXCEPT !.ghosts[g] = "join"]
    /\ joins' = [joins EXCEPT ![g].stage = "lookup", ![g].alias = a]
    /\ UNCHANGED <<events, handlers, mucVars, row, mishaps>>

\* onRemoteJoin up to the refresh of the list, of which the joiner is sent
\* all.  Who is there already is not told.
Refresh(g) ==
    LET a == joins[g].alias
    IN  /\ joins[g].stage \in Fetching
        /\ \E room \in Seen(joins[g]) :
               LET list == RefreshedNicks(room, nicks[a])
               IN  /\ nicks' = [nicks EXCEPT ![a] = list]
                   /\ occupants' = [occupants EXCEPT ![a] = RefreshedOccupants(room, @)]
                   /\ UNCHANGED <<envVars, handlers, cache, row, told, lost>>
                   /\ joins' = [joins EXCEPT ![g].stage = "entering", ![g].room = NewRoom, ![g].list = list]
        /\ Happened(Missed(a, <<"join", g>>))

VirtualRoom(g) ==
    /\ joins' = IF cache # NoRoom THEN [joins EXCEPT ![g].stage = "fetching", ![g].room = cache]
                ELSE [joins EXCEPT ![g].stage = "asked", ![g].room = home]
    /\ Happened(If(cache = NoRoom /\ Asking, "overlapped"))
    /\ UNCHANGED mucVars

\* getOrCreateGatewayRoom looks for the MUC's name.
FindRow(g) ==
    /\ joins[g].stage = "lookup"
    /\ row = joins[g].alias
    /\ VirtualRoom(g)
    /\ UNCHANGED <<envVars, handlers, row>>

FindNoRow(g) ==
    /\ joins[g].stage = "lookup"
    /\ row # joins[g].alias
    /\ joins' = [joins EXCEPT ![g].stage = "storing"]
    /\ UNCHANGED <<envVars, handlers, mucVars, row, mishaps>>

\* group_rooms is unique by Matrix room: the entry of another alias is
\* overwritten.
StoreRow(g) ==
    /\ joins[g].stage = "storing"
    /\ row' = joins[g].alias
    /\ VirtualRoom(g)
    /\ UNCHANGED <<envVars, handlers>>

JoinHydrates(g) ==
    /\ joins[g].stage = "asked"
    /\ cache' = joins[g].room
    /\ joins' = [Adrift(joins) EXCEPT ![g].stage = "fetching"]
    /\ handlers' = Adrift(handlers)
    /\ UNCHANGED <<envVars, row, nicks, occupants, told, lost>>
    /\ Happened(Missed(joins[g].alias, <<>>))

\* Presence and the room's avatar have been sent: the user is an occupant.
EnterMuc(g) ==
    /\ joins[g].stage = "entering"
    /\ joins' = [joins EXCEPT ![g] = NewJoin]
    /\ LET a == joins[g].alias
       IN  /\ occupants' = [occupants EXCEPT ![a] = @ \cup {g}]
           /\ told' = [told EXCEPT ![a][g] = joins[g].list]
    /\ UNCHANGED <<envVars, handlers, cache, row, nicks, lost, mishaps>>

\* The ghost is parted unless it is in the MUC already, which is known only
\* once the entry is; and the copy is dropped.
JoinFails(g) ==
    /\ "fail" \in Environment
    /\ joins[g].stage \in {"lookup", "storing", "asked"}
    /\ joins' = [Adrift(joins) EXCEPT ![g] = NewJoin]
    /\ handlers' = Adrift(handlers)
    /\ home' = IF joins[g].stage = "asked" /\ g \in occupants[joins[g].alias]
               THEN home ELSE [home EXCEPT !.ghosts[g] = "left"]
    /\ cache' = NoRoom
    /\ Happened({"dropped"})
    /\ UNCHANGED <<events, steps, row, nicks, occupants, told, lost>>

\* remoteLeft, with its last device.
GhostLeaves(g, a) ==
    /\ steps < MaxSteps
    /\ steps' = steps + 1
    /\ joins[g].stage = "idle"
    /\ g \in occupants[a]
    /\ occupants' = [occupants EXCEPT ![a] = @ \ {g}]
    /\ home' = [home EXCEPT !.ghosts[g] = "left"]
    /\ UNCHANGED <<events, handlers, joins, cache, row, nicks, told, lost, mishaps>>

-----------------------------------------------------------------------------
(* The Matrix room                                                         *)

\* An event is pushed, once per change.
Push(e) ==
    /\ steps < MaxSteps /\ Len(events) < MaxPending
    /\ steps' = steps + 1
    /\ events' = Append(events, e)

MatrixJoins(u, n) ==
    /\ home.users[u].mem \in {"none", "leave"} \/ (home.users[u].mem = "join" /\ home.users[u].name # n)
    /\ home' = [home EXCEPT !.users[u] = [mem |-> "join", name |-> n]]
    /\ Push([type |-> "member", who |-> u, mem |-> "join", name |-> n])
    /\ UNCHANGED <<handlers, joins, mucVars, row, mishaps>>

\* By itself, by a kick, or by the end of a ban.
MatrixLeaves(u) ==
    /\ home.users[u].mem \in {"join", "ban"}
    /\ home' = [home EXCEPT !.users[u] = [mem |-> "leave", name |-> NoName]]
    /\ Push([type |-> "member", who |-> u, mem |-> "leave", name |-> NoName])
    /\ UNCHANGED <<handlers, joins, mucVars, row, mishaps>>

\* onEvent hands on joins and leaves only, so nobody hears of a ban.
Ban(u) ==
    /\ "ban" \in Environment
    /\ steps < MaxSteps
    /\ steps' = steps + 1
    /\ home.users[u].mem # "ban"
    /\ home' = [home EXCEPT !.users[u] = [mem |-> "ban", name |-> NoName]]
    /\ UNCHANGED <<events, handlers, joins, mucVars, row, mishaps>>

Kick(g) ==
    /\ "kick" \in Environment
    /\ home.ghosts[g] = "join"
    /\ home' = [home EXCEPT !.ghosts[g] = "kicked"]
    /\ Push([type |-> "kick", who |-> g, mem |-> "leave", name |-> NoName])
    /\ Happened({"kicked"})
    /\ UNCHANGED <<handlers, joins, mucVars, row>>

Write(u) ==
    /\ home.users[u].mem = "join"
    /\ Push([type |-> "text", who |-> u, mem |-> "join", name |-> NoName])
    /\ UNCHANGED <<home, handlers, joins, mucVars, row, mishaps>>

ChangeTitle(u, n) ==
    /\ home.users[u].mem = "join" /\ home.title # n
    /\ home' = [home EXCEPT !.title = n]
    /\ Push([type |-> "title", who |-> u, mem |-> "join", name |-> n])
    /\ UNCHANGED <<handlers, joins, mucVars, row, mishaps>>

-----------------------------------------------------------------------------

Init ==
    /\ home = NewRoom
    /\ events = <<>> /\ steps = 0
    /\ handlers = [h \in Handlers |-> NewHandler]
    /\ joins = [g \in Ghosts |-> NewJoin]
    /\ cache = NoRoom /\ row = NoAlias
    /\ nicks = [a \in Aliases |-> Absent]
    /\ occupants = [a \in Aliases |-> {}]
    /\ told = [a \in Aliases |-> [g \in Ghosts |-> Absent]]
    /\ lost = FALSE /\ mishaps = {}

HandlerNext(h) ==
    \/ \E i \in 1 .. MaxPending : AskForState(h, i) \/ FetchAvatar(h, i)
    \/ Hydrate(h) \/ HydrateAndFetch(h) \/ HydrateFails(h)
    \/ PushEntry(h) \/ RefreshForText(h)

GhostNext(g) ==
    \/ \E a \in Aliases : StartJoin(g, a) \/ GhostLeaves(g, a)
    \/ FindRow(g) \/ FindNoRow(g) \/ StoreRow(g) \/ JoinHydrates(g) \/ Refresh(g) \/ EnterMuc(g) \/ JoinFails(g)
    \/ Kick(g)

UserNext(u) ==
    \/ \E n \in Names : MatrixJoins(u, n) \/ ChangeTitle(u, n)
    \/ MatrixLeaves(u) \/ Ban(u) \/ Write(u)

Next ==
    \/ \E i \in 1 .. MaxPending : IgnoreEvent(i) \/ HandleEvent(i)
    \/ \E h \in Handlers : HandlerNext(h)
    \/ \E g \in Ghosts : GhostNext(g)
    \/ \E u \in Users : UserNext(u)

Spec == Init /\ [][Next]_vars

-----------------------------------------------------------------------------
(* Properties                                                              *)

TypeOK ==
    /\ home \in Room
    /\ events \in Seq(Event) /\ steps \in Nat
    /\ handlers \in [Handlers -> [stage: {"idle", "asked"} \cup Fetching, event: Event \cup {NoEvent},
                                  alias: MaybeAlias, room: Room]]
    /\ joins \in [Ghosts -> [stage: {"idle", "lookup", "storing", "asked", "entering"} \cup Fetching,
                             alias: Aliases, room: Room, list: [Users -> MaybeName]]]
    /\ cache \in Room \cup {NoRoom}
    /\ row \in MaybeAlias
    /\ nicks \in [Aliases -> [Users -> MaybeName]]
    /\ occupants \in [Aliases -> SUBSET Ghosts]
    /\ told \in [Aliases -> [Ghosts -> [Users -> MaybeName]]]
    /\ lost \in BOOLEAN
    /\ mishaps \subseteq Mishaps

\* Every event has been handled.
Quiet == events = <<>> /\ \A h \in Handlers : Idle(h)

Joined(room) == {u \in Users : room.users[u].mem = "join"}
Banned(room) == {u \in Users : room.users[u].mem = "ban"}
Unlisting == {"reordered", "overlapped", "dropped", "missed", "doubled"}
Listed(a) == {u \in Users : nicks[a][u] # NoName}

\* The cached copy catches up with the room: once all events are handled it
\* says of everybody but the banned what the room says.  Only events that
\* overtook each other, handlers that hydrated at the same time, and a user
\* who got two entries can leave it wrong for good.
CacheCatchesUp ==
    Quiet /\ cache # NoRoom /\ mishaps \cap {"reordered", "overlapped", "doubled"} = {} =>
        /\ \A u \in Users : home.users[u].mem # "ban" =>
               /\ cache.users[u].mem = home.users[u].mem
               /\ cache.users[u].mem = "join" => cache.users[u].name = home.users[u].name
        /\ cache.title = home.title

\* "Ensure our membership is accurate": while somebody is in the MUC its list
\* of Matrix members is that of the room, once all events are handled.  The
\* gateway never hears of bans, so a banned member may stay on it.
MatrixHalfIsAccurate ==
    \A a \in Aliases :
        Quiet /\ row = a /\ occupants[a] # {} /\ mishaps \cap Unlisting = {}
        => Joined(home) \subseteq Listed(a) /\ Listed(a) \subseteq Joined(home) \cup Banned(home)

\* What every occupant was told, at its join and since, is the list: nobody
\* is added, removed or renamed behind an occupant's back.
OccupantsKnowTheList ==
    \A a \in Aliases : \A g \in occupants[a] :
        mishaps \cap {"overlapped", "dropped", "missed", "doubled"} = {} => told[a][g] = nicks[a]

\* A message is never thrown away for "No member cached" while somebody in
\* the MUC would have received it, if its sender has been in the room for long
\* enough that its join is no longer under way.
NoTextIsLost == lost => mishaps \cap Unlisting # {}

\* As long as no ghost is kicked, nobody is removed from the MUC while its
\* ghost stays in the Matrix room.
OccupantsAreNotForgotten ==
    [][\A a \in Aliases : \A g \in occupants[a] \ occupants'[a] :
          home'.ghosts[g] = "join" => "kicked" \in mishaps]_vars

\* "We do not support multiple room aliases": a room that has an entry for
\* one alias keeps it.
OneAliasPerRoom == [][row # NoAlias => row' = row]_vars
=============================================================================
