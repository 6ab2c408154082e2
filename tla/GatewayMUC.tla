----------------------------- MODULE GatewayMUC -----------------------------
(***************************************************************************)
(* One room of the XMPP gateway: XmppJsGateway with its GatewayMUCMember-  *)
(* ship, its PresenceCache (in gateway mode) and its stanza cache, driven  *)
(* by the presence stanzas of XMPP clients, by GatewayHandler.handleRoom-  *)
(* Join, by kicks sent on Matrix and by restarts of the bridge.            *)
(*                                                                         *)
(* The process is single threaded: an action runs from one await to the    *)
(* next.  A join request is therefore a token that moves through           *)
(*   "joining"  handleRoomJoin is waiting for intent.join                  *)
(*   "joined"   the ghost is in the Matrix room, no room entry is known    *)
(*   "mapped"   the room entry is known, its state is being fetched        *)
(* and then through onRemoteJoin, where it is                              *)
(*   "checking" the member list is being brought up to date                *)
(*   "emitting" the presences the newcomer must see are being sent         *)
(*   "storing"  it is a member, and the history is being fetched           *)
(*                                                                         *)
(* GatewayHandler keeps a copy of the room's state: what matters of it     *)
(* here is which ghosts are in the room and which were put out by a Matrix *)
(* user, because the update of the member list deletes the members those   *)
(* stand for.  An answer of the homeserver is what it was when asked.      *)
(***************************************************************************)
EXTENDS Naturals, FiniteSets

CONSTANTS
    Users,          \* bare JIDs of the XMPP users
    Resources,      \* resources (device names) clients use
    Nicks,          \* nicknames clients ask for
    MatrixNicks,    \* nicknames held by Matrix members of the room
    JoinIds,        \* join requests that can be handled at the same time
    NoUser,         \* no entry in a map; the name prepJID makes of a string
    Environment,    \* the events of the environment a run allows
    MaxLeaveCalls,  \* bound: unfinished intent.leave calls per ghost
    MaxRestarts     \* bound: restarts of the bridge

EnvironmentEvents ==
    {"kick",        \* a moderator kicks an XMPP ghost on Matrix
     "event",       \* a Matrix user does anything else in the room
     "fail",        \* a store or homeserver call fails
     "early_leave", \* a client leaves before its join is answered
     "nick_change", \* an occupant sends presence to another nickname
     "same_id"}     \* a client uses an id attribute the bridge has seen

ASSUME GatewayAssumption ==
    /\ MatrixNicks \subseteq Nicks
    /\ NoUser \notin Users
    /\ Environment \subseteq EnvironmentEvents
    /\ MaxLeaveCalls \in Nat
    /\ MaxRestarts \in Nat

Devices == Users \X Resources
DevicesOf(u) == {u} \X Resources

\* A ghost's user ID, and the remote ID that restored members carry instead.
Names == Users \cup {NoUser}
MxidOf(u) == <<"mxid", u>>
RemoteIdOf(name) == <<"remote", name>>
Mxids == {"mxid", "remote"} \X Names

Member   == [realJid: Users, matrixId: Mxids, nick: Nicks, devices: SUBSET Devices]
Stanza   == [id: JoinIds, user: Users, res: Resources, nick: Nicks]
\* IGatewayRoom.membership of the ghosts: who is joined, and whose last event
\* is a leave that a Matrix user sent.  Where there may be none, a set of one.
View == [joined: SUBSET Users, expelled: SUBSET Users]

Join     == [id: JoinIds, sender: Users, stage: {"joining", "joined", "mapped"},
             view: SUBSET View]
Entrance == [id: JoinIds, user: Users, res: Resources, nick: Nicks, sender: Users,
             stage: {"checking", "emitting", "storing"}, out: SUBSET Users]
Claim    == [user: Users, res: Resources, nick: Nicks]

\* A remote_users row of a ghost: what extra_data.rooms says of this room.
RoomData == [nick: Nicks, devices: SUBSET Devices]
Row      == [ghost: Users, name: Names, rooms: SUBSET RoomData]
SavedGhost == [name: Names, nick: Nicks, devices: SUBSET Devices]
Restore == [stage: {"none", "state", "asked", "rows"}, view: SUBSET View,
            saved: SUBSET SavedGhost, out: SUBSET Users]

VARIABLES
    members,        \* ChatMembers.members: the XMPP members of the room
    byMxid,         \* ChatMembers.byMxid, as the real JID of the member found
    presence,       \* PresenceCache.presence, by nickname
    stanzaCache,    \* XmppJsGateway.stanzaCache
    joins,          \* handleRoomJoin calls before onRemoteJoin
    entering,       \* onRemoteJoin calls that have their stanza
    restore,        \* the initialMembershipSync call of this process
    ghosts,         \* users whose ghost is joined to the Matrix room
    expelled,       \* users whose ghost was put out by a Matrix user, and is out
    kicks,          \* users whose kick the bridge has not been told of yet
    leaveCalls,     \* intent.leave calls under way
    copy,           \* roomIdCache: the copy of the room's state, if any
    answer,         \* the room's state, on its way to the handler of an event
    store,          \* remote_users rows
    claims,         \* what clients asked for and did not withdraw
    restarts

memberVars == <<members, byMxid>>
joinVars   == <<stanzaCache, joins, entering>>
copyVars   == <<copy, answer>>
matrixVars == <<ghosts, expelled, kicks, leaveCalls>>
vars == <<members, byMxid, presence, stanzaCache, joins, entering, restore,
          ghosts, expelled, kicks, leaveCalls, copy, answer, store, claims, restarts>>

-----------------------------------------------------------------------------
(* GatewayMUCMembership                                                    *)

\* Mutant: compares with a JID that still has its resource.
XmppMemberByFullJid(u)  == {}
XmppMemberByRealJid(u)  == {m \in members : m.realJid = u}

XmppMemberByDevice(d)   == {m \in members : d \in m.devices}

\* Mutant: finds some member of the room.
XmppMemberByAnyId(x)    == {m \in members : byMxid[x] \in Users}
XmppMemberByMatrixId(x) == {m \in members : m.realJid = byMxid[x]}

MemberByAnonJid(n)      == {m \in members : m.nick = n}

\* ChatMembers.add and ChatMembers.delete keep the index of Matrix IDs.
\* Mutants: one of them forgets it.
NotIndexed(x, u)   == byMxid
Indexed(x, u)      == [byMxid EXCEPT ![x] = u]
StillIndexed(x)    == byMxid
Unindexed(x)       == [byMxid EXCEPT ![x] = NoUser]

\* A known real JID gains a device and keeps its nickname and Matrix ID.
WithDevices(m, ds) == [m EXCEPT !.devices = @ \cup (ds \cap DevicesOf(m.realJid))]

AddXmppMember(d, n, x) ==
    IF XmppMemberByRealJid(d[1]) # {}
    THEN /\ members' = {WithDevices(m, {d}) : m \in members}
         /\ UNCHANGED byMxid
    ELSE /\ members' = members \cup {[realJid |-> d[1], matrixId |-> x,
                                      nick |-> n, devices |-> {d}]}
         /\ byMxid' = Indexed(x, d[1])

DeleteMember(m) ==
    /\ members' = members \ {m}
    /\ byMxid' = Unindexed(m.matrixId)

\* removeMatrixMember takes whoever the index finds, an XMPP member as well,
\* with all its devices.
RemoveMatrixMember(x) ==
    IF XmppMemberByMatrixId(x) = {}
    THEN UNCHANGED memberVars
    ELSE \E m \in XmppMemberByMatrixId(x) : DeleteMember(m)

\* Mutants: looks at the devices before it removes one; does not look.
IsLastDeviceUndeleted(m, d) == m.devices = {}
IsAnyDevice(m, d) == d \in m.devices

\* removeXmppMember for a full JID returns true when no device remains.
IsLastDevice(m, d) == m.devices \subseteq {d}

RemoveDevice(m, d) ==
    IF IsLastDevice(m, d)
    THEN DeleteMember(m)
    ELSE /\ members' = (members \ {m}) \cup {[m EXCEPT !.devices = @ \ {d}]}
         /\ UNCHANGED byMxid

-----------------------------------------------------------------------------
(* PresenceCache in gateway mode: keyed by the occupant addressed, with    *)
(* the sender's resource as the device.  An entry exists once it has one.  *)

\* Mutant: a device that was here before is no news.
DeltaOnNewDevice(n, r) == r \notin presence[n].devices
DeltaOnJoin(n, r) == ~presence[n].online \/ r \notin presence[n].devices

AddAvailable(n, r) ==
    [presence EXCEPT ![n] = [online |-> TRUE, devices |-> @.devices \cup {r}]]

\* Mutant: the status written back is not complete.
AddPartialStatus(n, r) == [presence EXCEPT ![n] = [online |-> FALSE]]

AddUnavailable(n, r) ==
    IF presence[n].devices = {} THEN presence
    ELSE [presence EXCEPT ![n] = [online |-> FALSE, devices |-> @.devices \cup {r}]]

-----------------------------------------------------------------------------
(* Bookkeeping of handleRoomJoin, onRemoteJoin and the store               *)

BusyIds == {j.id : j \in joins} \cup {e.id : e \in entering}

\* Mutant: some stanza of the cache.
AnyCachedStanza(id) == stanzaCache
CachedStanza(id) == {s \in stanzaCache : s.id = id}

\* Mutant: the stanza is read and not deleted.
StanzaLeftInCache(id) == stanzaCache
StanzaTaken(id) == stanzaCache \ CachedStanza(id)

ClaimOf(s) == [user |-> s.user, res |-> s.res, nick |-> s.nick]

\* getAnonJidsForXmppJid, after the change.
AnonJidsFor(u) ==
    {[nick |-> m.nick, devices |-> m.devices] : m \in {x \in members' : x.realJid = u}}

\* storeGhost: one row per Matrix ID and remote name.  Rows stored under
\* anything but a ghost's user ID are never looked at again.
SaveUser(x, name, rooms) ==
    store' = IF x \notin {MxidOf(u) : u \in Users} THEN store
             ELSE {w \in store : w.ghost # x[2] \/ w.name # name}
                  \cup {[ghost |-> x[2], name |-> name, rooms |-> rooms]}

\* What the homeserver answers when asked for the state of the room.  Who is
\* joined is read by a restore only, so it is left out when none is to come.
RoomState == [joined |-> IF restore.stage = "state" THEN ghosts ELSE {},
              expelled |-> expelled]

StartLeave(u) ==
    /\ leaveCalls[u] < MaxLeaveCalls
    /\ leaveCalls' = [leaveCalls EXCEPT ![u] = @ + 1]

-----------------------------------------------------------------------------
(* Presence stanzas: handleStanza                                          *)

\* A device uses one nickname of the room at a time.
MayClaim(u, r, n) == \A c \in claims : c.user = u /\ c.res = r => c.nick = n

\* A join that changes the cached presence is forwarded to handleRoomJoin.
\* Its id is new: onStanza lets no id attribute through twice, and makes one
\* up for a stanza that has none.
JoinRequest(u, r, n, id) ==
    /\ MayClaim(u, r, n)
    /\ id \notin BusyIds
    /\ DeltaOnJoin(n, r)
    /\ presence' = AddAvailable(n, r)
    /\ stanzaCache' = (stanzaCache \ CachedStanza(id))
                      \cup {[id |-> id, user |-> u, res |-> r, nick |-> n]}
    /\ joins' = joins \cup {[id |-> id, sender |-> u, stage |-> "joining", view |-> {}]}
    /\ claims' = claims \cup {[user |-> u, res |-> r, nick |-> n]}
    /\ UNCHANGED <<memberVars, entering, restore, matrixVars, copyVars, store, restarts>>

\* onStanza drops a stanza whose id anybody used before.
JoinDropped(u, r, n) ==
    /\ "same_id" \in Environment
    /\ MayClaim(u, r, n)
    /\ claims' = claims \cup {[user |-> u, res |-> r, nick |-> n]}
    /\ UNCHANGED <<memberVars, presence, joinVars, restore, matrixVars, copyVars,
                   store, restarts>>

\* "Nothing to do": the cached presence already shows this device online.
JoinIgnored(u, r, n) ==
    /\ MayClaim(u, r, n)
    /\ ~DeltaOnJoin(n, r)
    /\ claims' = claims \cup {[user |-> u, res |-> r, nick |-> n]}
    /\ UNCHANGED <<memberVars, presence, joinVars, restore, matrixVars, copyVars,
                   store, restarts>>

\* Presence of an occupant to another nickname, without the MUC element.
NickChange(u, r, n) ==
    /\ "nick_change" \in Environment
    /\ XmppMemberByDevice(<<u, r>>) # {}
    /\ presence' = AddAvailable(n, r)
    /\ UNCHANGED <<memberVars, joinVars, restore, matrixVars, copyVars, store, claims,
                   restarts>>

InFlight(c) == \/ \E s \in stanzaCache : ClaimOf(s) = c
               \/ \E e \in entering : ClaimOf(e) = c /\ e.stage # "storing"

\* chat-user-left is emitted when the last device of a member left.
\* Mutants: for every device that leaves; for none.
PartsAlways(m, d) == TRUE
PartsNever(m, d) == FALSE
Parts(m, d) == IsLastDevice(m, d)

\* The row of the member loses the device, under the name made of a string.
RemoteLeft(u, r) ==
    \E m \in XmppMemberByRealJid(u) :
        /\ RemoveDevice(m, <<u, r>>)
        /\ SaveUser(m.matrixId, NoUser, AnonJidsFor(u))
        /\ IF Parts(m, <<u, r>>) THEN StartLeave(u) ELSE UNCHANGED leaveCalls

\* An unavailable presence acts only if the cache shows the nickname online.
Leave(c) ==
    /\ "early_leave" \in Environment \/ ~InFlight(c)
    /\ claims' = claims \ {c}
    /\ presence' = AddUnavailable(c.nick, c.res)
    /\ IF presence[c.nick].online /\ XmppMemberByRealJid(c.user) # {}
       THEN RemoteLeft(c.user, c.res)
       ELSE UNCHANGED <<memberVars, store, leaveCalls>>
    /\ UNCHANGED <<joinVars, restore, ghosts, expelled, kicks, copyVars, restarts>>

-----------------------------------------------------------------------------
(* GatewayHandler.handleRoomJoin                                           *)

Advance(j, stage) == joins' = (joins \ {j}) \cup {[j EXCEPT !.stage = stage]}

\* intent.join succeeded; updateProfile made sure of a remote_users row.
GhostJoined(j) ==
    /\ j.stage = "joining"
    /\ Advance(j, "joined")
    /\ ghosts' = ghosts \cup {j.sender}
    /\ expelled' = expelled \ {j.sender}
    /\ IF \E w \in store : w.ghost = j.sender
       THEN UNCHANGED store ELSE SaveUser(MxidOf(j.sender), j.sender, {})
    /\ UNCHANGED <<memberVars, presence, stanzaCache, entering, restore, kicks,
                   leaveCalls, copyVars, claims, restarts>>

\* The room entry is known and getVirtualRoom has no copy of the room's state.
RoomMapped(j) ==
    /\ j.stage = "joined"
    /\ copy = {}
    /\ joins' = (joins \ {j}) \cup {[j EXCEPT !.stage = "mapped", !.view = {RoomState}]}
    /\ UNCHANGED <<memberVars, presence, stanzaCache, entering, restore, matrixVars,
                   copyVars, store, claims, restarts>>

\* memberInRoom is asked only when the room entry is known.
AlreadyInRoom(j) == XmppMemberByMatrixId(MxidOf(j.sender)) # {}

\* The catch block: part the ghost, drop the copy, then answer the client
\* with an error.  The entry is unknown if getOrCreateGatewayRoom failed, and
\* known if the alias was refused after it or the state did not come.  The
\* presence reset looks the sender's JID up in a cache keyed by nickname: it
\* finds nothing, so the presence stays online.
JoinFailed(j) ==
    /\ "fail" \in Environment
    /\ joins' = joins \ {j}
    /\ \E known \in BOOLEAN :
          /\ j.stage = "mapped" => known
          /\ IF j.stage # "joining" /\ ~(known /\ AlreadyInRoom(j))
             THEN StartLeave(j.sender) ELSE UNCHANGED leaveCalls
    /\ copy' = IF j.stage = "joining" THEN copy ELSE {}
    /\ stanzaCache' = StanzaTaken(j.id)
    /\ claims' = claims \ {ClaimOf(s) : s \in CachedStanza(j.id)}
    /\ UNCHANGED <<memberVars, presence, entering, restore, ghosts, expelled, kicks,
                   answer, store, restarts>>

-----------------------------------------------------------------------------
(* XmppJsGateway.onRemoteJoin                                              *)

\* The join has a copy of the room's state, its own or the one that is kept,
\* and fetches its stanza by its id.  Without one the call throws, and nobody
\* hears of it.  Then it starts to go through the members of the copy.
TakeStanza(j) ==
    /\ j.stage \in {"joined", "mapped"}
    /\ \E view \in IF j.stage = "mapped" THEN j.view ELSE copy :
          /\ copy' = {view}
          /\ entering' = entering \cup
                 {[id |-> j.id, user |-> s.user, res |-> s.res, nick |-> s.nick,
                   sender |-> j.sender, stage |-> "checking", out |-> view.expelled] :
                      s \in CachedStanza(j.id)}
    /\ joins' = joins \ {j}
    /\ stanzaCache' = StanzaTaken(j.id)
    /\ UNCHANGED <<memberVars, presence, restore, matrixVars, answer, store, claims, restarts>>

\* updateMatrixMemberListForRoom comes to a ghost that, by the copy, a Matrix
\* user has put out.  Nobody is told.
RefreshRemoves(e, u) ==
    /\ u \in e.out
    /\ entering' = (entering \ {e}) \cup {[e EXCEPT !.out = @ \ {u}]}
    /\ RemoveMatrixMember(MxidOf(u))
    /\ UNCHANGED <<presence, stanzaCache, joins, restore, matrixVars, copyVars, store,
                   claims, restarts>>

\* getMemberByAnonJid returns one of those who hold the nickname.
HeldByOther(s, m) == <<s.user, s.res>> \notin m.devices /\ m.realJid # s.user

Conflicts(s) ==
    \/ s.nick \in MatrixNicks
    \/ \E m \in MemberByAnonJid(s.nick) : HeldByOther(s, m)

Passes(s) ==
    /\ s.nick \notin MatrixNicks
    /\ MemberByAnonJid(s.nick) # {} =>
           \E m \in MemberByAnonJid(s.nick) : ~HeldByOther(s, m)

\* The update is done.  A client refused for its nickname is told so; its
\* ghost stays.
CheckNick(e) ==
    /\ e.stage = "checking" /\ e.out = {}
    /\ \/ /\ Conflicts(e)
          /\ entering' = entering \ {e}
          /\ claims' = claims \ {ClaimOf(e)}
       \/ /\ Passes(e)
          /\ entering' = (entering \ {e}) \cup {[e EXCEPT !.stage = "emitting"]}
          /\ UNCHANGED claims
    /\ UNCHANGED <<memberVars, presence, stanzaCache, joins, restore, matrixVars,
                   copyVars, store, restarts>>

\* Every presence has been sent: the user is added.
AddJoiner(e) ==
    /\ e.stage = "emitting"
    /\ entering' = (entering \ {e}) \cup {[e EXCEPT !.stage = "storing"]}
    /\ AddXmppMember(<<e.user, e.res>>, e.nick, MxidOf(e.sender))
    /\ UNCHANGED <<presence, stanzaCache, joins, restore, matrixVars, copyVars, store,
                   claims, restarts>>

\* The history has been sent: the user is stored for a restart, as it is now.
FinishRemoteJoin(e) ==
    /\ e.stage = "storing"
    /\ entering' = entering \ {e}
    /\ UNCHANGED <<memberVars, presence, stanzaCache, joins, restore, matrixVars, copyVars,
                   claims, restarts>>
    /\ SaveUser(MxidOf(e.sender), e.user, AnonJidsFor(e.user))

-----------------------------------------------------------------------------
(* Matrix: the handlers of events look the room up, and ask for its state  *)
(* when there is no copy.  A moderator's kick reaches the bridge as such   *)
(* an event; a leave call takes effect on the homeserver.                  *)

\* Bound: one event at a time waits for the state.
EventAsks ==
    /\ "event" \in Environment \/ kicks # {}
    /\ copy = {} /\ answer = {}
    /\ answer' = {RoomState}
    /\ UNCHANGED <<memberVars, presence, joinVars, restore, matrixVars, copy, store,
                   claims, restarts>>

EventHydrates ==
    /\ answer # {}
    /\ copy' = answer
    /\ answer' = {}
    /\ UNCHANGED <<memberVars, presence, joinVars, restore, matrixVars, store, claims,
                   restarts>>

ModeratorKick(u) ==
    /\ "kick" \in Environment
    /\ u \in ghosts /\ u \notin kicks
    /\ ghosts' = ghosts \ {u}
    /\ expelled' = expelled \cup {u}
    /\ kicks' = kicks \cup {u}
    /\ UNCHANGED <<memberVars, presence, joinVars, restore, leaveCalls, copyVars, store,
                   claims, restarts>>

\* resolveMatrixStateToXMPP for a kick, once there is a copy of the room's
\* state or none was to be had: the member goes with all its devices.
DeliverKick(u) ==
    /\ u \in kicks
    /\ copy # {} \/ "fail" \in Environment
    /\ kicks' = kicks \ {u}
    /\ IF XmppMemberByMatrixId(MxidOf(u)) = {}
       THEN UNCHANGED <<memberVars, claims>>
       ELSE \E m \in XmppMemberByMatrixId(MxidOf(u)) :
              /\ DeleteMember(m)
              /\ claims' = {c \in claims : <<c.user, c.res>> \notin m.devices}
    /\ UNCHANGED <<presence, joinVars, restore, ghosts, expelled, leaveCalls, copyVars,
                   store, restarts>>

GhostLeft(u) ==
    /\ leaveCalls[u] > 0
    /\ leaveCalls' = [leaveCalls EXCEPT ![u] = @ - 1]
    /\ ghosts' = ghosts \ {u}
    /\ UNCHANGED <<memberVars, presence, joinVars, restore, expelled, kicks, copyVars,
                   store, claims, restarts>>

-----------------------------------------------------------------------------
(* Restart: the process loses its memory, and RoomSync has the gateway     *)
(* rebuild the members from the joined ghosts.  Nobody waits for that, so  *)
(* clients join in the meantime.                                           *)

NotRestoring == [stage |-> "none", view |-> {}, saved |-> {}, out |-> {}]
EmptyIndex == [x \in Mxids |-> NoUser]
NoPresence == [n \in Nicks |-> [online |-> FALSE, devices |-> {}]]
NoCalls == [u \in Users |-> 0]

\* stopGateway tells every device it is kicked; a crash tells nobody.  The
\* homeserver may or may not have seen the calls that were under way.
Restart ==
    /\ restarts < MaxRestarts
    /\ restarts' = restarts + 1
    /\ \E stopped \in BOOLEAN :
          claims' = IF stopped
                    THEN {c \in claims : XmppMemberByDevice(<<c.user, c.res>>) = {}}
                    ELSE claims
    /\ \E joined \in SUBSET {j.sender : j \in joins},
          parted \in SUBSET {u \in Users : leaveCalls[u] > 0} :
          /\ ghosts' = (ghosts \cup joined) \ parted
          /\ expelled' = expelled \ joined
    /\ members' = {} /\ byMxid' = EmptyIndex /\ presence' = NoPresence
    /\ stanzaCache' = {} /\ joins' = {} /\ entering' = {}
    /\ leaveCalls' = NoCalls /\ copy' = {} /\ answer' = {}
    /\ restore' = [NotRestoring EXCEPT !.stage = "state"]
    /\ UNCHANGED <<kicks, store>>

RowsOf(u) == {w \in store : w.ghost = u}

SavedGhosts(rows) ==
    UNION {{[name |-> w.name, nick |-> d.nick, devices |-> d.devices] : d \in w.rooms} :
               w \in rows}

AskGhosts ==
    /\ restore.stage = "state"
    /\ copy = {}
    /\ restore' = [restore EXCEPT !.stage = "asked", !.view = {RoomState}]
    /\ UNCHANGED <<memberVars, presence, joinVars, matrixVars, copyVars, store, claims,
                   restarts>>

\* The room's state is there: one row is read for every joined ghost that
\* has any.  The loop of XmppJsGateway ends at the first row that has no data
\* for this room.  The member list is updated first, unless a Matrix member
\* is on it already.
ReadGhosts ==
    /\ restore.stage \in {"state", "asked"}
    /\ \E view \in IF restore.stage = "asked" THEN restore.view ELSE copy :
          /\ copy' = {view}
          /\ \E rows \in SUBSET UNION {RowsOf(u) : u \in view.joined},
                out \in {{}, view.expelled} :
                /\ \A v, w \in rows : v.ghost = w.ghost => v = w
                /\ \A u \in view.joined : RowsOf(u) # {} => \E w \in rows : w.ghost = u
                /\ \E reached \in SUBSET rows :
                      /\ (\A w \in rows : w.rooms # {}) => reached = rows
                      /\ restore' = [stage |-> "rows", view |-> {}, out |-> out,
                                     saved |-> SavedGhosts(reached)]
    /\ UNCHANGED <<memberVars, presence, joinVars, matrixVars, answer, store, claims, restarts>>

RestoreRemoves(u) ==
    /\ u \in restore.out
    /\ restore' = [restore EXCEPT !.out = @ \ {u}]
    /\ RemoveMatrixMember(MxidOf(u))
    /\ UNCHANGED <<presence, joinVars, matrixVars, copyVars, store, claims, restarts>>

\* addXmppMember for every device, with the remote ID where a Matrix ID
\* belongs: a user who is new takes its nickname from its first device.
RestoredMember(u, w, devices) ==
    [realJid |-> u, matrixId |-> RemoteIdOf(w.name), nick |-> w.nick,
     devices |-> devices \cap DevicesOf(u)]

Reconnect ==
    /\ restore.stage = "rows" /\ restore.out = {}
    /\ restore' = NotRestoring
    /\ LET devices == UNION {w.devices : w \in restore.saved}
           back == {u \in Users : devices \cap DevicesOf(u) # {} /\ XmppMemberByRealJid(u) = {}}
       IN  \E first \in [back -> restore.saved] :
             /\ \A u \in back : first[u].devices \cap DevicesOf(u) # {}
             /\ members' =
                  {WithDevices(m, devices) : m \in members}
                  \cup {RestoredMember(u, first[u], devices) : u \in back}
             /\ \E latest \in [{RemoteIdOf(first[u].name) : u \in back} -> back] :
                  /\ \A x \in DOMAIN latest : x = RemoteIdOf(first[latest[x]].name)
                  /\ byMxid' = [x \in Mxids |->
                         IF x \in DOMAIN latest THEN latest[x] ELSE byMxid[x]]
    /\ UNCHANGED <<presence, joinVars, matrixVars, copyVars, store, claims, restarts>>

-----------------------------------------------------------------------------

Init ==
    /\ members = {} /\ byMxid = EmptyIndex /\ presence = NoPresence
    /\ stanzaCache = {} /\ joins = {} /\ entering = {}
    /\ restore = NotRestoring
    /\ ghosts = {} /\ expelled = {} /\ kicks = {} /\ leaveCalls = NoCalls
    /\ copy = {} /\ answer = {}
    /\ store = {} /\ claims = {}
    /\ restarts = 0

ClientStep ==
    \/ \E u \in Users, r \in Resources, n \in Nicks :
          \/ \E id \in JoinIds : JoinRequest(u, r, n, id)
          \/ JoinDropped(u, r, n)
          \/ JoinIgnored(u, r, n)
          \/ NickChange(u, r, n)
    \/ \E c \in claims : Leave(c)

JoinStep ==
    \/ \E j \in joins : \/ GhostJoined(j) \/ RoomMapped(j)
                        \/ JoinFailed(j) \/ TakeStanza(j)
    \/ \E e \in entering : \/ \E u \in Users : RefreshRemoves(e, u)
                           \/ CheckNick(e) \/ AddJoiner(e) \/ FinishRemoteJoin(e)

MatrixStep ==
    \/ EventAsks \/ EventHydrates
    \/ \E u \in Users : ModeratorKick(u) \/ DeliverKick(u) \/ GhostLeft(u)

RestartStep ==
    \/ Restart \/ AskGhosts \/ ReadGhosts \/ Reconnect
    \/ \E u \in Users : RestoreRemoves(u)

Next == ClientStep \/ JoinStep \/ MatrixStep \/ RestartStep

Spec == Init /\ [][Next]_vars

\* Awaited calls settle, so a join that is under way is carried on.
FairSpec == Spec /\ WF_vars(JoinStep)

-----------------------------------------------------------------------------
(* Properties                                                              *)

TypeOK ==
    /\ members \subseteq Member
    /\ byMxid \in [Mxids -> Users \cup {NoUser}]
    /\ presence \in [Nicks -> [online: BOOLEAN, devices: SUBSET Resources]]
    /\ stanzaCache \subseteq Stanza
    /\ joins \subseteq Join
    /\ entering \subseteq Entrance
    /\ restore \in Restore
    /\ ghosts \subseteq Users
    /\ expelled \subseteq Users
    /\ copy \subseteq View
    /\ answer \subseteq View
    /\ kicks \subseteq Users
    /\ leaveCalls \in [Users -> Nat]
    /\ store \subseteq Row
    /\ claims \subseteq Claim
    /\ restarts \in Nat

\* The member list holds a user once, whatever joins, leaves, kicks and
\* restores overlap, and lists under it only devices of that user, at least
\* one.  Every lookup in GatewayMUCMembership takes the first match and is
\* right only because of this.
OneMemberPerUser ==
    /\ \A m1, m2 \in members : m1.realJid = m2.realJid => m1 = m2
    /\ \A m \in members : m.devices # {} /\ m.devices \subseteq {m.realJid} \X Resources

\* byMxid never outlives its member: a Matrix ID found in the map leads to a
\* member of the room that carries this very ID, so a kick or memberInRoom
\* cannot act on somebody who is gone.
ByMxidFindsMembers ==
    \A x \in Mxids : byMxid[x] # NoUser =>
        \E m \in members : m.realJid = byMxid[x] /\ m.matrixId = x

\* A stanza is cached exactly while the join it belongs to is on its way to
\* onRemoteJoin: none is lost to another join, none stays behind in the map.
CachedStanzasAreAwaited ==
    /\ \A s \in stanzaCache : \E j \in joins : j.id = s.id /\ j.sender = s.user
    /\ \A j \in joins : CachedStanza(j.id) # {}

\* "Check if the nick conflicts": no two users hold the same nickname.
NicksUnique ==
    \A m1, m2 \in members : m1.nick = m2.nick => m1.realJid = m2.realJid

\* A ghost is parted only when its XMPP user has no device left in the room.
PartsOnlyAbsentUsers ==
    [][\A u \in Users : leaveCalls'[u] > leaveCalls[u] =>
          \A m \in members' : m.realJid # u]_vars

\* A ghost joined to the Matrix room stands for somebody: its user is a
\* member, or is joining, or a call that parts it is under way.
GhostsAreAccounted ==
    \A u \in ghosts :
        \/ \E m \in members : m.realJid = u
        \/ \E j \in joins : j.sender = u
        \/ \E e \in entering : e.sender = u /\ e.stage # "storing"
        \/ leaveCalls[u] > 0

\* A kick that the bridge has handled leaves no device of the user in the MUC,
\* whatever joined, left or was restored meanwhile.
KicksReachEverybody ==
    [][\A u \in kicks \ kicks' : \A m \in members' : m.realJid # u]_vars

\* The same, but for members that were restored and carry another ID: whoever
\* joined under its ghost's ID is found by it, and goes.
KicksTakeEffect ==
    [][\A u \in kicks \ kicks' : \A m \in members' :
          m.realJid = u => m.matrixId # MxidOf(u)]_vars

\* A device listed in the MUC is one whose client is there: it asked to join
\* and has neither left nor been sent away since.  isJIDInMuc answers the
\* client's self-ping from this list.
DevicesAreLive ==
    \A m \in members : \A d \in m.devices :
        \E c \in claims : <<c.user, c.res>> = d

\* A client that asks to join is let in or told that it is not.
JoinsAreAnswered ==
    \A u \in Users, r \in Resources, n \in Nicks :
        [user |-> u, res |-> r, nick |-> n] \in claims
            ~> \/ [user |-> u, res |-> r, nick |-> n] \notin claims
               \/ XmppMemberByDevice(<<u, r>>) # {}

\* Every member can be found by the Matrix ID of its own ghost: a member's
\* matrixId is "the assigned Matrix UserID for the user".
MembersCarryTheirMxid == \A m \in members : m.matrixId = MxidOf(m.realJid)

\* "Ensure our membership is accurate": who loses its place to an update of
\* the member list is not in the Matrix room.
RefreshIsAccurate ==
    [][\A e \in entering, u \in Users :
          RefreshRemoves(e, u) /\ members' # members => u \notin ghosts]_vars

\* What the abstract MUC sees of the gateway.
Asking     == {<<s.user, s.res>> : s \in stanzaCache}
              \cup {<<e.user, e.res>> : e \in {x \in entering : x.stage # "storing"}}
Present    == UNION {m.devices : m \in members}
OnRecord   == UNION {UNION {d.devices : d \in w.rooms} : w \in store}
Remembered == OnRecord \cup UNION {w.devices : w \in restore.saved}
Recovering == restore.stage # "none"
Views      == copy \cup answer \cup restore.view \cup UNION {j.view : j \in joins}
Outcasts   == expelled \cup restore.out \cup (UNION {e.out : e \in entering})
              \cup (UNION {v.expelled : v \in Views})

Occupancy == INSTANCE MucOccupancy WITH
    asking <- Asking, present <- Present, kicked <- kicks, outcasts <- Outcasts,
    remembered <- Remembered, recovering <- Recovering

\* The gateway implements the abstract MUC: devices get in by asking, go out
\* alone, or with a user that was kicked and that the gateway still takes for
\* one who is out, and are restored from the record only.
ImplementsOccupancy == Occupancy!Spec

=============================================================================
