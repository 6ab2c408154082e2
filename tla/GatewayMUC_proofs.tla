-------------------------- MODULE GatewayMUC_proofs --------------------------
(***************************************************************************)
(* What holds of GatewayMUC for every set of users, devices, nicknames and *)
(* join requests and for every environment, however often the bridge       *)
(* restarts.                                                               *)
(***************************************************************************)
EXTENDS GatewayMUC, TLAPS

-----------------------------------------------------------------------------
(* Type correctness                                                        *)

LEMMA MxidsOfUsers ==
    ASSUME NEW u \in Users
    PROVE  MxidOf(u) \in Mxids /\ MxidOf(u)[2] = u
BY DEF MxidOf, Mxids, Names

LEMMA RemoteIdsOfNames ==
    ASSUME NEW name \in Names
    PROVE  RemoteIdOf(name) \in Mxids
BY DEF RemoteIdOf, Mxids

LEMMA InitTypeOK == Init => TypeOK
<1> SUFFICES ASSUME Init PROVE TypeOK
  OBVIOUS
<1> USE DEF Init
<1>1. byMxid \in [Mxids -> Users \cup {NoUser}]
  BY DEF EmptyIndex
<1>2. presence \in [Nicks -> [online: BOOLEAN, devices: SUBSET Resources]]
  BY DEF NoPresence
<1>3. restore \in Restore
  BY DEF NotRestoring, Restore
<1>4. leaveCalls \in [Users -> Nat]
  BY DEF NoCalls
<1> QED
  BY <1>1, <1>2, <1>3, <1>4 DEF TypeOK

\* The data of a member as the store keeps it.
LEMMA AnonJidsType ==
    ASSUME members' \subseteq Member, NEW u
    PROVE  AnonJidsFor(u) \subseteq RoomData
BY DEF AnonJidsFor, Member, RoomData

LEMMA SaveUserType ==
    ASSUME store \subseteq Row, NEW x, NEW name \in Names,
           NEW rooms \in SUBSET RoomData, SaveUser(x, name, rooms)
    PROVE  store' \subseteq Row
<1>1. CASE x \notin {MxidOf(u) : u \in Users}
  BY <1>1 DEF SaveUser
<1>2. CASE x \in {MxidOf(u) : u \in Users}
  <2>1. PICK u \in Users : x = MxidOf(u)
    BY <1>2
  <2>2. [ghost |-> x[2], name |-> name, rooms |-> rooms] \in Row
    BY <2>1, MxidsOfUsers DEF Row
  <2> QED
    BY <1>2, <2>2 DEF SaveUser
<1> QED
  BY <1>1, <1>2

\* A member that gains devices stays the same in everything else.
LEMMA WithDevicesFields ==
    ASSUME NEW m \in Member, NEW ds \in SUBSET Devices
    PROVE  LET g == WithDevices(m, ds)
           IN  /\ g \in Member
               /\ g.realJid = m.realJid /\ g.matrixId = m.matrixId
               /\ g.devices = m.devices \cup (ds \cap DevicesOf(m.realJid))
BY DEF WithDevices, Member

\* The operations on the member list keep its type.
LEMMA AddMemberType ==
    ASSUME members \subseteq Member, byMxid \in [Mxids -> Users \cup {NoUser}],
           NEW d \in Devices, NEW n \in Nicks, NEW x \in Mxids,
           AddXmppMember(d, n, x)
    PROVE  members' \subseteq Member /\ byMxid' \in [Mxids -> Users \cup {NoUser}]
<1>0. d[1] \in Users
  BY DEF Devices
<1>1. CASE XmppMemberByRealJid(d[1]) # {}
  BY <1>1, WithDevicesFields DEF AddXmppMember
<1>2. CASE XmppMemberByRealJid(d[1]) = {}
  <2>1. [realJid |-> d[1], matrixId |-> x, nick |-> n, devices |-> {d}] \in Member
    BY <1>0 DEF Member
  <2> QED
    BY <1>0, <1>2, <2>1 DEF AddXmppMember, Indexed
<1> QED
  BY <1>1, <1>2

LEMMA DeleteMemberType ==
    ASSUME members \subseteq Member, byMxid \in [Mxids -> Users \cup {NoUser}],
           NEW m, DeleteMember(m)
    PROVE  members' \subseteq Member /\ byMxid' \in [Mxids -> Users \cup {NoUser}]
BY DEF DeleteMember, Unindexed

LEMMA RemoveDeviceType ==
    ASSUME members \subseteq Member, byMxid \in [Mxids -> Users \cup {NoUser}],
           NEW m \in members, NEW d, RemoveDevice(m, d)
    PROVE  members' \subseteq Member /\ byMxid' \in [Mxids -> Users \cup {NoUser}]
<1>1. CASE IsLastDevice(m, d)
  BY <1>1, DeleteMemberType DEF RemoveDevice
<1>2. CASE ~IsLastDevice(m, d)
  <2>1. [m EXCEPT !.devices = @ \ {d}] \in Member
    BY DEF Member
  <2> QED
    BY <1>2, <2>1 DEF RemoveDevice
<1> QED
  BY <1>1, <1>2

LEMMA RemoveMatrixMemberType ==
    ASSUME members \subseteq Member, byMxid \in [Mxids -> Users \cup {NoUser}],
           NEW x, RemoveMatrixMember(x)
    PROVE  members' \subseteq Member /\ byMxid' \in [Mxids -> Users \cup {NoUser}]
<1>1. CASE UNCHANGED memberVars
  BY <1>1 DEF memberVars, copyVars
<1>2. CASE \E m : DeleteMember(m)
  BY <1>2, DeleteMemberType
<1> QED
  BY <1>1, <1>2 DEF RemoveMatrixMember

LEMMA RoomStateType ==
    ASSUME TypeOK
    PROVE  RoomState \in View
BY DEF TypeOK, RoomState, View

LEMMA StartLeaveType ==
    ASSUME leaveCalls \in [Users -> Nat], NEW u \in Users, StartLeave(u)
    PROVE  leaveCalls' \in [Users -> Nat]
BY DEF StartLeave

\* Every action keeps the types of the variables it changes.
LEMMA JoinRequestType ==
    ASSUME TypeOK, NEW u \in Users, NEW r \in Resources, NEW n \in Nicks,
           NEW id \in JoinIds,
           JoinRequest(u, r, n, id)
    PROVE  TypeOK'
<1> USE DEF JoinRequest, TypeOK
<1>1. presence' \in [Nicks -> [online: BOOLEAN, devices: SUBSET Resources]]
  BY DEF AddAvailable
<1>2. stanzaCache' \subseteq Stanza
  BY DEF Stanza, CachedStanza
<1>3. joins' \subseteq Join
  BY DEF Join
<1>4. claims' \subseteq Claim
  BY DEF Claim
<1> QED
  BY <1>1, <1>2, <1>3, <1>4 DEF memberVars, matrixVars, copyVars

LEMMA JoinUnansweredType ==
    ASSUME TypeOK, NEW u \in Users, NEW r \in Resources, NEW n \in Nicks,
           JoinDropped(u, r, n) \/ JoinIgnored(u, r, n)
    PROVE  TypeOK'
<1>1. claims' \subseteq Claim
  BY DEF JoinDropped, JoinIgnored, TypeOK, Claim
<1> QED
  BY <1>1 DEF JoinDropped, JoinIgnored, TypeOK, memberVars, matrixVars, copyVars, joinVars

LEMMA NickChangeType ==
    ASSUME TypeOK, NEW u \in Users, NEW r \in Resources, NEW n \in Nicks,
           NickChange(u, r, n)
    PROVE  TypeOK'
<1>1. presence' \in [Nicks -> [online: BOOLEAN, devices: SUBSET Resources]]
  BY DEF NickChange, TypeOK, AddAvailable
<1> QED
  BY <1>1 DEF NickChange, TypeOK, memberVars, matrixVars, copyVars, joinVars

LEMMA RemoteLeftType ==
    ASSUME TypeOK, NEW u \in Users, NEW r, RemoteLeft(u, r)
    PROVE  /\ members' \subseteq Member
           /\ byMxid' \in [Mxids -> Users \cup {NoUser}]
           /\ store' \subseteq Row
           /\ leaveCalls' \in [Users -> Nat]
<1>1. PICK m \in XmppMemberByRealJid(u) :
          /\ RemoveDevice(m, <<u, r>>)
          /\ SaveUser(m.matrixId, NoUser, AnonJidsFor(u))
          /\ IF Parts(m, <<u, r>>) THEN StartLeave(u) ELSE UNCHANGED leaveCalls
  BY DEF RemoteLeft
<1>2. m \in members
  BY DEF XmppMemberByRealJid
<1>3. members' \subseteq Member /\ byMxid' \in [Mxids -> Users \cup {NoUser}]
  BY <1>1, <1>2, RemoveDeviceType DEF TypeOK
<1>4. store' \subseteq Row
  <2>1. NoUser \in Names
    BY DEF Names
  <2> QED
    BY <1>1, <1>3, <2>1, AnonJidsType, SaveUserType DEF TypeOK
<1>5. leaveCalls' \in [Users -> Nat]
  BY <1>1, StartLeaveType DEF TypeOK
<1> QED
  BY <1>3, <1>4, <1>5

LEMMA LeaveType ==
    ASSUME TypeOK, NEW c \in claims, Leave(c)
    PROVE  TypeOK'
<1>0. c.user \in Users /\ c.res \in Resources /\ c.nick \in Nicks
  BY DEF TypeOK, Claim
<1>1. presence' \in [Nicks -> [online: BOOLEAN, devices: SUBSET Resources]]
  BY <1>0 DEF Leave, TypeOK, AddUnavailable
<1>2. /\ members' \subseteq Member
      /\ byMxid' \in [Mxids -> Users \cup {NoUser}]
      /\ store' \subseteq Row
      /\ leaveCalls' \in [Users -> Nat]
  <2>1. CASE presence[c.nick].online /\ XmppMemberByRealJid(c.user) # {}
    BY <1>0, <2>1, RemoteLeftType DEF Leave
  <2>2. CASE ~(presence[c.nick].online /\ XmppMemberByRealJid(c.user) # {})
    BY <2>2 DEF Leave, TypeOK, memberVars, copyVars
  <2> QED
    BY <2>1, <2>2
<1> QED
  BY <1>1, <1>2 DEF Leave, TypeOK, joinVars, copyVars

LEMMA GhostJoinedType ==
    ASSUME TypeOK, NEW j \in joins, GhostJoined(j)
    PROVE  TypeOK'
<1>0. j.sender \in Users
  BY DEF TypeOK, Join
<1>1. joins' \subseteq Join
  BY DEF GhostJoined, Advance, TypeOK, Join
<1>2. store' \subseteq Row
  <2>1. CASE \E w \in store : w.ghost = j.sender
    BY <2>1 DEF GhostJoined, TypeOK
  <2>2. CASE ~\E w \in store : w.ghost = j.sender
    <3>1. j.sender \in Names
      BY <1>0 DEF Names
    <3> QED
      BY <2>2, <3>1, SaveUserType DEF GhostJoined, TypeOK
  <2> QED
    BY <2>1, <2>2
<1> QED
  BY <1>0, <1>1, <1>2 DEF GhostJoined, TypeOK, memberVars, copyVars

LEMMA RoomMappedType ==
    ASSUME TypeOK, NEW j \in joins, RoomMapped(j)
    PROVE  TypeOK'
<1>1. joins' \subseteq Join
  <2>1. j \in Join /\ {RoomState} \in SUBSET View
    BY RoomStateType DEF TypeOK
  <2>2. [j EXCEPT !.stage = "mapped", !.view = {RoomState}] \in Join
    BY <2>1 DEF Join
  <2> QED
    BY <2>2 DEF RoomMapped, TypeOK
<1> QED
  BY <1>1 DEF RoomMapped, TypeOK, memberVars, matrixVars, copyVars

LEMMA JoinFailedType ==
    ASSUME TypeOK, NEW j \in joins, JoinFailed(j)
    PROVE  TypeOK'
<1>1. leaveCalls' \in [Users -> Nat]
  <2>1. j.sender \in Users
    BY DEF TypeOK, Join
  <2> QED
    BY <2>1, StartLeaveType DEF JoinFailed, TypeOK
<1>2. copy' \subseteq View
  BY DEF JoinFailed, TypeOK
<1> QED
  BY <1>1, <1>2 DEF JoinFailed, TypeOK, StanzaTaken, memberVars, copyVars

LEMMA TakeStanzaType ==
    ASSUME TypeOK, NEW j \in joins, TakeStanza(j)
    PROVE  TypeOK'
<1>0. PICK view \in IF j.stage = "mapped" THEN j.view ELSE copy :
        /\ copy' = {view}
        /\ entering' = entering \cup
               {[id |-> j.id, user |-> s.user, res |-> s.res, nick |-> s.nick,
                 sender |-> j.sender, stage |-> "checking", out |-> view.expelled] :
                    s \in CachedStanza(j.id)}
  BY DEF TakeStanza
<1>1. view \in View /\ view.expelled \subseteq Users
  BY DEF TypeOK, Join, View
<1>2. entering' \subseteq Entrance
  <2> SUFFICES ASSUME NEW s \in CachedStanza(j.id)
               PROVE  [id |-> j.id, user |-> s.user, res |-> s.res, nick |-> s.nick,
                       sender |-> j.sender, stage |-> "checking", out |-> view.expelled]
                          \in Entrance
    BY <1>0 DEF TypeOK
  <2>1. s \in Stanza /\ j \in Join
    BY DEF TypeOK, CachedStanza
  <2> QED
    BY <1>1, <2>1 DEF Join, Stanza, Entrance
<1> QED
  BY <1>0, <1>1, <1>2 DEF TakeStanza, StanzaTaken, TypeOK, memberVars, matrixVars, copyVars

LEMMA RefreshRemovesType ==
    ASSUME TypeOK, NEW e \in entering, NEW u \in Users, RefreshRemoves(e, u)
    PROVE  TypeOK'
<1>1. entering' \subseteq Entrance
  BY DEF RefreshRemoves, TypeOK, Entrance
<1>2. members' \subseteq Member /\ byMxid' \in [Mxids -> Users \cup {NoUser}]
  BY RemoveMatrixMemberType DEF RefreshRemoves, TypeOK
<1> QED
  BY <1>1, <1>2 DEF RefreshRemoves, TypeOK, matrixVars, copyVars

LEMMA CheckNickType ==
    ASSUME TypeOK, NEW e \in entering, CheckNick(e)
    PROVE  TypeOK'
<1>1. entering' \subseteq Entrance
  BY DEF CheckNick, TypeOK, Entrance
<1> QED
  BY <1>1 DEF CheckNick, TypeOK, memberVars, matrixVars, copyVars

LEMMA AddJoinerType ==
    ASSUME TypeOK, NEW e \in entering, AddJoiner(e)
    PROVE  TypeOK'
<1>0. e.user \in Users /\ e.res \in Resources /\ e.nick \in Nicks /\ e.sender \in Users
  BY DEF TypeOK, Entrance
<1>1. members' \subseteq Member /\ byMxid' \in [Mxids -> Users \cup {NoUser}]
  <2>1. <<e.user, e.res>> \in Devices
    BY <1>0 DEF Devices
  <2> QED
    BY <1>0, <2>1, MxidsOfUsers, AddMemberType DEF AddJoiner, TypeOK
<1>2. entering' \subseteq Entrance
  BY DEF AddJoiner, TypeOK, Entrance
<1> QED
  BY <1>1, <1>2 DEF AddJoiner, TypeOK, matrixVars, copyVars

LEMMA FinishRemoteJoinType ==
    ASSUME TypeOK, NEW e \in entering, FinishRemoteJoin(e)
    PROVE  TypeOK'
<1>1. members' \subseteq Member /\ e.user \in Names
  BY DEF FinishRemoteJoin, TypeOK, memberVars, copyVars, Entrance, Names
<1>2. store' \subseteq Row
  BY <1>1, AnonJidsType, SaveUserType DEF FinishRemoteJoin, TypeOK
<1> QED
  BY <1>2 DEF FinishRemoteJoin, TypeOK, memberVars, matrixVars, copyVars

LEMMA EventType ==
    ASSUME TypeOK, EventAsks \/ EventHydrates
    PROVE  TypeOK'
<1>1. CASE EventAsks
  BY <1>1, RoomStateType DEF EventAsks, TypeOK, memberVars, joinVars, matrixVars, copyVars
<1>2. CASE EventHydrates
  BY <1>2 DEF EventHydrates, TypeOK, memberVars, joinVars, matrixVars, copyVars
<1> QED
  BY <1>1, <1>2

LEMMA ModeratorKickType ==
    ASSUME TypeOK, NEW u \in Users, ModeratorKick(u)
    PROVE  TypeOK'
BY DEF ModeratorKick, TypeOK, memberVars, joinVars, copyVars

LEMMA DeliverKickType ==
    ASSUME TypeOK, NEW u \in Users, DeliverKick(u)
    PROVE  TypeOK'
<1>1. /\ members' \subseteq Member
      /\ byMxid' \in [Mxids -> Users \cup {NoUser}]
      /\ claims' \subseteq Claim
  <2>1. CASE XmppMemberByMatrixId(MxidOf(u)) = {}
    BY <2>1 DEF DeliverKick, TypeOK, memberVars, copyVars
  <2>2. CASE XmppMemberByMatrixId(MxidOf(u)) # {}
    <3>1. PICK m : /\ DeleteMember(m)
                   /\ claims' = {c \in claims : <<c.user, c.res>> \notin m.devices}
      BY <2>2 DEF DeliverKick
    <3> QED
      BY <3>1, DeleteMemberType DEF TypeOK
  <2> QED
    BY <2>1, <2>2
<1> QED
  BY <1>1 DEF DeliverKick, TypeOK, joinVars, copyVars

LEMMA GhostLeftType ==
    ASSUME TypeOK, NEW u \in Users, GhostLeft(u)
    PROVE  TypeOK'
<1>1. leaveCalls' \in [Users -> Nat]
  BY DEF GhostLeft, TypeOK
<1> QED
  BY <1>1 DEF GhostLeft, TypeOK, memberVars, joinVars, copyVars

LEMMA RestartType ==
    ASSUME TypeOK, Restart
    PROVE  TypeOK'
<1> USE DEF Restart, TypeOK
<1>1. byMxid' \in [Mxids -> Users \cup {NoUser}]
  BY DEF EmptyIndex
<1>2. presence' \in [Nicks -> [online: BOOLEAN, devices: SUBSET Resources]]
  BY DEF NoPresence
<1>3. leaveCalls' \in [Users -> Nat]
  BY DEF NoCalls
<1>4. claims' \subseteq Claim
  OBVIOUS
<1>5. ghosts' \subseteq Users /\ expelled' \subseteq Users
  BY DEF Join
<1>6. restore' \in Restore
  BY DEF NotRestoring, Restore
<1> QED
  BY <1>1, <1>2, <1>3, <1>4, <1>5, <1>6

LEMMA AskGhostsType ==
    ASSUME TypeOK, AskGhosts
    PROVE  TypeOK'
<1>1. restore' \in Restore
  BY RoomStateType DEF AskGhosts, TypeOK, Restore
<1> QED
  BY <1>1 DEF AskGhosts, TypeOK, memberVars, joinVars, matrixVars, copyVars

\* What a restore goes on with: the rows it has read come from the store.
LEMMA RowsRead ==
    ASSUME ReadGhosts
    PROVE  \E view \in IF restore.stage = "asked" THEN restore.view ELSE copy :
           \E reached \in SUBSET store, out \in {{}, view.expelled} :
              /\ copy' = {view}
              /\ restore' = [stage |-> "rows", view |-> {}, out |-> out,
                             saved |-> SavedGhosts(reached)]
<1>1. PICK view \in IF restore.stage = "asked" THEN restore.view ELSE copy :
          /\ copy' = {view}
          /\ \E rows \in SUBSET UNION {RowsOf(u) : u \in view.joined},
                out \in {{}, view.expelled} :
                /\ \A v, w \in rows : v.ghost = w.ghost => v = w
                /\ \A u \in view.joined : RowsOf(u) # {} => \E w \in rows : w.ghost = u
                /\ \E reached \in SUBSET rows :
                      /\ (\A w \in rows : w.rooms # {}) => reached = rows
                      /\ restore' = [stage |-> "rows", view |-> {}, out |-> out,
                                     saved |-> SavedGhosts(reached)]
  BY Zenon DEF ReadGhosts
<1>2. PICK rows \in SUBSET UNION {RowsOf(u) : u \in view.joined},
           out \in {{}, view.expelled} :
             \E reached \in SUBSET rows :
                 restore' = [stage |-> "rows", view |-> {}, out |-> out,
                             saved |-> SavedGhosts(reached)]
  BY <1>1
<1>3. PICK reached \in SUBSET rows :
             restore' = [stage |-> "rows", view |-> {}, out |-> out,
                         saved |-> SavedGhosts(reached)]
  BY <1>2
<1>4. reached \in SUBSET store
  BY DEF RowsOf
<1> QED
  BY <1>1, <1>3, <1>4

LEMMA ReadGhostsType ==
    ASSUME TypeOK, ReadGhosts
    PROVE  TypeOK'
<1>3. PICK view \in IF restore.stage = "asked" THEN restore.view ELSE copy :
        \E reached \in SUBSET store, out \in {{}, view.expelled} :
              /\ copy' = {view}
              /\ restore' = [stage |-> "rows", view |-> {}, out |-> out,
                             saved |-> SavedGhosts(reached)]
  BY RowsRead
<1>0. PICK reached \in SUBSET store, out \in {{}, view.expelled} :
              /\ copy' = {view}
              /\ restore' = [stage |-> "rows", view |-> {}, out |-> out,
                             saved |-> SavedGhosts(reached)]
  BY <1>3
<1>2. view \in View /\ out \subseteq Users
  BY DEF TypeOK, Restore, View
<1>1. restore' \in Restore
  <2>3. reached \subseteq Row
    BY DEF TypeOK
  <2>4. ASSUME NEW w \in reached, NEW d \in w.rooms
        PROVE  [name |-> w.name, nick |-> d.nick, devices |-> d.devices] \in SavedGhost
    <3>1. d \in RoomData /\ w.name \in Names
      BY <2>3, <2>4 DEF Row
    <3> QED
      BY <3>1 DEF RoomData, SavedGhost
  <2>5. SavedGhosts(reached) \subseteq SavedGhost
    BY <2>4 DEF SavedGhosts
  <2> QED
    BY <1>0, <1>2, <2>5 DEF Restore
<1> QED
  BY <1>0, <1>1, <1>2 DEF ReadGhosts, TypeOK, memberVars, joinVars, matrixVars, copyVars

LEMMA RestoreRemovesType ==
    ASSUME TypeOK, NEW u \in Users, RestoreRemoves(u)
    PROVE  TypeOK'
<1>1. restore' \in Restore
  BY DEF RestoreRemoves, TypeOK, Restore
<1>2. members' \subseteq Member /\ byMxid' \in [Mxids -> Users \cup {NoUser}]
  BY RemoveMatrixMemberType DEF RestoreRemoves, TypeOK
<1> QED
  BY <1>1, <1>2 DEF RestoreRemoves, TypeOK, joinVars, matrixVars, copyVars

LEMMA ReconnectType ==
    ASSUME TypeOK, Reconnect
    PROVE  TypeOK'
<1> DEFINE devices == UNION {w.devices : w \in restore.saved}
           back == {u \in Users : devices \cap DevicesOf(u) # {} /\ XmppMemberByRealJid(u) = {}}
<1>1. restore.saved \subseteq SavedGhost
  BY DEF TypeOK, Restore
<1>2. devices \subseteq Devices
  BY <1>1 DEF SavedGhost
<1>3. PICK first \in [back -> restore.saved] :
        /\ members' =
             {WithDevices(m, devices) : m \in members}
             \cup {RestoredMember(u, first[u], devices) : u \in back}
        /\ \E latest \in [{RemoteIdOf(first[u].name) : u \in back} -> back] :
             byMxid' = [x \in Mxids |-> IF x \in DOMAIN latest THEN latest[x] ELSE byMxid[x]]
  BY DEF Reconnect
<1>4. members' \subseteq Member
  <2>1. ASSUME NEW m \in members
        PROVE  WithDevices(m, devices) \in Member
    BY <1>2, WithDevicesFields DEF TypeOK
  <2>2. ASSUME NEW u \in back
        PROVE  RestoredMember(u, first[u], devices) \in Member
    <3>1. first[u] \in SavedGhost
      BY <1>1, <1>3
    <3>2. RemoteIdOf(first[u].name) \in Mxids /\ first[u].nick \in Nicks
      BY <3>1, RemoteIdsOfNames DEF SavedGhost
    <3> QED
      BY <1>2, <3>2 DEF RestoredMember, Member
  <2> QED
    BY <1>3, <2>1, <2>2
<1>5. byMxid' \in [Mxids -> Users \cup {NoUser}]
  BY <1>3 DEF TypeOK
<1>6. restore' \in Restore
  BY DEF Reconnect, NotRestoring, Restore
<1> QED
  BY <1>4, <1>5, <1>6 DEF Reconnect, TypeOK, joinVars, matrixVars, copyVars

LEMMA NextTypeOK ==
    ASSUME TypeOK, [Next]_vars
    PROVE  TypeOK'
<1>1. CASE ClientStep
  BY <1>1, JoinRequestType, JoinUnansweredType, NickChangeType, LeaveType DEF ClientStep
<1>2. CASE JoinStep
  BY <1>2, GhostJoinedType, RoomMappedType, JoinFailedType, TakeStanzaType,
     RefreshRemovesType, CheckNickType, AddJoinerType, FinishRemoteJoinType DEF JoinStep
<1>3. CASE MatrixStep
  BY <1>3, EventType, ModeratorKickType, DeliverKickType, GhostLeftType DEF MatrixStep
<1>4. CASE RestartStep
  BY <1>4, RestartType, AskGhostsType, ReadGhostsType, RestoreRemovesType, ReconnectType
     DEF RestartStep
<1>5. CASE UNCHANGED vars
  BY <1>5 DEF vars, TypeOK
<1> QED
  BY <1>1, <1>2, <1>3, <1>4, <1>5 DEF Next

\* Every variable keeps its type: XJSGateway, GatewayMUCMembership,
\* PresenceCache and the store never hold a value of another shape.
THEOREM TypeCorrect == Spec => []TypeOK
<1>1. Init => TypeOK
  BY InitTypeOK
<1>2. TypeOK /\ [Next]_vars => TypeOK'
  BY NextTypeOK
<1> QED
  BY <1>1, <1>2, PTL DEF Spec

-----------------------------------------------------------------------------
(* The member list.  OneMemberPerUser and ByMxidFindsMembers are inductive *)
(* only together and with the types: that a lookup by real JID finds one   *)
(* member is what keeps the index pointing to it.                          *)

MemberListOK == TypeOK /\ OneMemberPerUser /\ ByMxidFindsMembers

LEMMA InitMemberListOK == Init => MemberListOK
<1>1. Init => OneMemberPerUser
  BY DEF Init, OneMemberPerUser
<1>2. Init => ByMxidFindsMembers
  BY DEF Init, EmptyIndex, ByMxidFindsMembers
<1> QED
  BY <1>1, <1>2, InitTypeOK DEF MemberListOK

\* A step that leaves the list and its index alone.
LEMMA SameMembers ==
    ASSUME OneMemberPerUser, ByMxidFindsMembers, UNCHANGED memberVars
    PROVE  OneMemberPerUser' /\ ByMxidFindsMembers'
BY DEF OneMemberPerUser, ByMxidFindsMembers, memberVars, copyVars

\* Members that only gain devices of their own.
LEMMA GainingDevicesKeepsList ==
    ASSUME MemberListOK, NEW ds \in SUBSET Devices,
           members' = {WithDevices(m, ds) : m \in members},
           byMxid' = byMxid
    PROVE  OneMemberPerUser' /\ ByMxidFindsMembers'
<1>1. ASSUME NEW m \in members
      PROVE  /\ WithDevices(m, ds).realJid = m.realJid
             /\ WithDevices(m, ds).matrixId = m.matrixId
             /\ WithDevices(m, ds).devices = m.devices \cup (ds \cap DevicesOf(m.realJid))
  BY WithDevicesFields DEF MemberListOK, TypeOK
<1>2. ASSUME NEW g1 \in members', NEW g2 \in members', g1.realJid = g2.realJid
      PROVE  g1 = g2
  <2>1. PICK m1 \in members, m2 \in members :
             g1 = WithDevices(m1, ds) /\ g2 = WithDevices(m2, ds)
    OBVIOUS
  <2>2. m1 = m2
    BY <1>1, <1>2, <2>1 DEF MemberListOK, OneMemberPerUser
  <2> QED
    BY <2>1, <2>2
<1>3. ASSUME NEW g \in members'
      PROVE  g.devices # {} /\ g.devices \subseteq {g.realJid} \X Resources
  <2>1. PICK m \in members : g = WithDevices(m, ds)
    OBVIOUS
  <2>2. g.realJid = m.realJid /\ g.devices = m.devices \cup (ds \cap DevicesOf(m.realJid))
    BY <1>1, <2>1
  <2>3. m.devices # {} /\ m.devices \subseteq {m.realJid} \X Resources
    BY DEF MemberListOK, OneMemberPerUser
  <2> QED
    BY <2>2, <2>3 DEF DevicesOf
<1>4. ByMxidFindsMembers'
  <2> SUFFICES ASSUME NEW x \in Mxids, byMxid[x] # NoUser
               PROVE  \E g \in members' : g.realJid = byMxid[x] /\ g.matrixId = x
    BY DEF ByMxidFindsMembers
  <2>1. PICK m \in members : m.realJid = byMxid[x] /\ m.matrixId = x
    BY DEF MemberListOK, ByMxidFindsMembers
  <2> WITNESS WithDevices(m, ds) \in members'
  <2> QED
    BY <1>1, <2>1
<1> QED
  BY <1>2, <1>3, <1>4 DEF OneMemberPerUser

LEMMA AddMemberKeepsList ==
    ASSUME MemberListOK,
           NEW d \in Devices, NEW n \in Nicks, NEW x \in Mxids,
           AddXmppMember(d, n, x)
    PROVE  OneMemberPerUser' /\ ByMxidFindsMembers'
<1>0. d[1] \in Users /\ d \in {d[1]} \X Resources
  BY DEF Devices
<1>1. CASE XmppMemberByRealJid(d[1]) # {}
  <2>1. members' = {WithDevices(m, {d}) : m \in members} /\ byMxid' = byMxid
    BY <1>1 DEF AddXmppMember
  <2> QED
    BY <2>1, GainingDevicesKeepsList
<1>2. CASE XmppMemberByRealJid(d[1]) = {}
  <2> DEFINE new == [realJid |-> d[1], matrixId |-> x, nick |-> n, devices |-> {d}]
  <2>1. members' = members \cup {new} /\ byMxid' = [byMxid EXCEPT ![x] = d[1]]
    BY <1>2 DEF AddXmppMember, Indexed
  <2>2. new.realJid = d[1] /\ new.matrixId = x /\ new.devices = {d}
    OBVIOUS
  <2>3. \A m \in members : m.realJid # d[1]
    BY <1>2 DEF XmppMemberByRealJid
  <2> HIDE DEF new
  <2>4. OneMemberPerUser'
    <3>1. \A m1, m2 \in members' : m1.realJid = m2.realJid => m1 = m2
      BY <2>1, <2>2, <2>3 DEF MemberListOK, OneMemberPerUser
    <3>2. new.devices # {} /\ new.devices \subseteq {new.realJid} \X Resources
      BY <1>0, <2>2
    <3> QED
      BY <2>1, <3>1, <3>2 DEF MemberListOK, OneMemberPerUser
  <2>5. ByMxidFindsMembers'
    <3> SUFFICES ASSUME NEW y \in Mxids, byMxid'[y] # NoUser
                 PROVE  \E m \in members' : m.realJid = byMxid'[y] /\ m.matrixId = y
      BY DEF ByMxidFindsMembers
    <3>1. CASE y = x
      BY <2>1, <2>2, <3>1 DEF MemberListOK, TypeOK
    <3>2. CASE y # x
      BY <2>1, <3>2 DEF MemberListOK, TypeOK, ByMxidFindsMembers
    <3> QED
      BY <3>1, <3>2
  <2> QED
    BY <2>4, <2>5
<1> QED
  BY <1>1, <1>2

LEMMA DeleteMemberKeepsList ==
    ASSUME MemberListOK, NEW m \in members, DeleteMember(m)
    PROVE  OneMemberPerUser' /\ ByMxidFindsMembers'
<1>1. members' = members \ {m} /\ byMxid' = [byMxid EXCEPT ![m.matrixId] = NoUser]
  BY DEF DeleteMember, Unindexed
<1>2. OneMemberPerUser'
  BY <1>1 DEF MemberListOK, OneMemberPerUser
<1>3. ByMxidFindsMembers'
  BY <1>1 DEF MemberListOK, TypeOK, ByMxidFindsMembers
<1> QED
  BY <1>2, <1>3

LEMMA RemoveDeviceKeepsList ==
    ASSUME MemberListOK, NEW m \in members, NEW d, RemoveDevice(m, d)
    PROVE  OneMemberPerUser' /\ ByMxidFindsMembers'
<1>1. CASE IsLastDevice(m, d)
  BY <1>1, DeleteMemberKeepsList DEF RemoveDevice
<1>2. CASE ~IsLastDevice(m, d)
  <2> DEFINE left == [m EXCEPT !.devices = @ \ {d}]
  <2>1. members' = (members \ {m}) \cup {left} /\ byMxid' = byMxid
    BY <1>2 DEF RemoveDevice
  <2>2. /\ left.realJid = m.realJid /\ left.matrixId = m.matrixId
        /\ left.devices = m.devices \ {d} /\ left.devices # {}
    <3>1. m \in Member
      BY DEF MemberListOK, TypeOK
    <3> QED
      BY <1>2, <3>1 DEF Member, IsLastDevice
  <2>3. OneMemberPerUser'
    BY <2>1, <2>2 DEF MemberListOK, OneMemberPerUser
  <2>4. ByMxidFindsMembers'
    BY <2>1, <2>2 DEF MemberListOK, ByMxidFindsMembers
  <2> QED
    BY <2>3, <2>4
<1> QED
  BY <1>1, <1>2

LEMMA RestoredMemberFields ==
    ASSUME NEW u, NEW w, NEW ds
    PROVE  LET m == RestoredMember(u, w, ds)
           IN  /\ m.realJid = u /\ m.matrixId = RemoteIdOf(w.name)
               /\ m.devices = ds \cap DevicesOf(u)
BY DEF RestoredMember

\* Restored users join a list that has no member of theirs; those who came
\* back on their own meanwhile only gain devices.
LEMMA ReconnectKeepsList ==
    ASSUME MemberListOK, Reconnect
    PROVE  OneMemberPerUser' /\ ByMxidFindsMembers'
<1> DEFINE ds == UNION {w.devices : w \in restore.saved}
           back == {u \in Users : ds \cap DevicesOf(u) # {} /\ XmppMemberByRealJid(u) = {}}
           grown == {WithDevices(m, ds) : m \in members}
<1>1. ds \in SUBSET Devices
  BY DEF MemberListOK, TypeOK, Restore, SavedGhost
<1>2. PICK first \in [back -> restore.saved] :
        /\ members' = grown \cup {RestoredMember(u, first[u], ds) : u \in back}
        /\ \E latest \in [{RemoteIdOf(first[u].name) : u \in back} -> back] :
             /\ \A x \in DOMAIN latest : x = RemoteIdOf(first[latest[x]].name)
             /\ byMxid' = [x \in Mxids |-> IF x \in DOMAIN latest THEN latest[x] ELSE byMxid[x]]
  BY DEF Reconnect
<1>3. PICK latest \in [{RemoteIdOf(first[u].name) : u \in back} -> back] :
        /\ \A x \in DOMAIN latest : x = RemoteIdOf(first[latest[x]].name)
        /\ byMxid' = [x \in Mxids |-> IF x \in DOMAIN latest THEN latest[x] ELSE byMxid[x]]
  BY <1>2
<1>4. ASSUME NEW m \in members
      PROVE  /\ WithDevices(m, ds).realJid = m.realJid
             /\ WithDevices(m, ds).matrixId = m.matrixId
             /\ WithDevices(m, ds).devices = m.devices \cup (ds \cap DevicesOf(m.realJid))
  BY <1>1, WithDevicesFields DEF MemberListOK, TypeOK
<1>5. \A u \in back : u \in Users /\ ds \cap DevicesOf(u) # {}
                      /\ \A m \in members : m.realJid # u
  BY DEF XmppMemberByRealJid
<1> HIDE DEF ds, back
<1>6. ASSUME NEW g \in members'
      PROVE  \/ \E m \in members : g = WithDevices(m, ds) /\ g.realJid = m.realJid
             \/ \E u \in back : g = RestoredMember(u, first[u], ds) /\ g.realJid = u
  BY <1>2, <1>4, RestoredMemberFields
<1>7. ASSUME NEW g1 \in members', NEW g2 \in members', g1.realJid = g2.realJid
      PROVE  g1 = g2
  BY <1>5, <1>6, <1>7 DEF MemberListOK, OneMemberPerUser
<1>8. ASSUME NEW g \in members'
      PROVE  g.devices # {} /\ g.devices \subseteq {g.realJid} \X Resources
  <2>1. CASE \E m \in members : g = WithDevices(m, ds)
    <3>1. PICK m \in members : g = WithDevices(m, ds)
      BY <2>1
    <3>2. m.devices # {} /\ m.devices \subseteq {m.realJid} \X Resources
      BY DEF MemberListOK, OneMemberPerUser
    <3> QED
      BY <1>4, <3>1, <3>2 DEF DevicesOf
  <2>2. CASE \E u \in back : g = RestoredMember(u, first[u], ds)
    <3>1. PICK u \in back : g = RestoredMember(u, first[u], ds)
      BY <2>2
    <3>2. g.realJid = u /\ g.devices = ds \cap DevicesOf(u)
      BY <3>1, RestoredMemberFields
    <3> QED
      BY <1>5, <3>2 DEF DevicesOf
  <2> QED
    BY <1>6, <2>1, <2>2
<1>9. ASSUME NEW x \in Mxids, byMxid'[x] # NoUser
      PROVE  \E g \in members' : g.realJid = byMxid'[x] /\ g.matrixId = x
  <2>1. CASE x \in DOMAIN latest
    <3>1. latest[x] \in back /\ byMxid'[x] = latest[x]
      BY <1>3, <2>1
    <3> DEFINE g == RestoredMember(latest[x], first[latest[x]], ds)
    <3>2. g \in members'
      BY <1>2, <3>1
    <3>3. g.realJid = latest[x] /\ g.matrixId = x
      BY <1>3, <2>1, RestoredMemberFields
    <3> QED
      BY <3>1, <3>2, <3>3
  <2>2. CASE x \notin DOMAIN latest
    <3>1. byMxid'[x] = byMxid[x]
      BY <1>3, <2>2
    <3>2. PICK m \in members : m.realJid = byMxid[x] /\ m.matrixId = x
      BY <1>9, <3>1 DEF MemberListOK, ByMxidFindsMembers
    <3> QED
      BY <1>2, <1>4, <3>1, <3>2
  <2> QED
    BY <2>1, <2>2
<1> QED
  BY <1>7, <1>8, <1>9 DEF OneMemberPerUser, ByMxidFindsMembers

LEMMA LeaveKeepsList ==
    ASSUME MemberListOK, NEW c \in claims, Leave(c)
    PROVE  OneMemberPerUser' /\ ByMxidFindsMembers'
<1>1. CASE presence[c.nick].online /\ XmppMemberByRealJid(c.user) # {}
  <2>1. PICK m \in members : RemoveDevice(m, <<c.user, c.res>>)
    BY <1>1 DEF Leave, RemoteLeft, XmppMemberByRealJid
  <2> QED
    BY <2>1, RemoveDeviceKeepsList
<1>2. CASE ~(presence[c.nick].online /\ XmppMemberByRealJid(c.user) # {})
  BY <1>2, SameMembers DEF Leave, MemberListOK
<1> QED
  BY <1>1, <1>2

LEMMA DeliverKickKeepsList ==
    ASSUME MemberListOK, NEW u \in Users, DeliverKick(u)
    PROVE  OneMemberPerUser' /\ ByMxidFindsMembers'
<1>1. CASE XmppMemberByMatrixId(MxidOf(u)) = {}
  BY <1>1, SameMembers DEF DeliverKick, MemberListOK
<1>2. CASE XmppMemberByMatrixId(MxidOf(u)) # {}
  <2>1. PICK m \in members : DeleteMember(m)
    BY <1>2 DEF DeliverKick, XmppMemberByMatrixId
  <2> QED
    BY <2>1, DeleteMemberKeepsList
<1> QED
  BY <1>1, <1>2

LEMMA RemoveMatrixMemberKeepsList ==
    ASSUME MemberListOK, NEW x, RemoveMatrixMember(x)
    PROVE  OneMemberPerUser' /\ ByMxidFindsMembers'
<1>1. CASE UNCHANGED memberVars
  BY <1>1, SameMembers DEF MemberListOK
<1>2. CASE \E m \in members : DeleteMember(m)
  BY <1>2, DeleteMemberKeepsList
<1> QED
  BY <1>1, <1>2 DEF RemoveMatrixMember, XmppMemberByMatrixId

LEMMA AddJoinerKeepsList ==
    ASSUME MemberListOK, NEW e \in entering, AddJoiner(e)
    PROVE  OneMemberPerUser' /\ ByMxidFindsMembers'
<1>1. e \in Entrance
  BY DEF MemberListOK, TypeOK
<1>2. <<e.user, e.res>> \in Devices /\ e.nick \in Nicks /\ MxidOf(e.sender) \in Mxids
  BY <1>1, MxidsOfUsers DEF Entrance, Devices
<1> QED
  BY <1>2, AddMemberKeepsList DEF AddJoiner

LEMMA RestartKeepsList ==
    ASSUME Restart
    PROVE  OneMemberPerUser' /\ ByMxidFindsMembers'
BY DEF Restart, EmptyIndex, OneMemberPerUser, ByMxidFindsMembers

LEMMA NextMemberListOK ==
    ASSUME MemberListOK, [Next]_vars
    PROVE  MemberListOK'
<1>1. TypeOK'
  BY NextTypeOK DEF MemberListOK
<1>2. CASE UNCHANGED memberVars
  BY <1>1, <1>2, SameMembers DEF MemberListOK
<1>3. CASE ClientStep
  <2>1. CASE \E c \in claims : Leave(c)
    BY <1>1, <2>1, LeaveKeepsList DEF MemberListOK
  <2>2. ASSUME NEW u, NEW r, NEW n, NEW id,
               JoinRequest(u, r, n, id) \/ JoinDropped(u, r, n) \/ JoinIgnored(u, r, n) \/ NickChange(u, r, n)
        PROVE  MemberListOK'
    BY <1>2, <2>2 DEF JoinRequest, JoinDropped, JoinIgnored, NickChange
  <2> QED
    BY <1>3, <2>1, <2>2 DEF ClientStep
<1>4. CASE JoinStep
  <2>1. CASE \E e \in entering : AddJoiner(e)
    BY <1>1, <2>1, AddJoinerKeepsList DEF MemberListOK
  <2>2. CASE UNCHANGED memberVars
    BY <1>2, <2>2
  <2>3. CASE \E e \in entering, u \in Users : RefreshRemoves(e, u)
    BY <1>1, <2>3, RemoveMatrixMemberKeepsList DEF RefreshRemoves, MemberListOK
  <2>4. ASSUME NEW j, GhostJoined(j) \/ RoomMapped(j) \/ JoinFailed(j) \/ TakeStanza(j)
        PROVE  UNCHANGED memberVars
    BY <2>4 DEF GhostJoined, RoomMapped, JoinFailed, TakeStanza
  <2>5. ASSUME NEW e, CheckNick(e) \/ FinishRemoteJoin(e)
        PROVE  UNCHANGED memberVars
    BY <2>5 DEF CheckNick, FinishRemoteJoin
  <2> QED
    BY <1>4, <2>1, <2>2, <2>3, <2>4, <2>5 DEF JoinStep
<1>5. CASE MatrixStep
  <2>1. CASE \E u \in Users : DeliverKick(u)
    BY <1>1, <2>1, DeliverKickKeepsList DEF MemberListOK
  <2>2. CASE UNCHANGED memberVars
    BY <1>2, <2>2
  <2> QED
    BY <1>5, <2>1, <2>2 DEF MatrixStep, EventAsks, EventHydrates, ModeratorKick, GhostLeft
<1>6. CASE RestartStep
  BY <1>1, <1>2, <1>6, RestartKeepsList, ReconnectKeepsList, RemoveMatrixMemberKeepsList
     DEF RestartStep, AskGhosts, ReadGhosts, RestoreRemoves, MemberListOK
<1>7. CASE UNCHANGED vars
  BY <1>2, <1>7 DEF vars, memberVars, copyVars
<1> QED
  BY <1>3, <1>4, <1>5, <1>6, <1>7 DEF Next

THEOREM MemberListCorrect == Spec => []MemberListOK
<1>1. Init => MemberListOK
  BY InitMemberListOK
<1>2. MemberListOK /\ [Next]_vars => MemberListOK'
  BY NextMemberListOK
<1> QED
  BY <1>1, <1>2, PTL DEF Spec

\* GatewayMUCMembership never lists a user twice, nor without a device, nor
\* with a device of somebody else: the first match of a lookup is the only one.
THEOREM OneMemberPerUserHolds == Spec => []OneMemberPerUser
<1>1. MemberListOK => OneMemberPerUser
  BY DEF MemberListOK
<1> QED
  BY <1>1, MemberListCorrect, PTL

\* ChatMembers.byMxid never leads to somebody who is not in the room.
THEOREM ByMxidFindsMembersHolds == Spec => []ByMxidFindsMembers
<1>1. MemberListOK => ByMxidFindsMembers
  BY DEF MemberListOK
<1> QED
  BY <1>1, MemberListCorrect, PTL

-----------------------------------------------------------------------------
(* Parting                                                                 *)

LEMMA RemoveLastDevice ==
    ASSUME MemberListOK, NEW m \in members, NEW d,
           IsLastDevice(m, d), RemoveDevice(m, d)
    PROVE  \A x \in members' : x.realJid # m.realJid
BY DEF RemoveDevice, DeleteMember, MemberListOK, OneMemberPerUser

\* handleStanza emits chat-user-left, which parts the ghost, only when the
\* member is gone.  (The other parting, after a failed join, is what the
\* assumption excludes: with it the property does not hold.)
THEOREM PartsOnlyAbsentUsersHolds ==
    ASSUME "fail" \notin Environment
    PROVE  Spec => PartsOnlyAbsentUsers
<1> DEFINE Started(u) == leaveCalls'[u] > leaveCalls[u]
           Absent(u) == \A m \in members' : m.realJid # u
<1>1. ASSUME MemberListOK, [Next]_vars, NEW u \in Users, Started(u)
      PROVE  Absent(u)
  <2>0. leaveCalls \in [Users -> Nat]
    BY <1>1 DEF MemberListOK, TypeOK
  <2>1. leaveCalls' # leaveCalls
    BY <1>1, <2>0
  <2>2. PICK c \in claims : Leave(c)
    <3>1. ~UNCHANGED vars
      BY <2>1 DEF vars
    <3>2. ~JoinStep
      <4>1. ASSUME NEW j, GhostJoined(j) \/ RoomMapped(j) \/ JoinFailed(j) \/ TakeStanza(j)
            PROVE  FALSE
        BY <2>1, <4>1 DEF GhostJoined, RoomMapped, JoinFailed, TakeStanza, matrixVars
      <4>2. ASSUME NEW e, NEW v, RefreshRemoves(e, v) \/ CheckNick(e) \/ AddJoiner(e)
                                 \/ FinishRemoteJoin(e)
            PROVE  FALSE
        BY <2>1, <4>2 DEF RefreshRemoves, CheckNick, AddJoiner, FinishRemoteJoin, matrixVars
      <4> QED
        BY <4>1, <4>2 DEF JoinStep
    <3>6. ~EventAsks /\ ~EventHydrates
      BY <2>1 DEF EventAsks, EventHydrates, matrixVars, copyVars
    <3>3. ASSUME NEW v \in Users, ModeratorKick(v) \/ DeliverKick(v) \/ GhostLeft(v)
          PROVE  FALSE
      BY <1>1, <2>0, <2>1, <3>3 DEF ModeratorKick, DeliverKick, GhostLeft
    <3>4. ~RestartStep
      BY <1>1, <2>0, <2>1 DEF RestartStep, Restart, AskGhosts, ReadGhosts, RestoreRemoves,
                              Reconnect, matrixVars, copyVars, NoCalls
    <3>5. ASSUME NEW v, NEW r, NEW n, NEW id,
                 JoinRequest(v, r, n, id) \/ JoinDropped(v, r, n) \/ JoinIgnored(v, r, n) \/ NickChange(v, r, n)
          PROVE  FALSE
      BY <2>1, <3>5 DEF JoinRequest, JoinDropped, JoinIgnored, NickChange, matrixVars, copyVars
    <3> QED
      BY <1>1, <3>1, <3>2, <3>3, <3>4, <3>5, <3>6 DEF Next, ClientStep, MatrixStep
  <2>3. RemoteLeft(c.user, c.res)
    BY <2>1, <2>2 DEF Leave
  <2>4. PICK m \in members :
           /\ m.realJid = c.user
           /\ RemoveDevice(m, <<c.user, c.res>>)
           /\ IF Parts(m, <<c.user, c.res>>) THEN StartLeave(c.user) ELSE UNCHANGED leaveCalls
    BY <2>3 DEF RemoteLeft, XmppMemberByRealJid
  <2>5. IsLastDevice(m, <<c.user, c.res>>) /\ u = c.user
    BY <1>1, <2>0, <2>1, <2>4 DEF Parts, StartLeave
  <2> QED
    BY <1>1, <2>4, <2>5, RemoveLastDevice
<1>2. MemberListOK /\ [Next]_vars => [\A u \in Users : Started(u) => Absent(u)]_vars
  BY <1>1
<1> QED
  BY <1>2, MemberListCorrect, PTL DEF Spec, PartsOnlyAbsentUsers

-----------------------------------------------------------------------------
(* Joins under way                                                         *)
(*                                                                         *)
(* The stanza cache and the joins under way belong together.  What keeps   *)
(* them so is that the id of a stanza names one join: handleRoomJoin hands *)
(* onRemoteJoin an id only, and whatever is cached under it is taken.      *)
(*                                                                         *)
(* For one user the same pairing accounts for its ghost: who is in the     *)
(* Matrix room is a member, on the way to be one, or being parted.         *)

\* No two joins share an id.
JoinIdsUnique == \A i, j \in joins : i.id = j.id => i = j

Awaited(s) == \E j \in joins : j.id = s.id /\ j.sender = s.user
HasStanza(j) == \E s \in stanzaCache : s.id = j.id

AwaitInv ==
    /\ JoinIdsUnique
    /\ \A s \in stanzaCache : Awaited(s)
    /\ \A j \in joins : HasStanza(j)

LEMMA InitAwaitInv == Init => AwaitInv
BY DEF Init, AwaitInv, JoinIdsUnique, Awaited, HasStanza

-----------------------------------------------------------------------------

LEMMA JoinRequestAwaited ==
    ASSUME TypeOK, AwaitInv, NEW u \in Users, NEW r \in Resources, NEW n \in Nicks,
           NEW id \in JoinIds, JoinRequest(u, r, n, id)
    PROVE  AwaitInv'
<1> DEFINE st == [id |-> id, user |-> u, res |-> r, nick |-> n]
           jn == [id |-> id, sender |-> u, stage |-> "joining", view |-> {}]
<1>1. \A j \in joins : j.id # id
  BY DEF JoinRequest, BusyIds
<1>2. \A s \in stanzaCache : s.id # id
  BY <1>1 DEF AwaitInv, Awaited
<1>3. stanzaCache' = stanzaCache \cup {st} /\ joins' = joins \cup {jn}
  BY <1>2 DEF JoinRequest, CachedStanza
<1>4. st.id = id /\ st.user = u /\ jn.id = id /\ jn.sender = u
  OBVIOUS
<1> HIDE DEF st, jn
<1>5. JoinIdsUnique'
  BY <1>1, <1>3, <1>4 DEF AwaitInv, JoinIdsUnique
<1>6. (\A s \in stanzaCache : Awaited(s))'
  BY <1>3, <1>4 DEF AwaitInv, Awaited
<1>7. (\A j \in joins : HasStanza(j))'
  BY <1>3, <1>4 DEF AwaitInv, HasStanza
<1> QED
  BY <1>5, <1>6, <1>7 DEF AwaitInv

\* A join that goes on keeps its id and its sender.
GoesOn(j, moved) == joins' = (joins \ {j}) \cup {moved} /\ moved.id = j.id /\ moved.sender = j.sender

LEMMA AdvanceGoesOn ==
    ASSUME TypeOK, NEW j \in joins, GhostJoined(j) \/ RoomMapped(j)
    PROVE  \E moved : GoesOn(j, moved)
<1>1. j \in Join
  BY DEF TypeOK
<1>2. CASE GhostJoined(j)
  <2>1. PICK moved : moved = [j EXCEPT !.stage = "joined"]
    OBVIOUS
  <2>2. moved.id = j.id /\ moved.sender = j.sender
    BY <1>1, <2>1 DEF Join
  <2> QED
    BY <1>2, <2>1, <2>2 DEF GhostJoined, Advance, GoesOn
<1>3. CASE RoomMapped(j)
  <2>1. PICK moved : moved = [j EXCEPT !.stage = "mapped", !.view = {RoomState}]
    OBVIOUS
  <2>2. moved.id = j.id /\ moved.sender = j.sender
    BY <1>1, <2>1 DEF Join
  <2> QED
    BY <1>3, <2>1, <2>2 DEF RoomMapped, GoesOn
<1> QED
  BY <1>2, <1>3

LEMMA AdvanceAwaited ==
    ASSUME TypeOK, AwaitInv, NEW j \in joins, NEW moved, GoesOn(j, moved),
           stanzaCache' = stanzaCache
    PROVE  AwaitInv'
<1> USE DEF GoesOn
<1>3. JoinIdsUnique'
  BY DEF AwaitInv, JoinIdsUnique
<1>4. (\A s \in stanzaCache : Awaited(s))'
  BY DEF AwaitInv, Awaited
<1>5. (\A i \in joins : HasStanza(i))'
  BY DEF AwaitInv, HasStanza
<1> QED
  BY <1>3, <1>4, <1>5 DEF AwaitInv

\* A join that ends, well or badly, takes its stanza along, and no other's.
LEMMA EndAwaited ==
    ASSUME AwaitInv, NEW j \in joins,
           joins' = joins \ {j}, stanzaCache' = StanzaTaken(j.id)
    PROVE  AwaitInv'
<1>1. stanzaCache' = {s \in stanzaCache : s.id # j.id}
  BY DEF StanzaTaken, CachedStanza
<1>2. JoinIdsUnique'
  BY DEF AwaitInv, JoinIdsUnique
<1>3. (\A s \in stanzaCache : Awaited(s))'
  BY <1>1 DEF AwaitInv, Awaited
<1>4. (\A i \in joins : HasStanza(i))'
  BY <1>1 DEF AwaitInv, JoinIdsUnique, HasStanza
<1> QED
  BY <1>2, <1>3, <1>4 DEF AwaitInv

LEMMA SameJoins ==
    ASSUME AwaitInv, UNCHANGED <<joins, stanzaCache>>
    PROVE  AwaitInv'
BY DEF AwaitInv, JoinIdsUnique, Awaited, HasStanza

LEMMA NextAwaitInv ==
    ASSUME TypeOK, AwaitInv, [Next]_vars
    PROVE  AwaitInv'
<1>1. CASE ClientStep
  <2>1. ASSUME NEW u \in Users, NEW r \in Resources, NEW n \in Nicks, NEW id \in JoinIds,
               JoinRequest(u, r, n, id)
        PROVE  AwaitInv'
    BY <2>1, JoinRequestAwaited
  <2>2. ASSUME NEW u, NEW r, NEW n,
               JoinDropped(u, r, n) \/ JoinIgnored(u, r, n) \/ NickChange(u, r, n)
        PROVE  AwaitInv'
    BY <2>2, SameJoins DEF JoinDropped, JoinIgnored, NickChange, joinVars, copyVars
  <2>3. ASSUME NEW c \in claims, Leave(c)
        PROVE  AwaitInv'
    BY <2>3, SameJoins DEF Leave, joinVars, copyVars
  <2> QED
    BY <1>1, <2>1, <2>2, <2>3 DEF ClientStep
<1>2. CASE JoinStep
  <2>1. ASSUME NEW j \in joins, GhostJoined(j) \/ RoomMapped(j)
        PROVE  AwaitInv'
    <3>1. PICK moved : GoesOn(j, moved)
      BY <2>1, AdvanceGoesOn
    <3>2. stanzaCache' = stanzaCache
      BY <2>1 DEF GhostJoined, RoomMapped
    <3> QED
      BY <3>1, <3>2, AdvanceAwaited
  <2>2. ASSUME NEW j \in joins, JoinFailed(j) \/ TakeStanza(j)
        PROVE  AwaitInv'
    BY <2>2, EndAwaited DEF JoinFailed, TakeStanza
  <2>3. ASSUME NEW e \in entering, NEW u,
               RefreshRemoves(e, u) \/ CheckNick(e) \/ AddJoiner(e) \/ FinishRemoteJoin(e)
        PROVE  AwaitInv'
    BY <2>3, SameJoins DEF RefreshRemoves, CheckNick, AddJoiner, FinishRemoteJoin
  <2> QED
    BY <1>2, <2>1, <2>2, <2>3 DEF JoinStep
<1>3. CASE MatrixStep
  BY <1>3, SameJoins
     DEF MatrixStep, EventAsks, EventHydrates, ModeratorKick, DeliverKick, GhostLeft, joinVars, copyVars
<1>4. CASE RestartStep
  <2>1. CASE Restart
    BY <2>1 DEF Restart, AwaitInv, JoinIdsUnique, Awaited, HasStanza
  <2>2. CASE ~Restart
    BY <1>4, <2>2, SameJoins
       DEF RestartStep, AskGhosts, ReadGhosts, RestoreRemoves, Reconnect, joinVars, copyVars
  <2> QED
    BY <2>1, <2>2
<1>5. CASE UNCHANGED vars
  BY <1>5, SameJoins DEF vars
<1> QED
  BY <1>1, <1>2, <1>3, <1>4, <1>5 DEF Next

-----------------------------------------------------------------------------

\* Every cached stanza belongs to a join of its sender that is on its way to
\* onRemoteJoin, and every such join has its stanza in the cache: whichever
\* joins fail, are left early or are cut off by a restart.
THEOREM CachedStanzasAreAwaitedHolds == Spec => []CachedStanzasAreAwaited
<1>1. TypeOK /\ AwaitInv /\ [Next]_vars => AwaitInv'
  BY NextAwaitInv
<1>2. AwaitInv => CachedStanzasAreAwaited
  BY DEF AwaitInv, Awaited, HasStanza, CachedStanzasAreAwaited, CachedStanza
<1> QED
  BY <1>1, <1>2, InitAwaitInv, TypeCorrect, PTL DEF Spec

-----------------------------------------------------------------------------
(* Outcasts are made by kicks only: what is held against a user anywhere,  *)
(* in a copy of the room's state or in an update of the member list, comes *)
(* from a state of the room in which it had been put out.                  *)

LEMMA OutcastsHold ==
    /\ expelled \subseteq Outcasts /\ restore.out \subseteq Outcasts
    /\ \A e \in entering : e.out \subseteq Outcasts
    /\ \A v \in copy : v.expelled \subseteq Outcasts
    /\ \A v \in answer : v.expelled \subseteq Outcasts
    /\ \A v \in restore.view : v.expelled \subseteq Outcasts
    /\ \A j \in joins : \A v \in j.view : v.expelled \subseteq Outcasts
<1>1. expelled \subseteq Outcasts /\ restore.out \subseteq Outcasts
  BY DEF Outcasts
<1>2. \A e \in entering : e.out \subseteq Outcasts
  BY DEF Outcasts
<1>3. ASSUME NEW v \in Views, NEW u \in v.expelled
      PROVE  u \in Outcasts
  <2>1. u \in UNION {w.expelled : w \in Views}
    OBVIOUS
  <2> QED
    BY <2>1 DEF Outcasts
<1>4. copy \subseteq Views /\ answer \subseteq Views /\ restore.view \subseteq Views
  BY DEF Views
<1>5. \A j \in joins : j.view \subseteq Views
  BY DEF Views
<1> QED
  BY <1>1, <1>2, <1>3, <1>4, <1>5

\* What a step takes over from the state before it, as a whole.
Inherits ==
    /\ expelled' \subseteq Outcasts /\ restore'.out \subseteq Outcasts
    /\ \A e \in entering' : e.out \subseteq Outcasts
    /\ \A v \in copy' \cup answer' \cup restore'.view : v.expelled \subseteq Outcasts
    /\ \A j \in joins' : \A v \in j.view : v.expelled \subseteq Outcasts

LEMMA InheritsOutcasts ==
    ASSUME Inherits
    PROVE  Outcasts' \subseteq Outcasts
<1>1. \A v \in Views' : v.expelled \subseteq Outcasts
  BY DEF Inherits, Views
<1>2. \A e \in entering' : e.out \subseteq Outcasts
  BY DEF Inherits
<1>3. expelled' \subseteq Outcasts /\ restore'.out \subseteq Outcasts
  BY DEF Inherits
<1>4. Outcasts' = expelled' \cup restore'.out \cup (UNION {e.out : e \in entering'})
                  \cup (UNION {v.expelled : v \in Views'})
  BY DEF Outcasts
<1>5. ASSUME NEW u \in UNION {v.expelled : v \in Views'}
      PROVE  u \in Outcasts
  BY <1>1
<1>6. ASSUME NEW u \in UNION {e.out : e \in entering'}
      PROVE  u \in Outcasts
  BY <1>2
<1> HIDE DEF Outcasts, Views
<1> QED
  BY <1>3, <1>4, <1>5, <1>6

LEMMA SameOutcasts ==
    ASSUME UNCHANGED <<expelled, restore, entering, copy, answer, joins>>
    PROVE  Outcasts' = Outcasts
BY DEF Outcasts, Views

LEMMA RoomStateExpels == RoomState.expelled = expelled
BY DEF RoomState

\* A join or an entrance that goes on holds nothing more against anybody.
LEMMA JoinsInherit ==
    ASSUME TypeOK, NEW j \in joins,
           GhostJoined(j) \/ RoomMapped(j) \/ JoinFailed(j) \/ TakeStanza(j)
    PROVE  Inherits
<1>0. j \in Join
  BY DEF TypeOK
<1> USE OutcastsHold
<1>1. CASE GhostJoined(j)
  <2> DEFINE moved == [j EXCEPT !.stage = "joined"]
  <2>1. moved.view = j.view
    BY <1>0 DEF Join
  <2>2. joins' = (joins \ {j}) \cup {moved}
    BY <1>1 DEF GhostJoined, Advance
  <2>3. \A i \in joins' : \A v \in i.view : v.expelled \subseteq Outcasts
    BY <2>1, <2>2
  <2> QED
    BY <1>1, <2>3 DEF GhostJoined, copyVars, Inherits
<1>2. CASE RoomMapped(j)
  <2> DEFINE moved == [j EXCEPT !.stage = "mapped", !.view = {RoomState}]
  <2>1. moved.view = {RoomState}
    BY <1>0 DEF Join
  <2>2. joins' = (joins \ {j}) \cup {moved}
    BY <1>2 DEF RoomMapped
  <2> HIDE DEF moved
  <2>3. \A i \in joins' : \A v \in i.view : v.expelled \subseteq Outcasts
    BY <2>1, <2>2, RoomStateExpels
  <2> QED
    BY <1>2, <2>3 DEF RoomMapped, matrixVars, copyVars, Inherits
<1>3. CASE JoinFailed(j)
  <2>1. copy' \subseteq copy /\ joins' \subseteq joins
    BY <1>3 DEF JoinFailed
  <2> QED
    BY <1>3, <2>1 DEF JoinFailed, Inherits
<1>4. CASE TakeStanza(j)
  <2>1. PICK view \in IF j.stage = "mapped" THEN j.view ELSE copy :
          /\ copy' = {view}
          /\ entering' = entering \cup
                 {[id |-> j.id, user |-> s.user, res |-> s.res, nick |-> s.nick,
                   sender |-> j.sender, stage |-> "checking", out |-> view.expelled] :
                      s \in CachedStanza(j.id)}
    BY <1>4 DEF TakeStanza
  <2>2. view.expelled \subseteq Outcasts
    OBVIOUS
  <2>3. \A e \in entering' : e.out \subseteq Outcasts
    BY <2>1, <2>2
  <2>4. joins' \subseteq joins
    BY <1>4 DEF TakeStanza
  <2> QED
    BY <1>4, <2>1, <2>2, <2>3, <2>4 DEF TakeStanza, matrixVars, Inherits
<1> QED
  BY <1>1, <1>2, <1>3, <1>4

LEMMA EntrancesInherit ==
    ASSUME TypeOK, NEW e \in entering, NEW u,
           RefreshRemoves(e, u) \/ CheckNick(e) \/ AddJoiner(e) \/ FinishRemoteJoin(e)
    PROVE  Inherits
<1>0. e \in Entrance
  BY DEF TypeOK
<1> USE OutcastsHold
<1>1. UNCHANGED <<expelled, restore, copy, answer, joins>>
  BY DEF RefreshRemoves, CheckNick, AddJoiner, FinishRemoteJoin, matrixVars, copyVars
<1>2. \A x \in entering' : x.out \subseteq Outcasts
  <2>1. CASE RefreshRemoves(e, u)
    <3>1. [e EXCEPT !.out = @ \ {u}].out \subseteq e.out
      BY <1>0 DEF Entrance
    <3> QED
      BY <2>1, <3>1 DEF RefreshRemoves
  <2>2. ASSUME NEW stage, entering' \subseteq entering \cup {[e EXCEPT !.stage = stage]}
        PROVE  \A x \in entering' : x.out \subseteq Outcasts
    <3>1. [e EXCEPT !.stage = stage].out = e.out
      BY <1>0 DEF Entrance
    <3> QED
      BY <2>2, <3>1
  <2>3. CASE CheckNick(e)
    BY <2>2, <2>3 DEF CheckNick
  <2>4. CASE AddJoiner(e)
    BY <2>2, <2>4 DEF AddJoiner
  <2>5. CASE FinishRemoteJoin(e)
    BY <2>5 DEF FinishRemoteJoin
  <2> QED
    BY <2>1, <2>3, <2>4, <2>5
<1> QED
  BY <1>1, <1>2 DEF Inherits

LEMMA ClientsInherit ==
    ASSUME ClientStep
    PROVE  Inherits
<1> USE OutcastsHold
<1>1. ASSUME NEW u, NEW r, NEW n, NEW id, JoinRequest(u, r, n, id)
      PROVE  Inherits
  <2>1. \A j \in joins' : j \in joins \/ j.view = {}
    BY <1>1 DEF JoinRequest
  <2> QED
    BY <1>1, <2>1 DEF JoinRequest, matrixVars, copyVars, Inherits
<1>2. ASSUME NEW u, NEW r, NEW n,
             JoinDropped(u, r, n) \/ JoinIgnored(u, r, n) \/ NickChange(u, r, n)
      PROVE  Inherits
  BY <1>2 DEF JoinDropped, JoinIgnored, NickChange, joinVars, matrixVars, copyVars, Inherits
<1>3. ASSUME NEW c, Leave(c)
      PROVE  Inherits
  BY <1>3 DEF Leave, joinVars, copyVars, Inherits
<1> QED
  BY <1>1, <1>2, <1>3 DEF ClientStep

LEMMA MatrixInherits ==
    ASSUME NEW u, EventAsks \/ EventHydrates \/ DeliverKick(u) \/ GhostLeft(u)
    PROVE  Inherits
<1> USE OutcastsHold
<1>1. CASE EventAsks
  BY <1>1, RoomStateExpels DEF EventAsks, joinVars, matrixVars, Inherits
<1>2. CASE EventHydrates
  BY <1>2 DEF EventHydrates, joinVars, matrixVars, Inherits
<1>3. CASE DeliverKick(u) \/ GhostLeft(u)
  BY <1>3 DEF DeliverKick, GhostLeft, joinVars, copyVars, Inherits
<1> QED
  BY <1>1, <1>2, <1>3

LEMMA RestartsInherit ==
    ASSUME TypeOK, RestartStep
    PROVE  Inherits
<1>0. restore \in Restore
  BY DEF TypeOK
<1> USE OutcastsHold
<1>1. CASE Restart
  <2>1. restore'.out = {} /\ restore'.view = {}
    BY <1>1 DEF Restart, NotRestoring
  <2>2. expelled' \subseteq expelled
    BY <1>1 DEF Restart
  <2> QED
    BY <1>1, <2>1, <2>2 DEF Restart, Inherits
<1>2. CASE AskGhosts
  <2>1. restore'.out = restore.out /\ restore'.view = {RoomState}
    BY <1>0, <1>2 DEF AskGhosts, Restore
  <2> QED
    BY <1>2, <2>1, RoomStateExpels DEF AskGhosts, joinVars, matrixVars, copyVars, Inherits
<1>3. CASE ReadGhosts
  <2>1. PICK view \in IF restore.stage = "asked" THEN restore.view ELSE copy :
          \E reached \in SUBSET store, out \in {{}, view.expelled} :
              /\ copy' = {view}
              /\ restore' = [stage |-> "rows", view |-> {}, out |-> out,
                             saved |-> SavedGhosts(reached)]
    BY <1>3, RowsRead
  <2>2. view.expelled \subseteq Outcasts
    OBVIOUS
  <2>3. copy' = {view} /\ restore'.view = {} /\ restore'.out \in {{}, view.expelled}
    BY <2>1
  <2> QED
    BY <1>3, <2>2, <2>3 DEF ReadGhosts, joinVars, matrixVars, Inherits
<1>4. ASSUME NEW u, RestoreRemoves(u)
      PROVE  Inherits
  <2>1. restore'.out \subseteq restore.out /\ restore'.view = restore.view
    BY <1>0, <1>4 DEF RestoreRemoves, Restore
  <2> QED
    BY <1>4, <2>1 DEF RestoreRemoves, joinVars, matrixVars, copyVars, Inherits
<1>5. CASE Reconnect
  <2>1. restore'.out = {} /\ restore'.view = {}
    BY <1>5 DEF Reconnect, NotRestoring
  <2> QED
    BY <1>5, <2>1 DEF Reconnect, joinVars, matrixVars, copyVars, Inherits
<1> QED
  BY <1>1, <1>2, <1>3, <1>4, <1>5 DEF RestartStep

LEMMA OnlyKicksMakeOutcasts ==
    ASSUME TypeOK, [Next]_vars, \A u \in Users : ~ModeratorKick(u)
    PROVE  Outcasts' \subseteq Outcasts
<1>1. CASE ClientStep
  BY <1>1, ClientsInherit, InheritsOutcasts
<1>2. CASE JoinStep
  BY <1>2, JoinsInherit, EntrancesInherit, InheritsOutcasts DEF JoinStep
<1>3. CASE MatrixStep
  BY <1>3, MatrixInherits, InheritsOutcasts DEF MatrixStep
<1>4. CASE RestartStep
  BY <1>4, RestartsInherit, InheritsOutcasts
<1>5. CASE UNCHANGED vars
  BY <1>5, SameOutcasts DEF vars
<1> QED
  BY <1>1, <1>2, <1>3, <1>4, <1>5 DEF Next

-----------------------------------------------------------------------------
(* Where ghosts are accounted for.  A user may be refused for its nickname *)
(* while its ghost stays, so there is one user and no nickname is held by  *)
(* a Matrix member; a join that fails or a kick that is late would also    *)
(* leave a ghost behind, and a restart forgets the calls that part it.     *)

QuietEnvironment ==
    /\ MatrixNicks = {} /\ MaxRestarts = 0
    /\ "fail" \notin Environment /\ "kick" \notin Environment

\* Whoever is let in under a stanza is the one whose ghost joined.  Where
\* nobody is kicked, no copy of the room's state makes anybody an outcast.
AccountInv ==
    /\ GhostsAreAccounted
    /\ \A e \in entering : e.user = e.sender
    /\ kicks = {} /\ Outcasts = {}
    /\ restore = NotRestoring

Accounted(u) ==
    \/ \E m \in members : m.realJid = u
    \/ \E j \in joins : j.sender = u
    \/ \E e \in entering : e.sender = u /\ e.stage # "storing"
    \/ leaveCalls[u] > 0

LEMMA StillAccounted ==
    ASSUME AccountInv, ghosts' \subseteq ghosts, \A u \in Users : Accounted(u) => Accounted(u)',
           ghosts \subseteq Users, entering' = entering, kicks' = kicks, restore' = restore,
           Outcasts' = {}
    PROVE  AccountInv'
<1>1. GhostsAreAccounted'
  BY DEF AccountInv, GhostsAreAccounted, Accounted
<1>2. (restore = NotRestoring)'
  BY DEF AccountInv, NotRestoring
<1> QED
  BY <1>1, <1>2 DEF AccountInv

\* The last device of a user takes its member along, and parts its ghost.
LEMMA LeaveAccounts ==
    ASSUME TypeOK, AccountInv, Outcasts' = {}, NEW c \in claims, Leave(c)
    PROVE  AccountInv'
<1>0. /\ ghosts' = ghosts /\ UNCHANGED <<kicks, restore, joins, entering>>
      /\ leaveCalls \in [Users -> Nat] /\ c.user \in Users /\ ghosts \subseteq Users
  BY DEF Leave, joinVars, TypeOK, Claim
<1>1. CASE ~(presence[c.nick].online /\ XmppMemberByRealJid(c.user) # {})
  BY <1>0, <1>1, StillAccounted DEF Leave, memberVars, Accounted
<1>2. CASE RemoteLeft(c.user, c.res)
  <2>1. PICK m \in members :
            /\ m.realJid = c.user
            /\ RemoveDevice(m, <<c.user, c.res>>)
            /\ IF IsLastDevice(m, <<c.user, c.res>>)
               THEN StartLeave(c.user) ELSE UNCHANGED leaveCalls
    BY <1>2 DEF RemoteLeft, XmppMemberByRealJid, Parts
  <2>2. \A u \in Users : leaveCalls[u] > 0 => leaveCalls'[u] > 0
    BY <1>0, <2>1 DEF StartLeave
  <2>3. CASE IsLastDevice(m, <<c.user, c.res>>)
    <3>1. leaveCalls'[c.user] > 0
      BY <1>0, <2>1, <2>3 DEF StartLeave
    <3>2. members' = members \ {m}
      BY <2>1, <2>3 DEF RemoveDevice, DeleteMember
    <3>3. ASSUME NEW u \in Users, Accounted(u) PROVE Accounted(u)'
      <4>1. CASE u = c.user
        BY <3>1, <4>1 DEF Accounted
      <4>2. CASE u # c.user
        BY <1>0, <2>1, <2>2, <3>2, <3>3, <4>2 DEF Accounted
      <4> QED
        BY <4>1, <4>2
    <3> QED
      BY <1>0, <3>3, StillAccounted
  <2>4. CASE ~IsLastDevice(m, <<c.user, c.res>>)
    <3> DEFINE less == [m EXCEPT !.devices = @ \ {<<c.user, c.res>>}]
    <3>1. members' = (members \ {m}) \cup {less} /\ leaveCalls' = leaveCalls
      BY <2>1, <2>4 DEF RemoveDevice
    <3>2. less.realJid = m.realJid
      BY DEF TypeOK, Member
    <3> HIDE DEF less
    <3>3. ASSUME NEW u \in Users, Accounted(u) PROVE Accounted(u)'
      BY <1>0, <3>1, <3>2, <3>3 DEF Accounted
    <3> QED
      BY <1>0, <3>3, StillAccounted
  <2> QED
    BY <2>3, <2>4
<1> QED
  BY <1>1, <1>2 DEF Leave

LEMMA JoinAccounts ==
    ASSUME TypeOK, AwaitInv, AccountInv, "fail" \notin Environment, Outcasts' = {},
           NEW j \in joins,
           GhostJoined(j) \/ RoomMapped(j) \/ JoinFailed(j) \/ TakeStanza(j)
    PROVE  AccountInv'
<1>0. UNCHANGED <<members, leaveCalls, kicks, restore>> /\ ~JoinFailed(j)
  BY DEF GhostJoined, RoomMapped, JoinFailed, TakeStanza, memberVars, matrixVars
<1>7. (restore = NotRestoring)'
  BY <1>0 DEF AccountInv, NotRestoring
<1>1. CASE GhostJoined(j) \/ RoomMapped(j)
  <2>1. PICK moved : GoesOn(j, moved)
    BY <1>1, AdvanceGoesOn
  <2>2. entering' = entering /\ ghosts' \subseteq ghosts \cup {j.sender}
    BY <1>1 DEF GhostJoined, RoomMapped, matrixVars
  <2>3. GhostsAreAccounted'
    BY <1>0, <2>1, <2>2 DEF AccountInv, GhostsAreAccounted, GoesOn
  <2> QED
    BY <1>0, <1>7, <2>2, <2>3 DEF AccountInv
<1>2. CASE TakeStanza(j)
  <2>1. PICK s \in stanzaCache : s.id = j.id
    BY DEF AwaitInv, HasStanza
  <2>2. \A t \in CachedStanza(j.id) : t.user = j.sender
    BY DEF AwaitInv, JoinIdsUnique, Awaited, CachedStanza
  <2>3. PICK view :
           entering' = entering \cup
               {[id |-> j.id, user |-> t.user, res |-> t.res, nick |-> t.nick,
                 sender |-> j.sender, stage |-> "checking", out |-> view.expelled] :
                    t \in CachedStanza(j.id)}
    BY <1>2 DEF TakeStanza
  <2> DEFINE let == {[id |-> j.id, user |-> t.user, res |-> t.res, nick |-> t.nick,
                      sender |-> j.sender, stage |-> "checking", out |-> view.expelled] :
                         t \in CachedStanza(j.id)}
  <2>4. joins' = joins \ {j} /\ entering' = entering \cup let /\ ghosts' = ghosts
    BY <1>2, <2>3 DEF TakeStanza, matrixVars
  <2>5. \A e \in let : e.user = e.sender /\ e.sender = j.sender /\ e.stage # "storing"
    BY <2>2
  <2>6. let # {}
    BY <2>1 DEF CachedStanza
  <2> HIDE DEF let
  <2>7. GhostsAreAccounted'
    BY <1>0, <2>4, <2>5, <2>6 DEF AccountInv, GhostsAreAccounted
  <2> QED
    BY <1>0, <1>7, <2>4, <2>5, <2>7 DEF AccountInv
<1> QED
  BY <1>0, <1>1, <1>2

LEMMA JoinerIsMember ==
    ASSUME TypeOK, NEW e \in entering, AddJoiner(e)
    PROVE  \E m \in members' : m.realJid = e.user
<1>0. /\ members \subseteq Member /\ <<e.user, e.res>> \in Devices
      /\ AddXmppMember(<<e.user, e.res>>, e.nick, MxidOf(e.sender))
  BY DEF TypeOK, Entrance, Devices, AddJoiner
<1>1. CASE XmppMemberByRealJid(e.user) # {}
  <2>1. PICK m \in members : m.realJid = e.user
    BY <1>1 DEF XmppMemberByRealJid
  <2>2. WithDevices(m, {<<e.user, e.res>>}) \in members'
    BY <1>0, <1>1, <2>1 DEF AddXmppMember
  <2>3. WithDevices(m, {<<e.user, e.res>>}).realJid = e.user
    BY <1>0, <2>1, WithDevicesFields
  <2> QED
    BY <2>2, <2>3
<1>2. CASE XmppMemberByRealJid(e.user) = {}
  <2> DEFINE new == [realJid |-> e.user, matrixId |-> MxidOf(e.sender), nick |-> e.nick,
                     devices |-> {<<e.user, e.res>>}]
  <2>1. new \in members'
    BY <1>0, <1>2 DEF AddXmppMember
  <2>2. new.realJid = e.user
    OBVIOUS
  <2> QED
    BY <2>1, <2>2
<1> QED
  BY <1>1, <1>2

LEMMA EntranceAccounts ==
    ASSUME TypeOK, AccountInv, MatrixNicks = {}, NEW w, Users = {w}, Outcasts' = {},
           NEW e \in entering, NEW v,
           RefreshRemoves(e, v) \/ CheckNick(e) \/ AddJoiner(e) \/ FinishRemoteJoin(e)
    PROVE  AccountInv'
<1>0. /\ e \in Entrance /\ e.user \in Users /\ members \subseteq Member
      /\ e.user = e.sender
      /\ UNCHANGED <<joins, ghosts, kicks, leaveCalls, restore>>
  BY DEF TypeOK, Entrance, AccountInv, RefreshRemoves, CheckNick, AddJoiner,
         FinishRemoteJoin, matrixVars
<1>7. (restore = NotRestoring)'
  BY <1>0 DEF AccountInv, NotRestoring
<1>6. ~RefreshRemoves(e, v)
  BY DEF RefreshRemoves, AccountInv, Outcasts
<1>1. CASE CheckNick(e)
  <2> DEFINE on == [e EXCEPT !.stage = "emitting"]
  <2>1. ~Conflicts(e)
    BY <1>0 DEF Conflicts, HeldByOther, MemberByAnonJid, Member
  <2>2. entering' = (entering \ {e}) \cup {on} /\ members' = members
    BY <1>1, <2>1 DEF CheckNick, memberVars
  <2>3. on.user = e.user /\ on.sender = e.sender /\ on.stage # "storing"
    BY <1>0 DEF Entrance
  <2> HIDE DEF on
  <2>4. GhostsAreAccounted'
    BY <1>0, <2>2, <2>3 DEF AccountInv, GhostsAreAccounted
  <2> QED
    BY <1>0, <1>7, <2>2, <2>3, <2>4 DEF AccountInv
<1>2. CASE AddJoiner(e)
  <2> DEFINE on == [e EXCEPT !.stage = "storing"]
  <2>1. entering' = (entering \ {e}) \cup {on}
    BY <1>2 DEF AddJoiner
  <2>2. on.user = e.user /\ on.sender = e.sender
    BY <1>0 DEF Entrance
  <2>3. \E m \in members' : m.realJid = e.user
    BY <1>2, JoinerIsMember
  <2>4. \A u \in ghosts : u = e.user
    BY <1>0 DEF TypeOK
  <2>5. GhostsAreAccounted'
    BY <1>0, <2>3, <2>4 DEF GhostsAreAccounted
  <2> HIDE DEF on
  <2> QED
    BY <1>0, <1>7, <2>1, <2>2, <2>5 DEF AccountInv
<1>3. CASE FinishRemoteJoin(e)
  <2>1. entering' = entering \ {e} /\ members' = members /\ e.stage = "storing"
    BY <1>3 DEF FinishRemoteJoin, memberVars
  <2>2. GhostsAreAccounted'
    BY <1>0, <2>1 DEF AccountInv, GhostsAreAccounted
  <2> QED
    BY <1>0, <1>7, <2>1, <2>2 DEF AccountInv
<1> QED
  BY <1>1, <1>2, <1>3, <1>6

LEMMA MatrixAccounts ==
    ASSUME TypeOK, AccountInv, "kick" \notin Environment, Outcasts' = {}, MatrixStep
    PROVE  AccountInv'
<1>1. CASE EventAsks \/ EventHydrates
  <2>1. UNCHANGED <<members, joins, entering, restore, ghosts, kicks, leaveCalls>>
    BY <1>1 DEF EventAsks, EventHydrates, memberVars, joinVars, matrixVars
  <2>2. \A u \in Users : Accounted(u) => Accounted(u)'
    BY <2>1 DEF Accounted
  <2> QED
    BY <2>1, <2>2, StillAccounted DEF TypeOK
<1>2. ASSUME NEW u \in Users, GhostLeft(u)
      PROVE  AccountInv'
  <2>1. /\ ghosts' = ghosts \ {u} /\ leaveCalls' = [leaveCalls EXCEPT ![u] = @ - 1]
        /\ UNCHANGED <<members, joins, entering, kicks, restore>>
    BY <1>2 DEF GhostLeft, memberVars, joinVars
  <2>2. \A x \in ghosts' : x \in ghosts /\ leaveCalls'[x] = leaveCalls[x]
    BY <2>1 DEF TypeOK
  <2>3. GhostsAreAccounted'
    BY <2>1, <2>2 DEF AccountInv, GhostsAreAccounted
  <2>4. (restore = NotRestoring)'
    BY <2>1 DEF AccountInv, NotRestoring
  <2> QED
    BY <2>1, <2>3, <2>4 DEF AccountInv
<1>3. ASSUME NEW u \in Users, ModeratorKick(u) \/ DeliverKick(u)
      PROVE  FALSE
  BY <1>3 DEF ModeratorKick, DeliverKick, AccountInv
<1> QED
  BY <1>1, <1>2, <1>3 DEF MatrixStep

LEMMA NoRestart ==
    ASSUME TypeOK, AccountInv, MaxRestarts = 0
    PROVE  ~RestartStep
BY DEF TypeOK, AccountInv, NotRestoring, RestartStep, Restart, AskGhosts, ReadGhosts,
       RestoreRemoves, Reconnect

LEMMA NextAccountInv ==
    ASSUME QuietEnvironment, NEW w, Users = {w}, TypeOK, AwaitInv, AccountInv, [Next]_vars
    PROVE  AccountInv'
<1>0. Outcasts' = {}
  BY OnlyKicksMakeOutcasts DEF QuietEnvironment, ModeratorKick, AccountInv
<1>1. ASSUME NEW u \in Users, NEW r \in Resources, NEW n \in Nicks, NEW id \in JoinIds,
             JoinRequest(u, r, n, id)
      PROVE  AccountInv'
  <2>1. /\ UNCHANGED <<members, entering, restore, ghosts, kicks, leaveCalls>>
        /\ joins \subseteq joins'
    BY <1>1 DEF JoinRequest, memberVars, matrixVars
  <2>2. \A x \in Users : Accounted(x) => Accounted(x)'
    BY <2>1 DEF Accounted
  <2> QED
    BY <1>0, <2>1, <2>2, StillAccounted DEF TypeOK
<1>2. CASE UNCHANGED <<members, entering, joins, restore, ghosts, kicks, leaveCalls>>
  <2>1. \A x \in Users : Accounted(x) => Accounted(x)'
    BY <1>2 DEF Accounted
  <2> QED
    BY <1>0, <1>2, <2>1, StillAccounted DEF TypeOK
<1>3. ASSUME NEW u, NEW r, NEW n, JoinDropped(u, r, n) \/ JoinIgnored(u, r, n) \/ NickChange(u, r, n)
      PROVE  AccountInv'
  BY <1>2, <1>3 DEF JoinDropped, JoinIgnored, NickChange, memberVars, joinVars, matrixVars
<1>4. CASE ClientStep
  BY <1>0, <1>1, <1>3, <1>4, LeaveAccounts DEF ClientStep
<1>5. CASE JoinStep
  BY <1>0, <1>5, JoinAccounts, EntranceAccounts DEF JoinStep, QuietEnvironment
<1>6. CASE MatrixStep
  BY <1>0, <1>6, MatrixAccounts DEF QuietEnvironment
<1>7. CASE RestartStep
  BY <1>7, NoRestart DEF QuietEnvironment
<1>8. CASE UNCHANGED vars
  BY <1>2, <1>8 DEF vars
<1> QED
  BY <1>4, <1>5, <1>6, <1>7, <1>8 DEF Next

\* With one user, whatever devices and nicknames it joins and leaves with and
\* however early, its ghost never stays in the Matrix room without a member, a
\* join or a call that parts it, unless a join fails, it is kicked or refused,
\* or the bridge restarts.
THEOREM GhostsAreAccountedHolds ==
    ASSUME QuietEnvironment, NEW CONSTANT w, Users = {w}
    PROVE  Spec => []GhostsAreAccounted
<1>1. Init => AccountInv
  BY DEF Init, AccountInv, GhostsAreAccounted, Outcasts, Views, NotRestoring
<1>2. TypeOK /\ AwaitInv /\ AccountInv /\ [Next]_vars => AccountInv' /\ AwaitInv'
  BY NextAccountInv, NextAwaitInv
<1>3. AccountInv => GhostsAreAccounted
  BY DEF AccountInv
<1> QED
  BY <1>1, <1>2, <1>3, InitAwaitInv, TypeCorrect, PTL DEF Spec
==============================================================================
