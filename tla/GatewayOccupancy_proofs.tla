----------------------- MODULE GatewayOccupancy_proofs -----------------------
(***************************************************************************)
(* GatewayMUC implements MucOccupancy for every value of the constants.    *)
(***************************************************************************)
EXTENDS GatewayMUC_proofs

-----------------------------------------------------------------------------
(* Who a token stands for.  A join, its stanza, its place in onRemoteJoin  *)
(* and the member it becomes all belong to one user.                       *)

Provenance ==
    /\ \A j \in joins, s \in stanzaCache : s.id = j.id => s.user = j.sender
    /\ \A s1, s2 \in stanzaCache : s1.id = s2.id => s1 = s2
    /\ \A e \in entering : e.sender = e.user
    /\ \A m \in members : m.matrixId = MxidOf(m.realJid) \/ m.matrixId[1] = "remote"
    /\ restore.stage # "rows" => restore.saved = {}

OwnInv == MemberListOK /\ Provenance

LEMMA InitProvenance == Init => Provenance
BY DEF Init, NotRestoring, Provenance

\* Who the members are: a member added by a join carries its own ghost's ID.
MembersOwn(ms) == \A m \in ms : m.matrixId = MxidOf(m.realJid) \/ m.matrixId[1] = "remote"

LEMMA AddMemberProvenance ==
    ASSUME MemberListOK, MembersOwn(members),
           NEW d \in Devices, NEW n, AddXmppMember(d, n, MxidOf(d[1]))
    PROVE  MembersOwn(members')
<1>1. CASE XmppMemberByRealJid(d[1]) # {}
  <2>1. {d} \in SUBSET Devices
    OBVIOUS
  <2> QED
    BY <1>1, <2>1, WithDevicesFields DEF AddXmppMember, MembersOwn, MemberListOK, TypeOK
<1>2. CASE XmppMemberByRealJid(d[1]) = {}
  BY <1>2 DEF AddXmppMember, MembersOwn
<1> QED
  BY <1>1, <1>2

LEMMA RemoveDeviceProvenance ==
    ASSUME MemberListOK, MembersOwn(members), NEW m \in members, NEW d, RemoveDevice(m, d)
    PROVE  MembersOwn(members')
<1>1. CASE IsLastDevice(m, d)
  BY <1>1 DEF RemoveDevice, DeleteMember, MembersOwn
<1>2. CASE ~IsLastDevice(m, d)
  <2> DEFINE left == [m EXCEPT !.devices = @ \ {d}]
  <2>1. left.realJid = m.realJid /\ left.matrixId = m.matrixId
    BY DEF MemberListOK, TypeOK, Member
  <2> QED
    BY <1>2, <2>1 DEF RemoveDevice, MembersOwn
<1> QED
  BY <1>1, <1>2

LEMMA ReconnectProvenance ==
    ASSUME MemberListOK, MembersOwn(members), Reconnect
    PROVE  MembersOwn(members')
<1> DEFINE ds == UNION {w.devices : w \in restore.saved}
           back == {u \in Users : ds \cap DevicesOf(u) # {} /\ XmppMemberByRealJid(u) = {}}
<1>1. ds \in SUBSET Devices
  BY DEF MemberListOK, TypeOK, Restore, SavedGhost
<1>2. PICK first \in [back -> restore.saved] :
        members' = {WithDevices(m, ds) : m \in members}
                   \cup {RestoredMember(u, first[u], ds) : u \in back}
  BY DEF Reconnect
<1>3. ASSUME NEW m \in members
      PROVE  WithDevices(m, ds).matrixId = m.matrixId /\ WithDevices(m, ds).realJid = m.realJid
  BY <1>1, WithDevicesFields DEF MemberListOK, TypeOK
<1>4. ASSUME NEW u \in back
      PROVE  RestoredMember(u, first[u], ds).matrixId[1] = "remote"
  BY RestoredMemberFields DEF RemoteIdOf
<1> HIDE DEF ds, back
<1> QED
  BY <1>2, <1>3, <1>4 DEF MembersOwn

LEMMA RemovalShrinks ==
    ASSUME NEW x, RemoveMatrixMember(x)
    PROVE  members' \subseteq members
BY DEF RemoveMatrixMember, DeleteMember, memberVars

LEMMA NextProvenance ==
    ASSUME OwnInv, [Next]_vars
    PROVE  Provenance'
<1> USE DEF OwnInv
<1>0. MembersOwn(members)
  BY DEF Provenance, MembersOwn
<1>1. ASSUME NEW u \in Users, NEW r \in Resources, NEW n \in Nicks,
             NEW id \in JoinIds, JoinRequest(u, r, n, id)
      PROVE  Provenance'
  <2>1. \A j \in joins : j.id # id
    BY <1>1 DEF JoinRequest, BusyIds, Provenance
  <2>2. \A j \in joins' : j \in joins \/ (j.id = id /\ j.sender = u)
    BY <1>1, <2>1 DEF JoinRequest
  <2>3. \A s \in stanzaCache' : (s \in stanzaCache /\ s.id # id) \/ (s.id = id /\ s.user = u)
    BY <1>1 DEF JoinRequest, CachedStanza
  <2>4. \A s1, s2 \in stanzaCache' : s1.id = s2.id => s1 = s2
    BY <1>1 DEF JoinRequest, CachedStanza, Provenance
  <2> QED
    BY <1>1, <2>1, <2>2, <2>3, <2>4 DEF JoinRequest, memberVars, Provenance
<1>2. ASSUME NEW u, NEW r, NEW n, JoinDropped(u, r, n) \/ JoinIgnored(u, r, n) \/ NickChange(u, r, n)
      PROVE  Provenance'
  BY <1>2 DEF JoinDropped, JoinIgnored, NickChange, memberVars, joinVars, Provenance
<1>3. ASSUME NEW c \in claims, Leave(c)
      PROVE  Provenance'
  <2>1. CASE presence[c.nick].online /\ XmppMemberByRealJid(c.user) # {}
    <3>1. PICK m \in members : RemoveDevice(m, <<c.user, c.res>>)
      BY <1>3, <2>1 DEF Leave, RemoteLeft, XmppMemberByRealJid
    <3>2. MembersOwn(members')
      BY <1>0, <3>1, RemoveDeviceProvenance
    <3> QED
      BY <1>3, <3>2 DEF Leave, joinVars, MembersOwn, Provenance
  <2>2. CASE ~(presence[c.nick].online /\ XmppMemberByRealJid(c.user) # {})
    BY <1>3, <2>2 DEF Leave, memberVars, joinVars, Provenance
  <2> QED
    BY <2>1, <2>2
<1>4. ASSUME NEW j \in joins, GhostJoined(j) \/ RoomMapped(j)
      PROVE  \A k \in joins' : \E i \in joins : k.id = i.id /\ k.sender = i.sender
  BY <1>4, AdvanceGoesOn DEF MemberListOK, GoesOn
<1>5. ASSUME NEW j \in joins, GhostJoined(j) \/ RoomMapped(j)
      PROVE  Provenance'
  <2>1. UNCHANGED <<stanzaCache, entering, members, restore>>
    BY <1>5 DEF GhostJoined, RoomMapped, memberVars
  <2>2. \A k \in joins' : \E i \in joins : k.id = i.id /\ k.sender = i.sender
    BY <1>4, <1>5
  <2>3. \A k \in joins', s \in stanzaCache' : s.id = k.id => s.user = k.sender
    BY <2>1, <2>2 DEF Provenance
  <2> QED
    BY <2>1, <2>3 DEF Provenance
<1>6. ASSUME NEW j \in joins, JoinFailed(j)
      PROVE  Provenance'
  BY <1>6 DEF JoinFailed, StanzaTaken, memberVars, Provenance
<1>7. ASSUME NEW j \in joins, TakeStanza(j)
      PROVE  Provenance'
  <2>1. \A e \in entering' : e \in entering \/ e.sender = e.user
    BY <1>7 DEF TakeStanza, CachedStanza, Provenance
  <2> QED
    BY <1>7, <2>1 DEF TakeStanza, StanzaTaken, memberVars, Provenance
<1>8. ASSUME NEW e \in entering, CheckNick(e)
      PROVE  Provenance'
  <2>1. e \in Entrance
    BY DEF MemberListOK, TypeOK
  <2>2. \A f \in entering' : f \in entering \/ f.sender = f.user
    BY <1>8, <2>1 DEF CheckNick, Entrance, Provenance
  <2> QED
    BY <1>8, <2>2 DEF CheckNick, memberVars, Provenance
<1>15. ASSUME NEW e \in entering, NEW u, RefreshRemoves(e, u)
       PROVE  Provenance'
  <2>1. e \in Entrance
    BY DEF MemberListOK, TypeOK
  <2>2. \A f \in entering' : f \in entering \/ f.sender = f.user
    BY <1>15, <2>1 DEF RefreshRemoves, Entrance, Provenance
  <2>3. members' \subseteq members
    BY <1>15, RemovalShrinks DEF RefreshRemoves
  <2> QED
    BY <1>15, <2>2, <2>3 DEF RefreshRemoves, Provenance
<1>16. ASSUME NEW e \in entering, FinishRemoteJoin(e)
       PROVE  Provenance'
  <2>1. entering' \subseteq entering
    BY <1>16 DEF FinishRemoteJoin
  <2> QED
    BY <1>16, <2>1 DEF FinishRemoteJoin, memberVars, Provenance
<1>9. ASSUME NEW e \in entering, AddJoiner(e)
      PROVE  Provenance'
  <2>1. e \in Entrance /\ e.sender = e.user
    BY DEF MemberListOK, TypeOK, Provenance
  <2>2. <<e.user, e.res>> \in Devices
    BY <2>1 DEF Entrance, Devices
  <2>3. MembersOwn(members')
    BY <1>0, <1>9, <2>1, <2>2, AddMemberProvenance DEF AddJoiner
  <2>4. \A f \in entering' : f \in entering \/ f.sender = f.user
    BY <1>9, <2>1 DEF AddJoiner, Entrance
  <2> QED
    BY <1>9, <2>3, <2>4 DEF AddJoiner, MembersOwn, Provenance
<1>10. CASE MatrixStep
  <2>1. PICK u : ModeratorKick(u) \/ DeliverKick(u) \/ GhostLeft(u) \/ EventAsks \/ EventHydrates
    BY <1>10 DEF MatrixStep
  <2>2. members' \subseteq members
    BY <2>1 DEF ModeratorKick, DeliverKick, DeleteMember, GhostLeft, EventAsks, EventHydrates,
                memberVars
  <2>3. UNCHANGED <<joinVars, restore>>
    BY <2>1 DEF ModeratorKick, DeliverKick, GhostLeft, EventAsks, EventHydrates
  <2> QED
    BY <2>2, <2>3 DEF joinVars, Provenance
<1>11. CASE Restart
  BY <1>11 DEF Restart, NotRestoring, Provenance
<1>17. CASE AskGhosts
  <2>1. UNCHANGED <<memberVars, joinVars>> /\ restore'.saved = restore.saved
    BY <1>17 DEF AskGhosts, MemberListOK, TypeOK, Restore
  <2>2. restore.saved = {}
    BY <1>17 DEF AskGhosts, Provenance
  <2> QED
    BY <2>1, <2>2 DEF memberVars, joinVars, Provenance
<1>18. ASSUME NEW u, RestoreRemoves(u)
       PROVE  Provenance'
  <2>1. restore'.saved = restore.saved /\ restore'.stage = restore.stage
    BY <1>18 DEF RestoreRemoves, MemberListOK, TypeOK, Restore
  <2>2. members' \subseteq members
    BY <1>18, RemovalShrinks DEF RestoreRemoves
  <2> QED
    BY <1>18, <2>1, <2>2 DEF RestoreRemoves, joinVars, Provenance
<1>12. CASE ReadGhosts
  <2>1. UNCHANGED <<memberVars, joinVars>> /\ restore'.stage = "rows"
    BY <1>12, RowsRead DEF ReadGhosts
  <2> QED
    BY <2>1 DEF memberVars, joinVars, Provenance
<1>13. CASE Reconnect
  <2>1. MembersOwn(members')
    BY <1>0, <1>13, ReconnectProvenance
  <2> QED
    BY <1>13, <2>1 DEF Reconnect, NotRestoring, joinVars, MembersOwn, Provenance
<1>14. CASE UNCHANGED vars
  BY <1>14 DEF vars, Provenance
<1> QED
  BY <1>1, <1>2, <1>3, <1>5, <1>6, <1>7, <1>8, <1>9, <1>10, <1>11, <1>12, <1>13, <1>14,
     <1>15, <1>16, <1>17, <1>18
     DEF Next, ClientStep, JoinStep, RestartStep

THEOREM OwnInvCorrect == Spec => []OwnInv
<1>1. Init => OwnInv
  BY InitMemberListOK, InitProvenance DEF OwnInv
<1>2. OwnInv /\ [Next]_vars => OwnInv'
  BY NextMemberListOK, NextProvenance DEF OwnInv
<1> QED
  BY <1>1, <1>2, PTL DEF Spec

-----------------------------------------------------------------------------
(* The refinement mapping.  What each operation does to what MucOccupancy  *)
(* sees: the devices asking, present and on record.                        *)

LEMMA SamePresent ==
    ASSUME UNCHANGED memberVars
    PROVE  UNCHANGED Present
BY DEF memberVars, Present

LEMMA SameRemembered ==
    ASSUME UNCHANGED <<store, restore>>
    PROVE  UNCHANGED <<Remembered, Recovering>>
BY DEF Remembered, OnRecord, Recovering

LEMMA SameAsking ==
    ASSUME UNCHANGED joinVars
    PROVE  UNCHANGED Asking
BY DEF joinVars, Asking

\* A row that is saved holds devices of members only.
LEMMA SaveUserRecord ==
    ASSUME NEW x, NEW name, NEW rooms,
           UNION {d.devices : d \in rooms} \subseteq Present',
           SaveUser(x, name, rooms), UNCHANGED restore
    PROVE  Remembered' \subseteq Remembered \cup Present'
<1> DEFINE new == [ghost |-> x[2], name |-> name, rooms |-> rooms]
<1>1. \A w \in store' : w \in store \/ w = new
  BY DEF SaveUser
<1>2. OnRecord' \subseteq OnRecord \cup Present'
  <2> SUFFICES ASSUME NEW w \in store', NEW d \in w.rooms, NEW v \in d.devices
               PROVE  v \in OnRecord \cup Present'
    BY DEF OnRecord
  <2>1. CASE w \in store
    BY <2>1 DEF OnRecord
  <2>2. CASE w = new
    BY <2>2
  <2> QED
    BY <1>1, <2>1, <2>2
<1> QED
  BY <1>2 DEF Remembered

LEMMA AnonJidsPresent ==
    ASSUME NEW u
    PROVE  UNION {d.devices : d \in AnonJidsFor(u)} \subseteq Present'
BY DEF AnonJidsFor, Present

\* Members: who is present after each operation of GatewayMUCMembership.
LEMMA GainPresent ==
    ASSUME MemberListOK, NEW ds \in SUBSET Devices
    PROVE  UNION {g.devices : g \in {WithDevices(m, ds) : m \in members}}
             = Present \cup {d \in ds : \E m \in members : d \in DevicesOf(m.realJid)}
<1>1. \A m \in members : WithDevices(m, ds).devices = m.devices \cup (ds \cap DevicesOf(m.realJid))
  BY WithDevicesFields DEF MemberListOK, TypeOK
<1>2. \A v : v \in UNION {g.devices : g \in {WithDevices(m, ds) : m \in members}}
               <=> \E m \in members : v \in WithDevices(m, ds).devices
  OBVIOUS
<1> QED
  BY <1>1, <1>2 DEF Present

LEMMA AddMemberPresent ==
    ASSUME MemberListOK, NEW d \in Devices, NEW n, NEW x, AddXmppMember(d, n, x)
    PROVE  Present' = Present \cup {d}
<1>1. CASE XmppMemberByRealJid(d[1]) # {}
  <2>1. PICK m \in members : m.realJid = d[1]
    BY <1>1 DEF XmppMemberByRealJid
  <2>2. d \in DevicesOf(m.realJid)
    BY <2>1 DEF Devices, DevicesOf
  <2>3. PICK ds \in SUBSET Devices : ds = {d}
    OBVIOUS
  <2>4. members' = {WithDevices(k, ds) : k \in members}
    BY <1>1, <2>3 DEF AddXmppMember
  <2>5. Present' = UNION {g.devices : g \in {WithDevices(k, ds) : k \in members}}
    BY <2>4 DEF Present
  <2>6. Present' = Present \cup {v \in ds : \E k \in members : v \in DevicesOf(k.realJid)}
    BY <2>5, GainPresent
  <2> QED
    BY <2>2, <2>3, <2>6
<1>2. CASE XmppMemberByRealJid(d[1]) = {}
  <2> DEFINE new == [realJid |-> d[1], matrixId |-> x, nick |-> n, devices |-> {d}]
  <2>1. members' = members \cup {new} /\ new.devices = {d}
    BY <1>2 DEF AddXmppMember
  <2> HIDE DEF new
  <2> QED
    BY <2>1 DEF Present
<1> QED
  BY <1>1, <1>2

LEMMA RemoveDevicePresent ==
    ASSUME MemberListOK, NEW m \in members, NEW r,
           RemoveDevice(m, <<m.realJid, r>>)
    PROVE  Present' = Present \ {<<m.realJid, r>>}
<1> DEFINE d == <<m.realJid, r>>
<1>1. \A k \in members : k # m => d \notin k.devices
  <2> SUFFICES ASSUME NEW k \in members, k # m, d \in k.devices
               PROVE  FALSE
    OBVIOUS
  <2>1. d \in {k.realJid} \X Resources
    BY DEF MemberListOK, OneMemberPerUser
  <2>2. k.realJid = m.realJid
    BY <2>1
  <2> QED
    BY <2>2 DEF MemberListOK, OneMemberPerUser
<1>2. CASE IsLastDevice(m, d)
  <2>1. members' = members \ {m} /\ m.devices \subseteq {d}
    BY <1>2 DEF RemoveDevice, DeleteMember, IsLastDevice
  <2> QED
    BY <1>1, <2>1 DEF Present
<1>3. CASE ~IsLastDevice(m, d)
  <2> DEFINE left == [m EXCEPT !.devices = @ \ {d}]
  <2>1. members' = (members \ {m}) \cup {left}
    BY <1>3 DEF RemoveDevice
  <2>2. left.devices = m.devices \ {d}
    BY DEF MemberListOK, TypeOK, Member
  <2> HIDE DEF left
  <2>3. ASSUME NEW v \in Present', v \notin Present \ {d} PROVE FALSE
    BY <1>1, <2>1, <2>2, <2>3 DEF Present
  <2>4. ASSUME NEW v \in Present, v # d PROVE v \in Present'
    BY <2>1, <2>2, <2>4 DEF Present
  <2>5. d \notin Present'
    BY <1>1, <2>1, <2>2 DEF Present
  <2> QED
    BY <2>3, <2>4, <2>5
<1> QED
  BY <1>2, <1>3

LEMMA DeleteMemberPresent ==
    ASSUME MemberListOK, NEW m \in members, DeleteMember(m)
    PROVE  Present' = Present \ DevicesOf(m.realJid)
<1>1. members' = members \ {m}
  BY DEF DeleteMember
<1>2. m.devices \subseteq DevicesOf(m.realJid)
  BY DEF MemberListOK, OneMemberPerUser, DevicesOf
<1>3. \A k \in members : k # m => k.devices \cap DevicesOf(m.realJid) = {}
  BY DEF MemberListOK, OneMemberPerUser, DevicesOf
<1> QED
  BY <1>1, <1>2, <1>3 DEF Present

-----------------------------------------------------------------------------
(* Every step is a step of MucOccupancy or a stutter.                      *)

OccupancyStep == Occupancy!Next \/ UNCHANGED Occupancy!vars

\* Steps of which MucOccupancy sees at most that a kick is forgotten.
LEMMA SettleIsStep ==
    ASSUME Outcasts' \subseteq Outcasts, UNCHANGED <<Asking, Present, kicks, Recovering>>,
           Remembered' \subseteq Remembered \cup Present'
    PROVE  OccupancyStep
BY DEF OccupancyStep, Occupancy!Next, Occupancy!Settle, Occupancy!Record, Occupancy!Relent

LEMMA ExitIsStep ==
    ASSUME NEW d \in Devices, Occupancy!Exit(d)
    PROVE  OccupancyStep
BY DEF OccupancyStep, Occupancy!Next, Occupancy!Devices, Devices

LEMMA JoinRequestStep ==
    ASSUME NEW u \in Users, NEW r \in Resources, NEW n, NEW id,
           JoinRequest(u, r, n, id), Outcasts' \subseteq Outcasts
    PROVE  OccupancyStep
<1>1. UNCHANGED <<Present, kicks, Remembered, Recovering>>
  BY SamePresent, SameRemembered DEF JoinRequest, matrixVars, copyVars
<1>2. <<u, r>> \in Asking' /\ Asking' \subseteq Asking \cup {<<u, r>>}
  <2> DEFINE new == [id |-> id, user |-> u, res |-> r, nick |-> n]
  <2>1. stanzaCache' = (stanzaCache \ CachedStanza(id)) \cup {new} /\ entering' = entering
    BY DEF JoinRequest
  <2>2. new.user = u /\ new.res = r
    OBVIOUS
  <2> HIDE DEF new
  <2>3. <<u, r>> \in Asking'
    BY <2>1, <2>2 DEF Asking
  <2>4. ASSUME NEW a \in Asking' PROVE a \in Asking \cup {<<u, r>>}
    BY <2>1, <2>2 DEF Asking
  <2> QED
    BY <2>3, <2>4
<1>3. Occupancy!Ask(<<u, r>>)
  BY <1>1, <1>2 DEF Occupancy!Ask, Occupancy!Relent
<1> QED
  BY <1>3 DEF OccupancyStep, Occupancy!Next, Occupancy!Devices

LEMMA LeaveStep ==
    ASSUME OwnInv, NEW c \in claims, Leave(c), Outcasts' \subseteq Outcasts
    PROVE  OccupancyStep
<1>0. c.user \in Users /\ c.res \in Resources
  BY DEF OwnInv, MemberListOK, TypeOK, Claim
<1>1. UNCHANGED <<Asking, kicks, restore, Recovering>>
  BY SameAsking DEF Leave, Recovering
<1>2. CASE presence[c.nick].online /\ XmppMemberByRealJid(c.user) # {}
  <2>1. PICK m \in members : /\ m.realJid = c.user
                             /\ RemoveDevice(m, <<c.user, c.res>>)
                             /\ SaveUser(m.matrixId, NoUser, AnonJidsFor(c.user))
    BY <1>2 DEF Leave, RemoteLeft, XmppMemberByRealJid
  <2>2. Present' = Present \ {<<c.user, c.res>>}
    BY <2>1, RemoveDevicePresent DEF OwnInv
  <2>3. Remembered' \subseteq Remembered \cup Present'
    BY <1>1, <2>1, AnonJidsPresent, SaveUserRecord
  <2>4. Occupancy!Exit(<<c.user, c.res>>)
    BY <1>1, <2>2, <2>3 DEF Occupancy!Exit, Occupancy!Record, Occupancy!Relent
  <2> QED
    BY <1>0, <2>4, ExitIsStep DEF Devices
<1>3. CASE ~(presence[c.nick].online /\ XmppMemberByRealJid(c.user) # {})
  BY <1>1, <1>3, SamePresent, SameRemembered, SettleIsStep DEF Leave
<1> QED
  BY <1>2, <1>3

LEMMA AdvanceStep ==
    ASSUME NEW j \in joins, GhostJoined(j) \/ RoomMapped(j), Outcasts' \subseteq Outcasts
    PROVE  OccupancyStep
<1>1. UNCHANGED <<Asking, Present, kicks, restore>>
  BY SamePresent DEF GhostJoined, RoomMapped, matrixVars, copyVars, Asking
<1>2. OnRecord' = OnRecord
  <2>1. CASE UNCHANGED store
    BY <2>1 DEF OnRecord
  <2>2. CASE ~UNCHANGED store
    <3> DEFINE new == [ghost |-> MxidOf(j.sender)[2], name |-> j.sender, rooms |-> {}]
    <3>1. SaveUser(MxidOf(j.sender), j.sender, {}) /\ \A w \in store : w.ghost # j.sender
      BY <2>2 DEF GhostJoined, RoomMapped
    <3>2. MxidOf(j.sender)[2] = j.sender
      BY DEF MxidOf
    <3>3. store' = store \cup {new} /\ new.rooms = {}
      BY <2>2, <3>1, <3>2 DEF SaveUser
    <3> HIDE DEF new
    <3> QED
      BY <3>3 DEF OnRecord
  <2> QED
    BY <2>1, <2>2
<1>3. UNCHANGED <<Remembered, Recovering>>
  BY <1>1, <1>2 DEF Remembered, Recovering
<1> QED
  BY <1>1, <1>3, SettleIsStep

LEMMA JoinFailedStep ==
    ASSUME OwnInv, NEW j \in joins, JoinFailed(j), Outcasts' \subseteq Outcasts
    PROVE  OccupancyStep
<1>1. UNCHANGED <<Present, kicks, Remembered, Recovering>>
  BY SamePresent, SameRemembered DEF JoinFailed
<1>2. stanzaCache' = stanzaCache \ CachedStanza(j.id) /\ entering' = entering
  BY DEF JoinFailed, StanzaTaken
<1>3. CASE CachedStanza(j.id) = {}
  <2>1. UNCHANGED Asking
    BY <1>2, <1>3 DEF Asking
  <2> QED
    BY <1>1, <2>1, SettleIsStep
<1>4. CASE CachedStanza(j.id) # {}
  <2>1. PICK s \in stanzaCache : s.id = j.id
    BY <1>4 DEF CachedStanza
  <2>2. CachedStanza(j.id) = {s}
    BY <2>1 DEF CachedStanza, OwnInv, Provenance
  <2>3. s.user \in Users /\ s.res \in Resources
    BY DEF OwnInv, MemberListOK, TypeOK, Stanza
  <2> DEFINE d == <<s.user, s.res>>
  <2>4. d \in Asking /\ Asking' \in {Asking, Asking \ {d}}
    <3>1. d \in Asking
      BY DEF Asking
    <3>2. Asking' \subseteq Asking
      BY <1>2 DEF Asking
    <3>3. \A a \in Asking : a # d => a \in Asking'
      BY <1>2, <2>2 DEF Asking
    <3> QED
      BY <3>1, <3>2, <3>3
  <2>5. Occupancy!Refuse(d)
    BY <1>1, <2>4 DEF Occupancy!Refuse, Occupancy!Answered, Occupancy!Relent
  <2> QED
    BY <2>3, <2>5 DEF OccupancyStep, Occupancy!Next, Occupancy!Devices
<1> QED
  BY <1>3, <1>4

LEMMA TakeStanzaStep ==
    ASSUME NEW j \in joins, TakeStanza(j), Outcasts' \subseteq Outcasts
    PROVE  OccupancyStep
<1>1. UNCHANGED <<Present, kicks, Remembered, Recovering>>
  BY SamePresent, SameRemembered DEF TakeStanza, matrixVars, copyVars
<1>2. UNCHANGED Asking
  <2>1. PICK view :
           entering' = entering \cup
               {[id |-> j.id, user |-> s.user, res |-> s.res, nick |-> s.nick,
                 sender |-> j.sender, stage |-> "checking", out |-> view.expelled] :
                    s \in CachedStanza(j.id)}
    BY DEF TakeStanza
  <2> DEFINE Entry(s) == [id |-> j.id, user |-> s.user, res |-> s.res, nick |-> s.nick,
                          sender |-> j.sender, stage |-> "checking", out |-> view.expelled]
  <2>2. /\ stanzaCache' = stanzaCache \ CachedStanza(j.id)
        /\ entering' = entering \cup {Entry(s) : s \in CachedStanza(j.id)}
    BY <2>1 DEF TakeStanza, StanzaTaken
  <2>3. \A s : Entry(s).user = s.user /\ Entry(s).res = s.res /\ Entry(s).stage = "checking"
    OBVIOUS
  <2> HIDE DEF Entry
  <2>4. ASSUME NEW a \in Asking PROVE a \in Asking'
    BY <2>2, <2>3 DEF Asking, CachedStanza
  <2>5. ASSUME NEW a \in Asking' PROVE a \in Asking
    BY <2>2, <2>3 DEF Asking, CachedStanza
  <2> QED
    BY <2>4, <2>5
<1> QED
  BY <1>1, <1>2, SettleIsStep

\* An entry that goes on asks for the same device.
LEMMA EntryGoesOn ==
    ASSUME NEW e \in entering, NEW f, entering' = (entering \ {e}) \cup {f},
           stanzaCache' = stanzaCache, f.user = e.user, f.res = e.res,
           f.stage = "storing" <=> e.stage = "storing"
    PROVE  UNCHANGED Asking
<1>1. ASSUME NEW a \in Asking PROVE a \in Asking'
  BY DEF Asking
<1>2. ASSUME NEW a \in Asking' PROVE a \in Asking
  BY DEF Asking
<1> QED
  BY <1>1, <1>2

\* An entry that is answered, whether it is dropped or stays to be stored.
LEMMA EntryAnswered ==
    ASSUME NEW e \in entering, e.stage # "storing", stanzaCache' = stanzaCache,
           NEW rest, entering' = (entering \ {e}) \cup rest,
           \A f \in rest : f.stage = "storing"
    PROVE  <<e.user, e.res>> \in Asking /\ Asking' \in {Asking, Asking \ {<<e.user, e.res>>}}
<1> DEFINE d == <<e.user, e.res>>
<1>1. d \in Asking
  BY DEF Asking
<1>2. ASSUME NEW a \in Asking' PROVE a \in Asking
  BY DEF Asking
<1>3. ASSUME NEW a \in Asking, a # d PROVE a \in Asking'
  BY <1>3 DEF Asking
<1> QED
  BY <1>1, <1>2, <1>3

\* Whoever the index leads to is the user of the ghost asked for, or nobody.
LEMMA RemovalPresent ==
    ASSUME OwnInv, NEW u \in Users, RemoveMatrixMember(MxidOf(u))
    PROVE  Present' \in {Present, Present \ DevicesOf(u)}
<1>1. CASE UNCHANGED memberVars
  BY <1>1, SamePresent
<1>2. CASE ~UNCHANGED memberVars
  <2>1. PICK m \in members : m.realJid = byMxid[MxidOf(u)] /\ DeleteMember(m)
    BY <1>2 DEF RemoveMatrixMember, XmppMemberByMatrixId
  <2>2. m.realJid # NoUser
    BY GatewayAssumption DEF OwnInv, MemberListOK, TypeOK, Member
  <2>3. PICK k \in members : k.realJid = byMxid[MxidOf(u)] /\ k.matrixId = MxidOf(u)
    BY <2>1, <2>2, MxidsOfUsers DEF OwnInv, MemberListOK, ByMxidFindsMembers
  <2>4. m = k
    BY <2>1, <2>3 DEF OwnInv, MemberListOK, OneMemberPerUser
  <2>5. m.realJid = u
    BY <2>3, <2>4 DEF OwnInv, Provenance, MxidOf
  <2> QED
    BY <2>1, <2>5, DeleteMemberPresent DEF OwnInv
<1> QED
  BY <1>1, <1>2

\* Whoever an update of the member list takes out is an outcast.
LEMMA PutOutIsStep ==
    ASSUME OwnInv, NEW u \in Users, u \in Outcasts, RemoveMatrixMember(MxidOf(u)),
           Outcasts' \subseteq Outcasts, UNCHANGED <<Asking, kicks, Remembered, Recovering>>
    PROVE  OccupancyStep
<1>1. Occupancy!PutOut(u)
  BY RemovalPresent DEF Occupancy!PutOut, Occupancy!DevicesOf, DevicesOf, Occupancy!Relent
<1> QED
  BY <1>1 DEF OccupancyStep, Occupancy!Next

LEMMA RefreshRemovesStep ==
    ASSUME OwnInv, NEW e \in entering, NEW u \in Users, RefreshRemoves(e, u),
           Outcasts' \subseteq Outcasts
    PROVE  OccupancyStep
<1>0. e \in Entrance
  BY DEF OwnInv, MemberListOK, TypeOK
<1>1. UNCHANGED <<kicks, Remembered, Recovering>>
  BY SameRemembered DEF RefreshRemoves, matrixVars, copyVars
<1> DEFINE f == [e EXCEPT !.out = @ \ {u}]
<1>2. f.user = e.user /\ f.res = e.res /\ f.stage = e.stage
  BY <1>0 DEF Entrance
<1>3. entering' = (entering \ {e}) \cup {f} /\ stanzaCache' = stanzaCache
  BY DEF RefreshRemoves
<1> HIDE DEF f
<1>4. UNCHANGED Asking
  BY <1>2, <1>3, EntryGoesOn
<1>5. u \in Outcasts
  BY OutcastsHold DEF RefreshRemoves
<1> QED
  BY <1>1, <1>4, <1>5, PutOutIsStep DEF RefreshRemoves

LEMMA CheckNickStep ==
    ASSUME OwnInv, NEW e \in entering, CheckNick(e), Outcasts' \subseteq Outcasts
    PROVE  OccupancyStep
<1>0. e \in Entrance /\ e.stage = "checking"
  BY DEF OwnInv, MemberListOK, TypeOK, CheckNick
<1>1. UNCHANGED <<Present, kicks, Remembered, Recovering>> /\ stanzaCache' = stanzaCache
  BY SamePresent, SameRemembered DEF CheckNick, matrixVars, copyVars
<1>2. CASE entering' = entering \ {e}
  <2>1. /\ <<e.user, e.res>> \in Asking
        /\ Asking' \in {Asking, Asking \ {<<e.user, e.res>>}}
    <3>1. PICK rest : rest = {}
      OBVIOUS
    <3>2. entering' = (entering \ {e}) \cup rest /\ \A f \in rest : f.stage = "storing"
      BY <1>2, <3>1
    <3> QED
      BY <1>0, <1>1, <3>2, EntryAnswered
  <2>2. Occupancy!Refuse(<<e.user, e.res>>)
    BY <1>1, <2>1 DEF Occupancy!Refuse, Occupancy!Answered, Occupancy!Relent
  <2> QED
    BY <1>0, <2>2 DEF Entrance, OccupancyStep, Occupancy!Next, Occupancy!Devices
<1>3. CASE entering' = (entering \ {e}) \cup {[e EXCEPT !.stage = "emitting"]}
  <2> DEFINE f == [e EXCEPT !.stage = "emitting"]
  <2>1. f.user = e.user /\ f.res = e.res /\ f.stage # "storing"
    BY <1>0 DEF Entrance
  <2>2. entering' = (entering \ {e}) \cup {f}
    BY <1>3
  <2> HIDE DEF f
  <2>3. UNCHANGED Asking
    BY <1>0, <1>1, <2>1, <2>2, EntryGoesOn
  <2> QED
    BY <1>1, <2>3, SettleIsStep
<1> QED
  BY <1>2, <1>3 DEF CheckNick

LEMMA AddJoinerStep ==
    ASSUME OwnInv, NEW e \in entering, AddJoiner(e), Outcasts' \subseteq Outcasts
    PROVE  OccupancyStep
<1> DEFINE d == <<e.user, e.res>>
<1>0. d \in Devices /\ e \in Entrance /\ e.stage # "storing"
  BY DEF OwnInv, MemberListOK, TypeOK, Entrance, Devices, AddJoiner
<1>1. UNCHANGED <<kicks, Remembered, Recovering>>
  BY SameRemembered DEF AddJoiner, matrixVars, copyVars
<1>2. d \in Asking /\ Asking' \in {Asking, Asking \ {d}}
  <2> DEFINE rest == {[e EXCEPT !.stage = "storing"]}
  <2>1. \A f \in rest : f.stage = "storing"
    BY <1>0 DEF Entrance
  <2>2. entering' = (entering \ {e}) \cup rest /\ stanzaCache' = stanzaCache
    BY DEF AddJoiner
  <2> HIDE DEF rest
  <2> QED
    BY <1>0, <2>1, <2>2, EntryAnswered
<1>3. Present' = Present \cup {d}
  BY <1>0, AddMemberPresent DEF AddJoiner, OwnInv
<1>4. Occupancy!Admit(d)
  BY <1>1, <1>2, <1>3 DEF Occupancy!Admit, Occupancy!Answered, Occupancy!Relent
<1> QED
  BY <1>0, <1>4 DEF OccupancyStep, Occupancy!Next, Occupancy!Devices, Devices

LEMMA FinishRemoteJoinStep ==
    ASSUME OwnInv, NEW e \in entering, FinishRemoteJoin(e), Outcasts' \subseteq Outcasts
    PROVE  OccupancyStep
<1>1. UNCHANGED <<Present, kicks, restore, Recovering>>
  BY SamePresent DEF FinishRemoteJoin, matrixVars, copyVars, Recovering
<1>2. UNCHANGED Asking
  BY DEF FinishRemoteJoin, Asking
<1>3. Remembered' \subseteq Remembered \cup Present'
  BY <1>1, AnonJidsPresent, SaveUserRecord DEF FinishRemoteJoin
<1> QED
  BY <1>1, <1>2, <1>3, SettleIsStep

LEMMA ModeratorKickStep ==
    ASSUME NEW u \in Users, ModeratorKick(u)
    PROVE  OccupancyStep
<1>1. UNCHANGED <<Asking, Present, Remembered, Recovering>>
  BY SameAsking, SamePresent, SameRemembered DEF ModeratorKick
<1>2. UNCHANGED <<restore, entering, copy, answer, joins>> /\ expelled' = expelled \cup {u}
  BY DEF ModeratorKick, joinVars, copyVars
<1>3. Views' = Views
  BY <1>2 DEF Views
<1>4. Outcasts' = Outcasts \cup {u}
  BY <1>2, <1>3 DEF Outcasts
<1>5. Occupancy!Kick(u)
  BY <1>1, <1>4 DEF ModeratorKick, Occupancy!Kick
<1> QED
  BY <1>5 DEF OccupancyStep, Occupancy!Next

LEMMA MatrixStepStep ==
    ASSUME OwnInv, MatrixStep, \A u \in Users : ~ModeratorKick(u), Outcasts' \subseteq Outcasts
    PROVE  OccupancyStep
<1>1. CASE EventAsks \/ EventHydrates
  BY <1>1, SameAsking, SamePresent, SameRemembered, SettleIsStep
     DEF EventAsks, EventHydrates, matrixVars, copyVars
<1>2. ASSUME NEW u \in Users, DeliverKick(u)
      PROVE  OccupancyStep
  <2>0. UNCHANGED <<Asking, Remembered, Recovering>>
    BY <1>2, SameAsking, SameRemembered DEF DeliverKick
  <2>1. RemoveMatrixMember(MxidOf(u))
    BY <1>2 DEF DeliverKick, RemoveMatrixMember
  <2>2. Occupancy!Expel(u)
    BY <1>2, <2>0, <2>1, RemovalPresent
       DEF DeliverKick, Occupancy!Expel, Occupancy!DevicesOf, DevicesOf, Occupancy!Relent
  <2> QED
    BY <2>2 DEF OccupancyStep, Occupancy!Next
<1>3. ASSUME NEW u \in Users, GhostLeft(u)
      PROVE  OccupancyStep
  BY <1>3, SameAsking, SamePresent, SameRemembered, SettleIsStep DEF GhostLeft
<1> QED
  BY <1>1, <1>2, <1>3 DEF MatrixStep

LEMMA RestartStepStep ==
    ASSUME OwnInv, Restart, Outcasts' \subseteq Outcasts
    PROVE  OccupancyStep
<1>1. Asking' = {} /\ Present' = {}
  BY DEF Restart, Asking, Present
<1>2. restore'.saved = {} /\ restore'.stage = "state"
  BY DEF Restart, NotRestoring
<1>3. Remembered' \subseteq Remembered
  BY <1>2 DEF Restart, Remembered, OnRecord
<1>4. Recovering' = TRUE
  BY <1>2 DEF Recovering
<1>5. Occupancy!Crash
  BY <1>1, <1>3, <1>4 DEF Restart, Occupancy!Crash, Occupancy!Record, Occupancy!Relent
<1> QED
  BY <1>5 DEF OccupancyStep, Occupancy!Next

LEMMA AskGhostsStep ==
    ASSUME OwnInv, AskGhosts, Outcasts' \subseteq Outcasts
    PROVE  OccupancyStep
<1>1. UNCHANGED <<Asking, Present, kicks, store>>
  BY SameAsking, SamePresent DEF AskGhosts, matrixVars, copyVars
<1>2. restore'.saved = restore.saved /\ restore'.stage = "asked" /\ restore.stage = "state"
  BY DEF AskGhosts, OwnInv, MemberListOK, TypeOK, Restore
<1>3. UNCHANGED <<Remembered, Recovering>>
  BY <1>1, <1>2 DEF Remembered, OnRecord, Recovering
<1> QED
  BY <1>1, <1>3, SettleIsStep

LEMMA RestoreRemovesStep ==
    ASSUME OwnInv, NEW u \in Users, RestoreRemoves(u), Outcasts' \subseteq Outcasts
    PROVE  OccupancyStep
<1>1. UNCHANGED <<Asking, kicks, store>>
  BY SameAsking DEF RestoreRemoves, matrixVars, copyVars
<1>2. restore'.saved = restore.saved /\ restore'.stage = restore.stage
  BY DEF RestoreRemoves, OwnInv, MemberListOK, TypeOK, Restore
<1>3. UNCHANGED <<Remembered, Recovering>>
  BY <1>1, <1>2 DEF Remembered, OnRecord, Recovering
<1>4. u \in Outcasts
  BY OutcastsHold DEF RestoreRemoves
<1> QED
  BY <1>1, <1>3, <1>4, PutOutIsStep DEF RestoreRemoves

\* Reading rows puts on hold what is on record already.
LEMMA ReadGhostsStep ==
    ASSUME OwnInv, ReadGhosts, Outcasts' \subseteq Outcasts
    PROVE  OccupancyStep
<1>1. UNCHANGED <<Asking, Present, kicks, OnRecord>>
  BY SameAsking, SamePresent DEF ReadGhosts, matrixVars, copyVars, OnRecord
<1>2. PICK reached \in SUBSET store :
          restore'.stage = "rows" /\ restore'.saved = SavedGhosts(reached)
  BY RowsRead
<1>3. restore.stage # "none" /\ restore.saved = {}
  BY DEF ReadGhosts, OwnInv, Provenance
<1>4. \A w \in SavedGhosts(reached) : w.devices \subseteq OnRecord
  <2> SUFFICES ASSUME NEW w \in SavedGhosts(reached)
               PROVE  w.devices \subseteq OnRecord
    OBVIOUS
  <2>1. PICK row \in reached : \E d \in row.rooms :
           w = [name |-> row.name, nick |-> d.nick, devices |-> d.devices]
    BY DEF SavedGhosts
  <2>2. PICK d \in row.rooms : w.devices = d.devices
    BY <2>1
  <2> QED
    BY <2>2 DEF OnRecord
<1>5. Remembered' = OnRecord /\ Remembered = OnRecord
  BY <1>1, <1>2, <1>3, <1>4 DEF Remembered
<1>6. UNCHANGED Recovering
  BY <1>2, <1>3 DEF Recovering
<1> QED
  BY <1>1, <1>5, <1>6, SettleIsStep

LEMMA ReconnectStep ==
    ASSUME OwnInv, Reconnect, Outcasts' \subseteq Outcasts
    PROVE  OccupancyStep
<1> DEFINE ds == UNION {w.devices : w \in restore.saved}
           back == {u \in Users : ds \cap DevicesOf(u) # {} /\ XmppMemberByRealJid(u) = {}}
           grown == {WithDevices(m, ds) : m \in members}
<1>0. UNCHANGED <<Asking, kicks, OnRecord>> /\ restore' = NotRestoring
  BY SameAsking DEF Reconnect, matrixVars, copyVars, OnRecord
<1>1. ds \in SUBSET Devices /\ ds \subseteq Remembered
  BY DEF OwnInv, MemberListOK, TypeOK, Restore, SavedGhost, Remembered
<1>2. PICK first \in [back -> restore.saved] :
          members' = grown \cup {RestoredMember(u, first[u], ds) : u \in back}
  BY DEF Reconnect
<1>3. \A u : RestoredMember(u, first[u], ds).devices = ds \cap DevicesOf(u)
  BY RestoredMemberFields
<1>4. UNION {g.devices : g \in grown}
        = Present \cup {d \in ds : \E m \in members : d \in DevicesOf(m.realJid)}
  BY <1>1, GainPresent DEF OwnInv
<1> HIDE DEF ds, back, grown
<1>5. Present \subseteq Present' /\ Present' \subseteq Present \cup ds
  <2>1. ASSUME NEW d \in Present PROVE d \in Present'
    <3>1. PICK g \in grown : d \in g.devices
      BY <1>4
    <3> QED
      BY <1>2, <3>1 DEF Present
  <2>2. ASSUME NEW d \in Present' PROVE d \in Present \cup ds
    <3>1. PICK g \in members' : d \in g.devices
      BY DEF Present
    <3>2. CASE g \in grown
      BY <1>4, <3>1, <3>2
    <3>3. CASE g \in {RestoredMember(u, first[u], ds) : u \in back}
      BY <1>3, <3>1, <3>3
    <3> QED
      BY <1>2, <3>2, <3>3
  <2> QED
    BY <2>1, <2>2
<1>6. Remembered' \subseteq Remembered
  BY <1>0 DEF Remembered, NotRestoring
<1>7. Recovering = TRUE /\ Recovering' = FALSE
  BY <1>0 DEF Reconnect, Recovering, NotRestoring
<1>8. Occupancy!Recover
  BY <1>0, <1>1, <1>5, <1>6, <1>7 DEF Occupancy!Recover, Occupancy!Record, Occupancy!Relent
<1> QED
  BY <1>8 DEF OccupancyStep, Occupancy!Next

LEMMA NextIsOccupancyStep ==
    ASSUME OwnInv, [Next]_vars
    PROVE  OccupancyStep
<1>1. CASE \E u \in Users : ModeratorKick(u)
  BY <1>1, ModeratorKickStep
<1>2. CASE \A u \in Users : ~ModeratorKick(u)
  <2>1. Outcasts' \subseteq Outcasts
    BY <1>2, OnlyKicksMakeOutcasts DEF OwnInv, MemberListOK
  <2>2. ASSUME NEW u, NEW r, NEW n, JoinDropped(u, r, n) \/ JoinIgnored(u, r, n) \/ NickChange(u, r, n)
        PROVE  OccupancyStep
    BY <2>1, <2>2, SameAsking, SamePresent, SameRemembered, SettleIsStep
       DEF JoinDropped, JoinIgnored, NickChange, matrixVars, copyVars
  <2>3. CASE UNCHANGED vars
    BY <2>1, <2>3, SettleIsStep DEF vars, Asking, Present, Remembered, OnRecord, Recovering
  <2>4. CASE ClientStep
    BY <2>1, <2>2, <2>4, JoinRequestStep, LeaveStep DEF ClientStep
  <2>5. CASE JoinStep
    BY <2>1, <2>5, AdvanceStep, JoinFailedStep, TakeStanzaStep, RefreshRemovesStep,
       CheckNickStep, AddJoinerStep, FinishRemoteJoinStep DEF JoinStep
  <2>6. CASE MatrixStep
    BY <1>2, <2>1, <2>6, MatrixStepStep
  <2>7. CASE RestartStep
    BY <2>1, <2>7, RestartStepStep, AskGhostsStep, ReadGhostsStep, RestoreRemovesStep,
       ReconnectStep DEF RestartStep
  <2> QED
    BY <2>3, <2>4, <2>5, <2>6, <2>7 DEF Next
<1> QED
  BY <1>1, <1>2

\* XmppJsGateway implements the abstract MUC: nobody gets in without asking,
\* all devices of a user go at once only if it was kicked and the kick is still
\* on its way or held against it, and after a restart only devices on record
\* come back.
THEOREM ImplementsOccupancyHolds == Spec => ImplementsOccupancy
<1>1. Init => Occupancy!Init
  BY DEF Init, NotRestoring, Occupancy!Init, Asking, Present, Remembered, OnRecord, Recovering,
         Outcasts, Views
<1>2. OwnInv /\ [Next]_vars => [Occupancy!Next]_(Occupancy!vars)
  BY NextIsOccupancyStep DEF OccupancyStep
<1> QED
  BY <1>1, <1>2, OwnInvCorrect, PTL DEF Spec, ImplementsOccupancy, Occupancy!Spec

-----------------------------------------------------------------------------
(* Kicks.  A member that carries its ghost's ID is found by it.  One that  *)
(* was restored carries another, and the run bad_kick_after_restart shows  *)
(* that a kick does not find it.                                           *)

Own(m) == m.matrixId = MxidOf(m.realJid)
MembersFound == \A m \in members : Own(m) => byMxid[m.matrixId] = m.realJid

KickInv == OwnInv /\ MembersFound

LEMMA InitKickInv == Init => KickInv
BY InitMemberListOK, InitProvenance DEF Init, OwnInv, MembersFound, KickInv

LEMMA MxidsDiffer ==
    ASSUME NEW u, NEW v, MxidOf(u) = MxidOf(v)
    PROVE  u = v
BY DEF MxidOf

\* What a step does to the member list.
LEMMA MembersMove ==
    ASSUME OwnInv, [Next]_vars
    PROVE  \/ UNCHANGED memberVars
           \/ \E m \in members : DeleteMember(m) \/ \E d : RemoveDevice(m, d)
           \/ \E d \in Devices, n \in Nicks : AddXmppMember(d, n, MxidOf(d[1]))
           \/ RestartStep /\ (members' = {} \/ Reconnect)
<1>0. MemberListOK
  BY DEF OwnInv
<1>1. ASSUME NEW x, RemoveMatrixMember(x)
      PROVE  UNCHANGED memberVars \/ \E m \in members : DeleteMember(m)
  BY <1>1 DEF RemoveMatrixMember, XmppMemberByMatrixId
<1>2. CASE ClientStep
  <2>1. ASSUME NEW c \in claims, Leave(c)
        PROVE  UNCHANGED memberVars \/ \E m \in members : \E d : RemoveDevice(m, d)
    <3>1. CASE presence[c.nick].online /\ XmppMemberByRealJid(c.user) # {}
      <4>1. PICK m \in members : RemoveDevice(m, <<c.user, c.res>>)
        BY <2>1, <3>1 DEF Leave, RemoteLeft, XmppMemberByRealJid
      <4> QED
        BY <4>1
    <3>2. CASE ~(presence[c.nick].online /\ XmppMemberByRealJid(c.user) # {})
      BY <2>1, <3>2 DEF Leave
    <3> QED
      BY <3>1, <3>2
  <2>2. ASSUME NEW u, NEW r, NEW n, NEW id,
               JoinRequest(u, r, n, id) \/ JoinDropped(u, r, n)
               \/ JoinIgnored(u, r, n) \/ NickChange(u, r, n)
        PROVE  UNCHANGED memberVars
    BY <2>2 DEF JoinRequest, JoinDropped, JoinIgnored, NickChange
  <2> QED
    BY <1>2, <2>1, <2>2 DEF ClientStep
<1>3. CASE JoinStep
  <2>1. ASSUME NEW e \in entering, AddJoiner(e)
        PROVE  \E d \in Devices, n \in Nicks : AddXmppMember(d, n, MxidOf(d[1]))
    <3>1. e \in Entrance /\ e.sender = e.user
      BY <1>0 DEF MemberListOK, TypeOK, OwnInv, Provenance
    <3>2. <<e.user, e.res>> \in Devices /\ e.nick \in Nicks /\ <<e.user, e.res>>[1] = e.sender
      BY <3>1 DEF Entrance, Devices
    <3> QED
      BY <2>1, <3>2 DEF AddJoiner
  <2>2. ASSUME NEW e, NEW u, RefreshRemoves(e, u)
        PROVE  UNCHANGED memberVars \/ \E m \in members : DeleteMember(m)
    BY <1>1, <2>2 DEF RefreshRemoves
  <2>3. ASSUME NEW j, GhostJoined(j) \/ RoomMapped(j) \/ JoinFailed(j) \/ TakeStanza(j)
        PROVE  UNCHANGED memberVars
    BY <2>3 DEF GhostJoined, RoomMapped, JoinFailed, TakeStanza
  <2>4. ASSUME NEW e, CheckNick(e) \/ FinishRemoteJoin(e)
        PROVE  UNCHANGED memberVars
    BY <2>4 DEF CheckNick, FinishRemoteJoin
  <2> QED
    BY <1>3, <2>1, <2>2, <2>3, <2>4 DEF JoinStep
<1>4. CASE MatrixStep
  <2>1. ASSUME NEW u, DeliverKick(u)
        PROVE  UNCHANGED memberVars \/ \E m \in members : DeleteMember(m)
    BY <2>1 DEF DeliverKick, XmppMemberByMatrixId
  <2>2. (\E u \in Users : DeliverKick(u)) \/ UNCHANGED memberVars
    BY <1>4 DEF MatrixStep, EventAsks, EventHydrates, ModeratorKick, GhostLeft
  <2> QED
    BY <2>1, <2>2
<1>5. CASE RestartStep
  <2>1. ASSUME NEW u, RestoreRemoves(u)
        PROVE  UNCHANGED memberVars \/ \E m \in members : DeleteMember(m)
    BY <1>1, <2>1 DEF RestoreRemoves
  <2>2. Restart => members' = {}
    BY DEF Restart
  <2>3. AskGhosts \/ ReadGhosts => UNCHANGED memberVars
    BY DEF AskGhosts, ReadGhosts
  <2> QED
    BY <1>5, <2>1, <2>2, <2>3 DEF RestartStep
<1>6. CASE UNCHANGED vars
  BY <1>6 DEF vars, memberVars
<1> QED
  BY <1>2, <1>3, <1>4, <1>5, <1>6 DEF Next

-----------------------------------------------------------------------------
(* The operations on the member list                                       *)

LEMMA AddMemberFound ==
    ASSUME OwnInv, NEW d \in Devices, NEW n \in Nicks, AddXmppMember(d, n, MxidOf(d[1]))
    PROVE  /\ MembersFound => MembersFound'
           /\ \A x \in members' : Own(x) \/ \E y \in members : x.realJid = y.realJid /\ x.matrixId = y.matrixId
<1>0. d[1] \in Users /\ MxidOf(d[1]) \in Mxids /\ MemberListOK
  BY MxidsOfUsers DEF Devices, OwnInv
<1>1. CASE XmppMemberByRealJid(d[1]) # {}
  <2>1. members' = {WithDevices(m, {d}) : m \in members} /\ byMxid' = byMxid
    BY <1>1 DEF AddXmppMember
  <2>2. ASSUME NEW m \in members
        PROVE  /\ WithDevices(m, {d}).realJid = m.realJid
               /\ WithDevices(m, {d}).matrixId = m.matrixId
    <3>1. m \in Member /\ {d} \in SUBSET Devices
      BY <1>0 DEF MemberListOK, TypeOK
    <3> QED
      BY <3>1, WithDevicesFields
  <2>3. \A x \in members' : \E y \in members : x.realJid = y.realJid /\ x.matrixId = y.matrixId
    BY <2>1, <2>2
  <2>4. MembersFound => MembersFound'
    BY <2>1, <2>3 DEF MembersFound, Own
  <2> QED
    BY <2>3, <2>4
<1>2. CASE XmppMemberByRealJid(d[1]) = {}
  <2> DEFINE u == d[1]
             new == [realJid |-> u, matrixId |-> MxidOf(u), nick |-> n, devices |-> {d}]
  <2>1. members' = members \cup {new} /\ byMxid' = [byMxid EXCEPT ![MxidOf(u)] = u]
    BY <1>2 DEF AddXmppMember, Indexed
  <2>2. new.realJid = u /\ new.matrixId = MxidOf(u)
    OBVIOUS
  <2>3. \A m \in members : m.realJid # u
    BY <1>2 DEF XmppMemberByRealJid
  <2>4. byMxid'[MxidOf(u)] = u
    BY <1>0, <2>1 DEF MemberListOK, TypeOK
  <2> HIDE DEF u, new
  <2>5. \A m \in members : Own(m) => byMxid'[m.matrixId] = byMxid[m.matrixId]
    BY <1>0, <2>1, <2>3, MxidsDiffer DEF Own, MemberListOK, TypeOK, Member
  <2> QED
    BY <2>1, <2>2, <2>4, <2>5 DEF MembersFound, Own
<1> QED
  BY <1>1, <1>2

LEMMA DeleteMemberFound ==
    ASSUME OwnInv, MembersFound, NEW m \in members, DeleteMember(m)
    PROVE  MembersFound'
<1>1. members' = members \ {m} /\ byMxid' = [byMxid EXCEPT ![m.matrixId] = NoUser]
  BY DEF DeleteMember, Unindexed
<1>2. \A x \in members' : x.realJid # m.realJid
  BY <1>1 DEF OwnInv, MemberListOK, OneMemberPerUser
<1>3. m.matrixId = MxidOf(m.realJid) \/ m.matrixId[1] = "remote"
  BY DEF OwnInv, Provenance
<1>4. \A x \in members' : Own(x) => x.matrixId # m.matrixId
  BY <1>2, <1>3, MxidsDiffer DEF Own, MxidOf
<1> QED
  BY <1>1, <1>4 DEF MembersFound, Own, OwnInv, MemberListOK, TypeOK, Member

LEMMA RemoveDeviceFound ==
    ASSUME OwnInv, NEW m \in members, NEW d, RemoveDevice(m, d)
    PROVE  /\ MembersFound => MembersFound'
           /\ \A x \in members' : \E y \in members : x.realJid = y.realJid /\ x.matrixId = y.matrixId
<1>1. CASE IsLastDevice(m, d)
  <2>1. DeleteMember(m)
    BY <1>1 DEF RemoveDevice
  <2> QED
    BY <2>1, DeleteMemberFound DEF DeleteMember
<1>2. CASE ~IsLastDevice(m, d)
  <2> DEFINE left == [m EXCEPT !.devices = @ \ {d}]
  <2>1. members' = (members \ {m}) \cup {left} /\ byMxid' = byMxid
    BY <1>2 DEF RemoveDevice
  <2>2. left.realJid = m.realJid /\ left.matrixId = m.matrixId
    BY DEF OwnInv, MemberListOK, TypeOK, Member
  <2> HIDE DEF left
  <2> QED
    BY <2>1, <2>2 DEF MembersFound, Own
<1> QED
  BY <1>1, <1>2

\* Restored members are indexed by IDs that no ghost has.
LEMMA ReconnectFound ==
    ASSUME OwnInv, MembersFound, Reconnect
    PROVE  MembersFound'
<1> DEFINE ds == UNION {w.devices : w \in restore.saved}
           back == {u \in Users : ds \cap DevicesOf(u) # {} /\ XmppMemberByRealJid(u) = {}}
<1>1. ds \in SUBSET Devices /\ MemberListOK
  BY DEF OwnInv, MemberListOK, TypeOK, Restore, SavedGhost
<1>2. PICK first \in [back -> restore.saved] :
        /\ members' = {WithDevices(m, ds) : m \in members}
                      \cup {RestoredMember(u, first[u], ds) : u \in back}
        /\ \E latest \in [{RemoteIdOf(first[u].name) : u \in back} -> back] :
             byMxid' = [x \in Mxids |-> IF x \in DOMAIN latest THEN latest[x] ELSE byMxid[x]]
  BY DEF Reconnect
<1>3. ASSUME NEW m \in members
      PROVE  WithDevices(m, ds).matrixId = m.matrixId /\ WithDevices(m, ds).realJid = m.realJid
  BY <1>1, WithDevicesFields DEF MemberListOK, TypeOK
<1>4. ASSUME NEW u \in back
      PROVE  RestoredMember(u, first[u], ds).matrixId[1] = "remote"
  BY RestoredMemberFields DEF RemoteIdOf
<1>5. PICK latest \in [{RemoteIdOf(first[u].name) : u \in back} -> back] :
        byMxid' = [x \in Mxids |-> IF x \in DOMAIN latest THEN latest[x] ELSE byMxid[x]]
  BY <1>2
<1>6. \A u \in Users : MxidOf(u) \notin DOMAIN latest
  BY <1>5 DEF MxidOf, RemoteIdOf
<1> HIDE DEF ds, back
<1>7. ASSUME NEW m \in members', Own(m)
      PROVE  byMxid'[m.matrixId] = m.realJid
  <2>1. m.matrixId[1] # "remote"
    BY <1>7 DEF Own, MxidOf
  <2>2. PICK x \in members : m = WithDevices(x, ds)
    BY <1>2, <1>4, <2>1
  <2>3. x \in members /\ m.matrixId = x.matrixId /\ m.realJid = x.realJid
    BY <1>3, <2>2
  <2>4. x.realJid \in Users /\ x.matrixId = MxidOf(x.realJid) /\ byMxid[x.matrixId] = x.realJid
    BY <1>1, <1>7, <2>3 DEF Own, MembersFound, MemberListOK, TypeOK, Member
  <2>5. MxidOf(x.realJid) \in Mxids
    BY <2>4, MxidsOfUsers
  <2>6. byMxid'[x.matrixId] = byMxid[x.matrixId]
    BY <1>5, <1>6, <2>4, <2>5
  <2> QED
    BY <2>3, <2>4, <2>6
<1> QED
  BY <1>7 DEF MembersFound, Own

LEMMA NextKickInv ==
    ASSUME KickInv, [Next]_vars
    PROVE  KickInv'
<1>0. OwnInv /\ OwnInv' /\ MembersFound
  BY NextMemberListOK, NextProvenance DEF OwnInv, KickInv
<1>1. UNCHANGED memberVars => MembersFound'
  BY <1>0 DEF memberVars, MembersFound, Own
<1>2. ASSUME NEW m \in members, NEW d, DeleteMember(m) \/ RemoveDevice(m, d)
      PROVE  MembersFound'
  BY <1>0, <1>2, DeleteMemberFound, RemoveDeviceFound
<1>3. ASSUME NEW d \in Devices, NEW n \in Nicks, AddXmppMember(d, n, MxidOf(d[1]))
      PROVE  MembersFound'
  BY <1>0, <1>3, AddMemberFound
<1>4. members' = {} => MembersFound'
  BY DEF MembersFound
<1>5. Reconnect => MembersFound'
  BY <1>0, ReconnectFound
<1> QED
  BY <1>0, <1>1, <1>2, <1>3, <1>4, <1>5, MembersMove DEF KickInv

LEMMA KickInvCorrect == Spec => []KickInv
<1>1. Init => KickInv
  BY InitKickInv
<1>2. KickInv /\ [Next]_vars => KickInv'
  BY NextKickInv
<1> QED
  BY <1>1, <1>2, PTL DEF Spec

\* Once the state resolver has seen a kick, no device of the kicked user is
\* listed in the MUC, unless the user was restored under another ID.
THEOREM KicksTakeEffectHolds == Spec => KicksTakeEffect
<1> DEFINE Reached(u) == \A m \in members' : m.realJid = u => m.matrixId # MxidOf(u)
<1>1. ASSUME KickInv, [Next]_vars, NEW u \in kicks \ kicks'
      PROVE  Reached(u)
  <2>1. DeliverKick(u)
    <3>1. ASSUME NEW v, NEW r, NEW n, NEW id,
                 JoinRequest(v, r, n, id) \/ JoinDropped(v, r, n)
                 \/ JoinIgnored(v, r, n) \/ NickChange(v, r, n)
          PROVE  kicks' = kicks
      BY <3>1 DEF JoinRequest, JoinDropped, JoinIgnored, NickChange, matrixVars, copyVars
    <3>2. ASSUME NEW c, Leave(c) PROVE kicks' = kicks
      BY <3>2 DEF Leave
    <3>3. CASE JoinStep
      <4>1. ASSUME NEW j, GhostJoined(j) \/ RoomMapped(j) \/ JoinFailed(j) \/ TakeStanza(j)
            PROVE  kicks' = kicks
        BY <4>1 DEF GhostJoined, RoomMapped, JoinFailed, TakeStanza, matrixVars, copyVars
      <4>2. ASSUME NEW e, NEW v, RefreshRemoves(e, v) \/ CheckNick(e) \/ AddJoiner(e)
                                 \/ FinishRemoteJoin(e)
            PROVE  kicks' = kicks
        BY <4>2 DEF RefreshRemoves, CheckNick, AddJoiner, FinishRemoteJoin, matrixVars, copyVars
      <4> QED
        BY <3>3, <4>1, <4>2 DEF JoinStep
    <3>4. CASE UNCHANGED vars
      BY <3>4 DEF vars
    <3>5. ASSUME NEW v \in Users, ModeratorKick(v) \/ DeliverKick(v) \/ GhostLeft(v)
          PROVE  u \in kicks' \/ DeliverKick(u)
      BY <1>1, <3>5 DEF ModeratorKick, DeliverKick, GhostLeft
    <3>6. CASE EventAsks \/ EventHydrates
      BY <3>6 DEF EventAsks, EventHydrates, matrixVars, copyVars
    <3>7. CASE RestartStep
      BY <3>7 DEF RestartStep, Restart, AskGhosts, ReadGhosts, Reconnect, RestoreRemoves, matrixVars
    <3> QED
      BY <1>1, <3>1, <3>2, <3>3, <3>4, <3>5, <3>6, <3>7 DEF Next, ClientStep, MatrixStep
  <2>2. SUFFICES ASSUME NEW m \in members, m.realJid = u, m.matrixId = MxidOf(u) PROVE Reached(u)
    BY <2>1 DEF DeliverKick, DeleteMember, memberVars, XmppMemberByMatrixId
  <2>3. byMxid[MxidOf(u)] = u
    BY <1>1, <2>2 DEF KickInv, MembersFound, Own
  <2>4. PICK x \in members : x.realJid = u /\ DeleteMember(x)
    BY <2>1, <2>2, <2>3 DEF DeliverKick, XmppMemberByMatrixId
  <2> QED
    BY <1>1, <2>4 DEF DeleteMember, KickInv, OwnInv, MemberListOK, OneMemberPerUser
<1>2. KickInv /\ [Next]_vars => [\A u \in kicks \ kicks' : Reached(u)]_vars
  BY <1>1
<1> QED
  BY <1>2, KickInvCorrect, PTL DEF Spec, KicksTakeEffect

-----------------------------------------------------------------------------
(* As long as the bridge is not restarted, nobody is restored, and every   *)
(* member carries its ghost's ID.                                          *)

StillInv == OwnInv /\ restore = NotRestoring /\ MembersCarryTheirMxid

\* A bridge that has just started, with nothing restored, never restores.
LEMMA NoRestartSteps ==
    ASSUME MaxRestarts = 0, StillInv
    PROVE  ~RestartStep
<1>1. ~(restarts < MaxRestarts)
  BY DEF StillInv, OwnInv, MemberListOK, TypeOK
<1> QED
  BY <1>1 DEF RestartStep, Restart, AskGhosts, ReadGhosts, RestoreRemoves, Reconnect, StillInv,
              NotRestoring

LEMMA RestoreUnchanged ==
    ASSUME MaxRestarts = 0, StillInv, [Next]_vars
    PROVE  restore' = restore
<1>1. CASE ClientStep
  <2>1. ASSUME NEW u, NEW r, NEW n, NEW id,
               JoinRequest(u, r, n, id) \/ JoinDropped(u, r, n)
               \/ JoinIgnored(u, r, n) \/ NickChange(u, r, n)
        PROVE  restore' = restore
    BY <2>1 DEF JoinRequest, JoinDropped, JoinIgnored, NickChange
  <2>2. ASSUME NEW c, Leave(c) PROVE restore' = restore
    BY <2>2 DEF Leave
  <2> QED
    BY <1>1, <2>1, <2>2 DEF ClientStep
<1>2. CASE JoinStep
  BY <1>2 DEF JoinStep, GhostJoined, RoomMapped, JoinFailed, TakeStanza, RefreshRemoves,
              CheckNick, AddJoiner, FinishRemoteJoin
<1>3. CASE MatrixStep
  BY <1>3 DEF MatrixStep, EventAsks, EventHydrates, ModeratorKick, DeliverKick, GhostLeft
<1>4. CASE UNCHANGED vars
  BY <1>4 DEF vars
<1> QED
  BY <1>1, <1>2, <1>3, <1>4, NoRestartSteps DEF Next

LEMMA NextStillInv ==
    ASSUME MaxRestarts = 0, StillInv, [Next]_vars
    PROVE  StillInv'
<1>0. OwnInv /\ OwnInv' /\ restore' = NotRestoring /\ \A m \in members : Own(m)
  BY NextMemberListOK, NextProvenance, RestoreUnchanged DEF OwnInv, StillInv, NotRestoring, MembersCarryTheirMxid, Own
<1> SUFFICES \A m \in members' : Own(m)
  BY <1>0 DEF StillInv, MembersCarryTheirMxid, Own, NotRestoring
<1>1. UNCHANGED memberVars => \A m \in members' : Own(m)
  BY <1>0 DEF memberVars
<1>2. ASSUME NEW m \in members, NEW d, DeleteMember(m) \/ RemoveDevice(m, d)
      PROVE  \A x \in members' : Own(x)
  <2>1. \A x \in members' : \E y \in members : x.realJid = y.realJid /\ x.matrixId = y.matrixId
    BY <1>0, <1>2, RemoveDeviceFound DEF DeleteMember
  <2> QED
    BY <1>0, <2>1 DEF Own
<1>3. ASSUME NEW d \in Devices, NEW n \in Nicks, AddXmppMember(d, n, MxidOf(d[1]))
      PROVE  \A x \in members' : Own(x)
  BY <1>0, <1>3, AddMemberFound DEF Own
<1> QED
  BY <1>0, <1>1, <1>2, <1>3, MembersMove, NoRestartSteps

\* addXmppMember is always given the Matrix ID of the JID it adds: whatever
\* overlaps, no member is listed under the ghost of somebody else.
THEOREM MembersCarryTheirMxidHolds ==
    ASSUME MaxRestarts = 0
    PROVE  Spec => []MembersCarryTheirMxid
<1>1. Init => StillInv
  BY InitMemberListOK, InitProvenance DEF Init, OwnInv, StillInv, MembersCarryTheirMxid
<1>2. StillInv /\ [Next]_vars => StillInv'
  BY NextStillInv
<1>3. StillInv => MembersCarryTheirMxid
  BY DEF StillInv
<1> QED
  BY <1>1, <1>2, <1>3, PTL DEF Spec
==============================================================================
