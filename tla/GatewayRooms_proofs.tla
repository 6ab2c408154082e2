------------------------- MODULE GatewayRooms_proofs -------------------------
(***************************************************************************)
(* Of GatewayRooms, from the cached copy to the occupants: its types; that *)
(* nobody is put out of the MUC while its ghost stays, as long as no ghost *)
(* is kicked; that occupants know the member list; that the copy catches   *)
(* up with the room; and, from these, that the list is accurate.  Each has *)
(* an inductive invariant of its own, in a section of its own.             *)
(***************************************************************************)
EXTENDS GatewayRooms, WellFoundedInduction, TLAPS

Lists == [Users -> MaybeName]
HandlerType == [stage: {"idle", "asked"} \cup Fetching, event: Event \cup {NoEvent}, alias: MaybeAlias, room: Room]
JoinType == [stage: {"idle", "lookup", "storing", "asked", "entering"} \cup Fetching,
             alias: Aliases, room: Room, list: Lists]

\* Only an event of type "title" takes its name to where a name must be.
Sound(e) == e \in Event /\ (e.type = "title" => e.name \in Names)

EventsSound ==
    /\ \A i \in DOMAIN events : Sound(events[i])
    /\ \A h \in Handlers : ~Idle(h) => Sound(handlers[h].event) /\ handlers[h].alias \in Aliases

\* Who is fetching an avatar has a copy that is cached.
NoneFetches(waiting, W) == \A w \in W : waiting[w].stage # "fetching"
Held == cache = NoRoom => NoneFetches(handlers, Handlers) /\ NoneFetches(joins, Ghosts)

TypeInv == TypeOK /\ EventsSound /\ Held

LEMMA NewRoomType == NewRoom \in Room
<1>1. (CHOOSE n \in Names : TRUE) \in Names
  BY GatewayRoomsAssumption
<1> QED
  BY <1>1 DEF NewRoom, Room, UserEntry, MaybeName

LEMMA RoomIsNotNoRoom == NoRoom \notin Room
BY GatewayRoomsAssumption DEF Room, UserEntry, MaybeName

LEMMA AbsentType == Absent \in Lists
BY DEF Absent, Lists, MaybeName

LEMMA NewTypes ==
    /\ NewHandler \in HandlerType /\ NewHandler.stage = "idle" /\ NewHandler.room = NewRoom
    /\ NewJoin \in JoinType /\ NewJoin.stage = "idle" /\ NewJoin.room = NewRoom
<1>1. (CHOOSE a \in Aliases : TRUE) \in Aliases
  BY GatewayRoomsAssumption
<1>2. [u \in Users |-> NoName] \in Lists
  BY DEF Lists, MaybeName
<1> QED
  BY <1>1, <1>2, NewRoomType DEF NewHandler, NewJoin, HandlerType, JoinType, MaybeAlias

LEMMA InitTypeInv == Init => TypeInv
<1> SUFFICES ASSUME Init PROVE TypeInv
  OBVIOUS
<1>1. home \in Room /\ cache \in Room \cup {NoRoom} /\ row \in MaybeAlias
  BY NewRoomType DEF Init, MaybeAlias
<1>2. events \in Seq(Event) /\ steps \in Nat /\ DOMAIN events = {}
  BY DEF Init
<1>3. handlers \in [Handlers -> HandlerType] /\ joins \in [Ghosts -> JoinType]
  BY NewTypes DEF Init
<1>4. /\ nicks \in [Aliases -> Lists]
      /\ occupants \in [Aliases -> SUBSET Ghosts]
      /\ told \in [Aliases -> [Ghosts -> Lists]]
  BY AbsentType DEF Init
<1>5. lost \in BOOLEAN /\ mishaps \subseteq Mishaps
  BY DEF Init
<1>6. \A h \in Handlers : Idle(h)
  BY NewTypes DEF Init, Idle
<1>7. Held
  BY NewTypes DEF Init, Held, NoneFetches
<1> QED
  BY <1>1, <1>2, <1>3, <1>4, <1>5, <1>6, <1>7
     DEF TypeInv, TypeOK, EventsSound, HandlerType, JoinType, Lists

-----------------------------------------------------------------------------
(* Refreshing the list                                                     *)

LEMMA LeastNatural == ASSUME NEW T \in SUBSET Nat, T # {} PROVE Min(T) \in T
<1> DEFINE R == OpToRel(<, Nat)
<1>1. IsWellFoundedOn(R, Nat)
  BY NatLessThanWellFounded
<1>2. \A x, y \in Nat : y < x => <<y, x>> \in R
  BY DEF OpToRel
<1> HIDE DEF R
<1>3. PICK x \in T : \A y \in T : ~ (<<y, x>> \in R)
  BY <1>1, WFMin
<1>4. ASSUME NEW y \in T PROVE x =< y
  <2>1. ~(y < x)
    BY <1>2, <1>3
  <2> QED
    BY <2>1
<1> QED
  BY <1>4 DEF Min

LEMMA EntriesType ==
    ASSUME NEW room \in Room, NEW u \in Users
    PROVE  Entries(room, u) \in Seq(UserEntry) /\ Entries(room, u)[1] = room.users[u]
<1>1. room.users[u] \in UserEntry /\ room.again[u] \in Seq(UserEntry)
  BY DEF Room
<1> HIDE DEF UserEntry
<1>2. <<room.users[u]>> \in Seq(UserEntry) /\ Len(<<room.users[u]>>) = 1
  BY <1>1
<1> QED
  BY <1>1, <1>2 DEF Entries

LEMMA RefreshedTypes ==
    ASSUME NEW room \in Room, NEW list \in Lists, NEW G \in SUBSET Ghosts
    PROVE  RefreshedNicks(room, list) \in Lists /\ RefreshedOccupants(room, G) \in SUBSET Ghosts
<1>1. ASSUME NEW u \in Users
      PROVE  RefreshedNicks(room, list)[u] \in MaybeName
  <2> DEFINE all == Entries(room, u)
             gone == {i \in DOMAIN all : all[i].mem = "leave"}
             back == {i \in DOMAIN all : all[i].mem = "join" /\ \A j \in gone : j < i}
  <2>1. all \in Seq(UserEntry)
    BY EntriesType
  <2>2. RefreshedNicks(room, list)[u] =
            IF gone = {} /\ list[u] # NoName THEN list[u]
            ELSE IF back = {} THEN NoName ELSE all[Min(back)].name
    BY DEF RefreshedNicks
  <2>3. back \in SUBSET Nat /\ back \subseteq DOMAIN all
    BY <2>1
  <2>4. \A i \in DOMAIN all : all[i].name \in MaybeName
    <3>1. \A i \in DOMAIN all : all[i] \in UserEntry
      BY <2>1
    <3> QED
      BY <3>1 DEF UserEntry
  <2> HIDE DEF all, gone, back
  <2>5. back # {} => all[Min(back)].name \in MaybeName
    BY <2>3, <2>4, LeastNatural
  <2>6. list[u] \in MaybeName /\ NoName \in MaybeName
    BY DEF Lists, MaybeName
  <2> QED
    BY <2>2, <2>5, <2>6
<1>2. RefreshedNicks(room, list) = [u \in Users |-> RefreshedNicks(room, list)[u]]
  BY DEF RefreshedNicks
<1>3. RefreshedNicks(room, list) \in Lists
  BY <1>1, <1>2 DEF Lists
<1>4. RefreshedOccupants(room, G) \in SUBSET Ghosts
  BY DEF RefreshedOccupants
<1> QED
  BY <1>3, <1>4

\* Of what is seen on the way everything is of the copy as it was or as it is.
LEMMA SeenTypes ==
    ASSUME NEW w, w.room \in Room, w.stage \in Fetching, w.stage = "fetching" => cache \in Room,
           NEW room \in Seen(w)
    PROVE  /\ room \in Room
           /\ room.ghosts = w.room.ghosts
           /\ \A u \in Users : \/ room.users[u] = w.room.users[u] /\ room.again[u] = w.room.again[u]
                               \/ /\ w.stage = "fetching"
                                  /\ room.users[u] = cache.users[u] /\ room.again[u] = cache.again[u]
<1>1. CASE w.stage = "adrift"
  BY <1>1 DEF Seen
<1>2. CASE w.stage # "adrift"
  <2>1. w.stage = "fetching" /\ cache \in Room
    BY <1>2 DEF Fetching
  <2>2. PICK late \in SUBSET Users :
            room = [w.room EXCEPT !.users = [u \in Users |-> IF u \in late THEN cache.users[u] ELSE @[u]],
                                  !.again = [u \in Users |-> IF u \in late THEN cache.again[u] ELSE @[u]]]
    BY <1>2 DEF Seen
  <2> DEFINE us == [u \in Users |-> IF u \in late THEN cache.users[u] ELSE w.room.users[u]]
             ag == [u \in Users |-> IF u \in late THEN cache.again[u] ELSE w.room.again[u]]
  <2>3. us \in [Users -> UserEntry]
    BY <2>1 DEF Room
  <2>4. ag \in [Users -> Seq(UserEntry)]
    BY <2>1 DEF Room
  <2>5. room = [w.room EXCEPT !.users = us, !.again = ag]
    BY <2>2
  <2>6. \A u \in Users : \/ us[u] = w.room.users[u] /\ ag[u] = w.room.again[u]
                         \/ us[u] = cache.users[u] /\ ag[u] = cache.again[u]
    OBVIOUS
  <2> HIDE DEF us, ag
  <2>7. room.users = us /\ room.again = ag /\ room.ghosts = w.room.ghosts /\ room \in Room
    BY <2>3, <2>4, <2>5 DEF Room
  <2> QED
    BY <2>1, <2>6, <2>7
<1> QED
  BY <1>1, <1>2

-----------------------------------------------------------------------------
(* Handling an event                                                       *)

LEMMA ResolvedType ==
    ASSUME NEW e, Sound(e), NEW list \in Lists, NEW renamed
    PROVE  Resolved(e, list, renamed) \in Lists
<1>1. e.name \in MaybeName /\ NoName \in MaybeName
  BY DEF Sound, Event, MaybeName
<1>2. [list EXCEPT ![e.who] = NoName] \in Lists /\ [list EXCEPT ![e.who] = e.name] \in Lists
  BY <1>1 DEF Lists
<1> QED
  BY <1>2 DEF Resolved

LEMMA AnnouncedType ==
    ASSUME TypeOK, NEW a \in Aliases, NEW list \in Lists
    PROVE  Announced(a, list) \in [Ghosts -> Lists]
<1>1. told[a] \in [Ghosts -> Lists]
  BY DEF TypeOK, Lists
<1>2. ASSUME NEW g \in Ghosts
      PROVE  [u \in Users |-> IF list[u] # nicks[a][u] THEN list[u] ELSE told[a][g][u]] \in Lists
  BY <1>1 DEF Lists
<1> QED
  BY <1>1, <1>2 DEF Announced

LEMMA NotedType ==
    ASSUME NEW e, Sound(e), NEW room \in Room
    PROVE  Noted(room, e) \in Room /\ Pushed(room, e) \in Room
<1>1. [mem |-> e.mem, name |-> e.name] \in UserEntry
  BY DEF Sound, Event, UserEntry
<1>2. [room.users EXCEPT ![e.who] = [mem |-> e.mem, name |-> e.name]] \in [Users -> UserEntry]
  BY <1>1 DEF Room
<1>3. [room.again EXCEPT ![e.who] = Append(@, [mem |-> e.mem, name |-> e.name])] \in [Users -> Seq(UserEntry)]
  <2>1. \A s \in Seq(UserEntry) : Append(s, [mem |-> e.mem, name |-> e.name]) \in Seq(UserEntry)
    BY <1>1
  <2> QED
    BY <2>1 DEF Room
<1>4. Noted(room, e) \in Room
  BY <1>2 DEF Noted, Room
<1> QED
  BY <1>3, <1>4 DEF Pushed, Room

LEMMA HandleType ==
    ASSUME TypeOK, NEW e, Sound(e), NEW room \in Room, NEW a \in Aliases, Handle(e, room, a)
    PROVE  /\ cache' \in Room
           /\ nicks' \in [Aliases -> Lists]
           /\ occupants' \in [Aliases -> SUBSET Ghosts]
           /\ told' \in [Aliases -> [Ghosts -> Lists]]
           /\ lost' \in BOOLEAN
<1>0. /\ nicks \in [Aliases -> Lists]
      /\ occupants \in [Aliases -> SUBSET Ghosts]
      /\ told \in [Aliases -> [Ghosts -> Lists]]
      /\ lost \in BOOLEAN
  BY DEF TypeOK, Lists
<1>1. CASE HandleMember(e, room, a)
  <2>1. Noted(room, e) \in Room
    BY NotedType
  <2> DEFINE known == room.users[e.who].mem = e.mem
             list == IF occupants[a] = {} \/ (known /\ room.users[e.who].name = e.name)
                     THEN nicks[a] ELSE Resolved(e, nicks[a], known)
  <2>2. list \in Lists
    BY <1>0, ResolvedType
  <2>3. /\ cache' = Noted(room, e)
        /\ nicks' = [nicks EXCEPT ![a] = list]
        /\ told' = [told EXCEPT ![a] = Announced(a, list)]
        /\ UNCHANGED <<occupants, lost>>
    BY <1>1 DEF HandleMember
  <2> HIDE DEF list
  <2> QED
    BY <1>0, <2>1, <2>2, <2>3, AnnouncedType
<1>2. CASE HandleKick(e, room, a)
  BY <1>0, <1>2 DEF HandleKick
<1>3. CASE HandleTitle(e, room, a)
  <2>1. Retitled(room, e) \in Room
    BY <1>3 DEF HandleTitle, Retitled, Sound, Room
  <2> QED
    BY <1>0, <1>3, <2>1 DEF HandleTitle
<1>4. CASE HandleText(e, room, a)
  <2>1. lost' \in BOOLEAN
    BY <1>4 DEF HandleText
  <2> QED
    BY <1>0, <1>4, <2>1 DEF HandleText
<1> QED
  BY <1>1, <1>2, <1>3, <1>4 DEF Handle

-----------------------------------------------------------------------------
(* The events on their way                                                 *)

LEMMA Removed ==
    ASSUME NEW S, NEW s \in Seq(S), NEW i \in DOMAIN s
    PROVE  /\ RemoveAt(s, i) \in Seq(S)
           /\ DOMAIN RemoveAt(s, i) = 1 .. (Len(s) - 1)
           /\ \A k \in 1 .. (i - 1) : RemoveAt(s, i)[k] = s[k]
           /\ \A k \in i .. (Len(s) - 1) : RemoveAt(s, i)[k] = s[k + 1]
<1> DEFINE front == SubSeq(s, 1, i - 1)
           back == SubSeq(s, i + 1, Len(s))
<1>1. i \in 1 .. Len(s) /\ Len(s) \in Nat
  OBVIOUS
<1>2. /\ front \in Seq(S) /\ Len(front) = i - 1
      /\ \A k \in 1 .. (i - 1) : front[k] = s[k]
  BY <1>1
<1>3. /\ back \in Seq(S) /\ Len(back) = Len(s) - i
      /\ \A k \in 1 .. (Len(s) - i) : back[k] = s[k + i]
  BY <1>1
<1>4. RemoveAt(s, i) = front \o back
  BY DEF RemoveAt
<1> HIDE DEF front, back
<1>5. (front \o back) \in Seq(S) /\ Len(front \o back) = Len(s) - 1
  BY <1>1, <1>2, <1>3
<1>6. ASSUME NEW k \in 1 .. (i - 1)
      PROVE  (front \o back)[k] = s[k]
  BY <1>1, <1>2, <1>3
<1>7. ASSUME NEW k \in i .. (Len(s) - 1)
      PROVE  (front \o back)[k] = s[k + 1]
  <2>1. (front \o back)[k] = back[k - (i - 1)] /\ k - (i - 1) \in 1 .. (Len(s) - i)
    BY <1>1, <1>2, <1>3
  <2>2. back[k - (i - 1)] = s[k + 1]
    BY <1>1, <1>3, <2>1
  <2> QED
    BY <2>1, <2>2
<1>8. DOMAIN (front \o back) = 1 .. (Len(s) - 1)
  BY <1>5
<1> QED
  BY <1>4, <1>5, <1>6, <1>7, <1>8

LEMMA RemoveEvent ==
    ASSUME NEW S, NEW s \in Seq(S), NEW i \in DOMAIN s
    PROVE  /\ RemoveAt(s, i) \in Seq(S)
           /\ \A k \in DOMAIN RemoveAt(s, i) : \E j \in DOMAIN s : RemoveAt(s, i)[k] = s[j]
<1>1. i \in 1 .. Len(s) /\ Len(s) \in Nat /\ DOMAIN s = 1 .. Len(s)
  OBVIOUS
<1>2. ASSUME NEW k \in 1 .. (Len(s) - 1)
      PROVE  \E j \in DOMAIN s : RemoveAt(s, i)[k] = s[j]
  <2>1. k \in DOMAIN s /\ k + 1 \in DOMAIN s /\ (k \in 1 .. (i - 1) \/ k \in i .. (Len(s) - 1))
    BY <1>1
  <2> QED
    BY <2>1, Removed
<1> QED
  BY <1>2, Removed

LEMMA RemoveKeeps ==
    ASSUME NEW S, NEW s \in Seq(S), NEW i \in DOMAIN s, NEW k \in DOMAIN s, k # i
    PROVE  \E j \in DOMAIN RemoveAt(s, i) : RemoveAt(s, i)[j] = s[k]
<1>1. i \in 1 .. Len(s) /\ k \in 1 .. Len(s) /\ Len(s) \in Nat
  OBVIOUS
<1>2. CASE k < i
  <2>1. k \in 1 .. (i - 1) /\ k \in 1 .. (Len(s) - 1)
    BY <1>1, <1>2
  <2> QED
    BY <2>1, Removed
<1>3. CASE k > i
  <2>1. k - 1 \in i .. (Len(s) - 1) /\ k - 1 \in 1 .. (Len(s) - 1) /\ (k - 1) + 1 = k
    BY <1>1, <1>3
  <2>2. RemoveAt(s, i)[k - 1] = s[k]
    BY <2>1, Removed
  <2> QED
    BY <2>1, <2>2, Removed
<1> QED
  BY <1>1, <1>2, <1>3

LEMMA PushSound ==
    ASSUME TypeInv, NEW e, Sound(e), Push(e)
    PROVE  /\ events' \in Seq(Event) /\ steps' \in Nat
           /\ \A i \in DOMAIN events' : Sound(events'[i])
<1>1. events \in Seq(Event) /\ steps \in Nat /\ e \in Event
  BY DEF TypeInv, TypeOK, Sound
<1>2. events' = Append(events, e) /\ steps' = steps + 1
  BY DEF Push
<1>3. ASSUME NEW i \in DOMAIN events' PROVE Sound(events'[i])
  <2>1. CASE i = Len(events) + 1
    BY <1>1, <1>2, <2>1
  <2>2. CASE i # Len(events) + 1
    <3>1. i \in DOMAIN events /\ events'[i] = events[i]
      BY <1>1, <1>2, <1>3, <2>2
    <3> QED
      BY <3>1 DEF TypeInv, EventsSound
  <2> QED
    BY <2>1, <2>2
<1> QED
  BY <1>1, <1>2, <1>3

LEMMA TakeSound ==
    ASSUME TypeInv, NEW i \in DOMAIN events, events' = RemoveAt(events, i)
    PROVE  /\ events' \in Seq(Event) /\ Sound(events[i])
           /\ \A k \in DOMAIN events' : Sound(events'[k])
BY RemoveEvent DEF TypeInv, TypeOK, EventsSound

LEMMA MishapsGrow ==
    ASSUME mishaps \subseteq Mishaps, NEW S \in SUBSET Mishaps, Happened(S)
    PROVE  mishaps' \subseteq Mishaps
BY DEF Happened

LEMMA MissedIsMishap == \A a, self : Missed(a, self) \in SUBSET Mishaps
BY DEF Missed, If, Mishaps

-----------------------------------------------------------------------------
(* The steps                                                               *)

\* All but the events and what is done with them.
RestOK == /\ home \in Room /\ steps \in Nat /\ row \in MaybeAlias
          /\ joins \in [Ghosts -> JoinType]
MucOK == /\ cache \in Room \cup {NoRoom}
         /\ nicks \in [Aliases -> Lists]
         /\ occupants \in [Aliases -> SUBSET Ghosts]
         /\ told \in [Aliases -> [Ghosts -> Lists]]
         /\ lost \in BOOLEAN

HandlersOK ==
    /\ handlers \in [Handlers -> HandlerType]
    /\ \A h \in Handlers : ~Idle(h) => Sound(handlers[h].event) /\ handlers[h].alias \in Aliases

QueueOK == events \in Seq(Event) /\ \A i \in DOMAIN events : Sound(events[i])

LEMMA TypeParts ==
    TypeInv <=> RestOK /\ MucOK /\ HandlersOK /\ QueueOK /\ Held /\ mishaps \subseteq Mishaps
BY DEF TypeInv, TypeOK, EventsSound, RestOK, MucOK, HandlersOK, QueueOK, HandlerType, JoinType, Lists

LEMMA TypePartsNext ==
    TypeInv' <=> RestOK' /\ MucOK' /\ HandlersOK' /\ QueueOK' /\ Held' /\ (mishaps \subseteq Mishaps)'
BY DEF TypeInv, TypeOK, EventsSound, RestOK, MucOK, HandlersOK, QueueOK, HandlerType, JoinType, Lists,
       Held, NoneFetches, Idle

\* The copy is another one, or there is none: nobody fetches with it.
LEMMA AdriftTypes ==
    ASSUME RestOK, HandlersOK
    PROVE  /\ Adrift(handlers) \in [Handlers -> HandlerType] /\ NoneFetches(Adrift(handlers), Handlers)
           /\ \A h \in Handlers :
                  /\ Adrift(handlers)[h].event = handlers[h].event
                  /\ Adrift(handlers)[h].alias = handlers[h].alias
                  /\ Adrift(handlers)[h].room = handlers[h].room
                  /\ IF handlers[h].stage = "fetching" THEN Adrift(handlers)[h].stage = "adrift"
                     ELSE Adrift(handlers)[h] = handlers[h]
           /\ Adrift(joins) \in [Ghosts -> JoinType] /\ NoneFetches(Adrift(joins), Ghosts)
           /\ \A g \in Ghosts :
                  /\ Adrift(joins)[g].alias = joins[g].alias
                  /\ Adrift(joins)[g].room = joins[g].room
                  /\ Adrift(joins)[g].list = joins[g].list
                  /\ IF joins[g].stage = "fetching" THEN Adrift(joins)[g].stage = "adrift"
                     ELSE Adrift(joins)[g] = joins[g]
<1>1. handlers \in [Handlers -> HandlerType] /\ joins \in [Ghosts -> JoinType]
  BY DEF HandlersOK, RestOK
<1>2. /\ \A h \in Handlers : Adrift(handlers)[h] = IF handlers[h].stage = "fetching"
                                THEN [handlers[h] EXCEPT !.stage = "adrift"] ELSE handlers[h]
      /\ DOMAIN Adrift(handlers) = Handlers /\ Adrift(handlers) = [h \in Handlers |-> Adrift(handlers)[h]]
  BY <1>1 DEF Adrift
<1>3. /\ \A g \in Ghosts : Adrift(joins)[g] = IF joins[g].stage = "fetching"
                                THEN [joins[g] EXCEPT !.stage = "adrift"] ELSE joins[g]
      /\ DOMAIN Adrift(joins) = Ghosts /\ Adrift(joins) = [g \in Ghosts |-> Adrift(joins)[g]]
  BY <1>1 DEF Adrift
<1>4. ASSUME NEW h \in Handlers
      PROVE  /\ Adrift(handlers)[h] \in HandlerType /\ Adrift(handlers)[h].stage # "fetching"
             /\ Adrift(handlers)[h].event = handlers[h].event
             /\ Adrift(handlers)[h].alias = handlers[h].alias
             /\ Adrift(handlers)[h].room = handlers[h].room
             /\ IF handlers[h].stage = "fetching" THEN Adrift(handlers)[h].stage = "adrift"
                ELSE Adrift(handlers)[h] = handlers[h]
  <2>1. handlers[h] \in HandlerType
    BY <1>1
  <2> QED
    BY <1>2, <2>1 DEF HandlerType, Fetching
<1>5. ASSUME NEW g \in Ghosts
      PROVE  /\ Adrift(joins)[g] \in JoinType /\ Adrift(joins)[g].stage # "fetching"
             /\ Adrift(joins)[g].alias = joins[g].alias
             /\ Adrift(joins)[g].room = joins[g].room
             /\ Adrift(joins)[g].list = joins[g].list
             /\ IF joins[g].stage = "fetching" THEN Adrift(joins)[g].stage = "adrift"
                ELSE Adrift(joins)[g] = joins[g]
  <2>1. joins[g] \in JoinType
    BY <1>1
  <2> QED
    BY <1>3, <2>1 DEF JoinType, Fetching
<1>6. Adrift(handlers) \in [Handlers -> HandlerType] /\ NoneFetches(Adrift(handlers), Handlers)
  BY <1>2, <1>4 DEF NoneFetches
<1>7. Adrift(joins) \in [Ghosts -> JoinType] /\ NoneFetches(Adrift(joins), Ghosts)
  BY <1>3, <1>5 DEF NoneFetches
<1> QED
  BY <1>4, <1>5, <1>6, <1>7

\* A copy is cached: whoever fetches has one.
LEMMA HeldWithRoom == ASSUME cache' \in Room PROVE Held'
BY RoomIsNotNoRoom DEF Held

LEMMA HandlerDone ==
    ASSUME HandlersOK, NEW h \in Handlers, handlers' = [handlers EXCEPT ![h] = NewHandler]
    PROVE  HandlersOK' /\ (NoneFetches(handlers, Handlers) => NoneFetches(handlers, Handlers)')
BY NewTypes DEF HandlersOK, NoneFetches, Idle

LEMMA EventTypes ==
    ASSUME TypeInv,
           NEW i, \/ IgnoreEvent(i) \/ HandleEvent(i)
                  \/ \E h \in Handlers : AskForState(h, i) \/ FetchAvatar(h, i)
    PROVE  TypeInv'
<1> USE TypeParts
<1>1. CASE IgnoreEvent(i)
  <2>1. QueueOK'
    BY <1>1, TakeSound DEF IgnoreEvent, QueueOK
  <2>2. (mishaps \subseteq Mishaps)'
    BY <1>1, MishapsGrow DEF IgnoreEvent, If, Mishaps
  <2> QED
    BY <1>1, <2>1, <2>2, TypePartsNext
       DEF IgnoreEvent, mucVars, RestOK, MucOK, HandlersOK, Held, NoneFetches, Idle
<1>2. CASE HandleEvent(i)
  <2>1. QueueOK' /\ Sound(events[i])
    BY <1>2, TakeSound DEF HandleEvent, QueueOK
  <2>2. MucOK' /\ cache' \in Room
    BY <1>2, <2>1, HandleType DEF HandleEvent, TypeInv, MucOK, RestOK, MaybeAlias
  <2>3. (mishaps \subseteq Mishaps)'
    <3>1. (If(i > 1, "reordered") \cup Missed(row, <<>>)) \in SUBSET Mishaps
      BY MissedIsMishap DEF If, Mishaps
    <3> QED
      BY <1>2, <3>1, MishapsGrow DEF HandleEvent
  <2> QED
    BY <1>2, <2>1, <2>2, <2>3, TypePartsNext, HeldWithRoom DEF HandleEvent, RestOK, HandlersOK, Idle
<1>3. ASSUME NEW h \in Handlers, AskForState(h, i)
      PROVE  TypeInv'
  <2>1. QueueOK' /\ Sound(events[i])
    BY <1>3, TakeSound DEF AskForState, QueueOK
  <2>2. /\ [stage |-> "asked", event |-> events[i], alias |-> row, room |-> home] \in HandlerType
        /\ row \in Aliases
    BY <1>3, <2>1 DEF AskForState, HandlerType, Sound, RestOK, MaybeAlias
  <2>3. HandlersOK' /\ Held'
    BY <1>3, <2>1, <2>2 DEF AskForState, HandlersOK, Held, NoneFetches, mucVars, Idle
  <2>4. (mishaps \subseteq Mishaps)'
    <3>1. (If(i > 1, "reordered") \cup If(Asking, "overlapped")) \in SUBSET Mishaps
      BY DEF If, Mishaps
    <3> QED
      BY <1>3, <3>1, MishapsGrow DEF AskForState
  <2> QED
    BY <1>3, <2>1, <2>3, <2>4, TypePartsNext DEF AskForState, mucVars, RestOK, MucOK
<1>4. ASSUME NEW h \in Handlers, FetchAvatar(h, i)
      PROVE  TypeInv'
  <2>1. QueueOK' /\ Sound(events[i])
    BY <1>4, TakeSound DEF FetchAvatar, QueueOK
  <2>2. /\ [stage |-> "fetching", event |-> events[i], alias |-> row, room |-> cache] \in HandlerType
        /\ row \in Aliases /\ cache' \in Room
    BY <1>4, <2>1 DEF FetchAvatar, HandlerType, Sound, RestOK, MaybeAlias, MucOK, mucVars, Fetching
  <2>3. HandlersOK'
    BY <1>4, <2>1, <2>2 DEF FetchAvatar, HandlersOK, Idle
  <2>4. (mishaps \subseteq Mishaps)'
    <3>1. If(i > 1, "reordered") \in SUBSET Mishaps
      BY DEF If, Mishaps
    <3> QED
      BY <1>4, <3>1, MishapsGrow DEF FetchAvatar
  <2> QED
    BY <1>4, <2>1, <2>2, <2>3, <2>4, TypePartsNext, HeldWithRoom DEF FetchAvatar, mucVars, RestOK, MucOK
<1> QED
  BY <1>1, <1>2, <1>3, <1>4

LEMMA HydrateTypes ==
    ASSUME TypeInv, NEW h \in Handlers, Hydrate(h) \/ HydrateAndFetch(h) \/ HydrateFails(h)
    PROVE  TypeInv'
<1> USE TypeParts
<1>0. /\ Sound(handlers[h].event) /\ handlers[h].alias \in Aliases /\ handlers[h].room \in Room
      /\ handlers \in [Handlers -> HandlerType]
  BY DEF Hydrate, HydrateAndFetch, HydrateFails, HandlersOK, Idle, HandlerType
<1>a. /\ Adrift(handlers) \in [Handlers -> HandlerType]
      /\ Adrift(joins) \in [Ghosts -> JoinType]
      /\ \A k \in Handlers : Adrift(handlers)[k].stage = "idle" \/
             (~Idle(k) /\ Adrift(handlers)[k].event = handlers[k].event
                       /\ Adrift(handlers)[k].alias = handlers[k].alias)
  BY AdriftTypes DEF Idle
<1>1. CASE Hydrate(h)
  <2>2. MucOK' /\ cache' \in Room
    BY <1>0, <1>1, HandleType DEF Hydrate, TypeInv, MucOK
  <2>3. (mishaps \subseteq Mishaps)'
    BY <1>1, MishapsGrow, MissedIsMishap DEF Hydrate
  <2>4. HandlersOK'
    BY <1>a, <1>1, NewTypes DEF Hydrate, HandlersOK, Idle
  <2> QED
    BY <1>a, <1>1, <2>2, <2>3, <2>4, HeldWithRoom, TypePartsNext DEF Hydrate, envVars, RestOK, QueueOK
<1>2. CASE HydrateFails(h)
  <2>1. (mishaps \subseteq Mishaps)'
    BY <1>2, MishapsGrow DEF HydrateFails, Mishaps
  <2>2. HandlersOK' /\ Held'
    BY <1>2, HandlerDone DEF HydrateFails, mucVars, Held, NoneFetches
  <2> QED
    BY <1>2, <2>1, <2>2, TypePartsNext DEF HydrateFails, envVars, mucVars, RestOK, MucOK, QueueOK
<1>3. CASE HydrateAndFetch(h)
  <2>1. cache' \in Room /\ MucOK'
    BY <1>0, <1>3 DEF HydrateAndFetch, MucOK
  <2>2. (mishaps \subseteq Mishaps)'
    BY <1>3, MishapsGrow, MissedIsMishap DEF HydrateAndFetch
  <2>3. [Adrift(handlers)[h] EXCEPT !.stage = "fetching"] \in HandlerType
    BY <1>a DEF HandlerType, Fetching
  <2>4. HandlersOK'
    <3>1. handlers' = [Adrift(handlers) EXCEPT ![h] = [Adrift(handlers)[h] EXCEPT !.stage = "fetching"]]
      BY <1>a, <1>3 DEF HydrateAndFetch
    <3>2. handlers' \in [Handlers -> HandlerType]
      BY <1>a, <2>3, <3>1
    <3>3. handlers'[h].event = handlers[h].event /\ handlers'[h].alias = handlers[h].alias
      BY <1>a, <1>3, <2>3, <3>1, AdriftTypes DEF HandlerType
    <3>4. ASSUME NEW k \in Handlers, k # h PROVE handlers'[k] = Adrift(handlers)[k]
      BY <1>a, <3>1, <3>4
    <3> QED
      BY <1>0, <1>a, <3>2, <3>3, <3>4 DEF HandlersOK, Idle
  <2> QED
    BY <1>a, <1>3, <2>1, <2>2, <2>4, HeldWithRoom, TypePartsNext DEF HydrateAndFetch, envVars, RestOK, QueueOK
<1> QED
  BY <1>1, <1>2, <1>3

LEMMA WaitTypes ==
    ASSUME TypeInv, NEW h \in Handlers, PushEntry(h) \/ RefreshForText(h)
    PROVE  TypeInv'
<1> USE TypeParts
<1> DEFINE e == handlers[h].event
           a == handlers[h].alias
<1>0. /\ Sound(e) /\ a \in Aliases /\ handlers[h].room \in Room
      /\ handlers[h].stage = "fetching" => cache \in Room
      /\ handlers \in [Handlers -> HandlerType] /\ handlers[h].stage \in Fetching
  BY DEF PushEntry, RefreshForText, HandlersOK, MucOK, Held, NoneFetches, Idle, HandlerType, Fetching
<1>1. HandlersOK' /\ (NoneFetches(handlers, Handlers) => NoneFetches(handlers, Handlers)')
  BY HandlerDone DEF PushEntry, RefreshForText
<1>2. CASE PushEntry(h)
  <2> DEFINE list == IF occupants[a] = {} THEN nicks[a] ELSE Resolved(e, nicks[a], FALSE)
  <2>1. /\ cache' = IF handlers[h].stage = "fetching" THEN Pushed(cache, e) ELSE cache
        /\ nicks' = [nicks EXCEPT ![a] = list]
        /\ told' = [told EXCEPT ![a] = Announced(a, list)]
        /\ UNCHANGED <<envVars, joins, row, occupants, lost>>
    BY <1>2 DEF PushEntry
  <2>2. list \in Lists
    BY <1>0, ResolvedType DEF MucOK
  <2> HIDE DEF list
  <2>3. MucOK' /\ (cache' = cache \/ cache' \in Room)
    <3>1. Announced(a, list) \in [Ghosts -> Lists]
      BY <1>0, <2>2, AnnouncedType DEF TypeInv
    <3>2. cache' \in Room \cup {NoRoom} /\ (cache' = cache \/ cache' \in Room)
      BY <1>0, <2>1, NotedType DEF MucOK
    <3> QED
      BY <1>0, <2>1, <2>2, <3>1, <3>2 DEF MucOK
  <2>4. Held'
    BY <1>1, <2>1, <2>3, HeldWithRoom DEF Held, NoneFetches
  <2>5. (mishaps \subseteq Mishaps)'
    <3>1. (Missed(a, <<>>) \cup If(handlers[h].stage = "fetching" /\ cache.users[e.who].mem # "none", "doubled"))
            \in SUBSET Mishaps
      BY MissedIsMishap DEF If, Mishaps
    <3> QED
      BY <1>2, <3>1, MishapsGrow DEF PushEntry
  <2> QED
    BY <1>1, <2>1, <2>3, <2>4, <2>5, TypePartsNext DEF envVars, RestOK, QueueOK
<1>3. CASE RefreshForText(h)
  <2>1. PICK room \in Seen(handlers[h]) :
            /\ nicks' = [nicks EXCEPT ![a] = RefreshedNicks(room, nicks[a])]
            /\ occupants' = [occupants EXCEPT ![a] = RefreshedOccupants(room, occupants[a])]
            /\ UNCHANGED <<envVars, joins, cache, row, told>>
            /\ lost' = (lost \/ Unsent(e, RefreshedNicks(room, nicks[a]), a))
    BY <1>3 DEF RefreshForText
  <2>2. room \in Room
    BY <1>0, SeenTypes
  <2>3. /\ RefreshedNicks(room, nicks[a]) \in Lists
        /\ RefreshedOccupants(room, occupants[a]) \in SUBSET Ghosts
    BY <1>0, <2>2, RefreshedTypes DEF MucOK
  <2>4. MucOK'
    BY <1>0, <2>1, <2>3 DEF MucOK
  <2>5. Held'
    BY <1>1, <2>1 DEF Held, NoneFetches
  <2>6. (mishaps \subseteq Mishaps)'
    BY <1>3, MishapsGrow, MissedIsMishap DEF RefreshForText
  <2> QED
    BY <1>1, <2>1, <2>4, <2>5, <2>6, TypePartsNext DEF envVars, RestOK, QueueOK
<1> QED
  BY <1>2, <1>3

LEMMA RefreshTypes ==
    ASSUME TypeInv, NEW g \in Ghosts, Refresh(g)
    PROVE  TypeInv'
<1> USE TypeParts
<1> DEFINE a == joins[g].alias
<1>0. /\ a \in Aliases /\ joins[g].room \in Room /\ joins[g].stage \in Fetching
      /\ joins[g].stage = "fetching" => cache \in Room
      /\ joins \in [Ghosts -> JoinType]
  BY DEF Refresh, RestOK, JoinType, MucOK, Held, NoneFetches
<1>1. PICK room \in Seen(joins[g]) :
          /\ nicks' = [nicks EXCEPT ![a] = RefreshedNicks(room, nicks[a])]
          /\ occupants' = [occupants EXCEPT ![a] = RefreshedOccupants(room, occupants[a])]
          /\ UNCHANGED <<envVars, handlers, cache, row, told, lost>>
          /\ joins' = [joins EXCEPT ![g].stage = "entering", ![g].room = NewRoom,
                                    ![g].list = RefreshedNicks(room, nicks[a])]
  BY DEF Refresh
<1> DEFINE list == RefreshedNicks(room, nicks[a])
           G == RefreshedOccupants(room, occupants[a])
<1>2. room \in Room
  BY <1>0, SeenTypes
<1>3. list \in Lists /\ G \in SUBSET Ghosts
  BY <1>0, <1>2, RefreshedTypes DEF MucOK
<1> HIDE DEF list, G
<1>4. MucOK'
  BY <1>0, <1>1, <1>3 DEF list, G, MucOK
<1>5. joins' = [joins EXCEPT ![g].stage = "entering", ![g].room = NewRoom, ![g].list = list]
  BY <1>1 DEF list
<1>6. joins' \in [Ghosts -> JoinType] /\ (NoneFetches(joins, Ghosts) => NoneFetches(joins, Ghosts)')
  <2>1. [joins[g] EXCEPT !.stage = "entering", !.room = NewRoom, !.list = list] \in JoinType
    BY <1>0, <1>3, NewRoomType DEF JoinType
  <2> QED
    BY <1>0, <1>5, <2>1 DEF JoinType, NoneFetches
<1>7. Held'
  BY <1>1, <1>6 DEF Held, NoneFetches
<1>8. (mishaps \subseteq Mishaps)'
  BY MishapsGrow, MissedIsMishap DEF Refresh
<1> QED
  BY <1>1, <1>4, <1>6, <1>7, <1>8, TypePartsNext DEF envVars, RestOK, HandlersOK, QueueOK, Idle

LEMMA VirtualRoomTypes ==
    ASSUME TypeInv, NEW g \in Ghosts, VirtualRoom(g), handlers' = handlers
    PROVE  MucOK' /\ joins' \in [Ghosts -> JoinType] /\ Held' /\ (mishaps \subseteq Mishaps)'
<1> USE TypeParts
<1>0. joins \in [Ghosts -> JoinType] /\ home \in Room /\ UNCHANGED mucVars
  BY DEF RestOK, VirtualRoom
<1>1. MucOK'
  BY <1>0 DEF mucVars, MucOK
<1>2. (mishaps \subseteq Mishaps)'
  <2>1. If(cache = NoRoom /\ Asking, "overlapped") \in SUBSET Mishaps
    BY DEF If, Mishaps
  <2> QED
    BY <2>1, MishapsGrow DEF VirtualRoom
<1>3. CASE cache # NoRoom
  <2>1. joins' = [joins EXCEPT ![g].stage = "fetching", ![g].room = cache] /\ cache' \in Room
    BY <1>0, <1>3 DEF VirtualRoom, mucVars, MucOK
  <2>2. joins' \in [Ghosts -> JoinType]
    BY <1>0, <2>1 DEF JoinType, Fetching, mucVars
  <2> QED
    BY <1>1, <1>2, <2>1, <2>2, HeldWithRoom
<1>4. CASE cache = NoRoom
  <2>1. joins' = [joins EXCEPT ![g].stage = "asked", ![g].room = home]
    BY <1>4 DEF VirtualRoom
  <2>2. joins' \in [Ghosts -> JoinType] /\ (NoneFetches(joins, Ghosts) => NoneFetches(joins, Ghosts)')
    BY <1>0, <2>1 DEF JoinType, NoneFetches
  <2>3. Held'
    BY <1>0, <2>2 DEF Held, NoneFetches, mucVars
  <2> QED
    BY <1>1, <1>2, <2>2, <2>3
<1> QED
  BY <1>3, <1>4

LEMMA GhostMoved ==
    ASSUME home \in Room, NEW g \in Ghosts, NEW s \in {"none", "join", "left", "kicked"}
    PROVE  [home EXCEPT !.ghosts[g] = s] \in Room
BY DEF Room

LEMMA JoinTypes ==
    ASSUME TypeInv, NEW g \in Ghosts,
           FindRow(g) \/ FindNoRow(g) \/ StoreRow(g) \/ JoinHydrates(g)
    PROVE  TypeInv'
<1> USE TypeParts
<1>0. joins[g].alias \in Aliases /\ joins[g].room \in Room /\ joins \in [Ghosts -> JoinType]
  BY DEF RestOK, JoinType
<1>1. CASE FindRow(g)
  BY <1>1, VirtualRoomTypes, TypePartsNext DEF FindRow, envVars, RestOK, HandlersOK, QueueOK, Idle
<1>2. CASE FindNoRow(g)
  <2>1. joins' \in [Ghosts -> JoinType] /\ (NoneFetches(joins, Ghosts) => NoneFetches(joins, Ghosts)')
    BY <1>0, <1>2 DEF FindNoRow, JoinType, NoneFetches
  <2>2. Held'
    BY <1>2, <2>1 DEF FindNoRow, mucVars, Held, NoneFetches
  <2> QED
    BY <1>2, <2>1, <2>2, TypePartsNext
       DEF FindNoRow, envVars, mucVars, RestOK, MucOK, HandlersOK, QueueOK, Idle
<1>3. CASE StoreRow(g)
  <2>1. row' \in MaybeAlias
    BY <1>0, <1>3 DEF StoreRow, MaybeAlias
  <2> QED
    BY <1>3, <2>1, VirtualRoomTypes, TypePartsNext DEF StoreRow, envVars, RestOK, HandlersOK, QueueOK, Idle
<1>4. CASE JoinHydrates(g)
  <2>1. cache' \in Room /\ MucOK'
    BY <1>0, <1>4 DEF JoinHydrates, MucOK
  <2>2. joins' \in [Ghosts -> JoinType]
    <3>1. [Adrift(joins)[g] EXCEPT !.stage = "fetching"] \in JoinType
      BY AdriftTypes DEF JoinType, Fetching
    <3>2. joins' = [Adrift(joins) EXCEPT ![g] = [Adrift(joins)[g] EXCEPT !.stage = "fetching"]]
      BY <1>4, AdriftTypes DEF JoinHydrates
    <3> QED
      BY <3>1, <3>2, AdriftTypes
  <2>3. HandlersOK'
    BY <1>4, AdriftTypes DEF JoinHydrates, HandlersOK, Idle
  <2>4. (mishaps \subseteq Mishaps)'
    BY <1>4, MishapsGrow, MissedIsMishap DEF JoinHydrates
  <2> QED
    BY <1>4, <2>1, <2>2, <2>3, <2>4, HeldWithRoom, TypePartsNext DEF JoinHydrates, envVars, RestOK, QueueOK
<1> QED
  BY <1>1, <1>2, <1>3, <1>4

LEMMA OccupantTypes ==
    ASSUME TypeInv, NEW g \in Ghosts,
           (\E a \in Aliases : StartJoin(g, a) \/ GhostLeaves(g, a)) \/ EnterMuc(g) \/ JoinFails(g)
    PROVE  TypeInv'
<1> USE TypeParts
<1>1. ASSUME NEW a \in Aliases, StartJoin(g, a)
      PROVE  TypeInv'
  <2>0. home' \in Room
    BY <1>1, GhostMoved DEF StartJoin, RestOK
  <2>s. steps' = steps + 1 /\ steps \in Nat
    BY <1>1 DEF StartJoin, RestOK
  <2>1. home' \in Room /\ steps' \in Nat
    BY <2>0, <2>s
  <2>2. joins' \in [Ghosts -> JoinType] /\ (NoneFetches(joins, Ghosts) => NoneFetches(joins, Ghosts)')
    BY <1>1 DEF StartJoin, RestOK, JoinType, NoneFetches
  <2>3. Held'
    BY <1>1, <2>2 DEF StartJoin, mucVars, Held, NoneFetches
  <2> QED
    BY <1>1, <2>1, <2>2, <2>3, TypePartsNext DEF StartJoin, mucVars, RestOK, MucOK, HandlersOK, QueueOK, Idle
<1>2. ASSUME NEW a \in Aliases, GhostLeaves(g, a)
      PROVE  TypeInv'
  <2>0. home' \in Room
    BY <1>2, GhostMoved DEF GhostLeaves, RestOK
  <2>1. home' \in Room /\ steps' \in Nat
    BY <2>0, <1>2 DEF GhostLeaves, RestOK
  <2>2. occupants' \in [Aliases -> SUBSET Ghosts]
    BY <1>2 DEF GhostLeaves, MucOK
  <2> QED
    BY <1>2, <2>1, <2>2, TypePartsNext
       DEF GhostLeaves, RestOK, MucOK, HandlersOK, QueueOK, Held, NoneFetches, Idle
<1>3. CASE EnterMuc(g)
  <2> DEFINE b == joins[g].alias
  <2>1. b \in Aliases /\ joins[g].list \in Lists
    BY DEF RestOK, JoinType
  <2>2. /\ joins' = [joins EXCEPT ![g] = NewJoin]
        /\ occupants' = [occupants EXCEPT ![b] = @ \cup {g}]
        /\ told' = [told EXCEPT ![b][g] = joins[g].list]
        /\ UNCHANGED <<envVars, handlers, cache, row, nicks, lost, mishaps>>
    BY <1>3 DEF EnterMuc
  <2>3. joins' \in [Ghosts -> JoinType] /\ (NoneFetches(joins, Ghosts) => NoneFetches(joins, Ghosts)')
    BY <2>2, NewTypes DEF RestOK, NoneFetches
  <2>5. Held'
    BY <2>2, <2>3 DEF Held, NoneFetches
  <2>4. occupants' \in [Aliases -> SUBSET Ghosts] /\ told' \in [Aliases -> [Ghosts -> Lists]]
    BY <2>1, <2>2 DEF MucOK
  <2> QED
    BY <2>2, <2>3, <2>4, <2>5, TypePartsNext DEF envVars, RestOK, MucOK, HandlersOK, QueueOK, Idle
<1>4. CASE JoinFails(g)
  <2>1. home' \in Room
    BY <1>4, GhostMoved DEF JoinFails, RestOK
  <2>2. joins' \in [Ghosts -> JoinType] /\ NoneFetches(joins, Ghosts)'
    BY <1>4, NewTypes, AdriftTypes DEF JoinFails, RestOK, NoneFetches
  <2>3. (mishaps \subseteq Mishaps)'
    BY <1>4, MishapsGrow DEF JoinFails, Mishaps
  <2>4. HandlersOK' /\ NoneFetches(handlers, Handlers)'
    BY <1>4, AdriftTypes DEF JoinFails, HandlersOK, NoneFetches, Idle
  <2> QED
    BY <1>4, <2>1, <2>2, <2>3, <2>4, TypePartsNext DEF JoinFails, RestOK, MucOK, QueueOK, Held
<1> QED
  BY <1>1, <1>2, <1>3, <1>4

LEMMA PushTypes ==
    ASSUME TypeInv, NEW e, Sound(e), Push(e), home' \in Room, (mishaps \subseteq Mishaps)',
           UNCHANGED <<handlers, joins, mucVars, row>>
    PROVE  TypeInv'
BY PushSound, TypeParts, TypePartsNext
   DEF mucVars, RestOK, MucOK, HandlersOK, QueueOK, Held, NoneFetches, Idle

LEMMA MatrixTypes ==
    ASSUME TypeInv,
           (\E u \in Users : UserNext(u)) \/ (\E g \in Ghosts : Kick(g))
    PROVE  TypeInv'
<1>0. home \in Room /\ NoName \in MaybeName /\ mishaps \subseteq Mishaps
  BY DEF TypeInv, TypeOK, MaybeName
<1>m. ASSUME NEW u \in Users, NEW mem \in {"none", "join", "leave", "ban"}, NEW n \in MaybeName
      PROVE  [home EXCEPT !.users[u] = [mem |-> mem, name |-> n]] \in Room
  BY <1>0 DEF Room, UserEntry
<1>1. ASSUME NEW u \in Users, NEW n \in Names, MatrixJoins(u, n)
      PROVE  TypeInv'
  <2> DEFINE e == [type |-> "member", who |-> u, mem |-> "join", name |-> n]
  <2>1. Sound(e)
    BY DEF Sound, Event, MaybeName
  <2>2. home' \in Room
    BY <1>1, <1>m DEF MatrixJoins, MaybeName
  <2> QED
    BY <1>0, <1>1, <2>1, <2>2, PushTypes DEF MatrixJoins
<1>2. ASSUME NEW u \in Users, NEW n \in Names, ChangeTitle(u, n)
      PROVE  TypeInv'
  <2> DEFINE e == [type |-> "title", who |-> u, mem |-> "join", name |-> n]
  <2>1. Sound(e)
    BY DEF Sound, Event, MaybeName
  <2>2. home' \in Room
    BY <1>0, <1>2 DEF ChangeTitle, Room
  <2> QED
    BY <1>0, <1>2, <2>1, <2>2, PushTypes DEF ChangeTitle
<1>3. ASSUME NEW u \in Users, MatrixLeaves(u)
      PROVE  TypeInv'
  <2> DEFINE e == [type |-> "member", who |-> u, mem |-> "leave", name |-> NoName]
  <2>1. Sound(e)
    BY <1>0 DEF Sound, Event
  <2>2. home' \in Room
    BY <1>0, <1>3, <1>m DEF MatrixLeaves
  <2> QED
    BY <1>0, <1>3, <2>1, <2>2, PushTypes DEF MatrixLeaves
<1>4. ASSUME NEW u \in Users, Ban(u)
      PROVE  TypeInv'
  <2>0. home' \in Room
    BY <1>0, <1>4, <1>m DEF Ban, TypeInv, TypeOK
  <2>1. home' \in Room /\ steps' \in Nat
    BY <2>0, <1>4 DEF Ban, TypeInv, TypeOK
  <2> QED
    BY <1>4, <2>1, TypeParts, TypePartsNext
       DEF Ban, mucVars, RestOK, MucOK, HandlersOK, QueueOK, Held, NoneFetches, Idle
<1>5. ASSUME NEW u \in Users, Write(u)
      PROVE  TypeInv'
  <2> DEFINE e == [type |-> "text", who |-> u, mem |-> "join", name |-> NoName]
  <2>1. Sound(e)
    BY <1>0 DEF Sound, Event
  <2> QED
    BY <1>0, <1>5, <2>1, PushTypes DEF Write
<1>6. ASSUME NEW g \in Ghosts, Kick(g)
      PROVE  TypeInv'
  <2> DEFINE e == [type |-> "kick", who |-> g, mem |-> "leave", name |-> NoName]
  <2>1. Sound(e)
    BY <1>0 DEF Sound, Event
  <2>2. home' \in Room
    BY <1>0, <1>6, GhostMoved DEF Kick
  <2>3. (mishaps \subseteq Mishaps)'
    BY <1>0, <1>6, MishapsGrow DEF Kick, Mishaps
  <2> QED
    BY <1>6, <2>1, <2>2, <2>3, PushTypes DEF Kick
<1> QED
  BY <1>1, <1>2, <1>3, <1>4, <1>5, <1>6 DEF UserNext

LEMMA NextTypeInv == ASSUME TypeInv, [Next]_vars PROVE TypeInv'
<1>1. CASE UNCHANGED vars
  BY <1>1, TypeParts, TypePartsNext
     DEF vars, RestOK, MucOK, HandlersOK, QueueOK, Held, NoneFetches, Idle
<1>2. CASE Next
  BY <1>2, EventTypes, HydrateTypes, WaitTypes, JoinTypes, RefreshTypes, OccupantTypes, MatrixTypes
     DEF Next, HandlerNext, GhostNext
<1> QED
  BY <1>1, <1>2

\* Every variable of GatewayRooms keeps its type: whatever is cached, handed to
\* a handler or kept by a join is the state of a room.
THEOREM RoomTypes == Spec => []TypeOK
<1>1. Init => TypeInv
  BY InitTypeInv
<1>2. TypeInv /\ [Next]_vars => TypeInv'
  BY NextTypeInv
<1>3. TypeInv => TypeOK
  BY DEF TypeInv
<1> QED
  BY <1>1, <1>2, <1>3, PTL DEF Spec

-----------------------------------------------------------------------------
(* Kicks.  Whatever copy of the room says that a ghost was kicked, and     *)
(* whatever event is about to say so, a kick has happened.                 *)

Blameless(room) == \A g \in Ghosts : room.ghosts[g] # "kicked"
Tame(h) == handlers[h].event.type # "kick" /\ Blameless(handlers[h].room)

NoKickSeen ==
    /\ Blameless(home)
    /\ cache # NoRoom => Blameless(cache)
    /\ \A h \in Handlers : ~Idle(h) => Tame(h)
    /\ \A g \in Ghosts : Blameless(joins[g].room)
    /\ \A i \in DOMAIN events : events[i].type # "kick"

KickInv == TypeInv /\ ("kicked" \notin mishaps => NoKickSeen)

LEMMA NewRoomBlameless == Blameless(NewRoom)
BY DEF Blameless, NewRoom

LEMMA InitKickInv == Init => KickInv
<1> SUFFICES ASSUME Init PROVE NoKickSeen
  BY InitTypeInv DEF KickInv
<1>1. \A h \in Handlers : Idle(h)
  BY NewTypes DEF Init, Idle
<1>2. \A g \in Ghosts : joins[g].room = NewRoom
  BY NewTypes DEF Init
<1> QED
  BY <1>1, <1>2, NewRoomBlameless DEF Init, NoKickSeen

LEMMA MishapsStay == ASSUME [Next]_vars PROVE mishaps \subseteq mishaps'
<1>1. ASSUME NEW i, IgnoreEvent(i) \/ HandleEvent(i) PROVE mishaps \subseteq mishaps'
  BY <1>1 DEF IgnoreEvent, HandleEvent, Happened
<1>2. ASSUME NEW h, HandlerNext(h) PROVE mishaps \subseteq mishaps'
  BY <1>2 DEF HandlerNext, AskForState, FetchAvatar, Hydrate, HydrateAndFetch, HydrateFails,
              PushEntry, RefreshForText, Happened
<1>3. ASSUME NEW g, GhostNext(g) PROVE mishaps \subseteq mishaps'
  BY <1>3 DEF GhostNext, StartJoin, GhostLeaves, FindRow, FindNoRow, StoreRow, VirtualRoom,
              JoinHydrates, Refresh, EnterMuc, JoinFails, Kick, Happened
<1>4. ASSUME NEW u, UserNext(u) PROVE mishaps \subseteq mishaps'
  BY <1>4 DEF UserNext, MatrixJoins, ChangeTitle, MatrixLeaves, Ban, Write
<1>5. CASE UNCHANGED vars
  BY <1>5 DEF vars
<1> QED
  BY <1>1, <1>2, <1>3, <1>4, <1>5 DEF Next

\* Who refreshes the occupants with such a copy removes nobody.
LEMMA RefreshRemovesNobody ==
    ASSUME NEW room, Blameless(room), NEW G \in SUBSET Ghosts
    PROVE  RefreshedOccupants(room, G) = G
BY DEF RefreshedOccupants, Blameless

LEMMA HandleRemovesNobody ==
    ASSUME TypeOK, NEW e, Sound(e), e.type # "kick", NEW room \in Room, Blameless(room),
           NEW a \in Aliases, Handle(e, room, a)
    PROVE  occupants' = occupants /\ Blameless(cache')
<1>0. occupants[a] \in SUBSET Ghosts /\ occupants = [occupants EXCEPT ![a] = occupants[a]]
  BY DEF TypeOK
<1>1. CASE HandleMember(e, room, a)
  <2>1. Noted(room, e).ghosts = room.ghosts
    BY DEF Noted, Room
  <2> QED
    BY <1>1, <2>1 DEF HandleMember, Blameless
<1>2. CASE HandleKick(e, room, a)
  BY <1>2 DEF HandleKick
<1>3. CASE HandleTitle(e, room, a)
  <2>1. Retitled(room, e).ghosts = room.ghosts
    BY DEF Retitled, Room
  <2> QED
    BY <1>3, <2>1 DEF HandleTitle, Blameless
<1>4. CASE HandleText(e, room, a)
  BY <1>4 DEF HandleText
<1> QED
  BY <1>1, <1>2, <1>3, <1>4 DEF Handle

LEMMA SeenBlameless ==
    ASSUME NEW w, w.room \in Room, w.stage \in Fetching, w.stage = "fetching" => cache \in Room,
           Blameless(w.room), NEW room \in Seen(w)
    PROVE  Blameless(room)
BY SeenTypes DEF Blameless

LEMMA VirtualRoomRemovesNobody ==
    ASSUME TypeInv, NoKickSeen, NEW g \in Ghosts, VirtualRoom(g)
    PROVE  /\ occupants' = occupants /\ cache' = cache
           /\ \A x \in Ghosts : Blameless(joins'[x].room)
<1>1. joins \in [Ghosts -> JoinType]
  BY TypeParts DEF RestOK
<1>2. CASE cache # NoRoom
  <2>1. ASSUME NEW x \in Ghosts PROVE joins'[x].room \in {cache, joins[x].room}
    BY <1>1, <1>2 DEF VirtualRoom, JoinType
  <2> QED
    BY <1>2, <2>1 DEF VirtualRoom, mucVars, NoKickSeen
<1>3. CASE cache = NoRoom
  <2>1. ASSUME NEW x \in Ghosts PROVE joins'[x].room \in {home, joins[x].room}
    BY <1>1, <1>3 DEF VirtualRoom, JoinType
  <2> QED
    BY <1>3, <2>1 DEF VirtualRoom, mucVars, NoKickSeen
<1> QED
  BY <1>2, <1>3

\* Who is removed is parted.
PartedOnly == \A a \in Aliases : \A g \in occupants[a] \ occupants'[a] : home'.ghosts[g] # "join"

LEMMA EventKicks ==
    ASSUME TypeInv, NoKickSeen,
           NEW i, \/ IgnoreEvent(i) \/ HandleEvent(i)
                  \/ \E h \in Handlers : AskForState(h, i) \/ FetchAvatar(h, i)
    PROVE  NoKickSeen' /\ PartedOnly
<1>0. i \in DOMAIN events /\ events' = RemoveAt(events, i)
  BY DEF IgnoreEvent, HandleEvent, AskForState, FetchAvatar
<1>1. /\ \A k \in DOMAIN events' : events'[k].type # "kick"
      /\ events[i].type # "kick" /\ Sound(events[i])
  BY <1>0, RemoveEvent, TakeSound DEF TypeInv, TypeOK, NoKickSeen
<1>2. CASE IgnoreEvent(i)
  BY <1>1, <1>2 DEF IgnoreEvent, mucVars, NoKickSeen, Idle, Tame, PartedOnly
<1>3. CASE HandleEvent(i)
  <2>1. cache \in Room /\ row \in Aliases /\ Blameless(cache)
    BY <1>3 DEF HandleEvent, TypeInv, TypeOK, MaybeAlias, NoKickSeen
  <2>2. occupants' = occupants /\ Blameless(cache')
    BY <1>1, <1>3, <2>1, HandleRemovesNobody DEF HandleEvent, TypeInv
  <2> QED
    BY <1>1, <1>3, <2>2 DEF HandleEvent, NoKickSeen, Idle, Tame, PartedOnly
<1>4. ASSUME NEW h \in Handlers, AskForState(h, i) \/ FetchAvatar(h, i)
      PROVE  NoKickSeen' /\ PartedOnly
  <2>1. handlers \in [Handlers -> HandlerType]
    BY TypeParts DEF HandlersOK
  <2>2. Tame(h)'
    BY <1>1, <1>4, <2>1 DEF AskForState, FetchAvatar, Tame, NoKickSeen
  <2>3. ASSUME NEW k \in Handlers, k # h PROVE handlers'[k] = handlers[k]
    BY <1>4, <2>1, <2>3 DEF AskForState, FetchAvatar
  <2>4. (\A k \in Handlers : ~Idle(k) => Tame(k))'
    BY <2>2, <2>3 DEF NoKickSeen, Idle, Tame
  <2> QED
    BY <1>1, <1>4, <2>4 DEF AskForState, FetchAvatar, mucVars, NoKickSeen, PartedOnly
<1> QED
  BY <1>2, <1>3, <1>4

\* Whoever is left with a copy that is not cached keeps what it has.
LEMMA AdriftKicks ==
    ASSUME TypeInv, NoKickSeen
    PROVE  /\ \A h \in Handlers : Adrift(handlers)[h].stage # "idle" =>
                  Adrift(handlers)[h].event.type # "kick" /\ Blameless(Adrift(handlers)[h].room)
           /\ \A g \in Ghosts : Blameless(Adrift(joins)[g].room)
BY TypeParts, AdriftTypes DEF NoKickSeen, Tame, Idle

LEMMA HydrateKicks ==
    ASSUME TypeInv, NoKickSeen, NEW h \in Handlers, Hydrate(h) \/ HydrateAndFetch(h) \/ HydrateFails(h)
    PROVE  NoKickSeen' /\ PartedOnly
<1>1. handlers \in [Handlers -> HandlerType] /\ ~Idle(h) /\ Tame(h)
      /\ Sound(handlers[h].event) /\ handlers[h].alias \in Aliases /\ handlers[h].room \in Room
  BY TypeParts DEF HandlersOK, Hydrate, HydrateAndFetch, HydrateFails, Idle, HandlerType, NoKickSeen
<1>2. CASE Hydrate(h)
  <2>1. handlers' = [Adrift(handlers) EXCEPT ![h] = NewHandler] /\ joins' = Adrift(joins)
    BY <1>2 DEF Hydrate
  <2>2. (\A k \in Handlers : ~Idle(k) => Tame(k))'
    BY <2>1, NewTypes, AdriftKicks, AdriftTypes, TypeParts DEF Idle, Tame
  <2>3. occupants' = occupants /\ Blameless(cache')
    BY <1>1, <1>2, HandleRemovesNobody DEF Hydrate, TypeInv, Tame
  <2> QED
    BY <1>2, <2>1, <2>2, <2>3, AdriftKicks DEF Hydrate, envVars, NoKickSeen, PartedOnly
<1>3. CASE HydrateAndFetch(h)
  <2>1. handlers' = [Adrift(handlers) EXCEPT ![h].stage = "fetching"] /\ joins' = Adrift(joins)
        /\ cache' = handlers[h].room /\ UNCHANGED <<envVars, occupants>>
    BY <1>3 DEF HydrateAndFetch
  <2>2. Adrift(handlers) \in [Handlers -> HandlerType]
        /\ Adrift(handlers)[h].event = handlers[h].event /\ Adrift(handlers)[h].room = handlers[h].room
    BY TypeParts, AdriftTypes
  <2>3. handlers'[h].event = handlers[h].event /\ handlers'[h].room = handlers[h].room
        /\ \A k \in Handlers : k # h => handlers'[k] = Adrift(handlers)[k]
    BY <2>1, <2>2 DEF HandlerType
  <2>4. (\A k \in Handlers : ~Idle(k) => Tame(k))'
    BY <1>1, <2>3, AdriftKicks DEF Idle, Tame
  <2> QED
    BY <1>1, <2>1, <2>4, AdriftKicks DEF envVars, NoKickSeen, PartedOnly, Tame
<1>4. CASE HydrateFails(h)
  <2>1. (\A k \in Handlers : ~Idle(k) => Tame(k))'
    BY <1>1, <1>4, NewTypes DEF HydrateFails, NoKickSeen, Idle, Tame
  <2> QED
    BY <1>4, <2>1 DEF HydrateFails, envVars, mucVars, NoKickSeen, PartedOnly
<1> QED
  BY <1>2, <1>3, <1>4

\* Neither an entry that is pushed nor a refresh for a message removes anybody.
LEMMA WaitKicks ==
    ASSUME TypeInv, NoKickSeen, NEW h \in Handlers, PushEntry(h) \/ RefreshForText(h)
    PROVE  NoKickSeen' /\ PartedOnly
<1> DEFINE e == handlers[h].event
           a == handlers[h].alias
<1>0. /\ handlers \in [Handlers -> HandlerType] /\ handlers[h].room \in Room /\ Tame(h)
      /\ handlers[h].stage \in Fetching /\ a \in Aliases
      /\ handlers[h].stage = "fetching" => cache \in Room
      /\ handlers' = [handlers EXCEPT ![h] = NewHandler]
  BY TypeParts DEF HandlersOK, HandlerType, MucOK, Held, NoneFetches, NoKickSeen, PushEntry, RefreshForText,
                   Fetching, Idle
<1>1. (\A k \in Handlers : ~Idle(k) => Tame(k))'
  BY <1>0, NewTypes DEF NoKickSeen, Idle, Tame
<1>2. CASE PushEntry(h)
  <2>1. /\ cache' = IF handlers[h].stage = "fetching" THEN Pushed(cache, e) ELSE cache
        /\ UNCHANGED <<envVars, joins, occupants>>
    BY <1>2 DEF PushEntry
  <2>2. cache \in Room => Pushed(cache, e).ghosts = cache.ghosts
    BY DEF Pushed, Noted, Room
  <2>3. cache' # NoRoom => Blameless(cache')
    BY <1>0, <2>1, <2>2, RoomIsNotNoRoom DEF NoKickSeen, Blameless
  <2> QED
    BY <1>1, <2>1, <2>3 DEF envVars, NoKickSeen, PartedOnly
<1>3. CASE RefreshForText(h)
  <2>1. PICK room \in Seen(handlers[h]) :
            /\ occupants' = [occupants EXCEPT ![a] = RefreshedOccupants(room, occupants[a])]
            /\ UNCHANGED <<envVars, joins, cache>>
    BY <1>3 DEF RefreshForText
  <2>2. Blameless(room)
    BY <1>0, SeenBlameless DEF Tame
  <2>3. occupants' = occupants
    BY <1>0, <2>1, <2>2, RefreshRemovesNobody, TypeParts DEF MucOK
  <2> QED
    BY <1>1, <2>1, <2>3 DEF envVars, NoKickSeen, PartedOnly
<1> QED
  BY <1>2, <1>3

LEMMA RefreshKicks ==
    ASSUME TypeInv, NoKickSeen, NEW g \in Ghosts, Refresh(g)
    PROVE  NoKickSeen' /\ PartedOnly
<1> DEFINE a == joins[g].alias
<1>0. /\ joins \in [Ghosts -> JoinType] /\ joins[g].room \in Room /\ Blameless(joins[g].room)
      /\ joins[g].stage \in Fetching /\ a \in Aliases
      /\ joins[g].stage = "fetching" => cache \in Room
  BY TypeParts DEF RestOK, JoinType, MucOK, Held, NoneFetches, NoKickSeen, Refresh
<1>1. PICK room \in Seen(joins[g]) :
          /\ occupants' = [occupants EXCEPT ![a] = RefreshedOccupants(room, occupants[a])]
          /\ UNCHANGED <<envVars, handlers, cache>>
          /\ joins' = [joins EXCEPT ![g].stage = "entering", ![g].room = NewRoom,
                                    ![g].list = RefreshedNicks(room, nicks[a])]
  BY DEF Refresh
<1>2. Blameless(room)
  BY <1>0, SeenBlameless
<1>3. occupants' = occupants
  BY <1>0, <1>1, <1>2, RefreshRemovesNobody, TypeParts DEF MucOK
<1>4. \A x \in Ghosts : joins'[x].room \in {NewRoom, joins[x].room}
  BY <1>0, <1>1 DEF JoinType
<1> QED
  BY <1>1, <1>3, <1>4, NewRoomBlameless DEF envVars, NoKickSeen, Idle, Tame, PartedOnly

LEMMA JoinKicks ==
    ASSUME TypeInv, NoKickSeen, NEW g \in Ghosts,
           FindRow(g) \/ FindNoRow(g) \/ StoreRow(g) \/ JoinHydrates(g)
    PROVE  NoKickSeen' /\ PartedOnly
<1>1. CASE FindRow(g) \/ StoreRow(g)
  BY <1>1, VirtualRoomRemovesNobody
     DEF FindRow, StoreRow, envVars, NoKickSeen, Idle, Tame, PartedOnly
<1>2. CASE FindNoRow(g)
  <2>1. \A x \in Ghosts : joins'[x].room = joins[x].room
    BY <1>2, TypeParts DEF FindNoRow, RestOK, JoinType
  <2> QED
    BY <1>2, <2>1 DEF FindNoRow, envVars, mucVars, NoKickSeen, Idle, Tame, PartedOnly
<1>3. CASE JoinHydrates(g)
  <2>1. /\ joins' = [Adrift(joins) EXCEPT ![g].stage = "fetching"] /\ handlers' = Adrift(handlers)
        /\ cache' = joins[g].room /\ UNCHANGED <<envVars, occupants>>
    BY <1>3 DEF JoinHydrates
  <2>2. Adrift(joins) \in [Ghosts -> JoinType]
    BY TypeParts, AdriftTypes
  <2>3. \A x \in Ghosts : joins'[x].room = Adrift(joins)[x].room
    BY <2>1, <2>2 DEF JoinType
  <2> QED
    BY <2>1, <2>3, AdriftKicks DEF envVars, NoKickSeen, Idle, Tame, PartedOnly
<1> QED
  BY <1>1, <1>2, <1>3

LEMMA GhostMovedBlameless ==
    ASSUME home \in Room, Blameless(home), NEW g \in Ghosts, NEW s \in {"join", "left"},
           home' = [home EXCEPT !.ghosts[g] = s]
    PROVE  Blameless(home') /\ home'.ghosts[g] = s
BY DEF Blameless, Room

LEMMA OccupantKicks ==
    ASSUME TypeInv, NoKickSeen, NEW g \in Ghosts,
           (\E a \in Aliases : StartJoin(g, a) \/ GhostLeaves(g, a)) \/ EnterMuc(g) \/ JoinFails(g)
    PROVE  NoKickSeen' /\ PartedOnly
<1>0. /\ home \in Room /\ Blameless(home) /\ joins \in [Ghosts -> JoinType]
      /\ occupants \in [Aliases -> SUBSET Ghosts]
  BY TypeParts DEF RestOK, MucOK, NoKickSeen
<1>1. ASSUME NEW a \in Aliases, StartJoin(g, a)
      PROVE  NoKickSeen' /\ PartedOnly
  <2>1. \A x \in Ghosts : joins'[x].room = joins[x].room
    BY <1>0, <1>1 DEF StartJoin, JoinType
  <2>2. Blameless(home')
    BY <1>0, <1>1, GhostMovedBlameless DEF StartJoin
  <2> QED
    BY <1>1, <2>1, <2>2 DEF StartJoin, mucVars, NoKickSeen, Idle, Tame, PartedOnly
<1>2. ASSUME NEW a \in Aliases, GhostLeaves(g, a)
      PROVE  NoKickSeen' /\ PartedOnly
  <2>1. Blameless(home') /\ home'.ghosts[g] = "left"
    BY <1>0, <1>2, GhostMovedBlameless DEF GhostLeaves
  <2>2. \A b \in Aliases : occupants[b] \ occupants'[b] \subseteq {g}
    BY <1>0, <1>2 DEF GhostLeaves
  <2>3. PartedOnly
    BY <2>1, <2>2 DEF PartedOnly
  <2> QED
    BY <1>2, <2>1, <2>3 DEF GhostLeaves, NoKickSeen, Idle, Tame
<1>3. CASE EnterMuc(g)
  <2>1. \A x \in Ghosts : joins'[x].room \in {NewRoom, joins[x].room}
    BY <1>0, <1>3, NewTypes DEF EnterMuc
  <2>2. \A b \in Aliases : occupants[b] \subseteq occupants'[b]
    BY <1>0, <1>3 DEF EnterMuc
  <2> QED
    BY <1>3, <2>1, <2>2, NewRoomBlameless
       DEF EnterMuc, envVars, NoKickSeen, Idle, Tame, PartedOnly
<1>4. CASE JoinFails(g)
  <2>1. /\ joins' = [Adrift(joins) EXCEPT ![g] = NewJoin] /\ handlers' = Adrift(handlers)
        /\ cache' = NoRoom /\ UNCHANGED <<events, occupants>>
    BY <1>4 DEF JoinFails
  <2>2. \A x \in Ghosts : Blameless(joins'[x].room)
    BY <2>1, NewTypes, NewRoomBlameless, AdriftKicks, AdriftTypes, TypeParts
  <2>3. Blameless(home')
    BY <1>0, <1>4, GhostMovedBlameless DEF JoinFails
  <2> QED
    BY <2>1, <2>2, <2>3, AdriftKicks DEF NoKickSeen, Idle, Tame, PartedOnly
<1> QED
  BY <1>1, <1>2, <1>3, <1>4

LEMMA PushKicks ==
    ASSUME TypeInv, NoKickSeen, NEW e, Sound(e), e.type # "kick", Push(e),
           home'.ghosts = home.ghosts, UNCHANGED <<handlers, joins, mucVars, row>>
    PROVE  NoKickSeen' /\ PartedOnly
<1>1. events \in Seq(Event) /\ e \in Event
  BY DEF TypeInv, TypeOK, Sound
<1>2. events' = Append(events, e)
  BY DEF Push
<1>3. ASSUME NEW k \in DOMAIN events' PROVE events'[k].type # "kick"
  <2>1. events'[k] = e \/ (k \in DOMAIN events /\ events'[k] = events[k])
    BY <1>1, <1>2, <1>3
  <2> QED
    BY <2>1 DEF NoKickSeen
<1> QED
  BY <1>3 DEF mucVars, NoKickSeen, Blameless, Idle, Tame, PartedOnly

LEMMA MatrixKicks ==
    ASSUME TypeInv, NoKickSeen, NEW u \in Users, UserNext(u)
    PROVE  NoKickSeen' /\ PartedOnly
<1>0. home \in Room /\ NoName \in MaybeName
  BY DEF TypeInv, TypeOK, MaybeName
<1>1. ASSUME NEW n \in Names, MatrixJoins(u, n) PROVE NoKickSeen' /\ PartedOnly
  <2>1. Sound([type |-> "member", who |-> u, mem |-> "join", name |-> n])
    BY DEF Sound, Event, MaybeName
  <2>2. home'.ghosts = home.ghosts
    BY <1>0, <1>1 DEF MatrixJoins, Room
  <2> QED
    BY <1>1, <2>1, <2>2, PushKicks DEF MatrixJoins
<1>2. ASSUME NEW n \in Names, ChangeTitle(u, n) PROVE NoKickSeen' /\ PartedOnly
  <2>1. Sound([type |-> "title", who |-> u, mem |-> "join", name |-> n])
    BY DEF Sound, Event, MaybeName
  <2>2. home'.ghosts = home.ghosts
    BY <1>0, <1>2 DEF ChangeTitle, Room
  <2> QED
    BY <1>2, <2>1, <2>2, PushKicks DEF ChangeTitle
<1>3. CASE MatrixLeaves(u)
  <2>1. Sound([type |-> "member", who |-> u, mem |-> "leave", name |-> NoName])
    BY <1>0 DEF Sound, Event
  <2>2. home'.ghosts = home.ghosts
    BY <1>0, <1>3 DEF MatrixLeaves, Room
  <2> QED
    BY <1>3, <2>1, <2>2, PushKicks DEF MatrixLeaves
<1>4. CASE Ban(u)
  <2>1. home'.ghosts = home.ghosts
    BY <1>0, <1>4 DEF Ban, Room
  <2> QED
    BY <1>4, <2>1 DEF Ban, mucVars, NoKickSeen, Blameless, Idle, Tame, PartedOnly
<1>5. CASE Write(u)
  <2>1. Sound([type |-> "text", who |-> u, mem |-> "join", name |-> NoName])
    BY <1>0 DEF Sound, Event
  <2> QED
    BY <1>5, <2>1, PushKicks DEF Write
<1> QED
  BY <1>1, <1>2, <1>3, <1>4, <1>5 DEF UserNext

LEMMA StepKicks ==
    ASSUME TypeInv, NoKickSeen, [Next]_vars, "kicked" \notin mishaps'
    PROVE  NoKickSeen' /\ PartedOnly
<1>1. ASSUME NEW g \in Ghosts PROVE ~Kick(g)
  BY DEF Kick, Happened
<1>2. CASE UNCHANGED vars
  BY <1>2 DEF vars, NoKickSeen, Idle, Tame, PartedOnly
<1>3. CASE Next
  BY <1>1, <1>3, EventKicks, HydrateKicks, WaitKicks, JoinKicks, RefreshKicks, OccupantKicks, MatrixKicks
     DEF Next, HandlerNext, GhostNext
<1> QED
  BY <1>2, <1>3

LEMMA NextKickInv == ASSUME KickInv, [Next]_vars PROVE KickInv'
<1>1. TypeInv'
  BY NextTypeInv DEF KickInv
<1>2. ASSUME "kicked" \notin mishaps' PROVE NoKickSeen'
  BY <1>2, MishapsStay, StepKicks DEF KickInv
<1> QED
  BY <1>1, <1>2 DEF KickInv

\* The step that records a kick removes nobody: the bridge has yet to hear of it.
LEMMA KickRemovesNobody ==
    ASSUME [Next]_vars, "kicked" \notin mishaps, "kicked" \in mishaps'
    PROVE  occupants' = occupants
<1>1. ASSUME NEW i, IgnoreEvent(i) \/ HandleEvent(i) PROVE FALSE
  BY <1>1 DEF IgnoreEvent, HandleEvent, Happened, Missed, If
<1>2. ASSUME NEW h, HandlerNext(h) PROVE FALSE
  <2>1. "kicked" \notin Missed(handlers[h].alias, <<>>) /\ "kicked" \notin Missed(handlers[h].alias, <<"text", h>>)
    BY DEF Missed, If
  <2>2. ASSUME NEW i, AskForState(h, i) \/ FetchAvatar(h, i) PROVE FALSE
    BY <2>2 DEF AskForState, FetchAvatar, Happened, If
  <2>3. CASE Hydrate(h) \/ HydrateAndFetch(h) \/ HydrateFails(h)
    BY <2>1, <2>3 DEF Hydrate, HydrateAndFetch, HydrateFails, Happened
  <2>4. CASE PushEntry(h)
    BY <2>1, <2>4 DEF PushEntry, Happened, If
  <2>5. CASE RefreshForText(h)
    BY <2>1, <2>5 DEF RefreshForText, Happened
  <2> QED
    BY <1>2, <2>2, <2>3, <2>4, <2>5 DEF HandlerNext
<1>3. ASSUME NEW g, GhostNext(g) PROVE occupants' = occupants
  <2>1. CASE Kick(g)
    BY <2>1 DEF Kick, mucVars
  <2>2. CASE ~Kick(g)
    BY <1>3, <2>2 DEF GhostNext, StartJoin, GhostLeaves, FindRow, FindNoRow, StoreRow, VirtualRoom,
                      JoinHydrates, Refresh, EnterMuc, JoinFails, Happened, Missed, If
  <2> QED
    BY <2>1, <2>2
<1>4. ASSUME NEW u, UserNext(u) PROVE FALSE
  BY <1>4 DEF UserNext, MatrixJoins, ChangeTitle, MatrixLeaves, Ban, Write
<1>5. CASE UNCHANGED vars
  BY <1>5 DEF vars
<1> QED
  BY <1>1, <1>2, <1>3, <1>4, <1>5 DEF Next

\* As long as no ghost is kicked, nobody is put out of the MUC while its ghost
\* stays in the Matrix room: however old the copies of the room are that the
\* member list is refreshed from, and in whatever order events arrive.
THEOREM OccupantsAreNotForgottenHolds == Spec => OccupantsAreNotForgotten
<1> DEFINE Step == \A a \in Aliases : \A g \in occupants[a] \ occupants'[a] :
                       home'.ghosts[g] = "join" => "kicked" \in mishaps
<1>1. KickInv /\ [Next]_vars => KickInv'
  BY NextKickInv
<1>2. KickInv /\ [Next]_vars => [Step]_vars
  <2> SUFFICES ASSUME KickInv, [Next]_vars, "kicked" \notin mishaps PROVE Step
    OBVIOUS
  <2>1. CASE "kicked" \in mishaps'
    BY <2>1, KickRemovesNobody
  <2>2. CASE "kicked" \notin mishaps'
    BY <2>2, StepKicks DEF KickInv, PartedOnly
  <2> QED
    BY <2>1, <2>2
<1> QED
  BY <1>1, <1>2, InitKickInv, PTL DEF Spec, OccupantsAreNotForgotten

=============================================================================
