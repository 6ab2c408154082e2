--------------------------- MODULE RoomSync_proofs ---------------------------
(***************************************************************************)
(* What holds of RoomSync for every number of rooms, accounts, slots and   *)
(* calls, whatever the homeserver answers and whenever accounts sign on.   *)
(***************************************************************************)
EXTENDS RoomSync, FiniteSetTheorems, TLAPS

-----------------------------------------------------------------------------
(* Slots: every room that is being asked about holds one                   *)

SlotsInv ==
    /\ TypeOK
    /\ Cardinality(Syncing) <= ongoing
    /\ ongoing <= MaxSyncs

LEMMA SyncingIsFinite ==
    /\ IsFiniteSet(Syncing) /\ IsFiniteSet(Syncing')
    /\ Cardinality(Syncing) \in Nat /\ Cardinality(Syncing') \in Nat
<1>1. Syncing \in SUBSET Rooms /\ Syncing' \in SUBSET Rooms
  BY DEF Syncing
<1>2. IsFiniteSet(Syncing) /\ IsFiniteSet(Syncing')
  BY <1>1, RoomSyncAssumption, FS_Subset
<1> QED
  BY <1>2, FS_CardinalityType

LEMMA HandlerKinds ==
    /\ Idle \in Handler
    /\ \A a \in Accounts : LookingUp(a) \in Handler
    /\ \A a \in Accounts, l \in Lists, r \in Rooms : Joining(a, l, r) \in Handler
BY DEF Handler

LEMMA HandlerFields ==
    ASSUME NEW x \in Handler
    PROVE  /\ x.stage = "lookup" => x = LookingUp(x.account) /\ x.account \in Accounts
           /\ x.stage = "joining" =>
                 /\ x.account \in Accounts /\ x.list \in Lists /\ x.room \in Rooms
                 /\ x = Joining(x.account, x.list, x.room)
BY DEF Handler, Idle, LookingUp, Joining

LEMMA NextRoomType ==
    ASSUME TypeOK, NEW h \in Handlers, NEW a \in Accounts, NEW l \in Lists \cup {None},
           NextRoom(h, a, l)
    PROVE  /\ stacks' \in [Accounts -> Lists \cup {None}]
           /\ entries' \in [Lists -> SUBSET Rooms]
           /\ handlers' \in [Handlers -> Handler]
<1>1. CASE l = None \/ entries[l] = {}
  BY <1>1, HandlerKinds DEF NextRoom, TypeOK
<1>2. CASE l # None /\ entries[l] # {}
  <2>1. PICK r \in entries[l] : /\ entries' = Popped(l, r)
                                /\ handlers' = [handlers EXCEPT ![h] = Joining(a, l, r)]
                                /\ UNCHANGED stacks
    BY <1>2 DEF NextRoom
  <2>2. l \in Lists /\ r \in Rooms
    BY <1>2, <2>1 DEF TypeOK
  <2>3. Joining(a, l, r) \in Handler
    BY <2>2, HandlerKinds
  <2>4. handlers' \in [Handlers -> Handler]
    BY <2>1, <2>3 DEF TypeOK
  <2>5. entries' \in [Lists -> SUBSET Rooms]
    BY <2>1, <2>2 DEF Popped, TypeOK
  <2> QED
    BY <2>1, <2>4, <2>5 DEF TypeOK
<1> QED
  BY <1>1, <1>2

\* A list is there to be used whenever a room is listed.
LEMMA ListForType ==
    ASSUME TypeOK, NEW a \in Accounts, stacks[a] # None \/ FreeLists # {}
    PROVE  /\ ListFor(a) \in Lists
           /\ stacks[a] # None => ListFor(a) = stacks[a]
           /\ stacks[a] = None => ListFor(a) \in FreeLists
<1>1. CASE stacks[a] # None
  BY <1>1 DEF ListFor, TypeOK
<1>2. CASE stacks[a] = None
  <2>1. FreeLists # {} /\ ListFor(a) = CHOOSE l \in FreeLists : TRUE
    BY <1>2 DEF ListFor
  <2>2. ListFor(a) \in FreeLists
    BY <2>1
  <2> QED
    BY <1>2, <2>2 DEF FreeLists
<1> QED
  BY <1>1, <1>2

LEMMA InitSlots == Init => SlotsInv
<1> SUFFICES ASSUME Init PROVE SlotsInv
  OBVIOUS
<1>1. TypeOK
  BY HandlerKinds DEF Init, TypeOK, Phases
<1>2. Syncing = {}
  BY DEF Init, Syncing
<1>3. Cardinality(Syncing) = 0
  BY <1>2, FS_EmptySet
<1> QED
  BY <1>1, <1>3, RoomSyncAssumption DEF Init, SlotsInv

LEMMA RoomSlots ==
    ASSUME SlotsInv, NEW r \in Rooms, RoomStep(r)
    PROVE  SlotsInv'
<1> USE DEF SlotsInv
<1> USE SyncingIsFinite, RoomSyncAssumption
<1>1. CASE TakeSlot(r)
  <2>1. Syncing' = Syncing \cup {r}
    BY <1>1 DEF TakeSlot, Syncing, TypeOK
  <2>2. Cardinality(Syncing') <= Cardinality(Syncing) + 1
    BY <2>1, FS_AddElement
  <2>3. ongoing' = ongoing + 1 /\ ongoing < MaxSyncs
    BY <1>1 DEF TakeSlot, SlotFree
  <2>4. TypeOK'
    BY <1>1, <2>3 DEF TakeSlot, TypeOK, Phases, signVars
  <2> QED
    BY <2>2, <2>3, <2>4 DEF TypeOK
<1>2. CASE GotMembers(r)
  <2>1. Syncing' = Syncing \ {r} /\ r \in Syncing
    BY <1>2 DEF GotMembers, Syncing, TypeOK
  <2>2. Cardinality(Syncing') = Cardinality(Syncing) - 1
    BY <2>1, FS_RemoveElement
  <2>3. ongoing' = ongoing - 1
    BY <1>2 DEF GotMembers, SlotReturned
  <2>4. ongoing' \in Nat
    BY <2>2, <2>3 DEF TypeOK
  <2>5. TypeOK'
    BY <1>2, <2>4 DEF GotMembers, TypeOK, Phases, signVars
  <2> QED
    BY <2>2, <2>3, <2>5 DEF TypeOK
<1>3. CASE Forbidden(r)
  <2>1. Syncing' = Syncing \ {r}
    BY <1>3 DEF Forbidden, Syncing, TypeOK
  <2>2. Cardinality(Syncing') <= Cardinality(Syncing)
    BY <2>1, FS_RemoveElement
  <2>3. TypeOK' /\ ongoing' = ongoing
    BY <1>3 DEF Forbidden, TypeOK, Phases, signVars
  <2> QED
    BY <2>2, <2>3 DEF TypeOK
<1>4. CASE RequestFailed(r) \/ Retry(r)
  <2>1. Syncing' = Syncing
    BY <1>4 DEF RequestFailed, Retry, Syncing, TypeOK
  <2>2. TypeOK' /\ ongoing' = ongoing
    BY <1>4 DEF RequestFailed, Retry, TypeOK, Phases, signVars
  <2> QED
    BY <2>1, <2>2
<1>5. CASE ListUser(r)
  <2>1. PICK a \in Accounts : ListRoom(r, a) \/ SkipUser(r, a)
    BY <1>5 DEF ListUser
  <2>2. Syncing' = Syncing /\ ongoing' = ongoing
    BY <2>1 DEF ListRoom, SkipUser, Syncing
  <2>3. CASE ListRoom(r, a)
    <3>1. ListFor(a) \in Lists
      BY <2>3, ListForType DEF ListRoom
    <3> QED
      BY <2>2, <2>3, <3>1 DEF ListRoom, ListStored, TypeOK, signVars
  <2>4. CASE SkipUser(r, a)
    BY <2>2, <2>4 DEF SkipUser, TypeOK, signVars
  <2> QED
    BY <2>1, <2>3, <2>4
<1>6. CASE RoomListed(r)
  <2>1. Syncing' = Syncing /\ ongoing' = ongoing
    BY <1>6 DEF RoomListed, Syncing, TypeOK
  <2>2. TypeOK'
    BY <1>6 DEF RoomListed, TypeOK, Phases, signVars
  <2> QED
    BY <2>1, <2>2
<1> QED
  BY <1>1, <1>2, <1>3, <1>4, <1>5, <1>6 DEF RoomStep

LEMMA AccountSlots ==
    ASSUME SlotsInv, NEW h \in Handlers, AccountStep(h)
    PROVE  SlotsInv'
<1> USE DEF SlotsInv
<1>1. UNCHANGED syncVars /\ Syncing' = Syncing
  BY DEF AccountStep, SignOn, SignOnAgain, StartHandler, FindList, SignInFailed,
         JoinSettled, syncVars, Syncing
<1>2. TypeOK'
  <2>1. ASSUME NEW a \in Accounts, StartHandler(a, h) PROVE TypeOK'
    BY <2>1, HandlerKinds DEF StartHandler, TypeOK, syncVars
  <2>2. CASE FindList(h)
    <3>1. handlers[h].account \in Accounts
      BY <2>2, HandlerFields DEF FindList, TypeOK
    <3>2. stacks[handlers[h].account] \in Lists \cup {None}
      BY <3>1 DEF TypeOK
    <3> QED
      BY <1>1, <2>2, <3>1, <3>2, NextRoomType DEF FindList, TypeOK, syncVars
  <2>3. CASE JoinSettled(h)
    <3>1. /\ handlers[h].account \in Accounts /\ handlers[h].list \in Lists
          /\ handlers[h].room \in Rooms
      BY <2>3, HandlerFields DEF JoinSettled, TypeOK
    <3>2. /\ stacks' \in [Accounts -> Lists \cup {None}]
          /\ entries' \in [Lists -> SUBSET Rooms]
          /\ handlers' \in [Handlers -> Handler]
      BY <2>3, <3>1, NextRoomType DEF JoinSettled
    <3> QED
      BY <1>1, <2>3, <3>1, <3>2 DEF JoinSettled, TypeOK, syncVars
  <2>4. CASE SignInFailed(h)
    BY <2>4, HandlerKinds DEF SignInFailed, TypeOK, syncVars
  <2> QED
    BY <2>1, <2>2, <2>3, <2>4 DEF AccountStep, SignOn, SignOnAgain
<1> QED
  BY <1>1, <1>2 DEF syncVars

LEMMA NextSlots == SlotsInv /\ [Next]_vars => SlotsInv'
<1> SUFFICES ASSUME SlotsInv, [Next]_vars PROVE SlotsInv'
  OBVIOUS
<1>1. CASE \E r \in Rooms : RoomStep(r)
  BY <1>1, RoomSlots
<1>2. CASE \E h \in Handlers : AccountStep(h)
  BY <1>2, AccountSlots
<1>3. CASE UNCHANGED vars
  BY <1>3 DEF SlotsInv, TypeOK, Syncing, vars
<1> QED
  BY <1>1, <1>2, <1>3 DEF Next

LEMMA SlotsCorrect == Spec => []SlotsInv
<1> QED
  BY InitSlots, NextSlots, PTL DEF Spec

\* The variables of RoomSync keep their types; above all the counter of
\* ongoing syncs never goes below zero.
THEOREM TypeCorrect == Spec => []TypeOK
<1>1. SlotsInv => TypeOK
  BY DEF SlotsInv
<1> QED
  BY <1>1, SlotsCorrect, PTL

\* getJoinedMembers is never under way for more than MAX_SYNCS rooms, however
\* many wait, fail, are retried or forbidden.
THEOREM AtMostMaxSyncsHolds == Spec => []AtMostMaxSyncs
<1>1. SlotsInv => AtMostMaxSyncs
  BY SyncingIsFinite, RoomSyncAssumption DEF SlotsInv, AtMostMaxSyncs, TypeOK
<1> QED
  BY <1>1, SlotsCorrect, PTL

-----------------------------------------------------------------------------
(* Joins: a room that is on a list has not been joined, and is on no other *)

JoiningFor(h, a) == handlers[h].stage = "joining" /\ handlers[h].account = a

\* The map or a call still has this list for the account.
Holds(a, l) == stacks[a] = l \/ \E h \in Handlers : JoiningFor(h, a) /\ handlers[h].list = l

\* A list serves one account.
ListsHaveOneOwner ==
    \A a, b \in Accounts, l \in Lists : Holds(a, l) /\ Holds(b, l) => a = b

\* What is on a list was listed and has not been taken by anyone.
ListedRoomsAreOpen ==
    \A a \in Accounts, l \in Lists, r \in Rooms :
        Holds(a, l) /\ r \in entries[l] =>
           /\ <<a, r>> \in listed /\ <<a, r>> \notin tried
           /\ \A h \in Handlers : JoiningFor(h, a) => handlers[h].room # r
           /\ \A m \in Lists \ {l} : Holds(a, m) => r \notin entries[m]

\* What is being joined was listed, is not done, and has one call only.
JoinsInProgress ==
    \A a \in Accounts, h \in Handlers : JoiningFor(h, a) =>
        /\ <<a, handlers[h].room>> \in listed /\ <<a, handlers[h].room>> \notin tried
        /\ \A g \in Handlers \ {h} : JoiningFor(g, a) => handlers[g].room # handlers[h].room

\* The sync comes to each user of a room once.
ListedOnce ==
    /\ tried \subseteq listed
    /\ \A a \in Accounts, r \in Rooms : <<a, r>> \in listed =>
          a \notin todo[r] /\ phase[r] \in {"listing", "done"}

JoinInv ==
    /\ TypeOK
    /\ ListsHaveOneOwner
    /\ ListedRoomsAreOpen
    /\ JoinsInProgress
    /\ ListedOnce

LEMMA InitJoins == Init => JoinInv
<1> SUFFICES ASSUME Init PROVE JoinInv
  OBVIOUS
<1>1. TypeOK
  BY InitSlots DEF SlotsInv
<1>2. \A h \in Handlers : handlers[h].stage = "idle"
  BY DEF Init, Idle
<1>3. \A a \in Accounts, l \in Lists : ~Holds(a, l)
  BY <1>2, RoomSyncAssumption DEF Init, Holds, JoiningFor
<1> QED
  BY <1>1, <1>2, <1>3 DEF JoinInv, ListsHaveOneOwner, ListedRoomsAreOpen, JoinsInProgress,
     ListedOnce, JoiningFor, Init

\* Steps that touch neither lists nor calls.
LEMMA QuietSteps ==
    ASSUME JoinInv, TypeOK', UNCHANGED <<stacks, entries, handlers, listed, tried>>,
           \A r \in Rooms : /\ phase[r] \in {"listing", "done"} => phase'[r] \in {"listing", "done"}
                            /\ phase[r] \in {"listing", "done"} => todo'[r] \subseteq todo[r]
    PROVE  JoinInv'
<1>1. \A a \in Accounts, l \in Lists : Holds(a, l)' <=> Holds(a, l)
  BY DEF Holds, JoiningFor
<1>2. ListsHaveOneOwner'
  BY <1>1 DEF JoinInv, ListsHaveOneOwner
<1>3. ListedRoomsAreOpen' /\ JoinsInProgress'
  BY <1>1 DEF JoinInv, ListedRoomsAreOpen, JoinsInProgress, JoiningFor
<1>4. ListedOnce'
  BY DEF JoinInv, ListedOnce
<1> QED
  BY <1>2, <1>3, <1>4 DEF JoinInv

\* A list that is not in use is held by nobody.
LEMMA FreeListsAreNotHeld ==
    ASSUME TypeOK, NEW l \in FreeLists, NEW a \in Accounts
    PROVE  ~Holds(a, l)
BY DEF FreeLists, Holds, JoiningFor

LEMMA ListRoomJoins ==
    ASSUME JoinInv, TypeOK', NEW r \in Rooms, NEW a \in Accounts, ListRoom(r, a)
    PROVE  JoinInv'
<1> USE DEF JoinInv
<1> DEFINE new == ListFor(a)
<1>1. /\ new \in Lists
      /\ stacks[a] # None => new = stacks[a]
      /\ stacks[a] = None => new \in FreeLists
  BY ListForType DEF ListRoom
<1>2. /\ stacks' = [stacks EXCEPT ![a] = new]
      /\ entries' = [entries EXCEPT ![new] = IF stacks[a] = None THEN {r} ELSE @ \cup {r}]
      /\ listed' = listed \cup {<<a, r>>}
      /\ todo' = [todo EXCEPT ![r] = @ \ {a}]
      /\ phase[r] = "listing" /\ a \in todo[r]
      /\ UNCHANGED <<phase, handlers, tried>>
  BY DEF ListRoom, ListStored, signVars
<1> HIDE DEF new
<1>3. <<a, r>> \notin listed
  BY <1>2 DEF ListedOnce
\* Who holds what: the account gains the list, if it was new.
<1>4. \A b \in Accounts, l \in Lists : Holds(b, l)' <=> Holds(b, l) \/ (b = a /\ l = new)
  BY <1>1, <1>2, RoomSyncAssumption DEF Holds, JoiningFor, TypeOK
<1>5. \A b \in Accounts : Holds(b, new) => b = a
  <2>1. CASE stacks[a] # None
    BY <1>1, <2>1 DEF Holds, ListsHaveOneOwner
  <2>2. CASE stacks[a] = None
    BY <1>1, <2>2, FreeListsAreNotHeld
  <2> QED
    BY <2>1, <2>2
<1>6. ListsHaveOneOwner'
  BY <1>4, <1>5 DEF ListsHaveOneOwner
\* What the list holds: what it held for this account, and the room.
<1>7. \A q \in Rooms : q \in entries'[new] => q = r \/ (Holds(a, new) /\ q \in entries[new])
  BY <1>1, <1>2 DEF Holds, TypeOK
<1>8. \A l \in Lists \ {new} : entries'[l] = entries[l]
  BY <1>2 DEF TypeOK
<1>9. \A m \in Lists : Holds(a, m) => r \notin entries[m]
  BY <1>3 DEF ListedRoomsAreOpen
<1>10. \A h \in Handlers : JoiningFor(h, a) => handlers[h].room # r
  BY <1>3 DEF JoinsInProgress
<1>11. <<a, r>> \notin tried
  BY <1>3 DEF ListedOnce
<1>12. ListedRoomsAreOpen'
  <2> SUFFICES ASSUME NEW b \in Accounts, NEW l \in Lists, NEW q \in Rooms,
                      Holds(b, l)', q \in entries'[l]
               PROVE  /\ <<b, q>> \in listed' /\ <<b, q>> \notin tried'
                      /\ \A h \in Handlers : JoiningFor(h, b)' => handlers'[h].room # q
                      /\ \A m \in Lists \ {l} : Holds(b, m)' => q \notin entries'[m]
    BY DEF ListedRoomsAreOpen
  <2>1. CASE b = a /\ l = new /\ q = r
    <3>1. \A m \in Lists \ {l} : Holds(b, m)' => q \notin entries'[m]
      BY <1>4, <1>8, <1>9, <2>1
    <3> QED
      BY <1>2, <1>10, <1>11, <2>1, <3>1 DEF JoiningFor
  <2>2. CASE ~(b = a /\ l = new /\ q = r)
    <3>1. Holds(b, l) /\ q \in entries[l]
      BY <1>4, <1>5, <1>7, <1>8, <2>2
    <3>2. /\ <<b, q>> \in listed /\ <<b, q>> \notin tried
          /\ \A h \in Handlers : JoiningFor(h, b) => handlers[h].room # q
          /\ \A m \in Lists \ {l} : Holds(b, m) => q \notin entries[m]
      BY <3>1 DEF ListedRoomsAreOpen
    <3>3. ASSUME NEW m \in Lists \ {l}, Holds(b, m)', q \in entries'[m] PROVE FALSE
      <4>1. CASE m # new
        BY <1>4, <1>8, <3>2, <3>3, <4>1
      <4>2. CASE m = new
        <5>1. b = a
          BY <1>4, <1>5, <3>3, <4>2
        <5>2. q # r
          BY <1>3, <3>2, <5>1
        <5> QED
          BY <1>7, <3>2, <3>3, <4>2, <5>1, <5>2
      <4> QED
        BY <4>1, <4>2
    <3> QED
      BY <1>2, <3>2, <3>3 DEF JoiningFor
  <2> QED
    BY <2>1, <2>2
<1>13. JoinsInProgress'
  BY <1>2 DEF JoinsInProgress, JoiningFor
<1>14. ListedOnce'
  BY <1>2 DEF ListedOnce, TypeOK
<1> QED
  BY <1>6, <1>12, <1>13, <1>14

\* Going on with a list keeps the invariant, and takes a room that nobody
\* has taken.
LEMMA NextRoomJoins ==
    ASSUME JoinInv, TypeOK', NEW h \in Handlers, NEW a \in Accounts,
           NEW l \in Lists \cup {None}, NextRoom(h, a, l),
           l # None => Holds(a, l),
           \/ handlers[h].stage = "lookup" /\ tried' = tried
           \/ JoiningFor(h, a) /\ tried' = tried \cup {<<a, handlers[h].room>>},
           UNCHANGED <<phase, todo, listed>>
    PROVE  /\ JoinInv'
           /\ handlers'[h].stage = "joining" =>
                 /\ <<handlers'[h].account, handlers'[h].room>> \notin tried'
                 /\ \A g \in Handlers \ {h} :
                       handlers'[g].stage = "joining" /\ handlers'[g].account = handlers'[h].account
                          => handlers'[g].room # handlers'[h].room
<1> USE DEF JoinInv
<1>1. \A g \in Handlers \ {h} : handlers'[g] = handlers[g]
  BY DEF NextRoom, TypeOK
<1>2. ListedOnce'
  <2>1. tried' \subseteq listed
    BY DEF JoinsInProgress, ListedOnce
  <2> QED
    BY <2>1 DEF ListedOnce
<1>3. \A b \in Accounts, q \in Rooms :
         <<b, q>> \in tried' =>
            <<b, q>> \in tried \/ (JoiningFor(h, b) /\ handlers[h].room = q)
  <2> SUFFICES ASSUME NEW b \in Accounts, NEW q \in Rooms, <<b, q>> \in tried',
                      <<b, q>> \notin tried
               PROVE  JoiningFor(h, b) /\ handlers[h].room = q
    OBVIOUS
  <2>1. JoiningFor(h, a) /\ <<b, q>> = <<a, handlers[h].room>>
    OBVIOUS
  <2> QED
    BY <2>1
<1>4. CASE l = None \/ entries[l] = {}
  <2>1. /\ stacks' = [stacks EXCEPT ![a] = None] /\ entries' = entries
        /\ handlers'[h].stage = "idle"
    BY <1>4 DEF NextRoom, Idle, TypeOK
  <2>2. \A b \in Accounts, g \in Handlers : JoiningFor(g, b)' => JoiningFor(g, b) /\ g # h
    BY <1>1, <2>1 DEF JoiningFor
  <2>3. \A b \in Accounts, m \in Lists : Holds(b, m)' => Holds(b, m)
    BY <1>1, <2>1, <2>2, RoomSyncAssumption DEF Holds, TypeOK
  <2>4. ListsHaveOneOwner'
    BY <2>3 DEF ListsHaveOneOwner
  <2>5. ListedRoomsAreOpen'
    <3> SUFFICES ASSUME NEW b \in Accounts, NEW m \in Lists, NEW q \in Rooms,
                        Holds(b, m)', q \in entries'[m]
                 PROVE  /\ <<b, q>> \in listed' /\ <<b, q>> \notin tried'
                        /\ \A g \in Handlers : JoiningFor(g, b)' => handlers'[g].room # q
                        /\ \A k \in Lists \ {m} : Holds(b, k)' => q \notin entries'[k]
      BY DEF ListedRoomsAreOpen
    <3>1. /\ <<b, q>> \in listed /\ <<b, q>> \notin tried
          /\ \A g \in Handlers : JoiningFor(g, b) => handlers[g].room # q
          /\ \A k \in Lists \ {m} : Holds(b, k) => q \notin entries[k]
      BY <2>1, <2>3 DEF ListedRoomsAreOpen
    <3> QED
      BY <1>1, <1>3, <2>1, <2>2, <2>3, <3>1
  <2>6. JoinsInProgress'
    <3> SUFFICES ASSUME NEW b \in Accounts, NEW g \in Handlers, JoiningFor(g, b)'
                 PROVE  /\ <<b, handlers'[g].room>> \in listed'
                        /\ <<b, handlers'[g].room>> \notin tried'
                        /\ \A k \in Handlers \ {g} :
                              JoiningFor(k, b)' => handlers'[k].room # handlers'[g].room
      BY DEF JoinsInProgress
    <3>1. JoiningFor(g, b) /\ g # h /\ handlers'[g] = handlers[g] /\ handlers[g].room \in Rooms
      BY <1>1, <2>2, HandlerFields DEF JoiningFor, TypeOK
    <3>2. /\ <<b, handlers[g].room>> \in listed /\ <<b, handlers[g].room>> \notin tried
          /\ \A k \in Handlers \ {g} : JoiningFor(k, b) => handlers[k].room # handlers[g].room
      BY <3>1 DEF JoinsInProgress
    <3> QED
      BY <1>1, <1>3, <2>2, <3>1, <3>2
  <2> QED
    BY <1>2, <2>1, <2>4, <2>5, <2>6
<1>5. CASE l # None /\ entries[l] # {}
  <2>1. PICK r \in entries[l] : /\ entries' = Popped(l, r)
                                /\ handlers' = [handlers EXCEPT ![h] = Joining(a, l, r)]
                                /\ UNCHANGED stacks
    BY <1>5 DEF NextRoom
  <2>2. l \in Lists /\ r \in Rooms /\ Holds(a, l)
    BY <1>5, <2>1 DEF TypeOK
  <2>3. /\ handlers'[h].stage = "joining" /\ handlers'[h].account = a
        /\ handlers'[h].list = l /\ handlers'[h].room = r
    BY <2>1 DEF Joining, TypeOK
  <2>4. /\ \A m \in Lists : entries'[m] \subseteq entries[m]
        /\ r \notin entries'[l]
    BY <2>1, <2>2 DEF Popped, TypeOK
  <2>5. \A b \in Accounts, m \in Lists : Holds(b, m)' => Holds(b, m)
    BY <1>1, <2>1, <2>2, <2>3 DEF Holds, JoiningFor
  <2>6. \A b \in Accounts, g \in Handlers \ {h} : JoiningFor(g, b)' <=> JoiningFor(g, b)
    BY <1>1 DEF JoiningFor
  <2>7. /\ <<a, r>> \in listed /\ <<a, r>> \notin tried
        /\ \A g \in Handlers : JoiningFor(g, a) => handlers[g].room # r
        /\ \A k \in Lists \ {l} : Holds(a, k) => r \notin entries[k]
    BY <2>1, <2>2 DEF ListedRoomsAreOpen
  <2>8. <<a, r>> \notin tried'
    BY <1>3, <2>2, <2>7
  <2>9. ListsHaveOneOwner'
    BY <2>5 DEF ListsHaveOneOwner
  <2>10. ListedRoomsAreOpen'
    <3> SUFFICES ASSUME NEW b \in Accounts, NEW m \in Lists, NEW q \in Rooms,
                        Holds(b, m)', q \in entries'[m]
                 PROVE  /\ <<b, q>> \in listed' /\ <<b, q>> \notin tried'
                        /\ \A g \in Handlers : JoiningFor(g, b)' => handlers'[g].room # q
                        /\ \A k \in Lists \ {m} : Holds(b, k)' => q \notin entries'[k]
      BY DEF ListedRoomsAreOpen
    <3>1. Holds(b, m) /\ q \in entries[m]
      BY <2>4, <2>5
    <3>2. /\ <<b, q>> \in listed /\ <<b, q>> \notin tried
          /\ \A g \in Handlers : JoiningFor(g, b) => handlers[g].room # q
          /\ \A k \in Lists \ {m} : Holds(b, k) => q \notin entries[k]
      BY <3>1 DEF ListedRoomsAreOpen
    <3>3. b = a => q # r
      BY <2>4, <2>7, <3>1
    <3>4. \A g \in Handlers : JoiningFor(g, b)' => handlers'[g].room # q
      BY <1>1, <2>3, <2>6, <3>2, <3>3 DEF JoiningFor
    <3>5. \A k \in Lists \ {m} : Holds(b, k)' => q \notin entries'[k]
      BY <2>4, <2>5, <3>2
    <3> QED
      BY <1>3, <3>2, <3>4, <3>5
  <2>11. JoinsInProgress'
    <3> SUFFICES ASSUME NEW b \in Accounts, NEW g \in Handlers, JoiningFor(g, b)'
                 PROVE  /\ <<b, handlers'[g].room>> \in listed'
                        /\ <<b, handlers'[g].room>> \notin tried'
                        /\ \A k \in Handlers \ {g} :
                              JoiningFor(k, b)' => handlers'[k].room # handlers'[g].room
      BY DEF JoinsInProgress
    <3>1. CASE g = h
      <4>1. b = a /\ handlers'[g].room = r
        BY <2>3, <3>1 DEF JoiningFor
      <4> QED
        BY <1>1, <2>6, <2>7, <2>8, <3>1, <4>1
    <3>2. CASE g # h
      <4>1. JoiningFor(g, b) /\ handlers'[g] = handlers[g] /\ handlers[g].room \in Rooms
        BY <1>1, <2>6, <3>2, HandlerFields DEF JoiningFor, TypeOK
      <4>2. /\ <<b, handlers[g].room>> \in listed /\ <<b, handlers[g].room>> \notin tried
            /\ \A k \in Handlers \ {g} : JoiningFor(k, b) => handlers[k].room # handlers[g].room
        BY <4>1 DEF JoinsInProgress
      <4>3. b = a => handlers[g].room # r
        BY <2>7, <4>1
      <4>4. \A k \in Handlers \ {g} : JoiningFor(k, b)' => handlers'[k].room # handlers[g].room
        BY <1>1, <2>3, <2>6, <4>2, <4>3 DEF JoiningFor
      <4> QED
        BY <1>3, <3>2, <4>1, <4>2, <4>4
    <3> QED
      BY <3>1, <3>2
  <2>12. \A g \in Handlers \ {h} : JoiningFor(g, a)' => handlers'[g].room # r
    BY <1>1, <2>6, <2>7
  <2> QED
    BY <1>2, <2>3, <2>8, <2>9, <2>10, <2>11, <2>12 DEF JoiningFor
<1> QED
  BY <1>4, <1>5

\* What JoinsOnce says of one step.
JoinsOnceStep ==
    \A h \in Handlers :
        handlers'[h].stage = "joining" /\ handlers'[h] # handlers[h] =>
           /\ <<handlers'[h].account, handlers'[h].room>> \notin tried'
           /\ \A g \in Handlers \ {h} :
                 handlers'[g].stage = "joining" /\ handlers'[g].account = handlers'[h].account
                    => handlers'[g].room # handlers'[h].room

LEMMA RoomJoins ==
    ASSUME JoinInv, TypeOK', NEW r \in Rooms, RoomStep(r)
    PROVE  JoinInv' /\ JoinsOnceStep
<1>1. handlers' = handlers
  BY DEF RoomStep, TakeSlot, GotMembers, Forbidden, RequestFailed, Retry, ListUser, ListRoom,
         SkipUser, RoomListed, signVars
<1>2. JoinsOnceStep
  BY <1>1 DEF JoinsOnceStep
<1>3. CASE \E a \in Accounts : ListRoom(r, a)
  BY <1>2, <1>3, ListRoomJoins
<1>4. CASE ~\E a \in Accounts : ListRoom(r, a)
  <2>1. UNCHANGED <<stacks, entries, handlers, listed, tried>>
    BY <1>4 DEF RoomStep, TakeSlot, GotMembers, Forbidden, RequestFailed, Retry, ListUser,
                SkipUser, RoomListed, signVars
  <2>2. \A q \in Rooms : phase[q] \in {"listing", "done"} =>
           phase'[q] \in {"listing", "done"} /\ todo'[q] \subseteq todo[q]
    BY <1>4 DEF RoomStep, TakeSlot, GotMembers, Forbidden, RequestFailed, Retry, ListUser,
                SkipUser, RoomListed, JoinInv, TypeOK
  <2> QED
    BY <1>2, <2>1, <2>2, QuietSteps
<1> QED
  BY <1>3, <1>4

LEMMA AccountJoins ==
    ASSUME JoinInv, TypeOK', NEW h \in Handlers, AccountStep(h)
    PROVE  JoinInv' /\ JoinsOnceStep
<1> USE DEF JoinInv
<1>1. ASSUME (\E a \in Accounts : StartHandler(a, h)) \/ SignInFailed(h)
      PROVE  JoinInv' /\ JoinsOnceStep
  <2>1. /\ handlers[h].stage # "joining" /\ handlers'[h].stage # "joining"
        /\ \A g \in Handlers \ {h} : handlers'[g] = handlers[g]
    BY <1>1 DEF StartHandler, SignInFailed, Idle, LookingUp, TypeOK
  <2>2. UNCHANGED <<phase, todo, stacks, entries, listed, tried>>
    BY <1>1 DEF StartHandler, SignInFailed, syncVars
  <2>3. \A b \in Accounts, g \in Handlers :
           /\ JoiningFor(g, b)' <=> JoiningFor(g, b)
           /\ JoiningFor(g, b) => handlers'[g] = handlers[g]
    BY <2>1 DEF JoiningFor
  <2>4. \A b \in Accounts, l \in Lists : Holds(b, l)' <=> Holds(b, l)
    BY <2>2, <2>3 DEF Holds
  <2>5. ListsHaveOneOwner' /\ ListedOnce'
    BY <2>2, <2>4 DEF ListsHaveOneOwner, ListedOnce
  <2>6. ListedRoomsAreOpen'
    BY <2>2, <2>3, <2>4 DEF ListedRoomsAreOpen
  <2>7. JoinsInProgress'
    BY <2>2, <2>3 DEF JoinsInProgress
  <2>8. JoinsOnceStep
    BY <2>1 DEF JoinsOnceStep
  <2> QED
    BY <2>5, <2>6, <2>7, <2>8
<1>2. CASE FindList(h)
  <2> DEFINE a == handlers[h].account
             l == stacks[a]
  <2>1. a \in Accounts /\ handlers[h].stage = "lookup"
    BY <1>2, HandlerFields DEF FindList, TypeOK
  <2>2. l \in Lists \cup {None} /\ (l # None => Holds(a, l))
    BY <2>1 DEF Holds, TypeOK
  <2>3. /\ NextRoom(h, a, l) /\ UNCHANGED <<phase, todo, listed, tried>>
    BY <1>2 DEF FindList, syncVars
  <2>4. \A g \in Handlers \ {h} : handlers'[g] = handlers[g]
    BY <2>3 DEF NextRoom, TypeOK
  <2> HIDE DEF a, l
  <2>5. /\ JoinInv'
        /\ handlers'[h].stage = "joining" =>
              /\ <<handlers'[h].account, handlers'[h].room>> \notin tried'
              /\ \A g \in Handlers \ {h} :
                    handlers'[g].stage = "joining" /\ handlers'[g].account = handlers'[h].account
                       => handlers'[g].room # handlers'[h].room
    BY <2>1, <2>2, <2>3, NextRoomJoins
  <2> QED
    BY <2>4, <2>5 DEF JoinsOnceStep
<1>3. CASE JoinSettled(h)
  <2> DEFINE a == handlers[h].account
             l == handlers[h].list
  <2>1. a \in Accounts /\ l \in Lists /\ JoiningFor(h, a)
    BY <1>3, HandlerFields DEF JoinSettled, JoiningFor, TypeOK
  <2>2. Holds(a, l)
    BY <2>1 DEF Holds
  <2>3. /\ NextRoom(h, a, l) /\ UNCHANGED <<phase, todo, listed>>
        /\ tried' = tried \cup {<<a, handlers[h].room>>}
    BY <1>3 DEF JoinSettled, syncVars
  <2>4. \A g \in Handlers \ {h} : handlers'[g] = handlers[g]
    BY <2>3 DEF NextRoom, TypeOK
  <2> HIDE DEF a, l
  <2>5. /\ JoinInv'
        /\ handlers'[h].stage = "joining" =>
              /\ <<handlers'[h].account, handlers'[h].room>> \notin tried'
              /\ \A g \in Handlers \ {h} :
                    handlers'[g].stage = "joining" /\ handlers'[g].account = handlers'[h].account
                       => handlers'[g].room # handlers'[h].room
    BY <2>1, <2>2, <2>3, NextRoomJoins
  <2> QED
    BY <2>4, <2>5 DEF JoinsOnceStep
<1> QED
  BY <1>1, <1>2, <1>3 DEF AccountStep, SignOn, SignOnAgain

LEMMA NextJoins ==
    SlotsInv /\ JoinInv /\ [Next]_vars => JoinInv' /\ [JoinsOnceStep]_vars
<1> SUFFICES ASSUME SlotsInv, JoinInv, [Next]_vars
             PROVE  JoinInv' /\ [JoinsOnceStep]_vars
  OBVIOUS
<1>1. TypeOK'
  BY NextSlots DEF SlotsInv
<1>2. CASE \E r \in Rooms : RoomStep(r)
  BY <1>1, <1>2, RoomJoins
<1>3. CASE \E h \in Handlers : AccountStep(h)
  BY <1>1, <1>3, AccountJoins
<1>4. CASE UNCHANGED vars
  BY <1>1, <1>4, QuietSteps DEF vars
<1> QED
  BY <1>2, <1>3, <1>4 DEF Next

\* No room is joined twice for an account, in whatever order rooms are
\* listed, accounts sign on (once or again) and joins are answered.
THEOREM JoinsOnceHolds == Spec => JoinsOnce
<1>1. Spec => [](SlotsInv /\ JoinInv)
  BY InitSlots, InitJoins, NextSlots, NextJoins, PTL DEF Spec
<1>2. Spec => [][JoinsOnceStep]_vars
  BY <1>1, NextJoins, PTL DEF Spec
<1> QED
  BY <1>2 DEF JoinsOnce, JoinsOnceStep

=============================================================================
