------------------------------ MODULE RoomSync ------------------------------
(***************************************************************************)
(* RoomSync: at start-up the bridge asks the homeserver who is in each     *)
(* bridged group room, a limited number of rooms at a time, and lists for  *)
(* every account the rooms it is to join again.  An account that signs on  *)
(* works through its list, one join after the other.  Program signs the    *)
(* accounts in when the sync has finished; but the bridge is listening for *)
(* Matrix events all the while, and an event can create an account early.  *)
(*                                                                         *)
(* An action runs from one await to the next.  Gateway rooms take no part  *)
(* in this: GatewayMUC models what initialMembershipSync does for them.    *)
(***************************************************************************)
EXTENDS Naturals, FiniteSets

CONSTANTS
    Rooms,          \* group rooms with both a Matrix and a remote side
    Accounts,       \* remote accounts of Matrix users
    MaxSyncs,       \* MAX_SYNCS: rooms that may be asked about at once
    Lists,          \* bound: membership lists that exist at once
    Handlers,       \* bound: onAccountSignedin calls that run at once
    None,           \* no list in the map
    Environment     \* the events of the environment a run allows

EnvironmentEvents ==
    {"forbidden",   \* the homeserver will not tell who is in a room
     "error",       \* a request fails and is retried
     "fail",        \* the store fails to look an account or its user up
     "early",       \* a Matrix event creates an account during the sync
     "again"}       \* an account signs on more than once

ASSUME RoomSyncAssumption ==
    /\ IsFiniteSet(Rooms)
    /\ MaxSyncs \in Nat \ {0}
    /\ None \notin Lists
    /\ Environment \subseteq EnvironmentEvents

VARIABLES
    joined,     \* the accounts of the Matrix users who are in each room
    phase,      \* where the sync of each room is
    ongoing,    \* ongoingSyncs
    todo,       \* the users of a room the sync has not come to yet
    stacks,     \* accountRoomMemberships: account -> list
    entries,    \* what each list holds
    signedOn,   \* accounts the backend has created
    handlers,   \* onAccountSignedin calls
    listed,     \* every <<account, room>> that was put on a list
    tried       \* every <<account, room>> that was taken off and joined

syncVars == <<joined, phase, ongoing, todo>>
signVars == <<signedOn, handlers, tried>>
vars == <<joined, phase, ongoing, todo, stacks, entries, signedOn, handlers, listed, tried>>

Idle == [stage |-> "idle"]
LookingUp(a) == [stage |-> "lookup", account |-> a]
Joining(a, l, r) == [stage |-> "joining", account |-> a, list |-> l, room |-> r]

Handler == {Idle} \cup {LookingUp(a) : a \in Accounts}
           \cup {Joining(a, l, r) : a \in Accounts, l \in Lists, r \in Rooms}

Phases == {"waiting", "asking", "retrying", "listing", "forbidden", "done"}

\* Rooms whose getJoinedMembers call is past the wait.
Syncing == {r \in Rooms : phase[r] \in {"asking", "retrying"}}

Finished(r) == phase[r] \in {"forbidden", "done"}
Synced == \A r \in Rooms : Finished(r)

-----------------------------------------------------------------------------
(* getJoinedMembers                                                        *)

\* Mutant: the limit itself still leaves room for one more.
SlotOrLimit == ongoing <= MaxSyncs
SlotFree == ongoing < MaxSyncs

\* A waiting room looks at the counter again and again.  Nothing comes
\* between its look and its increment.
TakeSlot(r) ==
    /\ phase[r] = "waiting"
    /\ SlotFree
    /\ ongoing' = ongoing + 1
    /\ phase' = [phase EXCEPT ![r] = "asking"]
    /\ UNCHANGED <<joined, todo, stacks, entries, listed, signVars>>

\* Mutants: a successful call keeps its slot; gives it back twice.
SlotKept == ongoing
SlotReturnedTwice == ongoing - 2
SlotReturned == ongoing - 1

GotMembers(r) ==
    /\ phase[r] = "asking"
    /\ ongoing' = SlotReturned
    /\ phase' = [phase EXCEPT ![r] = "listing"]
    /\ todo' = [todo EXCEPT ![r] = joined[r]]
    /\ UNCHANGED <<joined, stacks, entries, listed, signVars>>

\* M_FORBIDDEN ends the call at once, and the slot is not given back.
Forbidden(r) ==
    /\ "forbidden" \in Environment
    /\ phase[r] = "asking"
    /\ phase' = [phase EXCEPT ![r] = "forbidden"]
    /\ UNCHANGED <<joined, ongoing, todo, stacks, entries, listed, signVars>>

\* Any other failure waits for SYNC_RETRY_MS with the slot in hand.
RequestFailed(r) ==
    /\ "error" \in Environment
    /\ phase[r] = "asking"
    /\ phase' = [phase EXCEPT ![r] = "retrying"]
    /\ UNCHANGED <<joined, ongoing, todo, stacks, entries, listed, signVars>>

Retry(r) ==
    /\ phase[r] = "retrying"
    /\ phase' = [phase EXCEPT ![r] = "asking"]
    /\ UNCHANGED <<joined, ongoing, todo, stacks, entries, listed, signVars>>

-----------------------------------------------------------------------------
(* syncAccountsToGroupRooms and syncMatrixUser                             *)

FreeLists == Lists \ ({stacks[a] : a \in Accounts}
                      \cup {handlers[h].list : h \in {g \in Handlers :
                                                        handlers[g].stage = "joining"}})

\* get(id) || []: a list that is not in the map is a new, empty one.
ListFor(a) == IF stacks[a] # None THEN stacks[a] ELSE CHOOSE l \in FreeLists : TRUE

\* Mutant: the new list is not put into the map.
ListDropped(a) == stacks
ListStored(a) == [stacks EXCEPT ![a] = ListFor(a)]

\* The user's account is known: the room goes on its list.
ListRoom(r, a) ==
    /\ phase[r] = "listing" /\ a \in todo[r]
    /\ stacks[a] # None \/ FreeLists # {}
    /\ todo' = [todo EXCEPT ![r] = @ \ {a}]
    /\ stacks' = ListStored(a)
    /\ entries' = [entries EXCEPT ![ListFor(a)] =
                       IF stacks[a] = None THEN {r} ELSE @ \cup {r}]
    /\ listed' = listed \cup {<<a, r>>}
    /\ UNCHANGED <<joined, phase, ongoing, signVars>>

\* The lookup threw: the error is logged and the loop goes on.
SkipUser(r, a) ==
    /\ "fail" \in Environment
    /\ phase[r] = "listing" /\ a \in todo[r]
    /\ todo' = [todo EXCEPT ![r] = @ \ {a}]
    /\ UNCHANGED <<joined, phase, ongoing, stacks, entries, listed, signVars>>

RoomListed(r) ==
    /\ phase[r] = "listing" /\ todo[r] = {}
    /\ phase' = [phase EXCEPT ![r] = "done"]
    /\ UNCHANGED <<joined, ongoing, todo, stacks, entries, listed, signVars>>

-----------------------------------------------------------------------------
(* onAccountSignedin                                                       *)

StartHandler(a, h) ==
    /\ handlers[h] = Idle
    /\ handlers' = [handlers EXCEPT ![h] = LookingUp(a)]
    /\ signedOn' = signedOn \cup {a}
    /\ UNCHANGED <<syncVars, stacks, entries, listed, tried>>

\* Program signs every account in once sync() has returned; getAccount
\* creates an account, and reports it, the first time it is asked for.
SignOn(a, h) ==
    /\ Synced \/ "early" \in Environment
    /\ a \notin signedOn
    /\ StartHandler(a, h)

\* libpurple reports every connection of an account.
SignOnAgain(a, h) ==
    /\ "again" \in Environment
    /\ a \in signedOn
    /\ StartHandler(a, h)

\* Mutant: the room is looked at and stays on the list.
Peeked(l, r) == entries
Popped(l, r) == [entries EXCEPT ![l] = @ \ {r}]

\* The next room of the list, or the list is given up: by then the map may
\* hold another one.
NextRoom(h, a, l) ==
    IF l = None \/ entries[l] = {}
    THEN /\ stacks' = [stacks EXCEPT ![a] = None]
         /\ handlers' = [handlers EXCEPT ![h] = Idle]
         /\ UNCHANGED entries
    ELSE \E r \in entries[l] :
            /\ entries' = Popped(l, r)
            /\ handlers' = [handlers EXCEPT ![h] = Joining(a, l, r)]
            /\ UNCHANGED stacks

\* The Matrix user of the account is known; the list is looked up once.
FindList(h) ==
    /\ handlers[h].stage = "lookup"
    /\ NextRoom(h, handlers[h].account, stacks[handlers[h].account])
    /\ UNCHANGED <<syncVars, listed, signedOn, tried>>

\* The lookup of the Matrix user threw: the list stays where it is.
SignInFailed(h) ==
    /\ "fail" \in Environment
    /\ handlers[h].stage = "lookup"
    /\ handlers' = [handlers EXCEPT ![h] = Idle]
    /\ UNCHANGED <<syncVars, stacks, entries, listed, signedOn, tried>>

\* joinChat was answered, refused, or gave up after JOINLEAVE_TIMEOUT: all
\* three lead to the next room.
JoinSettled(h) ==
    /\ handlers[h].stage = "joining"
    /\ tried' = tried \cup {<<handlers[h].account, handlers[h].room>>}
    /\ NextRoom(h, handlers[h].account, handlers[h].list)
    /\ UNCHANGED <<syncVars, listed, signedOn>>

-----------------------------------------------------------------------------

Init ==
    /\ joined \in [Rooms -> SUBSET Accounts]
    /\ phase = [r \in Rooms |-> "waiting"]
    /\ ongoing = 0
    /\ todo = [r \in Rooms |-> {}]
    /\ stacks = [a \in Accounts |-> None]
    /\ entries = [l \in Lists |-> {}]
    /\ signedOn = {}
    /\ handlers = [h \in Handlers |-> Idle]
    /\ listed = {} /\ tried = {}

ListUser(r) == \E a \in Accounts : ListRoom(r, a) \/ SkipUser(r, a)

RoomStep(r) ==
    \/ TakeSlot(r) \/ GotMembers(r) \/ Forbidden(r) \/ RequestFailed(r) \/ Retry(r)
    \/ ListUser(r) \/ RoomListed(r)

AccountStep(h) ==
    \/ \E a \in Accounts : SignOn(a, h) \/ SignOnAgain(a, h)
    \/ FindList(h) \/ SignInFailed(h) \/ JoinSettled(h)

Next == (\E r \in Rooms : RoomStep(r)) \/ (\E h \in Handlers : AccountStep(h))

Spec == Init /\ [][Next]_vars

\* Timers fire and awaited calls settle; a homeserver that is asked again
\* and again answers some day; a created account is reported.
FairSpec ==
    /\ Spec
    /\ \A r \in Rooms : WF_vars(RoomStep(r)) /\ SF_vars(GotMembers(r) \/ Forbidden(r))
    /\ \A a \in Accounts : WF_vars(Synced /\ \E h \in Handlers : SignOn(a, h))
    /\ \A h \in Handlers : WF_vars(FindList(h) \/ JoinSettled(h))

-----------------------------------------------------------------------------
(* Properties                                                              *)

TypeOK ==
    /\ joined \in [Rooms -> SUBSET Accounts]
    /\ phase \in [Rooms -> Phases]
    /\ ongoing \in Nat
    /\ todo \in [Rooms -> SUBSET Accounts]
    /\ stacks \in [Accounts -> Lists \cup {None}]
    /\ entries \in [Lists -> SUBSET Rooms]
    /\ signedOn \subseteq Accounts
    /\ handlers \in [Handlers -> Handler]
    /\ listed \subseteq Accounts \X Rooms
    /\ tried \subseteq Accounts \X Rooms

\* However many rooms wait for a slot, the homeserver is never asked about
\* more than MAX_SYNCS of them at the same time.
AtMostMaxSyncs == Cardinality(Syncing) <= MaxSyncs

\* No room is joined twice for an account, not even when the account signs
\* on again while its first round of joins is under way.
JoinsOnce ==
    [][\A h \in Handlers :
          handlers'[h].stage = "joining" /\ handlers'[h] # handlers[h] =>
             /\ <<handlers'[h].account, handlers'[h].room>> \notin tried'
             /\ \A g \in Handlers \ {h} :
                   handlers'[g].stage = "joining" /\ handlers'[g].account = handlers'[h].account
                      => handlers'[g].room # handlers'[h].room]_vars

\* sync() returns, so that Program goes on to sign the accounts in.
SyncFinishes == <>Synced

\* Requests that fail and are retried, lookups that throw and early accounts
\* do not keep sync() from returning.  Neither do forbidden rooms, as long
\* as one slot is left.
FewForbidden == Cardinality({r \in Rooms : phase[r] = "forbidden"}) < MaxSyncs
SyncFinishesWithASlotLeft == []FewForbidden => SyncFinishes

\* A room that was listed before its account signed on is joined in the end,
\* by whichever of the account's onAccountSignedin calls; or, if their lookups
\* fail, it stays on the list in the map, where the next sign-on finds it.
LeftForNextSignOn(a, r) ==
    a \in signedOn /\ stacks[a] # None /\ r \in entries[stacks[a]]

ListedRoomsAreRejoined ==
    []FewForbidden =>
        \A a \in Accounts, r \in Rooms :
            (<<a, r>> \in listed /\ a \notin signedOn)
                ~> <<a, r>> \in tried \/ []LeftForNextSignOn(a, r)
=============================================================================
