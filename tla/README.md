# A TLA+ model of matrix-bifrost

matrix-bifrost is an application service: Matrix users appear on XMPP (or, through
libpurple, on other networks), and remote users appear on Matrix as *ghosts*. All of it is
one single-threaded Node process. What makes it hard is that almost every handler awaits a
homeserver, a database or an XMPP server several times, so handlers of different users
interleave at their awaits, over maps in memory that are kept consistent by hand.

Throughout these modules an action runs from one `await` to the next: everything between
two awaits is atomic, nothing else is.

Line numbers refer to `src/src/` unless a longer path is given.

## The system

| Component | State | Operations | Talks to | Module |
|---|---|---|---|---|
| `xmppjs/XJSGateway` with `GatewayMUCMembership`, `PresenceCache` | member list of each gatewayed room (a set and an index by Matrix ID), cached presences, cached join stanzas, avatar hashes | `handleStanza`, `onRemoteJoin`, `initialMembershipSync`, `sendMatrixMembership`, `stopGateway` | emits `gateway-joinroom`, `chat-user-left`, `store-remote-user` | `GatewayMUC`, `GatewayRooms` |
| `GatewayHandler` | copies of the state of rooms | `handleRoomJoin`, `initialMembershipSync`, `getVirtualRoom`, `sendMatrixMembership`, `getOrCreateGatewayRoom` | homeserver, store, gateway | `GatewayMUC`, `GatewayRooms` |
| `xmppjs/GatewayStateResolve` | none of its own | turns a Matrix membership event into changes of the member list and stanzas | member list | `GatewayMUC`, `GatewayRooms` |
| `RoomSync` | rooms to rejoin per account, number of running requests | `sync`, `onAccountSignedin` | homeserver, store, accounts | `RoomSync` |
| `MatrixRoomHandler` | creation locks, known senders, locked accounts | messages, invites and user states from the remote side | homeserver, store, `Deduplicator` | `RoomCreation`, `GroupRelay` |
| `MatrixEventHandler` | room aliases, pending invites | everything a Matrix user does | accounts, store, gateway | `RoomCreation`, `GroupRelay`, `XmppPuppet` |
| `xmppjs/XJSInstance` | accounts, write buffer, seen and sent stanzas | stream events, stanza dispatch, IQ requests | XMPP server | `XmppPuppet` |
| `xmppjs/XJSAccount` | handle and nicknames per room, rooms being joined | join, rejoin, leave, self-ping | `XJSInstance` | `XmppPuppet` |
| `Deduplicator` | chosen account per room, users per room, expected echoes, waiters for joins | | `MatrixRoomHandler`, `MatrixEventHandler` | `GroupRelay`, `RoomCreation` |
| `xmppjs/MAM`, queries in `xmppjs/ServiceHandler` | archive of each room, pagination token | queries, added messages | homeserver | `Archive` |
| `purple/*` | join properties per room | polls libpurple's events | accounts | `GroupRelay`, `RoomSync` |
| `store/postgres`, `store/NeDBStore` | rooms, accounts, ghosts | upserts and lookups | | rows, where a module needs them |
| `HistoryManager`, the rest of `ServiceHandler`, `ProfileSync`, `AutoRegistration`, `MessageFormatter`, `Program` | avatar cache, last stanzas | request and response | | |

How they interact when an XMPP client enters a gatewayed room:

1. the client's presence reaches `XJSInstance.onStanza`, which lets no id through twice, and
   then `XJSGateway.handleStanza`. `PresenceCache.add` says what is new about it; if there is
   something, the stanza is cached under its id and `gateway-joinroom` is emitted;
2. `GatewayHandler.handleRoomJoin` joins the user's ghost to the Matrix room, finds or makes
   the room entry, fetches the room's state, and calls `onRemoteJoin` with the id;
3. `onRemoteJoin` takes the stanza out of the cache, brings the member list up to date from the
   copy of the room's state, checks that the nickname is free, sends the presences of the others
   and the client's own, and only then adds the client to the members and, after the history,
   stores it for a restart;
4. a leave removes a device, and parts the ghost after the last one; a kick on Matrix comes
   back as an event and removes the member; a restart rebuilds the members from the store.

In the other direction, an event of a Matrix user reaches `MatrixEventHandler.onEvent`, which
looks the room up in the store and hands the event to the gateway, to the puppet of the user
(`XJSAccount`) or to libpurple. A puppet that is not in the chat joins it first. What comes
back from the remote network, and what remote users say, goes to `MatrixRoomHandler`, which
finds or makes the Matrix room, asks the `Deduplicator` whether the message is an echo or has
been relayed by another account, and sends it as the sender's ghost; the archive gets a copy.

What is hard: two joins, or a join and a leave, kick or restart, that overlap at any of these
awaits; failures half way; several handlers that all find something missing and make it; maps
that are written before an await and read after it; events that overtake each other; a stream
that is lost with messages in it. What makes each part correct:

* gateway: its maps agree with each other and with the Matrix room. A user is listed once, is
  found by its ghost's ID, holds its nickname alone; a kick works; a ghost stands for
  somebody; a client that asks is answered; what an occupant was told is the list;
* `RoomSync`: it respects its limit, finishes, and joins every listed room once;
* room creation: one Matrix room per conversation, no lock that nobody releases;
* puppets: a message arrives, once; the handle is the nick the puppet has; handlers end;
* relaying: a message passes once, and what the bridge said itself does not come back;
* archive: no holes, and pages that follow each other miss nothing.

`PROJECT.json` lists every component with what is modelled of it, and every hazard at its line.

## What is modelled

### GatewayMUC (with MucOccupancy)

One room of the gateway: members, caches and ghosts, all four steps above.

| Variable | Code |
|---|---|
| `members`, `byMxid` | `ChatMembers.members` and `.byMxid`, XMPP members only. The index maps to the real JID of the member found |
| `presence` | `PresenceCache.presence` in gateway mode: keyed by the occupant addressed, with one online flag and the bare resources seen |
| `stanzaCache`, `joins`, `entering` | `XmppJsGateway.stanzaCache`; `handleRoomJoin` calls and where they wait; `onRemoteJoin` calls that have their stanza |
| `restore` | the `initialMembershipSync` call after a start: waiting for the room's state, then for the member list |
| `ghosts`, `expelled`, `kicks`, `leaveCalls` | the homeserver's view: joined ghosts, those that a Matrix user put out and that have not been back, kicks the bridge has not been told of, `intent.leave` calls under way |
| `copy`, `answer` | `roomIdCache`, and the room's state on its way to the handler of an event. Of the state this module keeps which ghosts are in the room and which were put out by a Matrix user |
| `store` | the `remote_users` rows of the ghosts, in PostgreSQL |
| `claims` | history: what each client asked for and neither gave up nor was refused or told to leave |
| `restarts` | bounds restarts |

| Action | Code |
|---|---|
| `JoinRequest`, `JoinIgnored`, `NickChange`, `Leave` | `handleStanza` (XJSGateway 61-146) with all it calls; a leave includes `remoteLeft`, the store and the start of `intent.leave` |
| `JoinDropped` | the filter of seen ids (XJSInstance 644) |
| `GhostJoined`, `RoomMapped`, `JoinFailed` | `handleRoomJoin` (GatewayHandler 217-290): its awaits and its catch block, which drops the copy |
| `TakeStanza`, `CheckNick`, `AddJoiner`, `FinishRemoteJoin` | `onRemoteJoin` (XJSGateway 366-593), cut at its awaits: the refresh, the stanzas, the history |
| `RefreshRemoves`, `RestoreRemoves` | the refresh awaited at 403 and at 613 deletes the members that the copy says a Matrix user has put out, one at a time (`updateMatrixMemberListForRoom` 748-753, `removeMatrixMember`), XMPP members with all their devices included |
| `EventAsks`, `EventHydrates` | the handler of an event fetches the copy (`getVirtualRoom`) |
| `ModeratorKick`, `DeliverKick` | a kick on the homeserver; `resolveMatrixStateToXMPP` (108-167) |
| `GhostLeft` | a leave call takes effect (MatrixRoomHandler 635, GatewayHandler 279) |
| `Restart`, `AskGhosts`, `ReadGhosts`, `Reconnect` | `stopGateway` or a crash; `initialMembershipSync` of the handler and of the gateway |

A ghost's user ID and the remote ID `createRemoteId` makes are different values even for the
same user, because the code confuses the two; the name `prepJID` makes of a string is
`NoUser`, because it is the same for everybody.

The copy is not kept up with the ghosts: their events are not handed on, and a kick touches the
member list but not the copy. What it says of them is what the homeserver said when it was
asked, and the member list is refreshed from that. So a user who was once kicked, and whom some
copy still has as put out, is put out of the MUC again by the join of its next device, although
its ghost is in the room and nobody has kicked it since (`bad_refresh.cfg`).

`MucOccupancy` is the abstract specification: which devices ask, are present, are on record,
who is being kicked and who is remembered to have been; nothing of caches, tokens and indices. A
device gets in only by asking, goes out alone or with its user, who is being kicked or is taken
for one who was, and a restart brings back only what is on record. `ImplementsOccupancy` is the
refinement: `asking` is the set of devices with a stanza in the cache or in `onRemoteJoin`,
`present` the union of the members' devices, `remembered` the devices in the rows and in the
restore under way, `outcasts` the users whom the homeserver, a copy, or an answer under way has
as put out.

### GatewayRooms

The Matrix half of the same room: what the gateway knows of it, and what it tells.

| Variable | Code |
|---|---|
| `home`, `events` | the room on the homeserver, and the events pushed that nobody has handled; any of them may be next, because `onEvent` awaits the store first |
| `cache` | `roomIdCache`: one copy, changed in place by whoever handles an event. `users` holds the first entry of each user, which is the one `find` returns, `again` the entries that were pushed beside it |
| `row` | the room's row in `group_rooms`, by its alias |
| `handlers`, `joins` | event handlers that wait for the room's state or for an avatar, each with the copy it was given; `handleRoomJoin` calls |
| `nicks`, `occupants` | Matrix and XMPP members of each MUC in `GatewayMUCMembership` |
| `told` | the Matrix members that the presences sent to an occupant add up to |
| `lost`, `mishaps`, `steps` | history: a message thrown away; what has gone wrong; bounds changes |

| Action | Code |
|---|---|
| `IgnoreEvent`, `HandleEvent`, `AskForState`, `Hydrate`, `HydrateAndFetch`, `HydrateFails` | `onEvent`, `getVirtualRoom` (GatewayHandler 56-101), then `sendMatrixMessage`, `sendStateEvent`, `sendMatrixMembership` of the handler and of the gateway |
| `FetchAvatar`, `PushEntry` | a membership event of a user without an entry: the avatar is awaited between the `find` and the `push` (GatewayHandler 165-188) |
| `StartJoin`, `FindRow`, `FindNoRow`, `StoreRow`, `JoinHydrates`, `Refresh`, `EnterMuc`, `JoinFails` | `handleRoomJoin`, `getOrCreateGatewayRoom` and what `onRemoteJoin` does with the list |
| `RefreshForText` | a message that finds no Matrix member listed has the list refreshed (XJSGateway 721-760) |
| `GhostLeaves` | `remoteLeft` of the last device |
| `MatrixJoins`, `MatrixLeaves`, `Ban`, `Kick`, `Write`, `ChangeTitle` | what happens in the Matrix room. Bans are not handed on (MatrixEventHandler 262), so nobody hears of them |

A refresh awaits an avatar per entry that came with the state (736). `Seen` is what its loop can
find: every user's entries as they were when it began or as they are when it ends. The stage
`adrift` is that of a handler or a join whose copy is no longer the one in the cache: what it
pushes is lost. Two events of a user who is new can both find no entry and push one each; `find`
returns the first for good, whatever the second said. This is recorded as `doubled`.

### RoomSync

| Variable | Code |
|---|---|
| `phase`, `ongoing`, `todo` | where the loop of each room waits; `ongoingSyncs`; the members it has not come to |
| `stacks`, `entries` | `accountRoomMemberships`, as a map to list objects, and what the lists hold: a handler keeps its list while the map may get another one |
| `handlers`, `signedOn` | `onAccountSignedin` calls and the accounts that exist |
| `joined` | who is in which room, arbitrary from the start |
| `listed`, `tried` | history: what was put on a list, what was taken off and joined |

Actions: `TakeSlot`, `GotMembers`, `Forbidden`, `RequestFailed`, `Retry` are
`getJoinedMembers` (51-74); `ListRoom`, `SkipUser`, `RoomListed` are the loops of
`syncAccountsToGroupRooms` and `syncMatrixUser` (82-165); `SignOn` and `SignOnAgain` are the
backends' reports of an account; `FindList`, `SignInFailed`, `JoinSettled` are
`onAccountSignedin` (167-221). A list is a set, not a stack: the order of joins does not
matter to any property. Entries are always `"join"`, the only value the code stores.

### RoomCreation

Which Matrix room a message of the remote network goes to. Calls of four kinds (one-to-one
messages; group messages, invites and joins; events that only use a room that exists; members
of the gateway) run through `createOrGetIMRoom` and `createOrGetGroupChatRoom`.

| Variable | Code |
|---|---|
| `calls` | where each call waits, for whose promise, and the room it has |
| `lock` | `roomCreationLock`: the promise of a call is the call |
| `rows` | `im_rooms` and `group_rooms`. There may be several rows of a conversation: a query returns any |
| `together` | history: calls whose lookups overlapped, so that neither could see the other's room |
| `direct`, `texts`, `relayed` | a direct chat that the Matrix user opens; messages in it, pushed or fetched |
| `plumbing` | a `!bifrost bridge` command under way, which ends with `remove-room-lock` |

| Action | Code |
|---|---|
| `Begin`, `FindRoom`, `StartCreation`, `RefuseToMake`, `AskForAlias`, `AliasStored`, `LookupFails` | MatrixRoomHandler 150-291, up to the creation |
| `RoomMade`, `RoomStored`, `CreationFails`, `UserJoins`, `JoinWaitExpires` | the promise, its waiters (who all go on in the same step) and `waitForJoin`; that of a group room never settles |
| `GhostJoins`, `GhostCannotJoin`, `RowRemoved`, `Send`, `CallFails` | `handleIncomingIM` (328-417) |
| `OpenDirect`, `GhostJoinsDirect`, `DirectStored`, `DirectFails`, `FetchMissedTexts`, `WriteText`, `HandleText` | the invite to a direct chat (MatrixEventHandler 180-224), `getMessagesBeforeJoin` |
| `StartPlumbing`, `Plumb`, `PlumbingFails`, `Unplumb` | `!bifrost bridge` and `!bifrost leave` |

### XmppPuppet

One puppet of a Matrix user in one MUC of the XMPP network, with its stream and the MUC's side.

| Variable | Code |
|---|---|
| `up`, `buffer` | the stream's status and `bufferedMessages` |
| `wire`, `back` | stanzas on their way, in order; lost when the stream is |
| `tasks` | every handler that may be in `joinChat`: of a message, of its rejection, of a conflict, a new name, a check, a reconnection |
| `handle`, `presence`, `resent` | `roomHandles`, the nicks that `PresenceCache` has online, `resentMessageStanzas` |
| `name` | the user's display name |
| `occupant`, `taken`, `accepted` | the MUC: the puppet's nick, others' nicks, accepted messages |
| `events` | history: what the environment did |

| Action | Code |
|---|---|
| `StartSending`, `Rename` | `handleGroupMessage` (813-820) and the membership event, up to the request for the name |
| `Fetched`, `NotFetched` | the display name has come, or not: `joinChat` up to its first await, with the name of some time since it was asked for and with what the room is by now; under another nick the puppet parts first (XJSAccount 247-257) |
| `FlushedPart`, `FlushedJoin`, `PingTimesOut`, `Late`, `Answer` | `joinChat`, `rejectChat`, `rejoinChat`, `reconnectToRooms` behind an await: of buffered presence, of a self ping |
| `Present`, `Gone`, `Conflict`, `Rejected` | `handlePresenceStanza`, `xmppRetryJoin`, the error branch of `handleMessageStanza` (XJSInstance 810-826) |
| `Check`, `Cut`, `Online` | the check interval; the stream's events, with the flush of the buffer |
| `Serve`, `Drop`, `Kick`, `Take` | the MUC, as XEP-0045 says |

The nick with the conflict suffix is a parameter, `Suffixed`, of which only is assumed that it
is no display name. `events` also records `overlapped` (a rejection met a handle that another
rejoin had forgotten) and `outdated` (the name changed while the handler of a message was
fetching it, so that it may join under the old one).

### GroupRelay

One group chat on libpurple, with one account per Matrix user.

| Variable | Code |
|---|---|
| `connected`, `request`, `occupants`, `log`, `inbox` | libpurple and the chat: who is there, what was said, what is to be polled of each account |
| `tasks` | handlers that may join, and wait to: of join events and of messages |
| `props` | accounts with `joinPropertiesForRooms` |
| `counter`, `chosen`, `expected` | `Deduplicator`: `usersInRoom`, `chosenOnes`, `expectedMessages` |
| `locked` | `accountRoomLock` |
| `relayed`, `left`, `ignored`, `counted`, `gone`, `happened` | history: who relayed a message, to whom it was left, who was locked; what the counter stands for; who has gone; bounds events |

| Action | Code |
|---|---|
| `SendMessage`, `MatrixJoin`, `MatrixLeave`, `GoesOn` | `handleGroupMessage`, `handleJoinLeaveGroup`, `joinOrDefer` (MatrixEventHandler 785-1129) |
| `ChatJoined`, `SignedOn`, `SignedOff`, `ChatMessage`, `Unlock` | `onChatJoined`, the listeners of deferred joins, sign-offs, `handleIncomingChatMsg` with the three filters in order |
| `Enter`, `RemoteSays`, `SignOn`, `SignOff` | the chat and the network |

### Archive

The message archive of one room, and queries to it. Events are numbered in their order.

| Variable | Code |
|---|---|
| `n`, `adding` | the newest event of the room; relayed messages that are not yet added |
| `created`, `cache`, `token` | `mamCache` has the room; its array; `archivePaginationTokens` |
| `query` | every `getEntries` call: where it waits, the batch that is coming, `previous`, the indexes of its page |
| `asked`, `mishaps` | bounds queries; history |

Actions: `Ask`, `Converge`, `FetchFails`, `Answer` are `getEntries`, `convergeEvRoomCache`
and `sliceAndRenderArchiveCache` (MAM 92-353), cut at their awaits, with the loops as they
run; `Post`, `AddEntry`, `LoseEntry` are new messages and `addEntry`. `Slice` and `IndexIn`
are JavaScript's `slice` and `findIndex`, off-by-one and negative cases included.

## What the runs show

| Run | Instance | Shows |
|---|---|---|
| `muc_joins` | 2 users, 1 device each, 2 nicknames of which a Matrix member holds one, 2 joins in flight; failures, early leaves, nickname changes | `CachedStanzasAreAwaited`, `MembersCarryTheirMxid` |
| `muc_devices` | 1 user, 2 devices, 1 restart; kicks, early leaves, dropped stanzas, refreshes from stale copies | `TypeOK`, `OneMemberPerUser`, `ByMxidFindsMembers`, `PartsOnlyAbsentUsers`, `ImplementsOccupancy`, `KicksTakeEffect` |
| `muc_live` | 1 user, 1 device, 2 nicknames, 2 joins in flight; early leaves; fairness | `GhostsAreAccounted`, `JoinsAreAnswered` |
| `gateway_rooms` | 2 Matrix and 2 XMPP users, 2 names, 2 event handlers that wait at a time; failures, bans, kicks | `TypeOK`, `CacheCatchesUp`, `MatrixHalfIsAccurate`, `OccupantsKnowTheList`, `OccupantsAreNotForgotten` |
| `room_sync` | 3 rooms, 1 account, 2 slots, 2 handlers, every event of the environment; fairness | `TypeOK`, `AtMostMaxSyncs`, `JoinsOnce`, `SyncFinishesWithASlotLeft`, `ListedRoomsAreRejoined` |
| `rooms_created` | 2 calls of any kind, 1 conversation, 1 group, 1 message in a direct chat; every event of the environment; fairness | `TypeOK`, `LocksAreLive`, `TextsRelayedOnce`, `OnlyOverlappingLookupsRace`, `ImCallsFinish` |
| `puppet` | 2 messages, 2 display names, 2 handlers at a time, a new name and one of the 8 other events; fairness | `TypeOK`, `AcceptedOnce`, `MessagesGetThrough`, `HandleIsTheirs`, `SendsFinish` |
| `relay` | 2 accounts, 1 own and 2 remote messages, 2 events: a join again, a leave, a lost connection; fairness | `TypeOK`, `NoEcho`, `RepeatedBySuccessors`, `ChosenOneIsThere`, `LeftInGoodHands`, `DeferredSendsEnd` |
| `archive` | 5 events of which one is no message, 2 queries, batches of 1, pages of 2, a limit of 3; a failed fetch, a lost or an overtaken message | `TypeOK`, `NoHoles`, `ReaderMissesNothing`, `LatestPageIsFull` |
| `bad_devices` | 1 user, 2 devices, 1 nickname, 1 join | `DevicesAreLive` fails |
| `bad_kick_after_restart` | 1 user, 1 restart | `KicksReachEverybody` fails |
| `bad_group_room` | 2 calls for one group, nothing goes wrong; fairness | `ChatCallsFinish` fails |

### Bounds

* GatewayMUC: two users, two devices, two nicknames and two joins in flight are the smallest
  numbers for which joins race for a nickname, a device is left behind and a join of one user
  meets another's; no action looks at three of anything. `MaxLeaveCalls` is 1: a second leave
  call for a ghost that is being parted has the same effect as the first. `MaxRestarts` is 1:
  after a restart the process has no memory of an earlier one. One event at a time fetches the
  copy (`EventAsks`); joins fetch it beside it.
* `room_sync`: three rooms and two slots make a room wait; two handlers overlap; three lists
  are what two handlers and the map can hold.
* `rooms_created`: two calls are enough for each pair of steps to overlap; each may run twice
  (it starts again when the ghost cannot join), and plumbing sets rows and locks beside them.
  `OneCallBesideDirect` leaves out behaviours in which both calls begin and a direct chat is
  opened as well: one call is enough to race with it. (Without it the same properties hold in
  348 thousand states.)
* `gateway_rooms`: `MaxSteps` 5 joins, leaves, changes and messages, of which `MaxPending` 2
  are on their way at a time: a join of each half of the room, a change, and two events that
  overtake each other. The constraint `OneMishap` stops exploring when a second kind of mishap
  has happened, because every property excuses some mishaps and says little behind two.
* `puppet`: `MaxEvents` 1 event of the environment, since two (such as a loss during the
  rejoin after a loss) lose messages by design: one is resent once. `MaxHandlers` 2 handlers
  under way at a time: two messages, or a message and the event's own. One new name. (The same
  properties have been checked with 4 messages and 5 handlers for a conflict with a check, a new
  name with a check, and a loss.)
* `relay`: `MaxEvents` 2, so that a user can leave and join again, or two accounts go. The
  proofs of its safety properties cover any number of accounts; `LeftInGoodHands`, which says
  more about three accounts than about two, has been checked with three as well.
* `archive`: five events, batches of one and a limit of three make queries fetch several
  times and stop at the limit; `MaxQueries` 2 overlap.

Each run allows only the events it lists, so that a run that passes shows under which events a
property holds, and one that fails shows the event that breaks it. Symmetry is used in runs
that check safety only.

### Fairness

Everything rests on two facts: an awaited call settles, well or badly (the client libraries
time out), and Node runs what is ready and fires timers. Nothing is assumed of users, clients
or moderators.

* `GatewayMUC.FairSpec`: a join under way is carried on. Leave calls, which nobody awaits, are
  not assumed to arrive.
* `RoomSync.FairSpec`: the same for the sync, and that a homeserver asked again and again
  gives an answer other than an error some day (strong fairness of the answer; without it the
  retry loop of line 58 never ends). Sign-ons are assumed only where `Program` makes them,
  after the sync.
* `RoomCreation.FairSpec`: a call goes on (`Proceed`). The user need not join: the timer of
  `waitForJoin` is what ends the wait.
* `XmppPuppet.FairSpec`: `GoesOn` (promises, requests and IQ timers), `Online` (xmpp.js reconnects),
  `Serve` and `FromMuc` (the MUC answers in order while the stream is up).
* `GroupRelay.FairSpec`: libpurple's events are polled, the 60 s of a join run out, and an
  account that lost its connection signs on again, which libpurple does by itself.
* GatewayRooms and Archive have no liveness properties.

### What the failing runs mean

* `bad_devices`: the presence cache has one online flag per nickname. When the first device
  leaves, the flag goes off, and the leave of the second changes nothing and is ignored: the
  device stays in the list, gets the room's stanzas and passes self-pings, and the ghost is
  never parted.
* `bad_kick_after_restart`: restored members carry the remote ID as `matrixId`, so that a kick,
  which looks for the ghost's user ID, does not find them. `KicksTakeEffect`, which holds, is
  about the members that do carry their ghost's ID.
* `bad_group_room`: `createOrGetGroupChatRoom` awaits `new Promise(() => ...)`, which nothing
  resolves. The homeserver makes the room, but it is not stored, nobody is invited, the first
  message is lost, and every later call for that room waits for ever.

### Other behaviour of the code worth knowing

Found while modelling, without a run in the list. The modules state some more properties that
the code does not keep; the configurations named here are beside them and end in a
counterexample.

Gateway, XMPP half (`GatewayMUC`):

* `NicksUnique` (`bad_nick_race.cfg`): the nickname is checked at XJSGateway 405 and taken at
  524, with awaits in between. Two users whose joins overlap both get it.
* `JoinsAreAnswered` fails when joins may fail (`bad_retry.cfg`): the code resets the presence
  under the sender's JID, but the gateway's cache is keyed by the occupant's. The next join
  from that device is "nothing to do" and never answered, until the client sends an
  unavailable presence. A kick leaves the presence online in the same way.
* `RefreshIsAccurate` (`bad_refresh.cfg`): "Ensure our membership is accurate" (XJSGateway 403)
  puts out a user whose ghost is in the room, because the copy still says that it was kicked.
  Nobody tells the client.
* A client that leaves before its join is through is added afterwards and stays listed. This
  is why `DevicesAreLive` is checked only to fail.
* When a join of a second device fails before the room entry is known, the catch block parts
  the ghost although the first device is in the room (`memberInRoom` is asked only with a room
  name). `PartsOnlyAbsentUsers` is therefore stated for runs in which joins do not fail.
* A join refused for its nickname leaves the ghost in the Matrix room: `onRemoteJoin` swallows
  the exception, so the handler's catch block is not reached. `muc_live` has no nickname to
  refuse; with one, `GhostsAreAccounted` fails.
* A join whose id anybody used before, for any stanza, is dropped without an answer.
* The stanzas for a kicked user's own devices are overwritten by those for the others
  (GatewayStateResolve 149 and 163): the kicked client is not told that it was kicked.

Gateway, Matrix half (`GatewayRooms`); the mishaps its properties excuse are these:

* `OneAliasPerRoom` (`bad_aliases.cfg`): a join by a second alias overwrites the room's entry,
  and the occupants who came by the first get nothing more.
* Events that overtake each other, or handlers that fetch the state at the same time, leave
  the copy wrong until the next change of that member.
* While the first occupant is entering, the list may change without it: a Matrix user who
  joins then is not on it, and what this user writes is dropped with "No member cached".
  A member renamed while nobody is in the MUC keeps the old nickname.
* `updateMatrixMemberListForRoom` is silent: who was in the MUC before is not told of those it
  adds. A failed join drops the copy; the next membership event fetches one that already
  holds its change, and is then not forwarded.
* A kicked ghost stays "left" in the copy, and when its user has rejoined, a later refresh
  removes the member (XJSGateway 748) without telling anybody.
* Two events of a user without an entry, the second while the avatar of the first is fetched,
  push two entries (GatewayHandler 165-188). `find` keeps up the first only, so the copy stays
  wrong about a later name, a refresh may list a user again who has left, and the member list
  may differ from what occupants were told. All four properties excuse `doubled`.

RoomSync:

* `SyncFinishes` (`bad_forbidden.cfg`): a forbidden room never gives its slot back.
  `SyncFinishesWithASlotLeft` shows that this is the only way for the sync to hang.
* An account that signs on during the sync finds only the rooms listed so far, and XMPP
  accounts sign on once: rooms listed later are not joined.

Room creation:

* Two calls whose lookups overlap make a room each; so do calls that were woken by a rejected
  promise, since nobody looks at the lock again. `OnlyOverlappingLookupsRace` says that these
  are the only ways.
* The lock is deleted by its key, which may by then hold the promise of another call.
* A user who joins before `waitForJoin` has registered holds the message up for a minute.
* A message pushed between the ghost's join and the row of a direct chat is dropped, since the
  room is not known, and not fetched either.

Puppets:

* `ResentAfterRejoining` (`bad_resend.cfg`): a message rejected while another one rejoins is
  sent again too early, is rejected again and lost.
* A loss while the puppet rejoins under a new name rejects a message twice; a new name and a
  conflict together can leave `roomHandles` different from the nick in the MUC, because the
  handler that is served last wins.
* The name is fetched between the question whether the puppet is in the room and the join
  (MatrixEventHandler 813-827). When it changes there, a message may join under the old name
  after the new one: the puppet parts once more, a message may be rejected twice and be lost, and
  the handle may be the one name while the MUC shows the other. `MessagesGetThrough` and
  `HandleIsTheirs` excuse this (`outdated`).
* A nick with the suffix that conflicts too is not retried. A nick that conflicted stays in
  `roomNicks`, so that the presence of its real owner is taken for the puppet's.
* `rejectChat` without a handle parts `room/undefined`. The presence cache is not reset when
  the stream is lost. A failed write is buffered until the next "online".

Relaying:

* `NoEcho` (`bad_echo.cfg`) fails when a user leaves whose account never joined: the counter
  is lowered although it never counted that account.
* `isInRoom` asks for join properties, which nothing removes (PurpleAccount 101): after a lost
  connection the chat is not joined again and what the user writes is lost. A deferred join
  is made even if the user has left since.
* A sign-off does not lower the counter, so that hashes are left over which swallow a later
  message of the same text. The lock of an account is released by the timer of an earlier
  join; a history that takes longer than the lock is relayed as new.
* A message that comes before `chat-joined` has been polled is said in no conversation.

Archive:

* `LastPageIsLast` (`bad_last_page.cfg`): the page without result set management ends before
  the newest message; in an archive of one message it is empty, and in an empty one the query
  fails.
* A new archive gets two batches of 300, not the "last 5000 entries" of the log. The loops for
  "start", "with", "end" and "before" run once, and not at all behind these two.
* `addEntry` does not look whether a fetch has brought the message already; until a fetch with
  a token the array is not sorted; the indexes of a page are older than the page, which moves
  when a fetch comes in between. These are the mishaps `ReaderMissesNothing` excuses.
* A query during the first fetch sees an empty archive. A batch in which nothing is new ends
  the loop of a query. An unknown id behind "after" gives the oldest page, "before" skips the
  message at the boundary.

## What is proved

TLAPS proves the following for all values of the constants (any number of users, devices,
nicknames, calls, rooms, accounts and handlers; any environment). The only assumptions on the
constants are those named `...Assumption` in the modules, and what the theorems say themselves.

* `GatewayMUC_proofs`: `TypeCorrect`; `OneMemberPerUserHolds` and `ByMxidFindsMembersHolds`;
  `PartsOnlyAbsentUsersHolds`, for an environment in which joins do not fail. The inductive
  invariant is `MemberListOK`: the two properties with the types. Neither is inductive
  alone: that a lookup by real JID has one result is what keeps the index pointing to
  members, and a restored user may be one who joined again in the meantime, which only gains
  devices because the lookup finds it. Also `CachedStanzasAreAwaitedHolds`, and
  `GhostsAreAccountedHolds` for one user, whose nicknames no Matrix member holds, without
  failures, kicks and restarts: each of these does leave a ghost behind in the code. Inductive
  (`AwaitInv`) is that no two joins share an id, that every cached stanza has its join and
  every join its stanza. With it the one who gets in is the one whose ghost joined
  (`AccountInv`), so that a ghost is covered by its join, then by its entrance, then by its
  member, then by the call that parts it.
* `GatewayOccupancy_proofs`: `ImplementsOccupancyHolds`. The invariant adds `Provenance`: a
  join, its stanza, its place in `onRemoteJoin` and the member it becomes belong to one
  user, and stanzas with one id are one stanza. Without it an abstract `Admit` could not be
  matched with the device that asked. Each operation then gets a lemma saying what it does to
  the devices asking, present and on record, and each action one saying which abstract step
  it is. Also `KicksTakeEffectHolds`, through restarts, failures and everything else:
  a member that carries its ghost's ID is found by it in the index (`KickInv`), which the
  deletion of other members and the device that joins a restored member both leave so. And
  `MembersCarryTheirMxidHolds`, for `MaxRestarts = 0`; `bad_kick_after_restart` shows that the
  assumption is needed.
* `RoomSync_proofs`: `TypeCorrect`, `AtMostMaxSyncsHolds` and `JoinsOnceHolds`. The counter is
  at least the number of rooms being asked about (`SlotsInv`; forbidden rooms make it more),
  which needs the cardinality theorems. For `JoinsOnce`, every list has one owner, a room that
  is listed or being joined for an account is neither tried nor still to be listed, and rooms
  are listed once.
* `GatewayRooms_proofs`: `RoomTypes` and `OccupantsAreNotForgottenHolds`. That nobody is put
  out needs that no copy, cached or kept by a handler, and no event says of a ghost that it was
  kicked (`NoKickSeen`), however old it is.
* `RoomCreation_proofs`: `CreationTypes`, `LocksStayLive`, `OnlyOverlaps` and `TextsOnce`, in
  every environment. For the types, a call that is about to store a room has made one
  (`StoresARoom`). The invariant `RaceInv` adds `LocksAreLive` and that only calls of the
  gateway wait for an alias, since a lookup that fails must not take a lock there. For
  `OnlyOverlaps`, calls that are looking at the store for one conversation are paired with
  each other (`LookupsArePaired`) and with whoever holds a pending lock (`HoldersArePaired`):
  who comes later waits, and who is woken is paired when it is. For `TextsOnce`, a message
  that is not yet handled has not been relayed.
* `GroupRelay_proofs`: `RelayTypes`, and a theorem for each safety property.
  * `SuccessorsRepeat`, if no lock is released before the history has arrived. `RelayInv`: a
    message is said once; two copies in one inbox come with two joins, and what an account has
    relayed it will find only while it is locked or behind a join that locks it; every account
    that relayed something is the chosen one or has gone.
  * `ChosenStays`, if users leave only once their accounts have nothing to report.
    `OutsidersLearn`: whatever an account outside the chat has still to report is in front of
    the loss of its connection.
  * `NothingEchoes`, if joins are not slow and none is refused. `EchoInv` counts: each account
    that is in the chat is counted, as often as it has joined, or has its join still to report;
    copies of one message in an inbox are separated by joins; so those who will hear a message
    are at most as many as the hashes its sender left.
  * `LeftMessagesRelayed`, in every environment. `HandsInv`: once a message is said, it is
    relayed, or left to somebody, or everyone in the chat has it still to report or is excused
    from it; and it is left to nobody but the chosen account and those that were chosen and
    have gone. An account that is not in the chat learns so behind whatever it reports, so that
    a chosen one cannot be missing unnoticed. The attempt to prove an earlier form, in which
    every account that left the message had to be excused by the one it left it to, failed for
    three accounts, and TLC has the counterexample: an account that leaves a message to one that
    goes becomes the chosen one itself, and a third leaves it the same message. One excuse is
    what the code can promise.
* `XmppPuppet_proofs`: `PuppetTypes`, for which the stanzas that the bridge takes a name or a
  message from must carry one, and a handler that waits must know its nick; and
  `MessagesAcceptedOnce`, in every environment. `PlaceInv` is what makes it inductive: a message
  is in one place at a time. It is still to be sent by its handler, or still to be sent again by
  the handler of its rejection, or in the buffer or on the wire, or rejected and on its way
  back, or accepted; and in each queue it is once.
* `Archive_proofs`: `ArchiveTypes`; `ArchiveHasNoHoles`, `ReadersMissNothing` and
  `LatestPagesAreFull`, in every environment that the properties do not excuse themselves.
  `FetchInv`: a batch together with the array has every settled message from its oldest one on,
  so the array has every one from its token on. With it no fetch makes a hole (`HolesInv`).
  `PlacesInv`: but for the mishaps, the array is in order, the indexes a query noted still lead
  to its messages, and those of a last page are a page apart or the archive is complete.

The later proofs have been tried against changed models: with the choice of the first account,
the condition under which a query fetches, the hashes of an own message and the order of a join
and its message changed, the proofs that rest on them fail.

Only model-checked:

* Liveness (`JoinsAreAnswered`, `SyncFinishesWithASlotLeft`, `ListedRoomsAreRejoined`,
  `ImCallsFinish`, `SendsFinish`, `DeferredSendsEnd`), which TLAPS does not reach.
* `CacheCatchesUp`, `MatrixHalfIsAccurate`, `OccupantsKnowTheList`; `HandleIsTheirs` and
  `MessagesGetThrough`.

## What is not modelled

* One room, one MUC or one chat in each module. What rooms share is named where it matters:
  the `remote_users` row, the set of seen ids, the stream. `GatewayMUC` and `GatewayRooms` are
  two views of one room: the first takes the Matrix members' nicknames as a constant, the
  second takes one device per XMPP user, and their product is out of TLC's reach.
* Stanzas sent to clients, but for what `told` and `claims` say of them; avatars, topics
  (they go the way of the room's name), history, formatting.
* Failing `intent.leave` calls: the code logs and forgets them. The second pass of
  `waitOnProfileBeforeSend`: both orders lead to the same state.
* In GatewayMUC, Reconnect restores all users in one step; in the code there is no await in
  that loop. ReadGhosts reads all rows in one step, where the code reads them one by one.
* The order in which messages of one remote user pass the awaits of `handleIncomingChatMsg`;
  the order of database writes; eviction from the sets of seen ids and event ids.
* In XmppPuppet, a second new name, a second check and a second conflict at a time; a self
  ping that is written late may have timed out before (`Outdated`): the MUC answers it and
  nobody hears. A write that fails while the buffer is flushed (XJSInstance 338), which loses
  the stanza and throws in the handler that waits for it. `roomNicks` and `waitingToJoin`.
* In GroupRelay, the Levenshtein distance by which echoes are recognised: a message is its
  text. Reports of different chats in one account.
* In Archive, "with" and "end" queries, queries with two ids, and the index, count and
  completeness of a result. Kinds `before` and `first` are modelled, but no property is
  checked of them. `HistoryManager`, whose ring of 50 stanzas has no await in it.
* In RoomSync, the store's list of rooms; if that cannot be read there is nothing to sync.
* The NeDB store: the bridge runs on either, and the models follow PostgreSQL.
  `AutoRegistration` and `ProfileSync`: sequences of calls with no state. Disco, vCard, search
  and ping queries of `ServiceHandler`, admin commands other than `bridge` and `leave`: they
  answer from their arguments.

## What could come next

1. `MatrixHalfIsAccurate` for a room with several aliases, whose entry changes hands.
2. An abstract channel that `XmppPuppet` implements (a message is sent, then accepted once or
   lost), with the losses the code allows as its only actions.
3. The queries "before" and "with" of the archive, against a reference that knows the whole
   room.
4. `HandleIsTheirs` with a lost stream, where the buffer is one more queue between the bridge
   and the MUC, and what joins late is what was buffered first.

## Running it

    tlc -config muc_joins.cfg MCGatewayMUC
    tlc -config rooms_created.cfg MCRoomCreation
    tlapm GatewayOccupancy_proofs.tla

`PROJECT.json` names the module of every run, the source lines of every definition, and for
every property a mutation of the model that it catches. The runs take from seconds to three
and a half minutes, with up to 3.3 million distinct states (`archive`).
