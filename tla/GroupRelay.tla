----------------------------- MODULE GroupRelay -----------------------------
(***************************************************************************)
(* Messages of one group chat on the libpurple backend.                    *)
(*                                                                         *)
(* Every Matrix user in the room has an account of its own in the chat, so *)
(* that whatever is said there arrives once per account, also what the     *)
(* bridge has said itself.  The Deduplicator lets one account speak for    *)
(* all (the chosen one), and expects as many copies of an own message as   *)
(* it believes accounts to be in the chat.  An account that has just       *)
(* joined is locked: it is "about to flood the room" with its history.     *)
(* Accounts sign off and on, and a join waits for the next sign on.        *)
(*                                                                         *)
(* What libpurple reports waits in a queue until the bridge polls it; one  *)
(* event is handled at a time, up to its first await.                      *)
(***************************************************************************)
EXTENDS Naturals, Sequences, FiniteSets, SequencesExt

CONSTANTS
    Users,        \* Matrix users in the room, each with an account
    OwnMessages,  \* what they say in the Matrix room
    Owner,        \* who says it
    Remote,       \* messages of remote users
    NoUser,       \* nobody
    Environment,  \* the events of the environment a run allows
    MaxEvents     \* bound: how often they happen, in all

EnvironmentEvents ==
    {"rejoin",   \* a join event of a user that is in the Matrix room already
     "leave",    \* a user leaves whose account has nothing left to report
     "early",    \* ... and has
     "refuse",   \* a leave event of a user whose account never joined
     "signoff",  \* an account loses its connection
     "slow"}     \* the lock is released before the history has arrived

ASSUME GroupRelayAssumption ==
    /\ Owner \in [OwnMessages -> Users]
    /\ NoUser \notin Users
    /\ OwnMessages \cap Remote = {}
    /\ {"joined", "on", "off"} \cap (OwnMessages \cup Remote) = {}
    /\ Environment \subseteq EnvironmentEvents
    /\ MaxEvents \in Nat

Message == OwnMessages \cup Remote
Report == Message \cup {"joined", "on", "off"}

\* Handlers that may join: of a join event, and of a message.
Task == Users \cup OwnMessages
UserOf(t) == IF t \in Users THEN t ELSE Owner[t]

VARIABLES
    connected,  \* accounts that are signed on
    request,    \* accounts whose joinChat is under way
    occupants,  \* accounts in the chat
    log,        \* what has been said in the chat
    inbox,      \* what libpurple has to report of each account
    tasks,      \* stage of every handler
    props,      \* accounts with joinPropertiesForRooms
    counter,    \* usersInRoom
    chosen,     \* chosenOnes
    expected,   \* expectedMessages: copies of each message
    locked,     \* accountRoomLock
    relayed,    \* the accounts by which each message was relayed to Matrix
    left,       \* history: accounts to which a message was left
    ignored,    \* history: accounts that were locked when it arrived
    counted,    \* history: how often the counter stands for each account
    gone,       \* history: accounts that have left or signed off
    happened    \* how many events of the environment there were

chatVars == <<connected, request, occupants, log, inbox>>
dedupVars == <<counter, chosen, expected, counted>>
vars == <<chatVars, tasks, props, dedupVars, locked, relayed, left, ignored, gone, happened>>

-----------------------------------------------------------------------------

Happens(e) ==
    /\ e \in Environment
    /\ happened < MaxEvents
    /\ happened' = happened + 1

\* The chat hands a report to everyone in it.
Broadcast(m) == [u \in Users |-> IF u \in occupants THEN Append(inbox[u], m) ELSE inbox[u]]

\* messaging.joinChat: nothing happens to an account that is in the chat.
JoinChat(u) == request' = IF u \in occupants THEN request ELSE request \cup {u}

\* insertMessage: one hash for every account in the room.
\* Mutant: for every other account.
HashesForOthers == counter - 1
Hashes == counter

\* sendChat fails where there is no conversation.
Insert(m) == expected' = [expected EXCEPT ![m] = @ + Hashes]
Say(m) ==
    /\ Insert(m)
    /\ IF Owner[m] \in occupants
       THEN inbox' = Broadcast(m) /\ log' = Append(log, m)
       ELSE UNCHANGED <<inbox, log>>

-----------------------------------------------------------------------------
(* Matrix events                                                           *)

\* handleGroupMessage, with joinOrDefer.  The join is requested and nobody
\* waits for it; that of an account that is not connected is deferred.
SendMessage(m) ==
    LET u == Owner[m]
    IN  /\ tasks[m] = "idle"
        /\ \/ /\ u \in props
              /\ tasks' = [tasks EXCEPT ![m] = "done"]
              /\ Say(m)
              /\ UNCHANGED <<request, props>>
           \/ /\ u \notin props /\ u \in connected
              /\ tasks' = [tasks EXCEPT ![m] = "done"]
              /\ JoinChat(u)
              /\ props' = props \cup {u}
              /\ Say(m)
           \/ /\ u \notin props /\ u \notin connected
              /\ tasks' = [tasks EXCEPT ![m] = "deferred"]
              /\ UNCHANGED <<request, props, inbox, log, expected>>
        /\ UNCHANGED <<connected, occupants, counter, chosen, counted, locked, relayed, left, ignored, gone, happened>>

\* handleJoinLeaveGroup.  Every join event counts, be it a new avatar.
MatrixJoin(u) ==
    /\ tasks[u] = "idle"
    /\ IF u \in props THEN Happens("rejoin") ELSE UNCHANGED happened
    /\ IF u \in connected
       THEN /\ JoinChat(u)
            /\ props' = props \cup {u}
            /\ UNCHANGED tasks
       ELSE /\ tasks' = [tasks EXCEPT ![u] = "deferred"]
            /\ UNCHANGED <<request, props>>
    /\ UNCHANGED <<connected, occupants, log, inbox, dedupVars, locked, relayed, left, ignored, gone>>

\* The join properties stay, and so does a deferred join.
\* Mutant: the chosen one stays as well.
KeepsChosen(u) == chosen
WithoutChosen(u) == IF chosen = u THEN NoUser ELSE chosen

Decrement(n) == IF n > 0 THEN n - 1 ELSE 0

MatrixLeave(u) ==
    /\ Happens(IF counted[u] = 0 THEN "refuse" ELSE IF inbox[u] = <<>> THEN "leave" ELSE "early")
    /\ occupants' = occupants \ {u}
    /\ request' = request \ {u}
    /\ chosen' = WithoutChosen(u)
    /\ counter' = Decrement(counter)
    /\ counted' = [counted EXCEPT ![u] = Decrement(@)]
    /\ gone' = gone \cup {u}
    /\ UNCHANGED <<connected, log, inbox, tasks, props, expected, locked, relayed, left, ignored>>

-----------------------------------------------------------------------------
(* What libpurple reports (eventHandler)                                   *)

Polled(u, report) ==
    /\ inbox[u] # <<>>
    /\ Head(inbox[u]) = report

Rest(u) == [inbox EXCEPT ![u] = Tail(@)]

\* onChatJoined; the handlers that have waited for it go on.
ChatJoined(u) ==
    /\ Polled(u, "joined")
    /\ inbox' = Rest(u)
    /\ counter' = counter + 1
    /\ counted' = [counted EXCEPT ![u] = @ + 1]
    /\ locked' = locked \cup {u}
    /\ tasks' = [t \in Task |-> IF UserOf(t) = u /\ tasks[t] = "joining"
                                THEN IF t \in Users THEN "idle" ELSE "joined" ELSE tasks[t]]
    /\ UNCHANGED <<connected, request, occupants, log, props, chosen, expected, relayed, left, ignored, gone, happened>>

\* A message goes on when the join has come or its 60 seconds are over.
GoesOn(t) ==
    /\ tasks[t] \in {"joined", "joining"}
    /\ tasks' = [tasks EXCEPT ![t] = IF t \in Users THEN "idle" ELSE "done"]
    /\ IF t \in Users THEN UNCHANGED <<inbox, log, expected>> ELSE Say(t)
    /\ UNCHANGED <<connected, request, occupants, props, counter, chosen, counted, locked, relayed, left, ignored, gone, happened>>

\* Every deferred join has a listener of its own.
\* Mutant: the first to be called removes the others.
DeferredOf(u) == {t \in Task : UserOf(t) = u /\ tasks[t] = "deferred"}
FirstOnly(u) == IF u \in DeferredOf(u) THEN {u} ELSE DeferredOf(u)
Woken(u) == DeferredOf(u)

\* account-signed-on: every join that was deferred is requested.
SignedOn(u) ==
    LET woken == Woken(u)
    IN  /\ Polled(u, "on")
        /\ inbox' = Rest(u)
        /\ IF woken # {} /\ u \in connected
           THEN JoinChat(u) /\ props' = props \cup {u}
           ELSE props' = (IF woken # {} THEN props \cup {u} ELSE props) /\ UNCHANGED request
        /\ tasks' = [t \in Task |-> IF t \in woken THEN "joining" ELSE tasks[t]]
        /\ UNCHANGED <<connected, occupants, log, dedupVars, locked, relayed, left, ignored, gone, happened>>

\* account-signed-off: the counter keeps counting the account.
SignedOff(u) ==
    /\ Polled(u, "off")
    /\ inbox' = Rest(u)
    /\ chosen' = WithoutChosen(u)
    /\ gone' = gone \cup {u}
    /\ UNCHANGED <<connected, request, occupants, log, tasks, props, counter, expected, counted,
                   locked, relayed, left, ignored, happened>>

\* isTheChosenOneForRoom: where there is none, the account becomes it.
\* Mutant: any account will do.
AnyAccount(u) == TRUE
IsChosen(u) == chosen \in {NoUser, u}

\* checkAndRemove finds a hash of the message.
\* Mutant: of any.
ExpectsAny(m) == \E n \in OwnMessages : expected[n] > 0
Expects(m) == m \in OwnMessages /\ expected[m] > 0

\* handleIncomingChatMsg: locked accounts are ignored, then expected copies,
\* then the accounts that are not the chosen one.
ChatMessage(u) ==
    /\ \E m \in Message : Polled(u, m)
    /\ inbox' = Rest(u)
    /\ LET m == Head(inbox[u])
       IN  \/ /\ u \in locked
              /\ ignored' = [r \in Remote |-> ignored[r] \cup IF m = r THEN {u} ELSE {}]
              /\ UNCHANGED <<expected, chosen, relayed, left>>
           \/ /\ u \notin locked /\ Expects(m)
              /\ expected' = [expected EXCEPT ![m] = @ - 1]
              /\ UNCHANGED <<chosen, relayed, left, ignored>>
           \/ /\ u \notin locked /\ ~Expects(m) /\ IsChosen(u)
              /\ chosen' = u
              /\ relayed' = [relayed EXCEPT ![m] = Append(@, u)]
              /\ UNCHANGED <<expected, left, ignored>>
           \/ /\ u \notin locked /\ ~Expects(m) /\ ~IsChosen(u)
              /\ left' = [r \in Remote |-> left[r] \cup IF m = r THEN {chosen} ELSE {}]
              /\ UNCHANGED <<expected, chosen, relayed, ignored>>
    /\ UNCHANGED <<connected, request, occupants, log, tasks, props, counter, counted, locked, gone, happened>>

\* ACCOUNT_LOCK_MS is over.
Unlock(u) ==
    /\ u \in locked
    /\ IF inbox[u] = <<>> THEN UNCHANGED happened ELSE Happens("slow")
    /\ locked' = locked \ {u}
    /\ UNCHANGED <<chatVars, tasks, props, dedupVars, relayed, left, ignored, gone>>

-----------------------------------------------------------------------------
(* The chat and the accounts                                               *)

\* The history comes with the join.
Enter(u) ==
    /\ u \in request
    /\ request' = request \ {u}
    /\ occupants' = occupants \cup {u}
    /\ inbox' = [inbox EXCEPT ![u] = @ \o <<"joined">> \o log]
    /\ UNCHANGED <<connected, log, tasks, props, dedupVars, locked, relayed, left, ignored, gone, happened>>

RemoteSays(r) ==
    /\ ~Contains(log, r)
    /\ log' = Append(log, r)
    /\ inbox' = Broadcast(r)
    /\ UNCHANGED <<connected, request, occupants, tasks, props, dedupVars, locked, relayed, left, ignored, gone, happened>>

SignOn(u) ==
    /\ u \notin connected
    /\ connected' = connected \cup {u}
    /\ inbox' = [inbox EXCEPT ![u] = Append(@, "on")]
    /\ UNCHANGED <<request, occupants, log, tasks, props, dedupVars, locked, relayed, left, ignored, gone, happened>>

SignOff(u) ==
    /\ u \in connected
    /\ Happens("signoff")
    /\ connected' = connected \ {u}
    /\ request' = request \ {u}
    /\ occupants' = occupants \ {u}
    /\ inbox' = [inbox EXCEPT ![u] = Append(@, "off")]
    /\ UNCHANGED <<log, tasks, props, dedupVars, locked, relayed, left, ignored, gone>>

-----------------------------------------------------------------------------

Init ==
    /\ connected = Users /\ request = {} /\ occupants = {}
    /\ log = <<>>
    /\ inbox = [u \in Users |-> <<>>]
    /\ tasks = [t \in Task |-> "idle"]
    /\ props = {} /\ counter = 0 /\ chosen = NoUser
    /\ expected = [m \in OwnMessages |-> 0]
    /\ locked = {}
    /\ relayed = [m \in Message |-> <<>>]
    /\ left = [r \in Remote |-> {}] /\ ignored = [r \in Remote |-> {}]
    /\ counted = [u \in Users |-> 0]
    /\ gone = {} /\ happened = 0

Reported(u) == ChatJoined(u) \/ SignedOn(u) \/ SignedOff(u) \/ ChatMessage(u)

Next ==
    \/ \E m \in OwnMessages : SendMessage(m)
    \/ \E t \in Task : GoesOn(t)
    \/ \E u \in Users : MatrixJoin(u) \/ MatrixLeave(u) \/ Unlock(u)
    \/ \E u \in Users : Reported(u)
    \/ \E u \in Users : Enter(u) \/ SignOn(u) \/ SignOff(u)
    \/ \E r \in Remote : RemoteSays(r)

Spec == Init /\ [][Next]_vars

\* Events are polled, the timer of a join fires, and accounts sign on again.
FairSpec ==
    /\ Spec
    /\ \A m \in OwnMessages : WF_vars(GoesOn(m))
    /\ \A u \in Users : WF_vars(SignOn(u)) /\ WF_vars(Reported(u))

-----------------------------------------------------------------------------
(* Properties                                                              *)

TypeOK ==
    /\ connected \subseteq Users /\ request \subseteq Users /\ occupants \subseteq Users
    /\ log \in Seq(Message)
    /\ inbox \in [Users -> Seq(Report)]
    /\ tasks \in [Task -> {"idle", "deferred", "joining", "joined", "done"}]
    /\ props \subseteq Users
    /\ counter \in Nat /\ chosen \in Users \cup {NoUser}
    /\ expected \in [OwnMessages -> Nat]
    /\ locked \subseteq Users
    /\ relayed \in [Message -> Seq(Users)]
    /\ left \in [Remote -> SUBSET Users] /\ ignored \in [Remote -> SUBSET Users]
    /\ counted \in [Users -> Nat]
    /\ gone \subseteq Users /\ happened \in Nat

\* What the bridge says in the chat never comes back to the Matrix room,
\* however joins, losses of connection and polls interleave.
NoEcho == \A m \in OwnMessages : relayed[m] = <<>>

\* A remote message is relayed twice only if the account that relayed it has
\* gone since, and another has been chosen.
RepeatedBySuccessors ==
    \A r \in Remote : \A i, j \in DOMAIN relayed[r] :
        i < j => relayed[r][i] # relayed[r][j] /\ relayed[r][i] \in gone

\* The one that speaks for all is in the chat, or about to be found out: an
\* account that has left leaves the others their voice.
ChosenOneIsThere ==
    chosen = NoUser \/ chosen \in occupants \/ Contains(inbox[chosen], "off")

\* A remote message that accounts leave to the chosen one is relayed, by it or
\* by a successor, unless one of those it was left to has gone, or was locked
\* when the message came.
Excused(u, r) ==
    \/ Contains(inbox[u], r) \/ Contains(inbox[u], "off")
    \/ u \in gone \cup ignored[r]
LeftInGoodHands ==
    \A r \in Remote : left[r] # {} => relayed[r] # <<>> \/ \E u \in left[r] : Excused(u, r)

\* A handler that has deferred its join sends its message in the end.
DeferredSendsEnd == \A m \in OwnMessages : tasks[m] = "deferred" ~> tasks[m] = "done"
=============================================================================
