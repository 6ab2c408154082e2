----------------------------- MODULE XmppPuppet -----------------------------
(***************************************************************************)
(* XmppJsAccount and XmppJsInstance: one puppet of a Matrix user in one    *)
(* MUC of the XMPP network.                                                *)
(*                                                                         *)
(* Every message of the Matrix user has a handler of its own.  It joins    *)
(* the MUC first unless the puppet is there already, as far as the bridge  *)
(* knows: roomHandles says under which nick, the presence cache whether    *)
(* that nick is online.  When the MUC says of a message that the sender is *)
(* no occupant, the puppet rejoins and the message is sent once more.      *)
(* joinChat asks the MUC first (a self ping), so that several handlers may *)
(* be in it at a time.  Stanzas are written to one stream, or buffered     *)
(* while it is down.                                                       *)
(*                                                                         *)
(* An action runs from one await to the next.  Awaiting xmppSend holds a   *)
(* handler up only while the stream is down: it returns no promise else.   *)
(* The requests that fetch a display name are one await.                   *)
(***************************************************************************)
EXTENDS Naturals, Sequences, FiniteSets, SequencesExt

CONSTANTS
    Messages,       \* messages of the Matrix user
    Names,          \* display names of the Matrix user
    Suffixed(_),    \* the nick with CONFLICT_SUFFIX
    NoMessage,      \* no message
    NoNick,         \* no handle
    ForceReconnect, \* tuning.forceReconnectRooms
    Environment,    \* the events of the environment a run allows
    MaxEvents,      \* bound: how many of them happen, each of them once
    MaxHandlers     \* bound: how many handlers are under way when one begins

EnvironmentEvents ==
    {"cut",     \* the stream is lost
     "fail",    \* a write fails before the stream is known to be down
     "late",    \* a self ping is answered after its timeout
     "drop",    \* the MUC forgets the puppet without telling
     "kick",    \* the MUC removes the puppet and tells
     "rename",  \* the Matrix user changes its display name
     "nostate", \* the homeserver does not give the state of the room
     "taken",   \* somebody else takes the nick while it is free
     "check"}   \* nothing was heard for LASTSTANZA_MAXDURATION

Nicks == Names \cup {Suffixed(n) : n \in Names}
MaybeNick == Nicks \cup {NoNick}

ASSUME XmppPuppetAssumption ==
    /\ NoNick \notin Nicks
    /\ NoMessage \notin Messages
    /\ Names # {}
    /\ Names \cap {Suffixed(n) : n \in Names} = {}
    /\ ForceReconnect \in BOOLEAN
    /\ Environment \subseteq EnvironmentEvents
    /\ MaxEvents \in Nat /\ MaxHandlers \in Nat

\* Handlers that may join: of a message, of its rejection, of a conflict, of
\* a new name, of the periodic check and of a reconnection.
Task == ({"send", "error"} \X Messages) \cup ({"retry", "rename", "check", "reconnect"} \X {NoMessage})

\* "fetching": the display name, from the profile or the state of the room;
\* "probing": the self ping of a check or a reconnection; "selfping": that of
\* joinChat; "parting" and "joining": xmppSend has buffered the presence.
Stage == {"idle", "fetching", "probing", "parting", "selfping", "joining", "done"}

Stanza == [kind: {"join", "part", "message", "ping", "stale", "pong", "nopong", "present",
                  "gone", "conflict", "rejected"},
           nick: MaybeNick, task: Task \cup {NoMessage}]

VARIABLES
    up,         \* the status of the stream is "online"
    buffer,     \* bufferedMessages
    wire,       \* stanzas on their way to the MUC
    back,       \* stanzas on their way to the bridge
    tasks,      \* stage and nick of every handler
    handle,     \* roomHandles
    presence,   \* nicks the presence cache says are online
    resent,     \* resentMessageStanzas
    name,       \* the display name of the Matrix user
    occupant,   \* the nick the puppet has in the MUC
    taken,      \* nicks of other occupants
    accepted,   \* messages the MUC has accepted
    events      \* what has happened so far

bridgeVars == <<handle, presence, resent>>
mucVars == <<occupant, taken, accepted>>
streamVars == <<up, buffer, wire, back>>
vars == <<streamVars, tasks, bridgeVars, name, mucVars, events>>

\* "overlapped": a rejection found the puppet being rejoined.  "outdated": the
\* name changed while the handler of a message was fetching it.
Events == EnvironmentEvents \cup {"overlapped", "outdated"}

-----------------------------------------------------------------------------

St(kind, n, t) == [kind |-> kind, nick |-> n, task |-> t]
At(t, s) == tasks[t].stage = s
Moved(t, s, n) == [tasks EXCEPT ![t] = [stage |-> s, nick |-> n]]

Begins(t) ==
    /\ At(t, "idle")
    /\ Cardinality({u \in Task : tasks[u].stage \notin {"idle", "done"}}) < MaxHandlers

Happens(e) ==
    /\ e \in Environment \ events
    /\ Cardinality(events \cap Environment) < MaxEvents
    /\ events' = events \cup {e}

\* isInRoom, for a given entry of roomHandles.
InRoom(h) == h # NoNick /\ h \in presence

\* Self pings that have timed out while they waited to be written.
Outdated(stanzas) ==
    [i \in DOMAIN stanzas |-> IF stanzas[i].kind = "ping" THEN [stanzas[i] EXCEPT !.kind = "stale"] ELSE stanzas[i]]

\* xmppSend and xmppWriteToStream.  A stanza whose write fails waits for the
\* next connection, and nobody waits for it; a self ping is late by then.
Write(stanzas) ==
    \/ /\ up
       /\ wire' = wire \o stanzas
       /\ UNCHANGED <<buffer, events>>
    \/ /\ up /\ stanzas # <<>>
       /\ buffer' = buffer \o Outdated(stanzas)
       /\ Happens("fail")
       /\ UNCHANGED wire
    \/ /\ ~up
       /\ buffer' = buffer \o stanzas
       /\ UNCHANGED <<wire, events>>

\* What a handler sends once joinChat has returned: its message; the message
\* that was rejected, unless it has been sent again before.
Afterwards(t) ==
    IF t[1] = "send" \/ (t[1] = "error" /\ t[2] \notin resent)
    THEN <<St("message", NoNick, t)>> ELSE <<>>

Resent(t) == resent' = IF t[1] = "error" THEN resent \cup {t[2]} ELSE resent

\* A rejection, a conflict and a reconnection may come again.  Bound: one new
\* name and one check.
Over(t) == IF t[1] \in {"error", "retry", "reconnect"} THEN "idle" ELSE "done"

\* joinChat returns: "already joined".
Return(t) ==
    /\ tasks' = Moved(t, Over(t), NoNick)
    /\ Write(Afterwards(t))
    /\ Resent(t)

\* The self ping of joinChat, after the presence in stanzas.
SelfPing(t, n, stanzas) ==
    /\ tasks' = Moved(t, "selfping", n)
    /\ Write(stanzas \o <<St("ping", n, t)>>)
    /\ UNCHANGED resent

\* joinChat from its start, with h in roomHandles.  Under another nick the
\* puppet leaves first (rejectChat).
JoinChat(t, n, h) ==
    \/ /\ InRoom(h) /\ h = n
       /\ Return(t)
       /\ handle' = h
    \/ /\ InRoom(h) /\ h # n /\ up
       /\ SelfPing(t, n, <<St("part", h, t)>>)
       /\ handle' = NoNick
    \/ /\ InRoom(h) /\ h # n /\ ~up
       /\ tasks' = Moved(t, "parting", n)
       /\ Write(<<St("part", h, t)>>)
       /\ handle' = h
       /\ UNCHANGED resent
    \/ /\ ~InRoom(h)
       /\ SelfPing(t, n, <<>>)
       /\ handle' = h

\* The end of joinChat.
\* Mutant: the message goes first.
MessageFirst(t, n) == Afterwards(t) \o <<St("join", n, t)>>
JoinFirst(t, n) == <<St("join", n, t)>> \o Afterwards(t)

\* What is buffered while the handler waits for the stream.
\* Mutant: the message too.
AndMessage(t, n) == JoinFirst(t, n)
BeforeAwait(t, n) == <<St("join", n, t)>>

\* Mutants: roomHandles keeps the display name; it keeps the nick with one
\* more suffix.
AsDisplayed(n) == name
OnceMore(n) == Suffixed(n)
HandleFor(n) == n

SendJoin(t, n) ==
    /\ handle' = HandleFor(n)
    /\ IF up
       THEN /\ tasks' = Moved(t, Over(t), NoNick)
            /\ Write(JoinFirst(t, n))
            /\ Resent(t)
       ELSE /\ tasks' = Moved(t, "joining", n)
            /\ Write(BeforeAwait(t, n))
            /\ UNCHANGED resent

-----------------------------------------------------------------------------
(* Messages of the Matrix user                                             *)

\* handleGroupMessage: "talked in room, joining them", under the name that the
\* state of the room says.
StartSending(m) ==
    /\ Begins(<<"send", m>>)
    /\ IF InRoom(handle)
       THEN Return(<<"send", m>>)
       ELSE /\ tasks' = Moved(<<"send", m>>, "fetching", name)
            /\ UNCHANGED <<buffer, wire, resent, events>>
    /\ UNCHANGED <<up, back, handle, presence, name, mucVars>>

\* A join event with a new display name, which is the handle; the profile is
\* asked for first.
Rename(n) ==
    /\ "rename" \in Environment
    /\ n # name
    /\ Begins(<<"rename", NoMessage>>)
    /\ name' = n
    /\ tasks' = Moved(<<"rename", NoMessage>>, "fetching", n)
    /\ events' = IF \E m \in Messages : At(<<"send", m>>, "fetching")
                 THEN events \cup {"outdated"} ELSE events
    /\ UNCHANGED <<streamVars, bridgeVars, mucVars>>

\* The name is that of some time since it was asked for, and others may have
\* joined or left by now: joinChat asks isInRoom again.
Fetched(t) ==
    /\ At(t, "fetching")
    /\ \E n \in {tasks[t].nick, name} : JoinChat(t, n, handle)
    /\ UNCHANGED <<up, back, presence, name, mucVars>>

\* "Couldn't send message to chat": nothing was sent.
NotFetched(m) ==
    /\ At(<<"send", m>>, "fetching")
    /\ tasks' = Moved(<<"send", m>>, "done", NoNick)
    /\ Happens("nostate")
    /\ UNCHANGED <<streamVars, bridgeVars, name, mucVars>>

-----------------------------------------------------------------------------
(* Going on after an await                                                 *)

\* The promise of buffered presence resolves some time after the flush.
FlushedPart(t) ==
    /\ At(t, "parting")
    /\ \A i \in DOMAIN buffer : ~(buffer[i].kind = "part" /\ buffer[i].task = t)
    /\ SelfPing(t, tasks[t].nick, <<>>)
    /\ handle' = NoNick
    /\ UNCHANGED <<up, back, presence, name, mucVars>>

FlushedJoin(t) ==
    /\ At(t, "joining")
    /\ \A i \in DOMAIN buffer : ~(buffer[i].kind = "join" /\ buffer[i].task = t)
    /\ Return(t)
    /\ UNCHANGED <<up, back, handle, presence, name, mucVars>>

\* The self ping of joinChat succeeds: "self ping says we are joined".
PingSays(t, joined) ==
    IF joined
    THEN /\ handle' = HandleFor(tasks[t].nick)
         /\ Return(t)
    ELSE SendJoin(t, tasks[t].nick)

\* The probe fails.  A check rejoins under the present nick with a self ping
\* (rejoinChat), a reconnection under the nick it asked for without.
ProbeSays(t, joined) ==
    \/ /\ joined \/ (t[1] = "check" /\ handle = NoNick)
       /\ tasks' = Moved(t, Over(t), NoNick)
       /\ UNCHANGED <<buffer, wire, handle, resent, events>>
    \/ /\ ~joined /\ t[1] = "check" /\ handle # NoNick
       /\ JoinChat(t, handle, NoNick)
    \/ /\ ~joined /\ t[1] = "reconnect"
       /\ SendJoin(t, tasks[t].nick)

Says(t, joined) ==
    \/ At(t, "selfping") /\ PingSays(t, joined)
    \/ At(t, "probing") /\ ProbeSays(t, joined)

Answers == {"pong", "nopong"}

\* The timer of sendIq, once no answer is under way any more.
\* Mutant: there is none.
NoTimer(t) == FALSE
TimerFires(t) ==
    \A q \in {buffer, wire, back} : \A i \in DOMAIN q :
        ~(q[i].kind \in Answers \cup {"ping"} /\ q[i].task = t)

PingTimesOut(t) ==
    /\ TimerFires(t)
    /\ Says(t, FALSE)
    /\ UNCHANGED <<up, back, presence, name, mucVars>>

\* The answer comes after the timeout, and nobody hears it.
Late(i) ==
    /\ back[i].kind \in Answers
    /\ back' = RemoveAt(back, i)
    /\ Happens("late")
    /\ UNCHANGED <<up, buffer, wire, tasks, bridgeVars, name, mucVars>>

-----------------------------------------------------------------------------
(* Stanzas from the MUC                                                    *)

Received(kind) == back # <<>> /\ Head(back).kind = kind /\ back' = Tail(back)

Answer ==
    /\ \E kind \in Answers : Received(kind)
    /\ Says(Head(back).task, Head(back).kind = "pong")
    /\ UNCHANGED <<up, presence, name, mucVars>>

\* A presence of the puppet itself.  "XXX: Should we attempt to reconnect":
\* the handle stays when the puppet has gone.
Present ==
    /\ Received("present")
    /\ presence' = presence \cup {Head(back).nick}
    /\ UNCHANGED <<up, buffer, wire, tasks, handle, resent, name, mucVars, events>>

Gone ==
    /\ Received("gone")
    /\ presence' = presence \ {Head(back).nick}
    /\ UNCHANGED <<up, buffer, wire, tasks, handle, resent, name, mucVars, events>>

\* xmppRetryJoin, but once: a suffix is not added to a suffix.
Conflict ==
    /\ Received("conflict")
    /\ IF Head(back).nick \in Names /\ At(<<"retry", NoMessage>>, "idle")
       THEN JoinChat(<<"retry", NoMessage>>, Suffixed(Head(back).nick), handle)
       ELSE UNCHANGED <<buffer, wire, tasks, handle, resent, events>>
    /\ UNCHANGED <<up, presence, name, mucVars>>

\* "Got not-acceptable, rejoining room.."  A handler that finds no handle,
\* because another is rejoining, sends its message again at once.
Rejected ==
    /\ Received("rejected")
    /\ LET t == <<"error", Head(back).task[2]>>
       IN  /\ At(t, "idle")
           /\ IF handle = NoNick
              THEN /\ UNCHANGED <<tasks, handle>>
                   /\ Resent(t)
                   /\ up /\ wire' = wire \o Afterwards(t)
                   /\ events' = events \cup {"overlapped"}
                   /\ UNCHANGED buffer
              ELSE JoinChat(t, handle, NoNick)
    /\ UNCHANGED <<up, presence, name, mucVars>>

\* checkInterval.
Check ==
    /\ "check" \in Environment
    /\ handle # NoNick
    /\ Begins(<<"check", NoMessage>>)
    /\ tasks' = Moved(<<"check", NoMessage>>, "probing", handle)
    /\ Write(<<St("ping", handle, <<"check", NoMessage>>)>>)
    /\ UNCHANGED <<up, back, bridgeVars, name, mucVars>>

-----------------------------------------------------------------------------
(* The stream                                                              *)

\* What was under way is lost.  The MUC may or may not notice.
Cut ==
    /\ up
    /\ up' = FALSE
    /\ wire' = <<>> /\ back' = <<>>
    /\ occupant' \in {occupant, NoNick}
    /\ Happens("cut")
    /\ UNCHANGED <<buffer, tasks, bridgeVars, name, taken, accepted>>

\* "online": the self pings of reconnectToRooms, then the buffer.  Those in
\* the buffer may have timed out.
Online ==
    /\ ~up
    /\ up' = TRUE
    /\ LET t == <<"reconnect", NoMessage>>
           probe == ForceReconnect /\ handle # NoNick /\ At(t, "idle")
       IN  /\ \E flushed \in {buffer, Outdated(buffer)} :
                 wire' = (IF probe THEN <<St("ping", handle, t)>> ELSE <<>>) \o flushed
           /\ tasks' = IF probe THEN Moved(t, "probing", handle) ELSE tasks
    /\ buffer' = <<>>
    /\ UNCHANGED <<back, bridgeVars, name, mucVars, events>>

-----------------------------------------------------------------------------
(* The MUC                                                                 *)

\* It answers every stanza in turn.  What it says of a stale self ping is not
\* waited for.
Serve ==
    /\ up /\ wire # <<>>
    /\ wire' = Tail(wire)
    /\ LET s == Head(wire)
       IN  \/ /\ s.kind = "join"
              /\ IF s.nick \in taken
                 THEN /\ back' = Append(back, St("conflict", s.nick, s.task))
                      /\ UNCHANGED occupant
                 ELSE /\ occupant' = s.nick
                      /\ back' = (IF occupant \in {NoNick, s.nick} THEN back
                                  ELSE Append(back, St("gone", occupant, s.task)))
                                 \o <<St("present", s.nick, s.task)>>
              /\ UNCHANGED accepted
           \/ /\ s.kind = "part"
              /\ occupant' = NoNick
              /\ back' = IF occupant = NoNick THEN back ELSE Append(back, St("gone", occupant, s.task))
              /\ UNCHANGED accepted
           \/ /\ s.kind = "ping"
              /\ back' = Append(back, St(IF occupant = s.nick THEN "pong" ELSE "nopong", s.nick, s.task))
              /\ UNCHANGED <<occupant, accepted>>
           \/ s.kind = "stale" /\ UNCHANGED <<back, occupant, accepted>>
           \/ /\ s.kind = "message"
              /\ IF occupant # NoNick
                 THEN accepted' = Append(accepted, s.task[2]) /\ UNCHANGED back
                 ELSE back' = Append(back, St("rejected", NoNick, s.task)) /\ UNCHANGED accepted
              /\ UNCHANGED occupant
    /\ UNCHANGED <<up, buffer, tasks, bridgeVars, name, taken, events>>

Drop ==
    /\ occupant # NoNick
    /\ occupant' = NoNick
    /\ Happens("drop")
    /\ UNCHANGED <<streamVars, tasks, bridgeVars, name, taken, accepted>>

Kick ==
    /\ up /\ occupant # NoNick
    /\ back' = Append(back, St("gone", occupant, NoMessage))
    /\ occupant' = NoNick
    /\ Happens("kick")
    /\ UNCHANGED <<up, buffer, wire, tasks, bridgeVars, name, taken, accepted>>

Take(n) ==
    /\ n # occupant /\ n \notin taken
    /\ taken' = taken \cup {n}
    /\ Happens("taken")
    /\ UNCHANGED <<streamVars, tasks, bridgeVars, name, occupant, accepted>>

-----------------------------------------------------------------------------

Init ==
    /\ up = TRUE
    /\ buffer = <<>> /\ wire = <<>> /\ back = <<>>
    /\ tasks = [t \in Task |-> [stage |-> "idle", nick |-> NoNick]]
    /\ handle = NoNick /\ presence = {}
    /\ resent = {} /\ name = CHOOSE n \in Names : TRUE
    /\ occupant = NoNick /\ taken = {}
    /\ accepted = <<>> /\ events = {}

FromMuc == Answer \/ Present \/ Gone \/ Conflict \/ Rejected

GoesOn(t) == Fetched(t) \/ FlushedPart(t) \/ FlushedJoin(t) \/ PingTimesOut(t)

Next ==
    \/ \E m \in Messages : StartSending(m) \/ NotFetched(m)
    \/ \E t \in Task : GoesOn(t)
    \/ \E n \in Names : Rename(n) \/ Take(n)
    \/ \E i \in DOMAIN back : Late(i)
    \/ FromMuc \/ Serve \/ Check \/ Cut \/ Online \/ Drop \/ Kick

Spec == Init /\ [][Next]_vars

\* Awaited promises resolve, xmpp.js reconnects, and a self ping is answered by
\* the MUC or by its timer.
FairSpec ==
    /\ Spec
    /\ \A m \in Messages : WF_vars(GoesOn(<<"send", m>>))
    /\ WF_vars(Online) /\ WF_vars(Serve) /\ WF_vars(FromMuc)

-----------------------------------------------------------------------------
(* Properties                                                              *)

TypeOK ==
    /\ up \in BOOLEAN
    /\ buffer \in Seq(Stanza) /\ wire \in Seq(Stanza) /\ back \in Seq(Stanza)
    /\ tasks \in [Task -> [stage: Stage, nick: MaybeNick]]
    /\ handle \in MaybeNick /\ presence \subseteq Nicks
    /\ resent \subseteq Messages /\ name \in Names
    /\ occupant \in MaybeNick /\ taken \subseteq Names
    /\ accepted \in Seq(Messages)
    /\ events \subseteq Events

\* The MUC never sees one message twice.
AcceptedOnce == \A i, j \in DOMAIN accepted : accepted[i] = accepted[j] => i = j

Quiet == /\ up /\ buffer = <<>> /\ wire = <<>> /\ back = <<>>
         /\ \A t \in Task : tasks[t].stage \in {"idle", "done"}

Arrived(m) == At(<<"send", m>>, "done") => Contains(accepted, m)

\* "Resend the message": when the MUC has lost the puppet once, the message that
\* finds out gets through after all; when the display name changes, or nothing is
\* wrong, every message does.  A loss during the rejoin for a new name, a second
\* one, or a message that rejoins under the old name after the new one, rejects a
\* message twice, and two rejections at a time may overlap.
MessagesGetThrough ==
    /\ Quiet
    /\ \E e \in {"drop", "kick", "late"} : events \subseteq {e}
    /\ events = {} \/ At(<<"rename", NoMessage>>, "idle")
    => \A m \in Messages : Arrived(m)

\* The same, whatever overlaps: the message is resent when the room has been
\* rejoined.
ResentAfterRejoining ==
    Quiet /\ events \subseteq {"drop", "overlapped"} => \A m \in Messages : Arrived(m)

\* What the bridge holds to be the nick is the nick: when all is quiet and the
\* MUC has kept the puppet, the handle is what the MUC shows, also after a
\* conflict was settled with a suffix.  (Where a new name and a conflict meet,
\* or a message joins under the old name, handlers join under two nicks, and the
\* handle is that of the last to hear while the nick is that of the last served.)
HandleIsTheirs ==
    /\ Quiet
    /\ handle # NoNick
    /\ \/ events \subseteq {"overlapped"}
       \/ events \subseteq {"overlapped", "taken"} /\ At(<<"rename", NoMessage>>, "idle")
    => occupant = handle

\* A handler of a message ends: self pings that are not answered, and a
\* stream that goes down in the middle, hold it up for a while only.
SendsFinish ==
    \A m \in Messages : ~At(<<"send", m>>, "idle") ~> At(<<"send", m>>, "done")
=============================================================================
