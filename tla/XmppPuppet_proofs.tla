-------------------------- MODULE XmppPuppet_proofs --------------------------
(***************************************************************************)
(* What holds of XmppPuppet for every number of messages and names and in  *)
(* every environment.                                                      *)
(***************************************************************************)
EXTENDS XmppPuppet, SequenceTheorems, TLAPS

-----------------------------------------------------------------------------
(* Types.  Not every stanza is about a handler or has a nick: what the     *)
(* bridge takes from it is there.                                          *)

Speakers == {"send", "error"} \X Messages

Proper ==
    {s \in Stanza :
        /\ s.kind \in {"message", "rejected"} => s.task \in Speakers
        /\ s.kind \in {"ping", "pong", "nopong"} => s.task \in Task
        /\ s.kind \in {"join", "ping", "present"} => s.nick \in Nicks}

\* A handler that is waiting knows under which nick it will join.
KnowsNick ==
    \A t \in Task :
        tasks[t].stage \in {"fetching", "probing", "parting", "selfping", "joining"} => tasks[t].nick \in Nicks

HandlersOK ==
    /\ buffer \in Seq(Proper) /\ wire \in Seq(Proper)
    /\ tasks \in [Task -> [stage: Stage, nick: MaybeNick]]
    /\ KnowsNick
    /\ resent \subseteq Messages
    /\ events \subseteq Events

OthersOK ==
    /\ up \in BOOLEAN
    /\ back \in Seq(Proper)
    /\ handle \in MaybeNick /\ presence \subseteq Nicks
    /\ name \in Names
    /\ occupant \in MaybeNick /\ taken \subseteq Names
    /\ accepted \in Seq(Messages)

TypeInv == HandlersOK /\ OthersOK

LEMMA TypeInvImplies == TypeInv => TypeOK
BY DEF TypeInv, HandlersOK, OthersOK, TypeOK, Proper

LEMMA Tasks ==
    /\ Speakers \subseteq Task
    /\ \A m \in Messages : <<"send", m>> \in Task /\ <<"error", m>> \in Task
    /\ \A k \in {"retry", "rename", "check", "reconnect"} : <<k, NoMessage>> \in Task
    /\ \A t \in Task : t[1] \in {"send", "error"} => t \in Speakers /\ t[2] \in Messages /\ t = <<t[1], t[2]>>
BY DEF Task, Speakers

LEMMA NickFacts ==
    /\ Names \subseteq Nicks /\ Nicks \subseteq MaybeNick /\ NoNick \in MaybeNick /\ NoNick \notin Nicks
    /\ \A n \in Names : Suffixed(n) \in Nicks
    /\ \A n \in MaybeNick : n # NoNick => n \in Nicks
BY XmppPuppetAssumption DEF Nicks, MaybeNick

LEMMA StProper ==
    ASSUME NEW n \in Nicks, NEW t \in Task
    PROVE  /\ \A k \in {"join", "part", "ping", "stale", "pong", "nopong", "present", "gone", "conflict"} :
                    St(k, n, t) \in Proper
           /\ t \in Speakers => St("message", NoNick, t) \in Proper /\ St("rejected", NoNick, t) \in Proper
<1>1. n \in MaybeNick /\ NoNick \in MaybeNick
  BY NickFacts
<1> QED
  BY <1>1 DEF St, Proper, Stanza

LEMMA Voice ==
    ASSUME NEW t \in Task
    PROVE  /\ Afterwards(t) \in Seq(Proper)
           /\ \/ Afterwards(t) = <<>>
              \/ Afterwards(t) = <<St("message", NoNick, t)>> /\ t \in Speakers
<1>1. t[1] \in {"send", "error"} => St("message", NoNick, t) \in Proper /\ t \in Speakers
  <2>1. PICK n \in Nicks : TRUE
    BY XmppPuppetAssumption DEF Nicks
  <2> QED
    BY <2>1, Tasks, StProper
<1> QED
  BY <1>1 DEF Afterwards

LEMMA OutdatedType ==
    ASSUME NEW s \in Seq(Proper)
    PROVE  /\ Outdated(s) \in Seq(Proper) /\ Len(Outdated(s)) = Len(s)
           /\ \A i \in 1..Len(s) :
                Outdated(s)[i] = IF s[i].kind = "ping" THEN [s[i] EXCEPT !.kind = "stale"] ELSE s[i]
<1>1. DOMAIN s = 1..Len(s) /\ Len(s) \in Nat
  OBVIOUS
<1>2. \A i \in 1..Len(s) : s[i] \in Proper /\ [s[i] EXCEPT !.kind = "stale"] \in Proper
  BY DEF Proper, Stanza
<1>3. \A i \in 1..Len(s) :
         Outdated(s)[i] = (IF s[i].kind = "ping" THEN [s[i] EXCEPT !.kind = "stale"] ELSE s[i])
         /\ Outdated(s)[i] \in Proper
  BY <1>1, <1>2 DEF Outdated
<1>4. Outdated(s) \in [1..Len(s) -> Proper]
  BY <1>1, <1>3 DEF Outdated
<1> QED
  BY <1>1, <1>3, <1>4

\* Stanzas are written, or wait for the next connection.
LEMMA WriteType ==
    ASSUME HandlersOK, NEW out \in Seq(Proper), Write(out)
    PROVE  buffer' \in Seq(Proper) /\ wire' \in Seq(Proper) /\ events' \subseteq Events
<1>1. \A s \in Seq(Proper) : s \o out \in Seq(Proper) /\ s \o Outdated(out) \in Seq(Proper)
  BY OutdatedType, ConcatProperties
<1> QED
  BY <1>1, XmppPuppetAssumption DEF HandlersOK, Write, Happens, Events

LEMMA MovedType ==
    ASSUME HandlersOK, NEW t \in Task, NEW s \in Stage, NEW n \in MaybeNick,
           tasks' = Moved(t, s, n), s \in {"idle", "done"} \/ n \in Nicks
    PROVE  tasks' \in [Task -> [stage: Stage, nick: MaybeNick]] /\ KnowsNick'
<1>1. /\ tasks' \in [Task -> [stage: Stage, nick: MaybeNick]]
      /\ \A u \in Task : tasks'[u] = IF u = t THEN [stage |-> s, nick |-> n] ELSE tasks[u]
  BY DEF HandlersOK, Moved
<1> QED
  BY <1>1 DEF HandlersOK, KnowsNick

LEMMA ResentType ==
    ASSUME HandlersOK, NEW t \in Task, Resent(t)
    PROVE  resent' \subseteq Messages
BY Tasks DEF HandlersOK, Resent

LEMMA ReturnType ==
    ASSUME HandlersOK, NEW t \in Task, Return(t)
    PROVE  HandlersOK'
<1>1. Over(t) \in Stage /\ Over(t) \in {"idle", "done"}
  BY DEF Over, Stage
<1>2. Write(Afterwards(t)) /\ Resent(t) /\ tasks' = Moved(t, Over(t), NoNick)
  BY DEF Return
<1> QED
  BY <1>1, <1>2, NickFacts, Voice, WriteType, MovedType, ResentType DEF HandlersOK

LEMMA SelfPingType ==
    ASSUME HandlersOK, NEW t \in Task, NEW n \in Nicks, NEW out \in Seq(Proper), SelfPing(t, n, out)
    PROVE  HandlersOK'
<1>1. out \o <<St("ping", n, t)>> \in Seq(Proper)
  BY StProper, ConcatProperties
<1>2. "selfping" \in Stage /\ n \in MaybeNick
  BY NickFacts DEF Stage
<1>3. Write(out \o <<St("ping", n, t)>>) /\ resent' = resent /\ tasks' = Moved(t, "selfping", n)
  BY DEF SelfPing
<1> QED
  BY <1>1, <1>2, <1>3, WriteType, MovedType DEF HandlersOK

LEMMA JoinChatType ==
    ASSUME HandlersOK, NEW t \in Task, NEW n \in Nicks, NEW h \in MaybeNick, JoinChat(t, n, h)
    PROVE  HandlersOK' /\ handle' \in MaybeNick
<1>1. <<>> \in Seq(Proper) /\ NoNick \in MaybeNick
  BY NickFacts
<1>2. InRoom(h) => <<St("part", h, t)>> \in Seq(Proper)
  <2>1. InRoom(h) => h \in Nicks
    BY NickFacts DEF InRoom
  <2>2. InRoom(h) => St("part", h, t) \in Proper
    BY <2>1, StProper
  <2> QED
    BY <2>2
<1>3. handle' \in MaybeNick
  BY <1>1 DEF JoinChat
<1>4. CASE Return(t)
  BY <1>3, <1>4, ReturnType
<1>5. CASE InRoom(h) /\ SelfPing(t, n, <<St("part", h, t)>>)
  BY <1>2, <1>3, <1>5, SelfPingType
<1>6. CASE SelfPing(t, n, <<>>)
  BY <1>1, <1>3, <1>6, SelfPingType
<1>7. CASE InRoom(h) /\ tasks' = Moved(t, "parting", n) /\ Write(<<St("part", h, t)>>) /\ UNCHANGED resent
  <2>1. "parting" \in Stage /\ n \in MaybeNick
    BY NickFacts DEF Stage
  <2> QED
    BY <1>2, <1>3, <1>7, <2>1, WriteType, MovedType DEF HandlersOK
<1> QED
  BY <1>4, <1>5, <1>6, <1>7 DEF JoinChat

LEMMA SendJoinType ==
    ASSUME HandlersOK, NEW t \in Task, NEW n \in Nicks, SendJoin(t, n)
    PROVE  HandlersOK' /\ handle' \in MaybeNick
<1>1. St("join", n, t) \in Proper /\ n \in MaybeNick /\ NoNick \in MaybeNick
  BY StProper, NickFacts
<1>2. BeforeAwait(t, n) \in Seq(Proper) /\ JoinFirst(t, n) \in Seq(Proper)
  BY <1>1, Voice, ConcatProperties DEF BeforeAwait, JoinFirst
<1>3. handle' \in MaybeNick
  BY <1>1 DEF SendJoin, HandleFor
<1>4. CASE up
  <2>1. Over(t) \in Stage /\ Over(t) \in {"idle", "done"}
    BY DEF Over, Stage
  <2>2. Write(JoinFirst(t, n)) /\ Resent(t) /\ tasks' = Moved(t, Over(t), NoNick)
    BY <1>4 DEF SendJoin
  <2> QED
    BY <1>1, <1>2, <1>3, <2>1, <2>2, WriteType, MovedType, ResentType DEF HandlersOK
<1>5. CASE ~up
  <2>1. Write(BeforeAwait(t, n)) /\ resent' = resent /\ tasks' = Moved(t, "joining", n)
    BY <1>5 DEF SendJoin
  <2>2. "joining" \in Stage
    BY DEF Stage
  <2> QED
    BY <1>1, <1>2, <1>3, <2>1, <2>2, WriteType, MovedType DEF HandlersOK
<1> QED
  BY <1>4, <1>5

LEMMA SaysType ==
    ASSUME HandlersOK, handle \in MaybeNick, NEW t \in Task, NEW joined \in BOOLEAN, Says(t, joined)
    PROVE  HandlersOK' /\ handle' \in MaybeNick
<1>1. tasks[t].nick \in Nicks
  BY DEF Says, At, HandlersOK, KnowsNick
<1>2. CASE PingSays(t, joined)
  <2>1. CASE joined
    <3>1. Return(t) /\ handle' = tasks[t].nick
      BY <1>2, <2>1 DEF PingSays, HandleFor
    <3> QED
      BY <1>1, <3>1, NickFacts, ReturnType
  <2>2. CASE ~joined
    <3>1. SendJoin(t, tasks[t].nick)
      BY <1>2, <2>2 DEF PingSays
    <3> QED
      BY <1>1, <3>1, SendJoinType
  <2> QED
    BY <2>1, <2>2
<1>3. CASE ProbeSays(t, joined)
  <2>1. CASE tasks' = Moved(t, Over(t), NoNick) /\ UNCHANGED <<buffer, wire, handle, resent, events>>
    <3>1. Over(t) \in Stage /\ Over(t) \in {"idle", "done"}
      BY DEF Over, Stage
    <3> QED
      BY <2>1, <3>1, NickFacts, MovedType DEF HandlersOK
  <2>2. CASE handle # NoNick /\ JoinChat(t, handle, NoNick)
    BY <2>2, NickFacts, JoinChatType
  <2>3. CASE SendJoin(t, tasks[t].nick)
    BY <1>1, <2>3, SendJoinType
  <2> QED
    BY <1>3, <2>1, <2>2, <2>3 DEF ProbeSays
<1> QED
  BY <1>2, <1>3 DEF Says

LEMMA InitType == Init => TypeInv
<1> SUFFICES ASSUME Init PROVE TypeInv
  OBVIOUS
<1>1. name \in Names
  BY XmppPuppetAssumption DEF Init
<1>2. <<>> \in Seq(Proper) /\ <<>> \in Seq(Messages)
  OBVIOUS
<1>3. tasks \in [Task -> [stage: Stage, nick: MaybeNick]] /\ KnowsNick
  BY NickFacts DEF Init, Stage, KnowsNick
<1> QED
  BY <1>1, <1>2, <1>3, NickFacts DEF Init, TypeInv, HandlersOK, OthersOK

LEMMA MatrixType ==
    ASSUME TypeInv,
           \/ \E m \in Messages : StartSending(m) \/ NotFetched(m)
           \/ \E n \in Names : Rename(n)
           \/ Check
    PROVE  TypeInv'
<1>1. ASSUME NEW m \in Messages, StartSending(m) PROVE TypeInv'
  <2>1. <<"send", m>> \in Task /\ name \in Nicks
    BY Tasks, NickFacts DEF TypeInv, OthersOK
  <2> DEFINE t == <<"send", m>>
  <2>2. "fetching" \in Stage /\ name \in MaybeNick
    BY <2>1, NickFacts DEF Stage
  <2>3. \/ Return(t)
        \/ tasks' = Moved(t, "fetching", name) /\ UNCHANGED <<buffer, wire, resent, events>>
    BY <1>1 DEF StartSending
  <2>4. t \in Task
    BY <2>1
  <2> HIDE DEF t
  <2>5. HandlersOK'
    BY <2>1, <2>2, <2>3, <2>4, ReturnType, MovedType DEF TypeInv, HandlersOK
  <2> QED
    BY <1>1, <2>5 DEF StartSending, TypeInv, OthersOK, mucVars
<1>2. ASSUME NEW n \in Names, Rename(n) PROVE TypeInv'
  <2> DEFINE t == <<"rename", NoMessage>>
  <2>1. t \in Task /\ n \in Nicks /\ n \in MaybeNick /\ "fetching" \in Stage
    BY Tasks, NickFacts DEF Stage
  <2>2. /\ tasks' = Moved(t, "fetching", n)
        /\ events' \in {events, events \cup {"outdated"}}
        /\ name' = n
        /\ UNCHANGED <<streamVars, bridgeVars, mucVars>>
    BY <1>2 DEF Rename
  <2> HIDE DEF t
  <2>3. tasks' \in [Task -> [stage: Stage, nick: MaybeNick]] /\ KnowsNick'
    BY <2>1, <2>2, MovedType DEF TypeInv
  <2>4. events' \subseteq Events
    BY <2>2 DEF TypeInv, HandlersOK, Events
  <2> QED
    BY <2>2, <2>3, <2>4 DEF TypeInv, HandlersOK, OthersOK, streamVars, bridgeVars, mucVars
<1>3. ASSUME Check PROVE TypeInv'
  <2> DEFINE t == <<"check", NoMessage>>
  <2>1. t \in Task /\ handle \in Nicks /\ handle \in MaybeNick
    BY <1>3, Tasks, NickFacts DEF Check, TypeInv, OthersOK
  <2>2. <<St("ping", handle, t)>> \in Seq(Proper) /\ "probing" \in Stage
    BY <2>1, StProper DEF Stage
  <2>3. tasks' = Moved(t, "probing", handle) /\ Write(<<St("ping", handle, t)>>) /\ UNCHANGED <<up, back, bridgeVars, name, mucVars>>
    BY <1>3 DEF Check
  <2> HIDE DEF t
  <2> QED
    BY <2>1, <2>2, <2>3, WriteType, MovedType DEF TypeInv, HandlersOK, OthersOK, bridgeVars, mucVars
<1>4. ASSUME NEW m \in Messages, NotFetched(m) PROVE TypeInv'
  <2> DEFINE t == <<"send", m>>
  <2>1. t \in Task /\ "done" \in Stage /\ NoNick \in MaybeNick
    BY Tasks, NickFacts DEF Stage
  <2>2. /\ tasks' = Moved(t, "done", NoNick)
        /\ UNCHANGED <<streamVars, bridgeVars, name, mucVars>>
    BY <1>4 DEF NotFetched
  <2>3. events' \subseteq Events
    BY <1>4, XmppPuppetAssumption DEF NotFetched, Happens, Events, TypeInv, HandlersOK
  <2> HIDE DEF t
  <2>4. tasks' \in [Task -> [stage: Stage, nick: MaybeNick]] /\ KnowsNick'
    BY <2>1, <2>2, MovedType DEF TypeInv
  <2> QED
    BY <2>2, <2>3, <2>4 DEF TypeInv, HandlersOK, OthersOK, streamVars, bridgeVars, mucVars
<1> QED
  BY <1>1, <1>2, <1>3, <1>4

LEMMA GoesOnType ==
    ASSUME TypeInv, NEW t \in Task, GoesOn(t)
    PROVE  TypeInv'
<1>1. CASE FlushedPart(t)
  <2>1. tasks[t].nick \in Nicks /\ <<>> \in Seq(Proper)
    BY <1>1 DEF FlushedPart, At, TypeInv, HandlersOK, KnowsNick
  <2> QED
    BY <1>1, <2>1, NickFacts, SelfPingType DEF FlushedPart, TypeInv, OthersOK, mucVars
<1>2. CASE FlushedJoin(t)
  BY <1>2, ReturnType DEF FlushedJoin, TypeInv, OthersOK, mucVars
<1>3. CASE PingTimesOut(t)
  BY <1>3, SaysType DEF PingTimesOut, TypeInv, OthersOK, mucVars
<1>4. CASE Fetched(t)
  <2>1. tasks[t].nick \in Nicks /\ name \in Nicks /\ handle \in MaybeNick
    BY <1>4, NickFacts DEF Fetched, At, TypeInv, HandlersOK, OthersOK, KnowsNick
  <2>2. PICK n \in {tasks[t].nick, name} : JoinChat(t, n, handle)
    BY <1>4 DEF Fetched
  <2>3. HandlersOK' /\ handle' \in MaybeNick
    BY <2>1, <2>2, JoinChatType DEF TypeInv
  <2> QED
    BY <1>4, <2>3 DEF Fetched, TypeInv, OthersOK, mucVars
<1> QED
  BY <1>1, <1>2, <1>3, <1>4 DEF GoesOn

LEMMA FromMucType ==
    ASSUME TypeInv, FromMuc \/ \E i \in DOMAIN back : Late(i)
    PROVE  TypeInv'
<1>1. ASSUME NEW kind, Received(kind)
      PROVE  Head(back) \in Proper /\ Head(back).kind = kind /\ back' \in Seq(Proper)
  BY <1>1 DEF Received, TypeInv, OthersOK
<1>2. CASE Answer
  <2>1. Head(back).task \in Task /\ back' \in Seq(Proper)
    BY <1>1, <1>2 DEF Answer, Answers, Proper
  <2> QED
    BY <1>2, <2>1, SaysType DEF Answer, TypeInv, OthersOK, mucVars
<1>3. CASE Present
  <2>1. Head(back).nick \in Nicks /\ back' \in Seq(Proper)
    BY <1>1, <1>3 DEF Present, Proper
  <2> QED
    BY <1>3, <2>1 DEF Present, TypeInv, HandlersOK, OthersOK, KnowsNick, mucVars
<1>4. CASE Gone
  BY <1>1, <1>4 DEF Gone, TypeInv, HandlersOK, OthersOK, KnowsNick, mucVars
<1>5. CASE Conflict
  <2>1. back' \in Seq(Proper)
    BY <1>1, <1>5 DEF Conflict
  <2>2. CASE UNCHANGED <<buffer, wire, tasks, handle, resent, events>>
    BY <1>5, <2>1, <2>2 DEF Conflict, TypeInv, HandlersOK, OthersOK, KnowsNick, mucVars
  <2>3. CASE Head(back).nick \in Names /\ JoinChat(<<"retry", NoMessage>>, Suffixed(Head(back).nick), handle)
    <3>1. HandlersOK' /\ handle' \in MaybeNick
      BY <2>3, Tasks, NickFacts, JoinChatType DEF TypeInv, OthersOK
    <3> QED
      BY <1>5, <2>1, <3>1 DEF Conflict, TypeInv, OthersOK, mucVars
  <2> QED
    BY <1>5, <2>2, <2>3 DEF Conflict
<1>6. CASE Rejected
  <2> DEFINE t == <<"error", Head(back).task[2]>>
  <2>1. Head(back).task \in Speakers /\ back' \in Seq(Proper)
    BY <1>1, <1>6 DEF Rejected, Proper
  <2>2. Head(back).task[2] \in Messages /\ t \in Task
    BY <2>1, Tasks DEF Speakers
  <2>3. UNCHANGED <<up, presence, name, mucVars>>
    BY <1>6 DEF Rejected
  <2>4. CASE handle = NoNick
    <3>1. /\ UNCHANGED <<tasks, handle, buffer>> /\ Resent(t)
          /\ wire' = wire \o Afterwards(t) /\ events' = events \cup {"overlapped"}
      BY <1>6, <2>4 DEF Rejected
    <3>2. wire' \in Seq(Proper)
      BY <2>2, <3>1, Voice, ConcatProperties DEF TypeInv, HandlersOK
    <3>3. resent' \subseteq Messages
      BY <2>2, <3>1, ResentType DEF TypeInv
    <3> QED
      BY <2>1, <2>3, <3>1, <3>2, <3>3 DEF TypeInv, HandlersOK, OthersOK, KnowsNick, Events, mucVars
  <2>5. CASE handle # NoNick
    <3>1. JoinChat(t, handle, NoNick)
      BY <1>6, <2>5 DEF Rejected
    <3>2. handle \in Nicks /\ NoNick \in MaybeNick
      BY <2>5, NickFacts DEF TypeInv, OthersOK
    <3>3. HandlersOK' /\ handle' \in MaybeNick
      BY <2>2, <3>1, <3>2, JoinChatType DEF TypeInv
    <3> QED
      BY <2>1, <2>3, <3>3 DEF TypeInv, OthersOK, mucVars
  <2> QED
    BY <2>4, <2>5
<1>7. ASSUME NEW i \in DOMAIN back, Late(i) PROVE TypeInv'
  <2>1. back' \in Seq(Proper)
    BY <1>7 DEF Late, RemoveAt, TypeInv, OthersOK
  <2>2. events' \subseteq Events
    BY <1>7, XmppPuppetAssumption DEF Late, Happens, Events, TypeInv, HandlersOK
  <2> QED
    BY <1>7, <2>1, <2>2 DEF Late, TypeInv, HandlersOK, OthersOK, KnowsNick, bridgeVars, mucVars
<1> QED
  BY <1>2, <1>3, <1>4, <1>5, <1>6, <1>7 DEF FromMuc

LEMMA StreamType ==
    ASSUME TypeInv, Cut \/ Online
    PROVE  TypeInv'
<1>1. CASE Cut
  <2>1. events' \subseteq Events
    BY <1>1, XmppPuppetAssumption DEF Cut, Happens, Events, TypeInv, HandlersOK
  <2>2. <<>> \in Seq(Proper) /\ occupant' \in MaybeNick
    BY <1>1, NickFacts DEF Cut, TypeInv, OthersOK
  <2> QED
    BY <1>1, <2>1, <2>2 DEF Cut, TypeInv, HandlersOK, OthersOK, KnowsNick, bridgeVars
<1>2. CASE Online
  <2> DEFINE t == <<"reconnect", NoMessage>>
             probe == ForceReconnect /\ handle # NoNick /\ At(t, "idle")
             first == IF probe THEN <<St("ping", handle, t)>> ELSE <<>>
  <2>1. t \in Task /\ handle \in MaybeNick /\ (probe => handle \in Nicks)
    BY Tasks, NickFacts DEF TypeInv, OthersOK
  <2>2. first \in Seq(Proper)
    BY <2>1, StProper
  <2>3. PICK flushed \in {buffer, Outdated(buffer)} : wire' = first \o flushed
    BY <1>2 DEF Online
  <2>4. wire' \in Seq(Proper)
    BY <2>2, <2>3, OutdatedType, ConcatProperties DEF TypeInv, HandlersOK
  <2>5. tasks' = IF probe THEN Moved(t, "probing", handle) ELSE tasks
    BY <1>2 DEF Online
  <2>6. up' = TRUE /\ buffer' = <<>> /\ UNCHANGED <<back, bridgeVars, name, mucVars, events>>
    BY <1>2 DEF Online
  <2> HIDE DEF t, probe, first
  <2>7. tasks' \in [Task -> [stage: Stage, nick: MaybeNick]] /\ KnowsNick'
    <3>1. CASE probe
      <4>1. "probing" \in Stage
        BY DEF Stage
      <4> QED
        BY <2>1, <2>5, <3>1, <4>1, MovedType DEF TypeInv
    <3>2. CASE ~probe
      BY <2>5, <3>2 DEF TypeInv, HandlersOK, KnowsNick
    <3> QED
      BY <3>1, <3>2
  <2>8. <<>> \in Seq(Proper)
    OBVIOUS
  <2> QED
    BY <2>4, <2>6, <2>7, <2>8 DEF TypeInv, HandlersOK, OthersOK, bridgeVars, mucVars
<1> QED
  BY <1>1, <1>2

LEMMA MucType ==
    ASSUME TypeInv, Serve \/ Drop \/ Kick \/ \E n \in Names : Take(n)
    PROVE  TypeInv'
<1>1. CASE Serve
  <2> DEFINE s == Head(wire)
  <2>0. s \in Proper /\ s \in Stanza /\ wire' \in Seq(Proper)
    BY <1>1 DEF Serve, TypeInv, HandlersOK, Proper
  <2>1. UNCHANGED <<up, buffer, tasks, bridgeVars, name, taken, events>>
    BY <1>1 DEF Serve
  <2>2. occupant' \in MaybeNick
    BY <1>1, <2>0, NickFacts DEF Serve, TypeInv, OthersOK, Stanza
  <2>3. accepted' \in Seq(Messages)
    <3>1. accepted' = accepted \/ (s.kind = "message" /\ accepted' = Append(accepted, s.task[2]))
      BY <1>1 DEF Serve
    <3>2. s.kind = "message" => s.task[2] \in Messages
      BY <2>0 DEF Proper, Speakers
    <3> QED
      BY <3>1, <3>2 DEF TypeInv, OthersOK
  <2>4. back' \in Seq(Proper)
    <3>1. \A k \in {"conflict", "gone"} : \A n \in MaybeNick : St(k, n, s.task) \in Proper
      BY <2>0 DEF St, Proper, Stanza
    <3>2. s.kind = "join" => St("present", s.nick, s.task) \in Proper /\ s.nick \in MaybeNick
      BY <2>0 DEF St, Proper, Stanza
    <3>3. s.kind = "ping" => St("pong", s.nick, s.task) \in Proper /\ St("nopong", s.nick, s.task) \in Proper
      BY <2>0 DEF St, Proper, Stanza
    <3>4. s.kind = "message" => St("rejected", NoNick, s.task) \in Proper
      BY <2>0, NickFacts DEF St, Proper, Stanza
    <3>5. back \in Seq(Proper) /\ occupant \in MaybeNick
      BY DEF TypeInv, OthersOK
    <3>6. \A x \in Proper : Append(back, x) \in Seq(Proper) /\ <<x>> \in Seq(Proper)
      BY <3>5
    <3>7. CASE s.kind = "join"
      <4>1. \A q \in Seq(Proper) : q \o <<St("present", s.nick, s.task)>> \in Seq(Proper)
        BY <3>2, <3>6, <3>7, ConcatProperties
      <4>2. Append(back, St("gone", occupant, s.task)) \in Seq(Proper) /\ Append(back, St("conflict", s.nick, s.task)) \in Seq(Proper)
        BY <3>1, <3>2, <3>5, <3>6, <3>7
      <4> QED
        BY <1>1, <3>5, <3>7, <4>1, <4>2 DEF Serve
    <3>8. CASE s.kind # "join"
      BY <1>1, <3>1, <3>3, <3>4, <3>5, <3>6, <3>8 DEF Serve
    <3> QED
      BY <3>7, <3>8
  <2> QED
    BY <2>0, <2>1, <2>2, <2>3, <2>4 DEF TypeInv, HandlersOK, OthersOK, KnowsNick, bridgeVars
<1>2. CASE Drop
  <2>1. events' \subseteq Events
    BY <1>2, XmppPuppetAssumption DEF Drop, Happens, Events, TypeInv, HandlersOK
  <2> QED
    BY <1>2, <2>1, NickFacts DEF Drop, TypeInv, HandlersOK, OthersOK, KnowsNick, bridgeVars, streamVars
<1>3. CASE Kick
  <2>1. events' \subseteq Events
    BY <1>3, XmppPuppetAssumption DEF Kick, Happens, Events, TypeInv, HandlersOK
  <2>2. St("gone", occupant, NoMessage) \in Proper
    BY DEF St, Proper, Stanza, TypeInv, OthersOK
  <2> QED
    BY <1>3, <2>1, <2>2, NickFacts DEF Kick, TypeInv, HandlersOK, OthersOK, KnowsNick, bridgeVars
<1>4. ASSUME NEW n \in Names, Take(n) PROVE TypeInv'
  <2>1. events' \subseteq Events
    BY <1>4, XmppPuppetAssumption DEF Take, Happens, Events, TypeInv, HandlersOK
  <2> QED
    BY <1>4, <2>1 DEF Take, TypeInv, HandlersOK, OthersOK, KnowsNick, bridgeVars, streamVars
<1> QED
  BY <1>1, <1>2, <1>3, <1>4

LEMMA NextType ==
    ASSUME TypeInv, [Next]_vars
    PROVE  TypeInv'
<1>1. CASE UNCHANGED vars
  BY <1>1 DEF vars, streamVars, bridgeVars, mucVars, TypeInv, HandlersOK, OthersOK, KnowsNick
<1> QED
  BY <1>1, MatrixType, GoesOnType, FromMucType, StreamType, MucType DEF Next

\* Every variable keeps its type: whatever overlaps, a handler that waits
\* knows the nick it will join under, and what the MUC says of a message or of
\* a self ping names the handler it is about.
THEOREM PuppetTypes == Spec => []TypeOK
BY InitType, NextType, TypeInvImplies, PTL DEF Spec

-----------------------------------------------------------------------------
(* One message in a queue                                                  *)

\* The stanza is the message m, or its rejection.
Carries(s, m) == s.kind \in {"message", "rejected"} /\ s.task[2] = m

Has(q, m) == \E i \in 1..Len(q) : Carries(q[i], m)
Single(q, m) == \A i, j \in 1..Len(q) : Carries(q[i], m) /\ Carries(q[j], m) => i = j

LEMMA EmptyCarries == \A m : ~Has(<<>>, m) /\ Single(<<>>, m)
BY DEF Has, Single

LEMMA OneCarries ==
    ASSUME NEW x \in Proper, NEW m
    PROVE  (Has(<<x>>, m) <=> Carries(x, m)) /\ Single(<<x>>, m)
<1>1. Len(<<x>>) = 1 /\ <<x>>[1] = x
  OBVIOUS
<1> QED
  BY <1>1 DEF Has, Single

LEMMA ConcatCarries ==
    ASSUME NEW q \in Seq(Proper), NEW r \in Seq(Proper), NEW m
    PROVE  /\ Has(q \o r, m) <=> Has(q, m) \/ Has(r, m)
           /\ Single(q, m) /\ Single(r, m) /\ ~(Has(q, m) /\ Has(r, m)) => Single(q \o r, m)
<1> DEFINE s == q \o r
           n == Len(q)
<1>1. /\ Len(s) = n + Len(r) /\ n \in Nat /\ Len(r) \in Nat
      /\ \A i \in 1..n : s[i] = q[i] /\ i \in 1..Len(s)
      /\ \A i \in 1..Len(r) : s[n + i] = r[i] /\ n + i \in 1..Len(s)
  BY ConcatProperties, LenProperties
<1>2. \A i \in 1..Len(s) : i \in 1..n \/ (i - n \in 1..Len(r) /\ s[i] = r[i - n])
  BY <1>1
<1> HIDE DEF s, n
<1>3. Has(s, m) <=> Has(q, m) \/ Has(r, m)
  BY <1>1, <1>2 DEF Has, n
<1>4. ASSUME Single(q, m), Single(r, m), ~(Has(q, m) /\ Has(r, m)) PROVE Single(s, m)
  <2> SUFFICES ASSUME NEW i \in 1..Len(s), NEW j \in 1..Len(s), Carries(s[i], m), Carries(s[j], m)
               PROVE  i = j
    BY DEF Single
  <2>1. CASE i \in 1..n /\ j \in 1..n
    BY <1>1, <1>4, <2>1 DEF Single, n
  <2>2. CASE i \notin 1..n /\ j \notin 1..n
    <3>1. i - n \in 1..Len(r) /\ j - n \in 1..Len(r) /\ Carries(r[i - n], m) /\ Carries(r[j - n], m)
      BY <1>2, <2>2
    <3>2. i - n = j - n
      BY <1>4, <3>1 DEF Single
    <3> QED
      BY <1>1, <3>2
  <2>3. (i \in 1..n) <=> (j \in 1..n)
    BY <1>1, <1>2, <1>4 DEF Has, n
  <2> QED
    BY <2>1, <2>2, <2>3
<1> QED
  BY <1>3, <1>4 DEF s

LEMMA AppendCarries ==
    ASSUME NEW q \in Seq(Proper), NEW x \in Proper, NEW m
    PROVE  /\ Has(Append(q, x), m) <=> Has(q, m) \/ Carries(x, m)
           /\ Single(q, m) /\ ~(Has(q, m) /\ Carries(x, m)) => Single(Append(q, x), m)
<1> DEFINE r == <<x>>
<1>1. Append(q, x) = q \o r /\ r \in Seq(Proper)
  BY AppendIsConcat
<1>2. (Has(r, m) <=> Carries(x, m)) /\ Single(r, m)
  BY OneCarries
<1> HIDE DEF r
<1> QED
  BY <1>1, <1>2, ConcatCarries

LEMMA TailCarries ==
    ASSUME NEW q \in Seq(Proper), q # <<>>, NEW m
    PROVE  /\ Has(Tail(q), m) => Has(q, m)
           /\ Carries(Head(q), m) => Has(q, m)
           /\ Single(q, m) => Single(Tail(q), m) /\ ~(Carries(Head(q), m) /\ Has(Tail(q), m))
<1>1. /\ Len(Tail(q)) = Len(q) - 1 /\ Len(q) \in Nat \ {0} /\ Head(q) = q[1]
      /\ \A i \in 1..Len(Tail(q)) : Tail(q)[i] = q[i + 1] /\ i + 1 \in 1..Len(q)
  BY HeadTailProperties, LenProperties, EmptySeq
<1>2. 1 \in 1..Len(q)
  BY <1>1
<1> QED
  BY <1>1, <1>2 DEF Has, Single

LEMMA RemoveCarries ==
    ASSUME NEW q \in Seq(Proper), NEW i \in DOMAIN q, NEW m
    PROVE  /\ Has(RemoveAt(q, i), m) => Has(q, m)
           /\ Single(q, m) => Single(RemoveAt(q, i), m)
<1> DEFINE r == RemoveAt(q, i)
           at(j) == IF j < i THEN j ELSE j + 1
<1>1. Len(q) \in Nat /\ i \in 1..Len(q)
  OBVIOUS
<1>2. Len(r) = Len(q) - 1 /\ \A j \in 1..Len(r) : r[j] = q[at(j)]
  <2> DEFINE a == SubSeq(q, 1, i - 1)
             b == SubSeq(q, i + 1, Len(q))
  <2>1. a \in Seq(Proper) /\ Len(a) = i - 1 /\ \A j \in 1..i - 1 : a[j] = q[j]
    BY <1>1
  <2>2. b \in Seq(Proper) /\ Len(b) = Len(q) - i /\ \A j \in 1..Len(q) - i : b[j] = q[i + j]
    BY <1>1
  <2>3. r = a \o b
    BY DEF RemoveAt
  <2> HIDE DEF a, b, r
  <2>4. Len(r) = Len(a) + Len(b) /\ \A j \in 1..Len(a) + Len(b) : r[j] = IF j <= Len(a) THEN a[j] ELSE b[j - Len(a)]
    BY <2>1, <2>2, <2>3, ConcatProperties
  <2>5. Len(r) = Len(q) - 1
    BY <1>1, <2>1, <2>2, <2>4
  <2>6. ASSUME NEW j \in 1..Len(q) - 1 PROVE r[j] = q[at(j)]
    <3>1. j \in Int /\ i \in Int /\ j \in 1..Len(a) + Len(b)
      BY <1>1, <2>1, <2>2
    <3>2. CASE j < i
      <4>1. j \in 1..i - 1 /\ j <= Len(a)
        BY <1>1, <2>1, <3>1, <3>2
      <4>2. r[j] = a[j] /\ a[j] = q[j]
        BY <2>1, <2>4, <3>1, <4>1
      <4> QED
        BY <3>2, <4>2
    <3>3. CASE ~(j < i)
      <4>1. /\ ~(j <= Len(a))
            /\ j - Len(a) \in 1..Len(q) - i
            /\ i + (j - Len(a)) = j + 1
        BY <1>1, <2>1, <3>1, <3>3
      <4>2. r[j] = b[j - Len(a)]
        BY <2>4, <3>1, <4>1
      <4>3. b[j - Len(a)] = q[j + 1]
        BY <2>2, <4>1
      <4> QED
        BY <3>3, <4>2, <4>3
    <3> QED
      BY <3>2, <3>3
  <2> QED
    BY <2>5, <2>6
<1>3. \A j \in 1..Len(r) : at(j) \in 1..Len(q)
  BY <1>1, <1>2
<1>4. \A j, k \in 1..Len(r) : at(j) = at(k) => j = k
  BY <1>1, <1>2
<1> HIDE DEF r, at
<1>5. (Has(r, m) => Has(q, m)) /\ (Single(q, m) => Single(r, m))
  BY <1>2, <1>3, <1>4 DEF Has, Single
<1> QED
  BY <1>5 DEF r

\* A self ping carries nothing, stale or not.
LEMMA OutdatedCarries ==
    ASSUME NEW q \in Seq(Proper), NEW m
    PROVE  (Has(Outdated(q), m) <=> Has(q, m)) /\ (Single(q, m) => Single(Outdated(q), m))
<1>1. \A i \in 1..Len(q) : Carries(Outdated(q)[i], m) <=> Carries(q[i], m)
  <2> SUFFICES ASSUME NEW i \in 1..Len(q) PROVE Carries(Outdated(q)[i], m) <=> Carries(q[i], m)
    OBVIOUS
  <2>1. Outdated(q)[i] = IF q[i].kind = "ping" THEN [q[i] EXCEPT !.kind = "stale"] ELSE q[i]
    BY OutdatedType
  <2>2. q[i] \in Stanza
    BY DEF Proper
  <2> QED
    BY <2>1, <2>2 DEF Carries, Stanza
<1> QED
  BY <1>1, OutdatedType DEF Has, Single

-----------------------------------------------------------------------------
(* Where a message is: its handler has still to send it, that of its       *)
(* rejection has still to send it again, it is written or waits for the    *)
(* next connection, it is on its way back, or the MUC has accepted it.     *)

ToSend(m) == tasks[<<"send", m>>].stage # "done"
ToResend(m) == tasks[<<"error", m>>].stage # "idle" /\ m \notin resent
UnderWay(m) == Has(buffer, m) \/ Has(wire, m)

OneWritten(m) == Single(buffer, m) /\ Single(wire, m) /\ ~(Has(buffer, m) /\ Has(wire, m))

OnePlace(m) ==
    /\ ToSend(m) => ~ToResend(m) /\ ~UnderWay(m) /\ ~Has(back, m) /\ ~Contains(accepted, m)
    /\ ToResend(m) => ~UnderWay(m) /\ ~Has(back, m) /\ ~Contains(accepted, m)
    /\ UnderWay(m) => ~Has(back, m) /\ ~Contains(accepted, m)
    /\ Has(back, m) => ~Contains(accepted, m)

OnceAccepted(m) == \A i, j \in 1..Len(accepted) : accepted[i] = m /\ accepted[j] = m => i = j

PlaceInv == \A m \in Messages : OneWritten(m) /\ Single(back, m) /\ OnePlace(m) /\ OnceAccepted(m)

\* What a handler does to the message m: it is where it was, or the handler
\* has sent it and will not do so again.
Speaks(t, m) == Has(Afterwards(t), m)

HandledOf(t, m) ==
    /\ OneWritten(m)'
    /\ \/ UnderWay(m)' => UnderWay(m)
       \/ /\ Speaks(t, m)
          /\ t = <<"send", m>> => ~ToSend(m)'
          /\ t = <<"error", m>> => ~ToResend(m)'
    /\ ToSend(m)' => ToSend(m) \/ t = <<"send", m>>
    /\ ToResend(m)' => ToResend(m) \/ (t = <<"error", m>> /\ m \notin resent)

Handled(t) ==
    \A m \in Messages : OneWritten(m) /\ (Speaks(t, m) => ~UnderWay(m)) => HandledOf(t, m)

LEMMA WhoSpeaks ==
    ASSUME NEW t \in Task, NEW m \in Messages
    PROVE  /\ Single(Afterwards(t), m)
           /\ Speaks(t, m) => t = <<"send", m>> \/ (t = <<"error", m>> /\ m \notin resent)
<1>1. CASE Afterwards(t) = <<>>
  BY <1>1, EmptyCarries DEF Speaks
<1>2. CASE Afterwards(t) = <<St("message", NoNick, t)>> /\ t \in Speakers
  <2>0. Afterwards(t) # <<>>
    BY <1>2
  <2>1. St("message", NoNick, t) \in Proper /\ St("message", NoNick, t).task = t
    BY <1>2, Tasks, NickFacts DEF St, Proper, Stanza
  <2>2. Single(Afterwards(t), m) /\ (Speaks(t, m) => t[2] = m)
    BY <1>2, <2>1, OneCarries DEF Speaks, Carries
  <2>3. t[1] = "send" \/ (t[1] = "error" /\ t[2] \notin resent)
    BY <2>0 DEF Afterwards
  <2> QED
    BY <2>2, <2>3, Tasks
<1> QED
  BY <1>1, <1>2, Voice

LEMMA NoVoice ==
    ASSUME NEW n \in Nicks, NEW t \in Task, NEW k \in {"join", "part", "ping"}, NEW m
    PROVE  LET q == <<St(k, n, t)>>
           IN  q \in Seq(Proper) /\ ~Has(q, m) /\ Single(q, m)
<1>1. St(k, n, t) \in Proper /\ St(k, n, t).kind = k
  BY StProper DEF St
<1>2. ~Carries(St(k, n, t), m)
  BY <1>1 DEF Carries
<1> QED
  BY <1>1, <1>2, OneCarries

LEMMA WriteKeeps ==
    ASSUME HandlersOK, NEW out \in Seq(Proper), Write(out),
           NEW m, OneWritten(m), Single(out, m), Has(out, m) => ~UnderWay(m)
    PROVE  OneWritten(m)' /\ (UnderWay(m)' => UnderWay(m) \/ Has(out, m))
<1>1. buffer \in Seq(Proper) /\ wire \in Seq(Proper)
  BY DEF HandlersOK
<1>2. PICK o \in {out, Outdated(out)} :
         \/ wire' = wire \o o /\ buffer' = buffer
         \/ buffer' = buffer \o o /\ wire' = wire
  BY DEF Write
<1>3. o \in Seq(Proper) /\ Single(o, m) /\ (Has(o, m) <=> Has(out, m))
  BY OutdatedType, OutdatedCarries
<1>4. /\ Has(wire \o o, m) <=> Has(wire, m) \/ Has(o, m)
      /\ Has(buffer \o o, m) <=> Has(buffer, m) \/ Has(o, m)
      /\ Single(wire, m) /\ ~(Has(wire, m) /\ Has(o, m)) => Single(wire \o o, m)
      /\ Single(buffer, m) /\ ~(Has(buffer, m) /\ Has(o, m)) => Single(buffer \o o, m)
  BY <1>1, <1>3, ConcatCarries
<1> QED
  BY <1>2, <1>3, <1>4 DEF OneWritten, UnderWay

LEMMA MovedStages ==
    ASSUME HandlersOK, NEW t \in Task, NEW s, NEW n, tasks' = Moved(t, s, n)
    PROVE  \A u \in Task : tasks'[u].stage = IF u = t THEN s ELSE tasks[u].stage
BY DEF HandlersOK, Moved

LEMMA ReturnHandled ==
    ASSUME HandlersOK, NEW t \in Task, Return(t)
    PROVE  Handled(t)
<1> SUFFICES ASSUME NEW m \in Messages, OneWritten(m), Speaks(t, m) => ~UnderWay(m)
             PROVE  HandledOf(t, m)
  BY DEF Handled
<1>1. Write(Afterwards(t)) /\ Resent(t) /\ tasks' = Moved(t, Over(t), NoNick)
  BY DEF Return
<1>2. OneWritten(m)' /\ (UnderWay(m)' => UnderWay(m) \/ Speaks(t, m))
  BY <1>1, Voice, WhoSpeaks, WriteKeeps DEF Speaks
<1>3. \A u \in Task : tasks'[u].stage = IF u = t THEN Over(t) ELSE tasks[u].stage
  BY <1>1, MovedStages
<1>4. t = <<"send", m>> => Over(t) = "done"
  BY DEF Over
<1>5. t = <<"error", m>> => Over(t) = "idle"
  BY DEF Over
<1>6. resent \subseteq resent'
  BY <1>1 DEF Resent
<1> QED
  BY <1>2, <1>3, <1>4, <1>5, <1>6, Tasks DEF HandledOf, ToSend, ToResend

\* The message is not yet sent.
LEMMA WaitingHandled ==
    ASSUME HandlersOK, NEW t \in Task, NEW s, NEW n, NEW out \in Seq(Proper),
           tasks' = Moved(t, s, n), Write(out), resent' = resent,
           \A m \in Messages : ~Has(out, m) /\ Single(out, m)
    PROVE  Handled(t)
<1> SUFFICES ASSUME NEW m \in Messages, OneWritten(m), Speaks(t, m) => ~UnderWay(m)
             PROVE  HandledOf(t, m)
  BY DEF Handled
<1>1. OneWritten(m)' /\ (UnderWay(m)' => UnderWay(m))
  BY WriteKeeps
<1>2. \A u \in Task : tasks'[u].stage = IF u = t THEN s ELSE tasks[u].stage
  BY MovedStages
<1> QED
  BY <1>1, <1>2, Tasks DEF HandledOf, ToSend, ToResend

\* A handler that asks the homeserver, or is told nothing, writes nothing.
LEMMA QuietHandled ==
    ASSUME HandlersOK, NEW t \in Task, NEW s, NEW n, t[1] # "error",
           tasks' = Moved(t, s, n), UNCHANGED <<buffer, wire, resent>>
    PROVE  Handled(t)
<1> SUFFICES ASSUME NEW m \in Messages, OneWritten(m)
             PROVE  HandledOf(t, m)
  BY DEF Handled
<1>1. \A u \in Task : tasks'[u].stage = IF u = t THEN s ELSE tasks[u].stage
  BY MovedStages
<1>2. OneWritten(m)' /\ UnderWay(m)' = UnderWay(m)
  BY DEF OneWritten, UnderWay
<1> QED
  BY <1>1, <1>2, Tasks DEF HandledOf, ToSend, ToResend

LEMMA SelfPingHandled ==
    ASSUME HandlersOK, NEW t \in Task, NEW n \in Nicks, NEW out \in Seq(Proper), SelfPing(t, n, out),
           \A m \in Messages : ~Has(out, m) /\ Single(out, m)
    PROVE  Handled(t)
<1> DEFINE ping == <<St("ping", n, t)>>
<1>1. ping \in Seq(Proper) /\ \A m \in Messages : ~Has(ping, m) /\ Single(ping, m)
  BY NoVoice
<1>2. tasks' = Moved(t, "selfping", n) /\ Write(out \o ping) /\ resent' = resent
  BY DEF SelfPing
<1> HIDE DEF ping
<1>3. out \o ping \in Seq(Proper) /\ \A m \in Messages : ~Has(out \o ping, m) /\ Single(out \o ping, m)
  BY <1>1, ConcatProperties, ConcatCarries
<1> QED
  BY <1>2, <1>3, WaitingHandled

LEMMA JoinChatHandled ==
    ASSUME HandlersOK, NEW t \in Task, NEW n \in Nicks, NEW h \in MaybeNick, JoinChat(t, n, h)
    PROVE  Handled(t)
<1>1. <<>> \in Seq(Proper) /\ \A m \in Messages : ~Has(<<>>, m) /\ Single(<<>>, m)
  BY EmptyCarries
<1>2. CASE Return(t)
  BY <1>2, ReturnHandled
<1>3. CASE SelfPing(t, n, <<>>)
  BY <1>1, <1>3, SelfPingHandled
<1>4. CASE InRoom(h) /\ (SelfPing(t, n, <<St("part", h, t)>>)
                         \/ (tasks' = Moved(t, "parting", n) /\ Write(<<St("part", h, t)>>) /\ UNCHANGED resent))
  <2> DEFINE part == <<St("part", h, t)>>
  <2>1. h \in Nicks
    BY <1>4, NickFacts DEF InRoom
  <2>2. part \in Seq(Proper) /\ \A m \in Messages : ~Has(part, m) /\ Single(part, m)
    BY <2>1, NoVoice
  <2>3. SelfPing(t, n, part) \/ (tasks' = Moved(t, "parting", n) /\ Write(part) /\ resent' = resent)
    BY <1>4
  <2> HIDE DEF part
  <2> QED
    BY <2>2, <2>3, SelfPingHandled, WaitingHandled
<1> QED
  BY <1>2, <1>3, <1>4 DEF JoinChat

LEMMA SendJoinHandled ==
    ASSUME HandlersOK, NEW t \in Task, NEW n \in Nicks, SendJoin(t, n)
    PROVE  Handled(t)
<1> DEFINE join == <<St("join", n, t)>>
<1>1. join \in Seq(Proper) /\ \A m \in Messages : ~Has(join, m) /\ Single(join, m)
  BY NoVoice
<1>2. BeforeAwait(t, n) = join /\ JoinFirst(t, n) = join \o Afterwards(t)
  BY DEF BeforeAwait, JoinFirst
<1> HIDE DEF join
<1>3. CASE up
  <2> SUFFICES ASSUME NEW m \in Messages, OneWritten(m), Speaks(t, m) => ~UnderWay(m)
               PROVE  HandledOf(t, m)
    BY DEF Handled
  <2>1. Write(join \o Afterwards(t)) /\ Resent(t) /\ tasks' = Moved(t, Over(t), NoNick)
    BY <1>2, <1>3 DEF SendJoin
  <2>2. /\ join \o Afterwards(t) \in Seq(Proper)
        /\ Single(join \o Afterwards(t), m)
        /\ Has(join \o Afterwards(t), m) => Speaks(t, m)
    BY <1>1, Voice, WhoSpeaks, ConcatProperties, ConcatCarries DEF Speaks
  <2>3. OneWritten(m)' /\ (UnderWay(m)' => UnderWay(m) \/ Speaks(t, m))
    BY <2>1, <2>2, WriteKeeps
  <2>4. \A u \in Task : tasks'[u].stage = IF u = t THEN Over(t) ELSE tasks[u].stage
    BY <2>1, MovedStages
  <2>5. t = <<"send", m>> => Over(t) = "done"
    BY DEF Over
  <2>6. t = <<"error", m>> => Over(t) = "idle"
    BY DEF Over
  <2>7. resent \subseteq resent'
    BY <2>1 DEF Resent
  <2> QED
    BY <2>3, <2>4, <2>5, <2>6, <2>7, Tasks DEF HandledOf, ToSend, ToResend
<1>4. CASE ~up
  <2>1. Write(join) /\ resent' = resent /\ tasks' = Moved(t, "joining", n)
    BY <1>2, <1>4 DEF SendJoin
  <2> QED
    BY <1>1, <2>1, WaitingHandled
<1> QED
  BY <1>3, <1>4

LEMMA SaysHandled ==
    ASSUME TypeInv, NEW t \in Task, NEW joined \in BOOLEAN, Says(t, joined)
    PROVE  Handled(t)
<1>0. HandlersOK /\ handle \in MaybeNick /\ tasks[t].nick \in Nicks
  BY DEF Says, At, TypeInv, HandlersOK, OthersOK, KnowsNick
<1>1. CASE PingSays(t, joined)
  BY <1>0, <1>1, ReturnHandled, SendJoinHandled DEF PingSays
<1>2. CASE JoinChat(t, handle, NoNick) /\ handle # NoNick
  BY <1>0, <1>2, NickFacts, JoinChatHandled
<1>3. CASE SendJoin(t, tasks[t].nick)
  BY <1>0, <1>3, SendJoinHandled
<1>4. CASE At(t, "probing") /\ tasks' = Moved(t, Over(t), NoNick) /\ UNCHANGED <<buffer, wire, handle, resent, events>>
  <2> SUFFICES ASSUME NEW m \in Messages, OneWritten(m)
               PROVE  HandledOf(t, m)
    BY DEF Handled
  <2>1. \A u \in Task : tasks'[u].stage = IF u = t THEN Over(t) ELSE tasks[u].stage
    BY <1>0, <1>4, MovedStages
  <2>2. OneWritten(m)' /\ UnderWay(m)' = UnderWay(m)
    BY <1>4 DEF OneWritten, UnderWay
  <2>3. t = <<"error", m>> => (ToResend(m)' => ToResend(m))
    BY <1>4, <2>1, Tasks DEF At, ToResend
  <2> QED
    BY <1>4, <2>1, <2>2, <2>3, Tasks DEF HandledOf, ToSend, ToResend
<1> QED
  BY <1>1, <1>2, <1>3, <1>4 DEF Says, ProbeSays

\* A handler takes a message on only from where it is.
Holds(t, m) ==
    /\ t = <<"send", m>> => ToSend(m)
    /\ t = <<"error", m>> /\ m \notin resent => ToResend(m)

LEMMA HandledKeeps ==
    ASSUME PlaceInv, NEW t \in Task, Handled(t), accepted' = accepted,
           \A m \in Messages :
               /\ Has(back, m)' => Has(back, m)
               /\ Single(back, m) => Single(back, m)'
               /\ \/ Holds(t, m)
                  \/ /\ Has(back, m) /\ ~Has(back, m)'
                     /\ t = <<"error", m>>
    PROVE  PlaceInv'
<1> SUFFICES ASSUME NEW m \in Messages
             PROVE  (OneWritten(m) /\ Single(back, m) /\ OnePlace(m) /\ OnceAccepted(m))'
  BY DEF PlaceInv
<1>1. OneWritten(m) /\ Single(back, m) /\ OnePlace(m) /\ OnceAccepted(m)
  BY DEF PlaceInv
<1>2. Speaks(t, m) => t = <<"send", m>> \/ (t = <<"error", m>> /\ m \notin resent)
  BY WhoSpeaks
<1>3. Holds(t, m) \/ (Has(back, m) /\ ~Has(back, m)' /\ t = <<"error", m>>)
  OBVIOUS
<1>4. HandledOf(t, m)
  BY <1>1, <1>2, <1>3 DEF Handled, Holds, OnePlace
<1>5. <<"send", m>> # <<"error", m>>
  OBVIOUS
<1>6. Contains(accepted, m)' = Contains(accepted, m)
  OBVIOUS
<1>7. (Has(back, m)' => Has(back, m)) /\ Single(back, m)'
  BY <1>1
<1>8. OnePlace(m)'
  BY <1>1, <1>2, <1>3, <1>4, <1>5, <1>6, <1>7 DEF HandledOf, Holds, OnePlace
<1> QED
  BY <1>1, <1>4, <1>7, <1>8 DEF HandledOf, OnceAccepted

LEMMA InitPlace == Init => PlaceInv
<1> SUFFICES ASSUME Init, NEW m \in Messages
             PROVE  OneWritten(m) /\ Single(back, m) /\ OnePlace(m) /\ OnceAccepted(m)
  BY DEF PlaceInv
<1>1. tasks[<<"send", m>>].stage = "idle" /\ tasks[<<"error", m>>].stage = "idle"
  BY Tasks DEF Init
<1>2. ~Has(buffer, m) /\ ~Has(wire, m) /\ ~Has(back, m) /\ OneWritten(m) /\ Single(back, m)
  BY EmptyCarries DEF Init, OneWritten
<1>3. ~Contains(accepted, m) /\ OnceAccepted(m)
  BY DEF Init, Contains, OnceAccepted
<1> QED
  BY <1>1, <1>2, <1>3 DEF OnePlace, ToSend, ToResend, UnderWay

LEMMA MatrixPlace ==
    ASSUME TypeInv, PlaceInv,
           \/ \E m \in Messages : StartSending(m) \/ NotFetched(m)
           \/ \E n \in Names : Rename(n)
           \/ Check
    PROVE  PlaceInv'
<1>0. HandlersOK /\ name \in Nicks /\ handle \in MaybeNick
  BY NickFacts DEF TypeInv, OthersOK
<1>1. ASSUME NEW m \in Messages, StartSending(m) PROVE PlaceInv'
  <2> DEFINE t == <<"send", m>>
  <2>1. t \in Task /\ At(t, "idle") /\ UNCHANGED <<back, accepted>>
    BY <1>1, Tasks DEF StartSending, Begins, mucVars
  <2>2. \/ Return(t)
        \/ tasks' = Moved(t, "fetching", name) /\ UNCHANGED <<buffer, wire, resent>>
    BY <1>1 DEF StartSending
  <2>3. \A x \in Messages : Holds(t, x)
    BY <2>1 DEF Holds, ToSend, At
  <2>5. t[1] # "error"
    OBVIOUS
  <2> HIDE DEF t
  <2>4. Handled(t)
    BY <1>0, <2>1, <2>2, <2>5, ReturnHandled, QuietHandled
  <2> QED
    BY <2>1, <2>3, <2>4, HandledKeeps
<1>2. ASSUME NEW n \in Names, Rename(n) PROVE PlaceInv'
  <2> DEFINE t == <<"rename", NoMessage>>
  <2>1. /\ t \in Task /\ UNCHANGED <<back, accepted>> /\ n \in Nicks
        /\ tasks' = Moved(t, "fetching", n) /\ UNCHANGED <<buffer, wire, resent>>
    BY <1>2, Tasks, NickFacts DEF Rename, mucVars, streamVars, bridgeVars
  <2>3. \A x \in Messages : Holds(t, x)
    BY DEF Holds
  <2>4. t[1] # "error"
    OBVIOUS
  <2> HIDE DEF t
  <2>2. Handled(t)
    BY <1>0, <2>1, <2>4, QuietHandled
  <2> QED
    BY <2>1, <2>2, <2>3, HandledKeeps
<1>3. ASSUME Check PROVE PlaceInv'
  <2> DEFINE t == <<"check", NoMessage>>
             ping == <<St("ping", handle, t)>>
  <2>1. t \in Task /\ UNCHANGED <<back, accepted, resent>> /\ handle \in Nicks
    BY <1>0, <1>3, Tasks, NickFacts DEF Check, mucVars, bridgeVars
  <2>2. ping \in Seq(Proper) /\ \A m \in Messages : ~Has(ping, m) /\ Single(ping, m)
    BY <2>1, NoVoice
  <2>3. tasks' = Moved(t, "probing", handle) /\ Write(ping) /\ t[1] # "send"
    BY <1>3 DEF Check
  <2>4. \A x \in Messages : Holds(t, x)
    BY DEF Holds
  <2> HIDE DEF t, ping
  <2>5. Handled(t)
    BY <1>0, <2>1, <2>2, <2>3, WaitingHandled
  <2> QED
    BY <2>1, <2>4, <2>5, HandledKeeps
<1>4. ASSUME NEW m \in Messages, NotFetched(m) PROVE PlaceInv'
  <2> DEFINE t == <<"send", m>>
  <2>1. /\ t \in Task /\ At(t, "fetching") /\ UNCHANGED <<back, accepted>>
        /\ tasks' = Moved(t, "done", NoNick) /\ UNCHANGED <<buffer, wire, resent>>
    BY <1>4, Tasks DEF NotFetched, mucVars, streamVars, bridgeVars
  <2>2. \A x \in Messages : Holds(t, x)
    BY <2>1 DEF Holds, ToSend, At
  <2>3. t[1] # "error"
    OBVIOUS
  <2> HIDE DEF t
  <2>4. Handled(t)
    BY <1>0, <2>1, <2>3, QuietHandled
  <2> QED
    BY <2>1, <2>2, <2>4, HandledKeeps
<1> QED
  BY <1>1, <1>2, <1>3, <1>4

\* A handler that waits has not sent its message.
LEMMA WaitingHolds ==
    ASSUME NEW t \in Task, NEW s \in {"fetching", "probing", "parting", "selfping", "joining"}, At(t, s)
    PROVE  \A m \in Messages : Holds(t, m)
BY DEF Holds, At, ToSend, ToResend

LEMMA GoesOnPlace ==
    ASSUME TypeInv, PlaceInv, NEW t \in Task, GoesOn(t)
    PROVE  PlaceInv'
<1>0. HandlersOK
  BY DEF TypeInv
<1>1. CASE FlushedPart(t)
  <2>1. tasks[t].nick \in Nicks /\ <<>> \in Seq(Proper) /\ UNCHANGED <<back, accepted>>
    BY <1>1 DEF FlushedPart, At, TypeInv, HandlersOK, KnowsNick, mucVars
  <2>2. Handled(t)
    BY <1>0, <1>1, <2>1, EmptyCarries, SelfPingHandled DEF FlushedPart
  <2> QED
    BY <1>1, <2>1, <2>2, WaitingHolds, HandledKeeps DEF FlushedPart
<1>2. CASE FlushedJoin(t)
  <2>1. Handled(t) /\ UNCHANGED <<back, accepted>>
    BY <1>0, <1>2, ReturnHandled DEF FlushedJoin, mucVars
  <2> QED
    BY <1>2, <2>1, WaitingHolds, HandledKeeps DEF FlushedJoin
<1>3. CASE PingTimesOut(t)
  <2>1. Handled(t) /\ UNCHANGED <<back, accepted>>
    BY <1>3, SaysHandled DEF PingTimesOut, mucVars
  <2> QED
    BY <1>3, <2>1, WaitingHolds, HandledKeeps DEF PingTimesOut, Says
<1>4. CASE Fetched(t)
  <2>1. /\ tasks[t].nick \in Nicks /\ name \in Nicks /\ handle \in MaybeNick
        /\ UNCHANGED <<back, accepted>> /\ At(t, "fetching")
    BY <1>4, NickFacts DEF Fetched, At, TypeInv, HandlersOK, OthersOK, KnowsNick, mucVars
  <2>2. PICK n \in {tasks[t].nick, name} : JoinChat(t, n, handle)
    BY <1>4 DEF Fetched
  <2>3. Handled(t)
    BY <1>0, <2>1, <2>2, JoinChatHandled
  <2> QED
    BY <2>1, <2>3, WaitingHolds, HandledKeeps
<1> QED
  BY <1>1, <1>2, <1>3, <1>4 DEF GoesOn

LEMMA FromMucPlace ==
    ASSUME TypeInv, PlaceInv, FromMuc
    PROVE  PlaceInv'
<1>1. back \in Seq(Proper) /\ HandlersOK /\ handle \in MaybeNick
  BY DEF TypeInv, OthersOK
<1>2. ASSUME NEW kind, Received(kind)
      PROVE  /\ Head(back) \in Proper /\ Head(back).kind = kind /\ back' = Tail(back) /\ back # <<>>
             /\ \A m \in Messages : /\ Has(back, m)' => Has(back, m)
                                    /\ Single(back, m) => Single(back, m)'
  BY <1>1, <1>2, TailCarries DEF Received
<1>3. CASE Answer
  <2>1. Head(back).task \in Task /\ accepted' = accepted
    BY <1>2, <1>3 DEF Answer, Answers, Proper, mucVars
  <2>2. Handled(Head(back).task)
    BY <1>3, <2>1, SaysHandled DEF Answer
  <2>3. \A m \in Messages : Holds(Head(back).task, m)
    BY <1>3, <2>1, WaitingHolds DEF Answer, Says
  <2> QED
    BY <1>2, <1>3, <2>1, <2>2, <2>3, HandledKeeps DEF Answer
<1>4. CASE Present \/ Gone
  <2>1. UNCHANGED <<buffer, wire, tasks, resent, accepted>>
    BY <1>4 DEF Present, Gone, mucVars
  <2>2. \A m \in Messages : (Has(back, m)' => Has(back, m)) /\ (Single(back, m) => Single(back, m)')
    BY <1>2, <1>4 DEF Present, Gone
  <2> QED
    BY <2>1, <2>2 DEF PlaceInv, OneWritten, OnePlace, OnceAccepted, ToSend, ToResend, UnderWay
<1>5. CASE Conflict
  <2> DEFINE t == <<"retry", NoMessage>>
  <2>1. \A m \in Messages : (Has(back, m)' => Has(back, m)) /\ (Single(back, m) => Single(back, m)')
    BY <1>2, <1>5 DEF Conflict
  <2>2. accepted' = accepted /\ t \in Task
    BY <1>5, Tasks DEF Conflict, mucVars
  <2>3. CASE UNCHANGED <<buffer, wire, tasks, handle, resent, events>>
    BY <2>1, <2>2, <2>3 DEF PlaceInv, OneWritten, OnePlace, OnceAccepted, ToSend, ToResend, UnderWay
  <2>4. CASE Head(back).nick \in Names /\ JoinChat(t, Suffixed(Head(back).nick), handle)
    <3>1. Handled(t)
      BY <1>1, <2>2, <2>4, NickFacts, JoinChatHandled
    <3>2. \A x \in Messages : Holds(t, x)
      BY DEF Holds
    <3> HIDE DEF t
    <3> QED
      BY <2>1, <2>2, <3>1, <3>2, HandledKeeps
  <2> QED
    BY <1>5, <2>3, <2>4 DEF Conflict
<1>6. CASE Rejected
  <2> DEFINE s == Head(back)
  <2>1. Received("rejected")
    BY <1>6 DEF Rejected
  <2>2. s \in Proper /\ s.kind = "rejected" /\ s.task \in Speakers
    BY <1>2, <2>1 DEF Proper
  <2>3. PICK m \in Messages : m = s.task[2] /\ Carries(s, m)
    BY <2>2 DEF Speakers, Carries
  <2> DEFINE t == <<"error", m>>
  <2>9. t \in Task
    BY <2>3, Tasks
  <2>4. At(t, "idle") /\ accepted' = accepted
    BY <1>6, <2>3 DEF Rejected, mucVars
  <2> HIDE DEF t
  <2>10. back' = Tail(back) /\ back # <<>> /\ Carries(Head(back), m)
    BY <1>2, <2>1, <2>3
  <2> HIDE DEF s
  <2>5. Has(back, m) /\ ~Has(back, m)'
    <3>1. Single(back, m)
      BY <2>3 DEF PlaceInv
    <3>2. Has(back, m) /\ ~Has(Tail(back), m)
      BY <1>1, <2>10, <3>1, TailCarries
    <3> QED
      BY <2>10, <3>2
  <2>6. \A x \in Messages : x # m => Holds(t, x)
    BY DEF Holds, t
  <2>7. Handled(t)
    <3>1. CASE handle = NoNick
      <4> SUFFICES ASSUME NEW x \in Messages, OneWritten(x), Speaks(t, x) => ~UnderWay(x)
                   PROVE  HandledOf(t, x)
        BY DEF Handled
      <4>1. /\ UNCHANGED <<tasks, handle, buffer>> /\ Resent(t)
            /\ wire' = wire \o Afterwards(t)
        BY <1>6, <2>3, <3>1 DEF Rejected, t, s
      <4>2. wire \in Seq(Proper)
        BY <1>1 DEF HandlersOK
      <4>3. OneWritten(x)' /\ (UnderWay(x)' => UnderWay(x) \/ Speaks(t, x))
        <5>1. /\ Has(wire', x) <=> Has(wire, x) \/ Speaks(t, x)
              /\ Single(wire, x) /\ ~(Has(wire, x) /\ Speaks(t, x)) => Single(wire', x)
          BY <2>9, <4>1, <4>2, Voice, WhoSpeaks, ConcatCarries DEF Speaks
        <5> QED
          BY <4>1, <5>1 DEF OneWritten, UnderWay
      <4>4. t # <<"send", x>>
        BY DEF t
      <4>5. t = <<"error", x>> => x \in resent'
        BY <4>1 DEF Resent, t
      <4>6. resent \subseteq resent'
        BY <4>1 DEF Resent
      <4> QED
        BY <4>1, <4>3, <4>4, <4>5, <4>6 DEF HandledOf, ToSend, ToResend
    <3>2. CASE handle # NoNick
      <4>1. JoinChat(t, handle, NoNick)
        BY <1>6, <2>3, <3>2 DEF Rejected, t, s
      <4> QED
        BY <1>1, <2>9, <3>2, <4>1, NickFacts, JoinChatHandled
    <3> QED
      BY <3>1, <3>2
  <2>8. t = <<"error", m>>
    BY DEF t
  <2>11. \A x \in Messages :
            /\ Has(back, x)' => Has(back, x)
            /\ Single(back, x) => Single(back, x)'
            /\ Holds(t, x) \/ (Has(back, x) /\ ~Has(back, x)' /\ t = <<"error", x>>)
    BY <1>2, <2>1, <2>5, <2>6, <2>8
  <2> QED
    BY <2>4, <2>7, <2>9, <2>11, HandledKeeps
<1> QED
  BY <1>3, <1>4, <1>5, <1>6 DEF FromMuc

\* Stanzas go from the buffer to the stream, or are lost.
LEMMA StreamPlace ==
    ASSUME TypeInv, PlaceInv, Cut \/ Online \/ \E i \in DOMAIN back : Late(i)
    PROVE  PlaceInv'
<1> SUFFICES ASSUME NEW m \in Messages
             PROVE  (OneWritten(m) /\ Single(back, m) /\ OnePlace(m) /\ OnceAccepted(m))'
  BY DEF PlaceInv
<1>0. /\ OneWritten(m) /\ Single(back, m) /\ OnePlace(m) /\ OnceAccepted(m)
      /\ buffer \in Seq(Proper) /\ wire \in Seq(Proper) /\ back \in Seq(Proper)
  BY DEF PlaceInv, TypeInv, HandlersOK, OthersOK
<1>1. CASE Cut
  <2>1. wire' = <<>> /\ back' = <<>> /\ UNCHANGED <<buffer, tasks, resent, accepted>>
    BY <1>1 DEF Cut, bridgeVars
  <2>2. ~Has(wire', m) /\ Single(wire', m) /\ ~Has(back', m) /\ Single(back', m)
    BY <2>1, EmptyCarries
  <2> QED
    BY <1>0, <2>1, <2>2 DEF OneWritten, OnePlace, OnceAccepted, ToSend, ToResend, UnderWay
<1>2. CASE Online
  <2> DEFINE t == <<"reconnect", NoMessage>>
             probe == ForceReconnect /\ handle # NoNick /\ At(t, "idle")
             first == IF probe THEN <<St("ping", handle, t)>> ELSE <<>>
  <2>1. t \in Task /\ (probe => handle \in Nicks) /\ HandlersOK
    BY Tasks, NickFacts DEF TypeInv, OthersOK
  <2>2. first \in Seq(Proper) /\ ~Has(first, m) /\ Single(first, m)
    <3>1. CASE probe
      <4> DEFINE ping == <<St("ping", handle, t)>>
      <4>1. ping \in Seq(Proper) /\ ~Has(ping, m) /\ Single(ping, m)
        BY <2>1, <3>1, NoVoice
      <4>2. first = ping
        BY <3>1
      <4> HIDE DEF ping, first
      <4> QED
        BY <4>1, <4>2
    <3>2. CASE ~probe
      <4>1. first = <<>>
        BY <3>2
      <4>2. <<>> \in Seq(Proper)
        OBVIOUS
      <4> HIDE DEF first
      <4> QED
        BY <4>1, <4>2, EmptyCarries
    <3> QED
      BY <3>1, <3>2
  <2>3. PICK flushed \in {buffer, Outdated(buffer)} : wire' = first \o flushed
    BY <1>2 DEF Online
  <2>4. tasks' = (IF probe THEN Moved(t, "probing", handle) ELSE tasks)
    BY <1>2 DEF Online
  <2>5. buffer' = <<>> /\ UNCHANGED <<back, resent, accepted>>
    BY <1>2 DEF Online, bridgeVars, mucVars
  <2>6. \A u \in Task : tasks'[u].stage = tasks[u].stage \/ (u = t /\ tasks'[u].stage = "probing")
    BY <2>1, <2>4, MovedStages
  <2>7. tasks'[<<"send", m>>].stage = tasks[<<"send", m>>].stage /\ tasks'[<<"error", m>>].stage = tasks[<<"error", m>>].stage
    BY <2>6, Tasks
  <2> HIDE DEF t, probe, first
  <2>8. /\ Has(wire', m) => Has(buffer, m)
        /\ Single(wire', m) /\ ~Has(buffer', m) /\ Single(buffer', m)
    <3>1. flushed \in Seq(Proper) /\ Single(flushed, m) /\ (Has(flushed, m) <=> Has(buffer, m))
      BY <1>0, OutdatedType, OutdatedCarries DEF OneWritten
    <3> QED
      BY <2>2, <2>3, <2>5, <3>1, ConcatCarries, EmptyCarries
  <2> QED
    BY <1>0, <2>5, <2>7, <2>8 DEF OneWritten, OnePlace, OnceAccepted, ToSend, ToResend, UnderWay
<1>3. ASSUME NEW i \in DOMAIN back, Late(i)
      PROVE  (OneWritten(m) /\ Single(back, m) /\ OnePlace(m) /\ OnceAccepted(m))'
  <2>1. back' = RemoveAt(back, i) /\ UNCHANGED <<buffer, wire, tasks, resent, accepted>>
    BY <1>3 DEF Late, bridgeVars, mucVars
  <2>2. (Has(back', m) => Has(back, m)) /\ Single(back', m)
    BY <1>0, <2>1, RemoveCarries
  <2> QED
    BY <1>0, <2>1, <2>2 DEF OneWritten, OnePlace, OnceAccepted, ToSend, ToResend, UnderWay
<1> QED
  BY <1>1, <1>2, <1>3

LEMMA SaidInPassing ==
    ASSUME NEW q \in Seq(Proper), NEW x \in Proper, NEW m, ~Carries(x, m), NEW r \in {Append(q, x), q \o <<x>>}
    PROVE  /\ r \in Seq(Proper)
           /\ Has(r, m) => Has(q, m)
           /\ Single(q, m) => Single(r, m)
<1>1. r = Append(q, x)
  BY AppendIsConcat
<1> QED
  BY <1>1, AppendCarries

LEMMA AcceptedOneMore ==
    ASSUME NEW a \in Seq(Messages), NEW x \in Messages, NEW m
    PROVE  /\ Contains(Append(a, x), m) <=> Contains(a, m) \/ x = m
           /\ (\A i, j \in 1..Len(a) : a[i] = m /\ a[j] = m => i = j) /\ ~(Contains(a, m) /\ x = m)
              => \A i, j \in 1..Len(Append(a, x)) : Append(a, x)[i] = m /\ Append(a, x)[j] = m => i = j
<1> DEFINE b == Append(a, x)
<1>1. /\ Len(b) = Len(a) + 1 /\ Len(a) \in Nat
      /\ \A i \in 1..Len(a) : b[i] = a[i] /\ i \in 1..Len(b)
      /\ b[Len(a) + 1] = x
      /\ \A i \in 1..Len(b) : i \in 1..Len(a) \/ i = Len(a) + 1
  OBVIOUS
<1> HIDE DEF b
<1>2. Contains(b, m) <=> Contains(a, m) \/ x = m
  BY <1>1 DEF Contains
<1>3. (\A i, j \in 1..Len(a) : a[i] = m /\ a[j] = m => i = j) /\ ~(Contains(a, m) /\ x = m)
      => \A i, j \in 1..Len(b) : b[i] = m /\ b[j] = m => i = j
  BY <1>1 DEF Contains
<1> QED
  BY <1>2, <1>3 DEF b

\* The MUC accepts a message, or sends it back.
LEMMA ServePlace ==
    ASSUME TypeInv, PlaceInv, Serve
    PROVE  PlaceInv'
<1> SUFFICES ASSUME NEW m \in Messages
             PROVE  (OneWritten(m) /\ Single(back, m) /\ OnePlace(m) /\ OnceAccepted(m))'
  BY DEF PlaceInv
<1> DEFINE s == Head(wire)
<1>1. /\ OneWritten(m) /\ Single(back, m) /\ OnePlace(m) /\ OnceAccepted(m)
      /\ wire \in Seq(Proper) /\ back \in Seq(Proper) /\ accepted \in Seq(Messages)
      /\ occupant \in MaybeNick
  BY DEF PlaceInv, TypeInv, HandlersOK, OthersOK
<1>2. wire # <<>> /\ wire' = Tail(wire) /\ UNCHANGED <<buffer, tasks, resent>>
  BY DEF Serve, bridgeVars
<1>3. /\ Has(wire', m) => Has(wire, m)
      /\ Carries(s, m) => Has(wire, m)
      /\ Single(wire', m)
      /\ ~(Carries(s, m) /\ Has(wire', m))
  BY <1>1, <1>2, TailCarries DEF OneWritten
<1>4. OneWritten(m)' /\ (UnderWay(m)' => UnderWay(m)) /\ (ToSend(m)' <=> ToSend(m)) /\ (ToResend(m)' <=> ToResend(m))
  BY <1>1, <1>2, <1>3 DEF OneWritten, UnderWay, ToSend, ToResend
<1>5. Carries(s, m) => UnderWay(m) /\ ~UnderWay(m)'
  BY <1>1, <1>2, <1>3 DEF OneWritten, UnderWay
<1>6. s \in Proper
  BY <1>1, <1>2
<1>7. CASE s.kind = "message"
  <2>1. s.task \in Task /\ s.task[2] \in Messages /\ (Carries(s, m) <=> s.task[2] = m)
    BY <1>6, <1>7, Tasks DEF Proper, Speakers, Carries
  <2>2. CASE accepted' = Append(accepted, s.task[2]) /\ back' = back
    <3>1. Contains(accepted, m)' <=> Contains(accepted, m) \/ s.task[2] = m
      BY <1>1, <2>1, <2>2, AcceptedOneMore
    <3>2. ~(Contains(accepted, m) /\ s.task[2] = m)
      BY <1>1, <1>5, <2>1 DEF OnePlace
    <3>3. OnceAccepted(m)'
      <4> DEFINE a == Append(accepted, s.task[2])
      <4>1. \A i, j \in 1..Len(a) : a[i] = m /\ a[j] = m => i = j
        BY <1>1, <2>1, <3>2, AcceptedOneMore DEF OnceAccepted
      <4>2. accepted' = a
        BY <2>2
      <4> HIDE DEF a
      <4> QED
        BY <4>1, <4>2 DEF OnceAccepted
    <3>4. OnePlace(m)'
      BY <1>1, <1>4, <1>5, <2>1, <2>2, <3>1 DEF OnePlace
    <3> QED
      BY <1>1, <1>4, <2>2, <3>3, <3>4
  <2>3. CASE back' = Append(back, St("rejected", NoNick, s.task)) /\ accepted' = accepted
    <3> DEFINE r == St("rejected", NoNick, s.task)
    <3>1. r \in Proper /\ (Carries(r, m) <=> Carries(s, m))
      BY <1>6, <1>7, <2>1, NickFacts DEF St, Carries, Proper, Stanza
    <3> HIDE DEF r
    <3>2. back' = Append(back, r)
      BY <2>3 DEF r
    <3>3. (Has(back', m) <=> Has(back, m) \/ Carries(s, m)) /\ (~(Has(back, m) /\ Carries(s, m)) => Single(back', m))
      BY <1>1, <3>1, <3>2, AppendCarries
    <3>4. ~(Has(back, m) /\ Carries(s, m))
      BY <1>1, <1>5 DEF OnePlace
    <3>5. OnePlace(m)'
      BY <1>1, <1>4, <1>5, <2>3, <3>3 DEF OnePlace
    <3> QED
      BY <1>1, <1>4, <2>3, <3>3, <3>4, <3>5 DEF OnceAccepted
  <2> QED
    BY <1>7, <2>2, <2>3 DEF Serve
<1>8. CASE s.kind # "message"
  <2>1. accepted' = accepted
    BY <1>8 DEF Serve
  <2>2. \A k \in {"conflict", "gone", "present", "pong", "nopong"} : \A n \in MaybeNick :
           ~Carries(St(k, n, s.task), m)
    BY DEF St, Carries
  <2>3. (Has(back', m) => Has(back, m)) /\ Single(back', m)
    <3>1. CASE s.kind = "join"
      <4> DEFINE gone == St("gone", occupant, s.task)
                 present == St("present", s.nick, s.task)
                 conflict == St("conflict", s.nick, s.task)
      <4>1. gone \in Proper /\ present \in Proper /\ conflict \in Proper
        BY <1>1, <1>6, <3>1 DEF St, Proper, Stanza
      <4>2. ~Carries(gone, m) /\ ~Carries(present, m) /\ ~Carries(conflict, m)
        BY DEF St, Carries
      <4>3. \/ back' = Append(back, conflict)
            \/ back' = back \o <<present>>
            \/ back' = Append(back, gone) \o <<present>>
        BY <3>1 DEF Serve
      <4> HIDE DEF gone, present, conflict
      <4>4. CASE back' = Append(back, conflict)
        BY <1>1, <4>1, <4>2, <4>4, SaidInPassing
      <4>5. CASE back' = back \o <<present>>
        BY <1>1, <4>1, <4>2, <4>5, SaidInPassing
      <4>6. CASE back' = Append(back, gone) \o <<present>>
        <5> DEFINE q == Append(back, gone)
        <5>1. q \in Seq(Proper) /\ (Has(q, m) => Has(back, m)) /\ Single(q, m)
          BY <1>1, <4>1, <4>2, SaidInPassing
        <5>2. back' = q \o <<present>>
          BY <4>6
        <5> HIDE DEF q
        <5> QED
          BY <4>1, <4>2, <5>1, <5>2, SaidInPassing
      <4> QED
        BY <4>3, <4>4, <4>5, <4>6
    <3>2. CASE s.kind # "join"
      <4>1. CASE back' = back
        BY <1>1, <4>1
      <4>2. ASSUME back' # back
            PROVE  \E x \in Proper : ~Carries(x, m) /\ back' = Append(back, x)
        <5>1. CASE s.kind = "part"
          <6>1. back' = Append(back, St("gone", occupant, s.task))
            BY <4>2, <5>1 DEF Serve
          <6>2. St("gone", occupant, s.task) \in Proper /\ ~Carries(St("gone", occupant, s.task), m)
            BY <1>1, <1>6 DEF St, Proper, Stanza, Carries
          <6> QED
            BY <6>1, <6>2
        <5>2. CASE s.kind = "ping"
          <6>1. PICK k \in {"pong", "nopong"} : back' = Append(back, St(k, s.nick, s.task))
            BY <5>2 DEF Serve
          <6>2. St(k, s.nick, s.task) \in Proper /\ ~Carries(St(k, s.nick, s.task), m)
            BY <1>6, <5>2 DEF St, Proper, Stanza, Carries
          <6> QED
            BY <6>1, <6>2
        <5> QED
          BY <1>8, <3>2, <4>2, <5>1, <5>2 DEF Serve
      <4> QED
        BY <1>1, <4>1, <4>2, SaidInPassing
    <3> QED
      BY <3>1, <3>2
  <2> QED
    BY <1>1, <1>4, <2>1, <2>3 DEF OnePlace, OnceAccepted
<1> QED
  BY <1>7, <1>8

LEMMA MucPlace ==
    ASSUME TypeInv, PlaceInv, Drop \/ Kick \/ \E n \in Names : Take(n)
    PROVE  PlaceInv'
<1> SUFFICES ASSUME NEW m \in Messages
             PROVE  (OneWritten(m) /\ Single(back, m) /\ OnePlace(m) /\ OnceAccepted(m))'
  BY DEF PlaceInv
<1>1. /\ OneWritten(m) /\ Single(back, m) /\ OnePlace(m) /\ OnceAccepted(m)
      /\ back \in Seq(Proper) /\ occupant \in MaybeNick
  BY DEF PlaceInv, TypeInv, OthersOK
<1>2. UNCHANGED <<buffer, wire, tasks, resent, accepted>>
  BY DEF Drop, Kick, Take, streamVars, bridgeVars
<1>3. (Has(back', m) => Has(back, m)) /\ Single(back', m)
  <2>1. CASE Kick
    <3> DEFINE gone == St("gone", occupant, NoMessage)
    <3>1. gone \in Proper /\ ~Carries(gone, m)
      BY <1>1 DEF St, Proper, Stanza, Carries
    <3>2. back' = Append(back, gone)
      BY <2>1 DEF Kick
    <3> HIDE DEF gone
    <3> QED
      BY <1>1, <3>1, <3>2, SaidInPassing
  <2>2. CASE Drop \/ \E n \in Names : Take(n)
    BY <1>1, <2>2 DEF Drop, Take, streamVars
  <2> QED
    BY <2>1, <2>2
<1> QED
  BY <1>1, <1>2, <1>3 DEF OneWritten, OnePlace, OnceAccepted, ToSend, ToResend, UnderWay

LEMMA NextPlace ==
    ASSUME TypeInv, PlaceInv, [Next]_vars
    PROVE  PlaceInv'
<1>1. CASE UNCHANGED vars
  BY <1>1 DEF vars, streamVars, bridgeVars, mucVars, PlaceInv, OneWritten, OnePlace, OnceAccepted, ToSend, ToResend, UnderWay
<1>2. CASE Next
  BY <1>2, MatrixPlace, GoesOnPlace, FromMucPlace, StreamPlace, ServePlace, MucPlace DEF Next
<1> QED
  BY <1>1, <1>2

LEMMA PlaceImplies == TypeInv /\ PlaceInv => AcceptedOnce
<1> SUFFICES ASSUME TypeInv, PlaceInv, NEW i \in DOMAIN accepted, NEW j \in DOMAIN accepted, accepted[i] = accepted[j]
             PROVE  i = j
  BY DEF AcceptedOnce
<1>1. accepted \in Seq(Messages) /\ i \in 1..Len(accepted) /\ j \in 1..Len(accepted)
  BY DEF TypeInv, OthersOK
<1>2. accepted[i] \in Messages
  BY <1>1
<1> QED
  BY <1>1, <1>2 DEF PlaceInv, OnceAccepted

\* No message is ever accepted twice, however rejections, rejoins under another
\* nick, writes that fail and lost streams overlap: a message is in one place
\* at a time, and its rejection is taken from there before it is sent again.
THEOREM MessagesAcceptedOnce == Spec => []AcceptedOnce
<1>1. Init => TypeInv /\ PlaceInv
  BY InitType, InitPlace
<1>2. TypeInv /\ PlaceInv /\ [Next]_vars => TypeInv' /\ PlaceInv'
  BY NextType, NextPlace
<1> QED
  BY <1>1, <1>2, PlaceImplies, PTL DEF Spec

-----------------------------------------------------------------------------
=============================================================================
