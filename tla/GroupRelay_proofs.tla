------------------------- MODULE GroupRelay_proofs -------------------------
(***************************************************************************)
(* What holds of GroupRelay for every number of users, messages and        *)
(* events.                                                                 *)
(***************************************************************************)
EXTENDS GroupRelay, SequenceTheorems, FiniteSetTheorems, TLAPS

-----------------------------------------------------------------------------
(* Types                                                                   *)

LEMMA TaskUsers ==
    /\ \A t \in Task : UserOf(t) \in Users
    /\ \A t \in Task \ Users : t \in OwnMessages /\ UserOf(t) = Owner[t]
BY GroupRelayAssumption DEF Task, UserOf

LEMMA BroadcastType ==
    ASSUME TypeOK, NEW m \in Report
    PROVE  /\ Broadcast(m) \in [Users -> Seq(Report)]
           /\ \A u \in Users : Broadcast(m)[u] = IF u \in occupants THEN Append(inbox[u], m) ELSE inbox[u]
BY DEF Broadcast, TypeOK

LEMMA SayType ==
    ASSUME TypeOK, NEW m \in OwnMessages, Say(m)
    PROVE  /\ expected' \in [OwnMessages -> Nat]
           /\ inbox' \in [Users -> Seq(Report)]
           /\ log' \in Seq(Message)
<1>1. m \in Message /\ m \in Report
  BY DEF Message, Report
<1>2. expected' \in [OwnMessages -> Nat]
  BY DEF Say, Insert, Hashes, TypeOK
<1>3. inbox' \in [Users -> Seq(Report)] /\ log' \in Seq(Message)
  <2>1. Broadcast(m) \in [Users -> Seq(Report)] /\ Append(log, m) \in Seq(Message)
    BY <1>1, BroadcastType DEF TypeOK
  <2>2. \/ inbox' = Broadcast(m) /\ log' = Append(log, m)
        \/ inbox' = inbox /\ log' = log
    BY DEF Say
  <2> QED
    BY <2>1, <2>2 DEF TypeOK
<1> QED
  BY <1>2, <1>3

LEMMA RestType ==
    ASSUME TypeOK, NEW u \in Users, inbox[u] # <<>>
    PROVE  /\ Rest(u) \in [Users -> Seq(Report)]
           /\ Rest(u)[u] = Tail(inbox[u])
           /\ \A x \in Users \ {u} : Rest(u)[x] = inbox[x]
BY DEF Rest, TypeOK

LEMMA InitType == Init => TypeOK
BY DEF Init, TypeOK

LEMMA MatrixType ==
    ASSUME TypeOK,
           \/ \E m \in OwnMessages : SendMessage(m)
           \/ \E t \in Task : GoesOn(t)
           \/ \E u \in Users : MatrixJoin(u) \/ MatrixLeave(u) \/ Unlock(u)
    PROVE  TypeOK'
<1>1. ASSUME NEW m \in OwnMessages, SendMessage(m) PROVE TypeOK'
  <2>0. Owner[m] \in Users /\ m \in Task
    BY GroupRelayAssumption DEF Task
  <2>1. CASE Say(m)
    <3>1. /\ tasks' \in [Task -> {"idle", "deferred", "joining", "joined", "done"}]
          /\ props' \subseteq Users /\ request' \subseteq Users
      BY <1>1, <2>0 DEF SendMessage, JoinChat, TypeOK
    <3> QED
      BY <1>1, <2>1, <3>1, SayType DEF SendMessage, TypeOK
  <2>2. CASE ~Say(m)
    BY <1>1, <2>0, <2>2 DEF SendMessage, TypeOK
  <2> QED
    BY <2>1, <2>2
<1>2. ASSUME NEW t \in Task, GoesOn(t) PROVE TypeOK'
  <2>1. CASE t \in Users
    BY <1>2, <2>1 DEF GoesOn, TypeOK
  <2>2. CASE t \notin Users
    <3>1. t \in OwnMessages /\ Say(t)
      BY <1>2, <2>2, TaskUsers DEF GoesOn
    <3>2. tasks' \in [Task -> {"idle", "deferred", "joining", "joined", "done"}]
      BY <1>2 DEF GoesOn, TypeOK
    <3> QED
      BY <1>2, <3>1, <3>2, SayType DEF GoesOn, TypeOK
  <2> QED
    BY <2>1, <2>2
<1>3. ASSUME NEW u \in Users, MatrixJoin(u) PROVE TypeOK'
  <2>1. happened' \in Nat
    BY <1>3 DEF MatrixJoin, Happens, TypeOK
  <2>2. u \in Task
    BY DEF Task
  <2> QED
    BY <1>3, <2>1, <2>2 DEF MatrixJoin, JoinChat, TypeOK, dedupVars
<1>4. ASSUME NEW u \in Users, MatrixLeave(u) PROVE TypeOK'
  <2>1. happened' \in Nat /\ counter' \in Nat /\ counted' \in [Users -> Nat]
    BY <1>4 DEF MatrixLeave, Happens, Decrement, TypeOK
  <2>2. chosen' \in Users \cup {NoUser}
    BY <1>4 DEF MatrixLeave, WithoutChosen, TypeOK
  <2> QED
    BY <1>4, <2>1, <2>2 DEF MatrixLeave, TypeOK
<1>5. ASSUME NEW u \in Users, Unlock(u) PROVE TypeOK'
  BY <1>5 DEF Unlock, Happens, TypeOK, chatVars, dedupVars
<1> QED
  BY <1>1, <1>2, <1>3, <1>4, <1>5

LEMMA ReportedType ==
    ASSUME TypeOK, NEW u \in Users, Reported(u)
    PROVE  TypeOK'
<1>0. inbox[u] # <<>> /\ inbox' = Rest(u) /\ inbox' \in [Users -> Seq(Report)]
  BY RestType DEF Reported, ChatJoined, SignedOn, SignedOff, ChatMessage, Polled
<1>1. CASE ChatJoined(u)
  <2>1. tasks' \in [Task -> {"idle", "deferred", "joining", "joined", "done"}]
    BY <1>1 DEF ChatJoined, TypeOK
  <2> QED
    BY <1>0, <1>1, <2>1 DEF ChatJoined, TypeOK
<1>2. CASE SignedOn(u)
  <2>1. tasks' \in [Task -> {"idle", "deferred", "joining", "joined", "done"}]
    BY <1>2 DEF SignedOn, TypeOK
  <2>2. props' \subseteq Users /\ request' \subseteq Users
    BY <1>2 DEF SignedOn, JoinChat, TypeOK
  <2> QED
    BY <1>0, <1>2, <2>1, <2>2 DEF SignedOn, TypeOK, dedupVars
<1>3. CASE SignedOff(u)
  BY <1>0, <1>3 DEF SignedOff, WithoutChosen, TypeOK
<1>4. CASE ChatMessage(u)
  <2>1. PICK m \in Message : Head(inbox[u]) = m
    BY <1>4 DEF ChatMessage, Polled
  <2>2. expected' \in [OwnMessages -> Nat]
    <3>1. expected' = expected \/ (Expects(m) /\ expected' = [expected EXCEPT ![m] = @ - 1])
      BY <1>4, <2>1 DEF ChatMessage
    <3>2. Expects(m) => m \in OwnMessages /\ expected[m] - 1 \in Nat
      BY DEF Expects, TypeOK
    <3> QED
      BY <3>1, <3>2 DEF TypeOK
  <2>3. chosen' \in Users \cup {NoUser}
    BY <1>4 DEF ChatMessage, TypeOK
  <2>4. relayed' \in [Message -> Seq(Users)]
    <3>1. relayed' = relayed \/ relayed' = [relayed EXCEPT ![m] = Append(@, u)]
      BY <1>4, <2>1 DEF ChatMessage
    <3>2. Append(relayed[m], u) \in Seq(Users)
      BY DEF TypeOK
    <3> QED
      BY <3>1, <3>2 DEF TypeOK
  <2>5. ignored' \in [Remote -> SUBSET Users]
    BY <1>4, <2>1 DEF ChatMessage, TypeOK
  <2>6. left' \in [Remote -> SUBSET Users]
    BY <1>4, <2>1 DEF ChatMessage, IsChosen, TypeOK
  <2> QED
    BY <1>0, <1>4, <2>2, <2>3, <2>4, <2>5, <2>6 DEF ChatMessage, TypeOK
<1> QED
  BY <1>1, <1>2, <1>3, <1>4 DEF Reported

LEMMA ChatType ==
    ASSUME TypeOK,
           \/ \E u \in Users : Enter(u) \/ SignOn(u) \/ SignOff(u)
           \/ \E r \in Remote : RemoteSays(r)
    PROVE  TypeOK'
<1>0. Message \subseteq Report
  BY DEF Report
<1>1. ASSUME NEW u \in Users, Enter(u) PROVE TypeOK'
  <2>1. <<"joined">> \in Seq(Report) /\ log \in Seq(Report) /\ inbox[u] \in Seq(Report)
    BY <1>0 DEF Report, TypeOK
  <2>2. inbox[u] \o <<"joined">> \o log \in Seq(Report)
    BY <2>1, ConcatProperties
  <2> QED
    BY <1>1, <2>2 DEF Enter, TypeOK, dedupVars
<1>2. ASSUME NEW u \in Users, SignOn(u) \/ SignOff(u) PROVE TypeOK'
  <2>1. "on" \in Report /\ "off" \in Report
    BY DEF Report
  <2>2. inbox' \in [Users -> Seq(Report)]
    <3>1. inbox' = [inbox EXCEPT ![u] = Append(@, "on")] \/ inbox' = [inbox EXCEPT ![u] = Append(@, "off")]
      BY <1>2 DEF SignOn, SignOff
    <3>2. Append(inbox[u], "on") \in Seq(Report) /\ Append(inbox[u], "off") \in Seq(Report)
      BY <2>1 DEF TypeOK
    <3> QED
      BY <3>1, <3>2 DEF TypeOK
  <2>3. happened' \in Nat
    BY <1>2 DEF SignOn, SignOff, Happens, TypeOK
  <2> QED
    BY <1>2, <2>2, <2>3 DEF SignOn, SignOff, TypeOK, dedupVars
<1>3. ASSUME NEW r \in Remote, RemoteSays(r) PROVE TypeOK'
  <2>1. r \in Message /\ r \in Report
    BY DEF Message, Report
  <2> QED
    BY <1>3, <2>1, BroadcastType DEF RemoteSays, TypeOK, dedupVars
<1> QED
  BY <1>1, <1>2, <1>3

LEMMA NextType ==
    ASSUME TypeOK, [Next]_vars
    PROVE  TypeOK'
<1>1. CASE UNCHANGED vars
  BY <1>1 DEF vars, chatVars, dedupVars, TypeOK
<1> QED
  BY <1>1, MatrixType, ReportedType, ChatType DEF Next

\* Every variable keeps its type, whatever is polled in whatever order.
THEOREM RelayTypes == Spec => []TypeOK
BY InitType, NextType, PTL DEF Spec

-----------------------------------------------------------------------------
(* Reports of one message in an inbox                                      *)

Once(s, r) == \A i, j \in 1..Len(s) : s[i] = r /\ s[j] = r => i = j

\* Every copy of r comes behind a join: it finds the account locked.
Guarded(s, r) ==
    \A i \in 1..Len(s) : s[i] = r => \E k \in 1..Len(s) : k < i /\ s[k] = "joined"

\* Between two copies of r there is a join.
Separate(s, r) ==
    \A i, j \in 1..Len(s) : i < j /\ s[i] = r /\ s[j] = r =>
        \E k \in 1..Len(s) : i < k /\ k < j /\ s[k] = "joined"

LEMMA TailKeeps ==
    ASSUME NEW S, NEW s \in Seq(S), s # <<>>, NEW r
    PROVE  /\ Separate(s, r) => Separate(Tail(s), r)
           /\ Separate(s, r) /\ Head(s) = r /\ r # "joined" => Guarded(Tail(s), r)
           /\ Guarded(s, r) /\ Head(s) # "joined" => Guarded(Tail(s), r)
           /\ Contains(Tail(s), r) => Contains(s, r)
<1>1. /\ Len(Tail(s)) = Len(s) - 1 /\ Len(s) \in Nat \ {0} /\ Head(s) = s[1]
      /\ \A i \in 1..Len(Tail(s)) : Tail(s)[i] = s[i + 1] /\ i + 1 \in 1..Len(s)
  BY HeadTailProperties, LenProperties, EmptySeq
<1>2. \A k \in 1..Len(s) : k > 1 => k - 1 \in 1..Len(Tail(s)) /\ Tail(s)[k - 1] = s[k]
  BY <1>1
<1>3. ASSUME Separate(s, r) PROVE Separate(Tail(s), r)
  <2> SUFFICES ASSUME NEW i \in 1..Len(Tail(s)), NEW j \in 1..Len(Tail(s)), i < j,
                      Tail(s)[i] = r, Tail(s)[j] = r
               PROVE  \E k \in 1..Len(Tail(s)) : i < k /\ k < j /\ Tail(s)[k] = "joined"
    BY DEF Separate
  <2>1. PICK k \in 1..Len(s) : i + 1 < k /\ k < j + 1 /\ s[k] = "joined"
    BY <1>1, <1>3 DEF Separate
  <2>2. k - 1 \in 1..Len(Tail(s)) /\ i < k - 1 /\ k - 1 < j /\ Tail(s)[k - 1] = "joined"
    BY <1>2, <2>1
  <2> QED
    BY <2>2
<1>4. ASSUME Separate(s, r), Head(s) = r, r # "joined" PROVE Guarded(Tail(s), r)
  <2> SUFFICES ASSUME NEW i \in 1..Len(Tail(s)), Tail(s)[i] = r
               PROVE  \E k \in 1..Len(Tail(s)) : k < i /\ Tail(s)[k] = "joined"
    BY DEF Guarded
  <2>1. PICK k \in 1..Len(s) : 1 < k /\ k < i + 1 /\ s[k] = "joined"
    BY <1>1, <1>4 DEF Separate
  <2>2. k - 1 \in 1..Len(Tail(s)) /\ k - 1 < i /\ Tail(s)[k - 1] = "joined"
    BY <1>2, <2>1
  <2> QED
    BY <2>2
<1>5. ASSUME Guarded(s, r), Head(s) # "joined" PROVE Guarded(Tail(s), r)
  <2> SUFFICES ASSUME NEW i \in 1..Len(Tail(s)), Tail(s)[i] = r
               PROVE  \E k \in 1..Len(Tail(s)) : k < i /\ Tail(s)[k] = "joined"
    BY DEF Guarded
  <2>1. PICK k \in 1..Len(s) : k < i + 1 /\ s[k] = "joined"
    BY <1>1, <1>5 DEF Guarded
  <2>2. k > 1
    BY <1>1, <1>5, <2>1
  <2>3. k - 1 \in 1..Len(Tail(s)) /\ k - 1 < i /\ Tail(s)[k - 1] = "joined"
    BY <1>2, <2>1, <2>2
  <2> QED
    BY <2>3
<1>6. Contains(Tail(s), r) => Contains(s, r)
  BY <1>1 DEF Contains
<1> QED
  BY <1>3, <1>4, <1>5, <1>6

LEMMA AppendKeeps ==
    ASSUME NEW S, NEW s \in Seq(S), NEW e \in S, NEW r
    PROVE  /\ Contains(Append(s, e), r) <=> Contains(s, r) \/ e = r
           /\ Separate(s, r) /\ (e # r \/ ~Contains(s, r)) => Separate(Append(s, e), r)
           /\ Guarded(s, r) /\ e # r => Guarded(Append(s, e), r)
           /\ Once(s, r) /\ (e # r \/ ~Contains(s, r)) => Once(Append(s, e), r)
<1>1. /\ Len(Append(s, e)) = Len(s) + 1 /\ Len(s) \in Nat
      /\ \A i \in 1..Len(s) : Append(s, e)[i] = s[i]
      /\ Append(s, e)[Len(s) + 1] = e
  BY AppendProperties, LenProperties
<1>2. \A i \in 1..Len(Append(s, e)) : i \in 1..Len(s) \/ i = Len(s) + 1
  BY <1>1
<1>3. 1..Len(s) \subseteq 1..Len(Append(s, e)) /\ Len(s) + 1 \in 1..Len(Append(s, e))
  BY <1>1
<1>4. Contains(Append(s, e), r) <=> Contains(s, r) \/ e = r
  BY <1>1, <1>2, <1>3 DEF Contains
<1>5. Separate(s, r) /\ (e # r \/ ~Contains(s, r)) => Separate(Append(s, e), r)
  BY <1>1, <1>2, <1>3 DEF Separate, Contains
<1>6. Guarded(s, r) /\ e # r => Guarded(Append(s, e), r)
  BY <1>1, <1>2, <1>3 DEF Guarded
<1>7. Once(s, r) /\ (e # r \/ ~Contains(s, r)) => Once(Append(s, e), r)
  BY <1>1, <1>2, <1>3 DEF Once, Contains
<1> QED
  BY <1>4, <1>5, <1>6, <1>7

\* The history behind a join.
LEMMA HistoryKeeps ==
    ASSUME NEW S, "joined" \in S, NEW s \in Seq(S), NEW h \in Seq(S), NEW r, r # "joined"
    PROVE  LET t == s \o <<"joined">> \o h
           IN  /\ Contains(t, r) => Contains(s, r) \/ Contains(h, r)
               /\ Separate(s, r) /\ Once(h, r) => Separate(t, r)
               /\ Guarded(s, r) => Guarded(t, r)
<1> DEFINE j == <<"joined">>
           t == s \o j \o h
           n == Len(s)
<1>1. j \in Seq(S) /\ Len(j) = 1 /\ j[1] = "joined"
  BY DEF j
<1>2. s \o j \in Seq(S) /\ Len(s \o j) = n + 1 /\ (s \o j)[n + 1] = "joined"
      /\ \A i \in 1..n : (s \o j)[i] = s[i]
  BY <1>1, ConcatProperties, LenProperties
<1>3. /\ Len(t) = n + 1 + Len(h) /\ n \in Nat /\ Len(h) \in Nat
      /\ t[n + 1] = "joined" /\ (\A i \in 1..n : t[i] = s[i])
      /\ \A i \in 1..Len(t) : i > n + 1 => t[i] = h[i - n - 1] /\ i - n - 1 \in 1..Len(h)
  BY <1>2, ConcatProperties, LenProperties
<1>4. /\ \A i \in 1..Len(t) : i \in 1..n \/ i = n + 1 \/ i > n + 1
      /\ 1..n \subseteq 1..Len(t) /\ n + 1 \in 1..Len(t)
  BY <1>3
<1> HIDE DEF t, n, j
<1>5. Contains(t, r) => Contains(s, r) \/ Contains(h, r)
  BY <1>3, <1>4 DEF Contains, n
<1>6. ASSUME Separate(s, r), Once(h, r) PROVE Separate(t, r)
  <2> SUFFICES ASSUME NEW a \in 1..Len(t), NEW b \in 1..Len(t), a < b, t[a] = r, t[b] = r
               PROVE  \E k \in 1..Len(t) : a < k /\ k < b /\ t[k] = "joined"
    BY DEF Separate
  <2>1. CASE b \in 1..n
    BY <2>1, <1>3, <1>4, <1>6 DEF Separate, n
  <2>2. CASE a \in 1..n /\ b > n + 1
    BY <2>2, <1>3, <1>4
  <2>3. CASE a > n + 1
    <3>1. /\ h[a - n - 1] = r /\ a - n - 1 \in 1..Len(h)
          /\ h[b - n - 1] = r /\ b - n - 1 \in 1..Len(h)
      BY <2>3, <1>3
    <3>2. a - n - 1 = b - n - 1
      BY <3>1, <1>6 DEF Once
    <3> QED
      BY <3>2, <1>3
  <2> QED
    BY <2>1, <2>2, <2>3, <1>3, <1>4
<1>7. ASSUME Guarded(s, r) PROVE Guarded(t, r)
  BY <1>3, <1>4, <1>7 DEF Guarded, n
<1> QED
  BY <1>5, <1>6, <1>7 DEF t, j

-----------------------------------------------------------------------------
(* Who repeats a message                                                   *)

\* A remote message is said once, and nobody hears it before.
SaidOnce(r) ==
    /\ Once(log, r)
    /\ \A u \in Users : Contains(inbox[u], r) => Contains(log, r)
    /\ relayed[r] # <<>> => Contains(log, r)

\* Two copies in one inbox come with two joins, and the join locks the
\* account: what it has relayed it will find locked, or behind a join.
CopiesApart(r) ==
    \A u \in Users :
        /\ Separate(inbox[u], r)
        /\ Contains(relayed[r], u) => u \in locked \/ Guarded(inbox[u], r)

\* An account gives its place as the chosen one up only when it goes.
SpeakersGo(r) ==
    /\ \A i \in 1..Len(relayed[r]) : relayed[r][i] \in gone \cup {chosen}
    /\ \A i, j \in 1..Len(relayed[r]) :
            i < j => relayed[r][i] # relayed[r][j] /\ relayed[r][i] \in gone

RelayInv == \A r \in Remote : SaidOnce(r) /\ CopiesApart(r) /\ SpeakersGo(r)

LEMMA RemoteMessages ==
    \A r \in Remote : r \in Message /\ r \in Report /\ r \notin {"joined", "on", "off"} /\ r \notin OwnMessages
BY GroupRelayAssumption DEF Message, Report

LEMMA InitRelay == Init => RelayInv
<1> SUFFICES ASSUME Init, NEW r \in Remote PROVE SaidOnce(r) /\ CopiesApart(r) /\ SpeakersGo(r)
  BY DEF RelayInv
<1>1. relayed[r] = <<>> /\ log = <<>> /\ \A u \in Users : inbox[u] = <<>>
  BY RemoteMessages DEF Init
<1>2. Len(<<>>) = 0 /\ 1..0 = {}
  OBVIOUS
<1> QED
  BY <1>1, <1>2 DEF SaidOnce, CopiesApart, SpeakersGo, Once, Separate, Contains

\* Accounts may be locked, chosen ones may go.
LEMMA QuietKeeps ==
    ASSUME TypeOK, RelayInv, log' = log, inbox' = inbox, relayed' = relayed,
           locked \subseteq locked', gone \subseteq gone', chosen \in gone' \cup {chosen', NoUser}
    PROVE  RelayInv'
<1> SUFFICES ASSUME NEW r \in Remote PROVE SaidOnce(r)' /\ CopiesApart(r)' /\ SpeakersGo(r)'
  BY DEF RelayInv
<1>1. SaidOnce(r)' /\ CopiesApart(r)'
  BY DEF RelayInv, SaidOnce, CopiesApart
<1>2. relayed[r] \in Seq(Users)
  BY RemoteMessages DEF TypeOK
<1>3. \A i \in 1..Len(relayed[r]) : relayed[r][i] # NoUser
  BY <1>2, GroupRelayAssumption
<1>4. SpeakersGo(r)'
  BY <1>3 DEF RelayInv, SpeakersGo
<1> QED
  BY <1>1, <1>4

\* Something new is said in the chat.
LEMMA NewsKeeps ==
    ASSUME TypeOK, RelayInv, NEW m \in Message, m \in Remote => ~Contains(log, m),
           log' = Append(log, m), inbox' = Broadcast(m),
           UNCHANGED <<relayed, locked, gone, chosen>>
    PROVE  RelayInv'
<1> SUFFICES ASSUME NEW r \in Remote PROVE SaidOnce(r)' /\ CopiesApart(r)' /\ SpeakersGo(r)'
  BY DEF RelayInv
<1>0. SaidOnce(r) /\ CopiesApart(r) /\ SpeakersGo(r)
  BY DEF RelayInv
<1>1. m \in Report /\ log \in Seq(Message) /\ (m # r \/ ~Contains(log, r))
  BY DEF Report, TypeOK
<1>2. Once(log, r)' /\ (Contains(log, r)' <=> Contains(log, r) \/ m = r)
  BY <1>0, <1>1, AppendKeeps DEF SaidOnce
<1>3. ASSUME NEW u \in Users
      PROVE  /\ Contains(inbox[u], r)' => Contains(inbox[u], r) \/ m = r
             /\ Separate(inbox[u], r)'
             /\ Contains(relayed[r], u) => u \in locked \/ Guarded(inbox[u], r)'
  <2>1. inbox'[u] = Append(inbox[u], m) \/ inbox'[u] = inbox[u]
    BY <1>1, BroadcastType
  <2>2. inbox[u] \in Seq(Report) /\ (m # r \/ ~Contains(inbox[u], r))
    BY <1>0, <1>1 DEF TypeOK, SaidOnce
  <2>3. Contains(relayed[r], u) => m # r
    <3>1. relayed[r] = <<>> => ~Contains(relayed[r], u)
      BY DEF Contains
    <3> QED
      BY <3>1, <1>0, <1>1 DEF SaidOnce
  <2>4. CASE inbox'[u] = Append(inbox[u], m)
    BY <1>0, <1>1, <2>2, <2>3, <2>4, AppendKeeps DEF CopiesApart
  <2>5. CASE inbox'[u] = inbox[u]
    BY <1>0, <2>5 DEF CopiesApart
  <2> QED
    BY <2>1, <2>4, <2>5
<1>4. SaidOnce(r)' /\ CopiesApart(r)'
  BY <1>0, <1>2, <1>3 DEF SaidOnce, CopiesApart
<1>5. SpeakersGo(r)'
  BY <1>0 DEF SpeakersGo
<1> QED
  BY <1>4, <1>5

LEMMA SayKeeps ==
    ASSUME TypeOK, RelayInv, NEW m \in OwnMessages, Say(m), UNCHANGED <<relayed, locked, gone, chosen>>
    PROVE  RelayInv'
<1>1. m \in Message /\ m \notin Remote
  BY RemoteMessages DEF Message
<1>2. \/ inbox' = Broadcast(m) /\ log' = Append(log, m)
      \/ inbox' = inbox /\ log' = log
  BY DEF Say
<1> QED
  BY <1>1, <1>2, NewsKeeps, QuietKeeps

\* What an account has to report, without the first report.
LEMMA RestKeeps ==
    ASSUME TypeOK, RelayInv, NEW u \in Users, inbox[u] # <<>>, inbox' = Rest(u), NEW r \in Remote
    PROVE  \A x \in Users :
              /\ Contains(inbox[x], r)' => Contains(inbox[x], r)
              /\ Separate(inbox[x], r)'
              /\ Guarded(inbox[x], r) /\ (x = u => Head(inbox[u]) # "joined") => Guarded(inbox[x], r)'
              /\ x = u /\ Head(inbox[u]) = r => Guarded(inbox[x], r)'
<1> SUFFICES ASSUME NEW x \in Users
             PROVE  /\ Contains(inbox[x], r)' => Contains(inbox[x], r)
                    /\ Separate(inbox[x], r)'
                    /\ Guarded(inbox[x], r) /\ (x = u => Head(inbox[u]) # "joined") => Guarded(inbox[x], r)'
                    /\ x = u /\ Head(inbox[u]) = r => Guarded(inbox[x], r)'
  OBVIOUS
<1>1. inbox[x] \in Seq(Report) /\ Separate(inbox[x], r) /\ r # "joined"
  BY RemoteMessages DEF TypeOK, RelayInv, CopiesApart
<1>2. CASE x # u
  BY <1>1, <1>2, RestType
<1>3. CASE x = u
  <2>1. inbox'[u] = Tail(inbox[u])
    BY RestType
  <2> QED
    BY <1>1, <1>3, <2>1, TailKeeps
<1> QED
  BY <1>2, <1>3

\* Reports that are no messages.
LEMMA NewsOfAccountsKeeps ==
    ASSUME TypeOK, RelayInv, NEW u \in Users, ChatJoined(u) \/ SignedOn(u) \/ SignedOff(u)
    PROVE  RelayInv'
<1> SUFFICES ASSUME NEW r \in Remote PROVE SaidOnce(r)' /\ CopiesApart(r)' /\ SpeakersGo(r)'
  BY DEF RelayInv
<1>0. SaidOnce(r) /\ CopiesApart(r) /\ SpeakersGo(r)
  BY DEF RelayInv
<1>1. inbox[u] # <<>> /\ inbox' = Rest(u) /\ log' = log /\ relayed' = relayed
  BY DEF ChatJoined, SignedOn, SignedOff, Polled, dedupVars
<1>2. SaidOnce(r)'
  BY <1>0, <1>1, RestKeeps DEF SaidOnce
<1>3. CopiesApart(r)'
  <2> SUFFICES ASSUME NEW x \in Users, Contains(relayed[r], x)
               PROVE  x \in locked' \/ Guarded(inbox[x], r)'
    BY <1>1, RestKeeps DEF CopiesApart
  <2>1. x \in locked \/ Guarded(inbox[x], r)
    BY <1>0 DEF CopiesApart
  <2>2. CASE ChatJoined(u)
    BY <1>1, <2>1, <2>2, RestKeeps DEF ChatJoined
  <2>3. CASE SignedOn(u) \/ SignedOff(u)
    <3>1. Head(inbox[u]) # "joined" /\ locked' = locked
      BY <2>3 DEF SignedOn, SignedOff, Polled
    <3> QED
      BY <1>1, <2>1, <3>1, RestKeeps
  <2> QED
    BY <2>2, <2>3
<1>4. SpeakersGo(r)'
  <2>1. gone \subseteq gone' /\ chosen \in gone' \cup {chosen'}
    BY DEF ChatJoined, SignedOn, SignedOff, WithoutChosen, dedupVars
  <2> QED
    BY <1>0, <1>1, <2>1 DEF SpeakersGo
<1> QED
  BY <1>2, <1>3, <1>4

\* A message that the chosen one finds is not one that it has relayed.
LEMMA RelayKeeps ==
    ASSUME TypeOK, RelayInv, NEW u \in Users, ChatMessage(u)
    PROVE  RelayInv'
<1> SUFFICES ASSUME NEW r \in Remote PROVE SaidOnce(r)' /\ CopiesApart(r)' /\ SpeakersGo(r)'
  BY DEF RelayInv
<1>0. SaidOnce(r) /\ CopiesApart(r) /\ SpeakersGo(r)
  BY DEF RelayInv
<1>1. PICK m \in Message : inbox[u] # <<>> /\ Head(inbox[u]) = m
  BY DEF ChatMessage, Polled
<1>2. /\ inbox' = Rest(u) /\ UNCHANGED <<log, locked, gone>>
      /\ m # "joined"
  BY <1>1, GroupRelayAssumption DEF ChatMessage, Message
<1>3. /\ relayed[r] \in Seq(Users) /\ Len(relayed[r]) \in Nat
      /\ \A i \in 1..Len(relayed[r]) : relayed[r][i] \in Users /\ relayed[r][i] # NoUser
  BY RemoteMessages, GroupRelayAssumption DEF TypeOK
<1>4. CASE m = r /\ u \notin locked /\ chosen \in {NoUser, u} /\ chosen' = u
           /\ relayed' = [relayed EXCEPT ![m] = Append(@, u)]
  <2>1. inbox[u] \in Seq(Report) /\ inbox[u][1] = r /\ 1 \in 1..Len(inbox[u])
    BY <1>1, <1>4, HeadTailProperties, LenProperties, EmptySeq DEF TypeOK
  <2>2. ~Guarded(inbox[u], r)
    BY <2>1 DEF Guarded
  <2>3. ~Contains(relayed[r], u) /\ Contains(inbox[u], r)
    BY <1>0, <1>4, <2>1, <2>2 DEF CopiesApart, Contains
  <2>4. /\ relayed'[r] = Append(relayed[r], u)
        /\ Len(relayed'[r]) = Len(relayed[r]) + 1 /\ relayed'[r][Len(relayed[r]) + 1] = u
        /\ \A i \in 1..Len(relayed[r]) : relayed'[r][i] = relayed[r][i]
    BY <1>3, <1>4, AppendProperties DEF TypeOK
  <2>5. \A x \in Users : Contains(relayed'[r], x) <=> Contains(relayed[r], x) \/ x = u
    BY <1>3, <2>4, AppendKeeps
  <2>6. SaidOnce(r)'
    BY <1>0, <1>1, <1>2, <2>3, RestKeeps DEF SaidOnce
  <2>7. CopiesApart(r)'
    <3> SUFFICES ASSUME NEW x \in Users, Contains(relayed'[r], x)
                 PROVE  x \in locked' \/ Guarded(inbox[x], r)'
      BY <1>1, <1>2, RestKeeps DEF CopiesApart
    <3>1. CASE x = u
      BY <1>1, <1>2, <1>4, <3>1, RestKeeps
    <3>2. CASE x # u
      BY <1>0, <1>1, <1>2, <2>5, <3>2, RestKeeps DEF CopiesApart
    <3> QED
      BY <3>1, <3>2
  <2>8. \A i \in 1..Len(relayed[r]) : relayed[r][i] \in gone /\ relayed[r][i] # u
    <3> SUFFICES ASSUME NEW i \in 1..Len(relayed[r]) PROVE relayed[r][i] \in gone /\ relayed[r][i] # u
      OBVIOUS
    <3>1. relayed[r][i] # u
      BY <2>3 DEF Contains
    <3> QED
      BY <1>0, <1>3, <1>4, <3>1 DEF SpeakersGo
  <2>9. SpeakersGo(r)'
    <3>1. \A i \in 1..Len(relayed'[r]) : i \in 1..Len(relayed[r]) \/ i = Len(relayed[r]) + 1
      BY <1>3, <2>4
    <3> QED
      BY <1>0, <1>2, <1>3, <1>4, <2>4, <2>8, <3>1 DEF SpeakersGo
  <2> QED
    BY <2>6, <2>7, <2>9
<1>5. CASE relayed'[r] = relayed[r] /\ (chosen' = chosen \/ (chosen \in {NoUser, u} /\ chosen' = u))
  <2>1. SaidOnce(r)'
    BY <1>0, <1>1, <1>2, <1>5, RestKeeps DEF SaidOnce
  <2>2. CopiesApart(r)'
    BY <1>0, <1>1, <1>2, <1>5, RestKeeps DEF CopiesApart
  <2>3. SpeakersGo(r)'
    BY <1>0, <1>2, <1>3, <1>5 DEF SpeakersGo
  <2> QED
    BY <2>1, <2>2, <2>3
<1>6. \/ relayed' = relayed /\ chosen' = chosen
      \/ /\ u \notin locked /\ chosen \in {NoUser, u} /\ chosen' = u
         /\ relayed' = [relayed EXCEPT ![m] = Append(@, u)]
  BY <1>1 DEF ChatMessage, IsChosen
<1>7. m # r => [relayed EXCEPT ![m] = Append(@, u)][r] = relayed[r]
  BY RemoteMessages DEF TypeOK
<1> QED
  BY <1>4, <1>5, <1>6, <1>7

\* The lock is released behind the history.
LEMMA UnlockKeeps ==
    ASSUME TypeOK, RelayInv, "slow" \notin Environment, NEW u \in Users, Unlock(u)
    PROVE  RelayInv'
<1> SUFFICES ASSUME NEW r \in Remote PROVE SaidOnce(r)' /\ CopiesApart(r)' /\ SpeakersGo(r)'
  BY DEF RelayInv
<1>0. SaidOnce(r) /\ CopiesApart(r) /\ SpeakersGo(r)
  BY DEF RelayInv
<1>1. inbox[u] = <<>> /\ locked' = locked \ {u} /\ UNCHANGED <<inbox, log, relayed, gone, chosen>>
  BY DEF Unlock, Happens, chatVars, dedupVars
<1>2. Guarded(inbox[u], r)
  <2>1. Len(<<>>) = 0 /\ 1..0 = {}
    OBVIOUS
  <2> QED
    BY <1>1, <2>1 DEF Guarded
<1>3. SaidOnce(r)' /\ SpeakersGo(r)'
  BY <1>0, <1>1 DEF SaidOnce, SpeakersGo
<1>4. CopiesApart(r)'
  BY <1>0, <1>1, <1>2 DEF CopiesApart
<1> QED
  BY <1>3, <1>4

LEMMA ChatKeeps ==
    ASSUME TypeOK, RelayInv,
           \/ \E u \in Users : Enter(u) \/ SignOn(u) \/ SignOff(u)
           \/ \E r \in Remote : RemoteSays(r)
    PROVE  RelayInv'
<1>1. ASSUME NEW u \in Users, Enter(u) \/ SignOn(u) \/ SignOff(u), NEW r \in Remote
      PROVE  SaidOnce(r)' /\ CopiesApart(r)' /\ SpeakersGo(r)'
  <2>0. SaidOnce(r) /\ CopiesApart(r) /\ SpeakersGo(r) /\ r \notin {"joined", "on", "off"}
    BY RemoteMessages DEF RelayInv
  <2>1. UNCHANGED <<log, relayed, locked, gone, chosen>>
    BY <1>1 DEF Enter, SignOn, SignOff, dedupVars
  <2>2. inbox[u] \in Seq(Report) /\ log \in Seq(Report) /\ {"joined", "on", "off"} \subseteq Report
    BY DEF TypeOK, Message, Report
  <2>3. /\ Contains(inbox[u], r)' => Contains(inbox[u], r) \/ Contains(log, r)
        /\ Separate(inbox[u], r)'
        /\ Guarded(inbox[u], r) => Guarded(inbox[u], r)'
    <3>1. CASE Enter(u)
      <4>1. inbox'[u] = inbox[u] \o <<"joined">> \o log
        BY <3>1 DEF Enter, TypeOK
      <4> QED
        BY <2>0, <2>2, <4>1, HistoryKeeps DEF SaidOnce, CopiesApart
    <3>2. CASE SignOn(u) \/ SignOff(u)
      <4>1. PICK e \in {"on", "off"} : inbox'[u] = Append(inbox[u], e)
        BY <3>2 DEF SignOn, SignOff, TypeOK
      <4> QED
        BY <2>0, <2>2, <4>1, AppendKeeps DEF CopiesApart
    <3> QED
      BY <1>1, <3>1, <3>2
  <2>4. \A x \in Users \ {u} : inbox'[x] = inbox[x]
    BY <1>1 DEF Enter, SignOn, SignOff, TypeOK
  <2>5. ASSUME NEW x \in Users
        PROVE  /\ Contains(inbox[x], r)' => Contains(inbox[x], r) \/ Contains(log, r)
               /\ Separate(inbox[x], r)'
               /\ Guarded(inbox[x], r) => Guarded(inbox[x], r)'
    <3>1. CASE x = u
      BY <2>3, <3>1
    <3>2. CASE x # u
      BY <2>0, <2>4, <3>2 DEF CopiesApart
    <3> QED
      BY <3>1, <3>2
  <2> QED
    BY <2>0, <2>1, <2>5 DEF SaidOnce, CopiesApart, SpeakersGo
<1>2. ASSUME NEW r \in Remote, RemoteSays(r) PROVE RelayInv'
  BY <1>2, NewsKeeps, RemoteMessages DEF RemoteSays, dedupVars
<1> QED
  BY <1>1, <1>2 DEF RelayInv

LEMMA MatrixKeeps ==
    ASSUME TypeOK, RelayInv,
           \/ \E m \in OwnMessages : SendMessage(m)
           \/ \E t \in Task : GoesOn(t)
           \/ \E u \in Users : MatrixJoin(u) \/ MatrixLeave(u)
    PROVE  RelayInv'
<1>1. ASSUME NEW m \in OwnMessages, SendMessage(m) PROVE RelayInv'
  BY <1>1, SayKeeps, QuietKeeps DEF SendMessage
<1>2. ASSUME NEW t \in Task, GoesOn(t) PROVE RelayInv'
  BY <1>2, TaskUsers, SayKeeps, QuietKeeps DEF GoesOn
<1>3. ASSUME NEW u \in Users, MatrixJoin(u) \/ MatrixLeave(u) PROVE RelayInv'
  <2>1. gone \subseteq gone' /\ chosen \in gone' \cup {chosen'}
        /\ UNCHANGED <<log, inbox, relayed, locked>>
    BY <1>3 DEF MatrixJoin, MatrixLeave, WithoutChosen, dedupVars
  <2> QED
    BY <2>1, QuietKeeps
<1> QED
  BY <1>1, <1>2, <1>3

LEMMA NextRelay ==
    ASSUME TypeOK, RelayInv, [Next]_vars, "slow" \notin Environment
    PROVE  RelayInv'
<1>1. CASE UNCHANGED vars
  BY <1>1, QuietKeeps DEF vars, chatVars, dedupVars
<1> QED
  BY <1>1, MatrixKeeps, UnlockKeeps, NewsOfAccountsKeeps, RelayKeeps, ChatKeeps DEF Next, Reported

\* When a lock outlives the history that comes with a join, a remote message
\* is relayed again only by the successor of an account that has gone: never
\* twice by one account, however often it joins and reads the history.
THEOREM SuccessorsRepeat ==
    ASSUME "slow" \notin Environment
    PROVE  Spec => []RepeatedBySuccessors
<1>1. TypeOK /\ RelayInv => RepeatedBySuccessors
  <2> SUFFICES ASSUME TypeOK, RelayInv, NEW r \in Remote, NEW i \in DOMAIN relayed[r], NEW j \in DOMAIN relayed[r], i < j
               PROVE  relayed[r][i] # relayed[r][j] /\ relayed[r][i] \in gone
    BY DEF RepeatedBySuccessors
  <2>1. DOMAIN relayed[r] = 1..Len(relayed[r])
    BY RemoteMessages DEF TypeOK
  <2> QED
    BY <2>1 DEF RelayInv, SpeakersGo
<1>2. "slow" \notin Environment
  OBVIOUS
<1> QED
  BY <1>1, <1>2, InitType, InitRelay, NextType, NextRelay, PTL DEF Spec

-----------------------------------------------------------------------------
(* Who speaks for all                                                      *)

\* Every message is in front of the loss of the connection.
Followed(s) ==
    \A i \in 1..Len(s) : s[i] \in Message => \E k \in 1..Len(s) : i < k /\ s[k] = "off"

\* An account that is out of the chat learns of it behind all it has heard.
OutsidersLearn == \A u \in Users : u \in occupants \/ Followed(inbox[u])

LEMMA FollowedKeeps ==
    ASSUME NEW s \in Seq(Report)
    PROVE  /\ Followed(<<>>)
           /\ \A e \in {"on", "off"} : Followed(s) => Followed(Append(s, e))
           /\ Followed(Append(s, "off")) /\ Contains(Append(s, "off"), "off")
           /\ \A x : Contains(s, x) => Contains(Append(s, "on"), x)
           /\ s # <<>> /\ Followed(s) =>
                /\ Followed(Tail(s))
                /\ Head(s) \in Message => Contains(Tail(s), "off")
           /\ s # <<>> /\ Contains(s, "off") /\ Head(s) # "off" => Contains(Tail(s), "off")
<1>0. "on" \notin Message /\ "off" \notin Message /\ {"on", "off"} \subseteq Report
  BY GroupRelayAssumption DEF Message, Report
<1>1. Followed(<<>>)
  <2>1. Len(<<>>) = 0 /\ 1..0 = {}
    OBVIOUS
  <2> QED
    BY <2>1 DEF Followed
<1>2. ASSUME NEW e \in {"on", "off"}
      PROVE  /\ Len(Append(s, e)) = Len(s) + 1 /\ Len(s) \in Nat
             /\ \A i \in 1..Len(s) : Append(s, e)[i] = s[i] /\ i \in 1..Len(Append(s, e))
             /\ Append(s, e)[Len(s) + 1] = e /\ Len(s) + 1 \in 1..Len(Append(s, e))
             /\ \A i \in 1..Len(Append(s, e)) : i \in 1..Len(s) \/ i = Len(s) + 1
  BY <1>0, AppendProperties, LenProperties
<1>3. \A e \in {"on", "off"} : Followed(s) => Followed(Append(s, e))
  BY <1>0, <1>2 DEF Followed
<1>4. Followed(Append(s, "off")) /\ Contains(Append(s, "off"), "off")
  <2>1. Followed(Append(s, "off"))
    <3> SUFFICES ASSUME NEW i \in 1..Len(Append(s, "off")), Append(s, "off")[i] \in Message
                 PROVE  i < Len(s) + 1
      BY <1>2 DEF Followed
    <3> QED
      BY <1>0, <1>2
  <2> QED
    BY <1>2, <2>1 DEF Contains
<1>5. \A x : Contains(s, x) => Contains(Append(s, "on"), x)
  BY <1>2 DEF Contains
<1>6. ASSUME s # <<>>
      PROVE  /\ Len(Tail(s)) = Len(s) - 1 /\ Len(s) \in Nat \ {0} /\ Head(s) = s[1] /\ 1 \in 1..Len(s)
             /\ \A i \in 1..Len(Tail(s)) : Tail(s)[i] = s[i + 1] /\ i + 1 \in 1..Len(s)
             /\ \A k \in 1..Len(s) : k > 1 => k - 1 \in 1..Len(Tail(s)) /\ Tail(s)[k - 1] = s[k]
  <2>1. /\ Len(Tail(s)) = Len(s) - 1 /\ Len(s) \in Nat \ {0} /\ Head(s) = s[1]
        /\ \A i \in 1..Len(Tail(s)) : Tail(s)[i] = s[i + 1] /\ i + 1 \in 1..Len(s)
    BY <1>6, HeadTailProperties, LenProperties, EmptySeq
  <2> QED
    BY <2>1
<1>7. ASSUME s # <<>>, Followed(s) PROVE Followed(Tail(s))
  <2> SUFFICES ASSUME NEW i \in 1..Len(Tail(s)), Tail(s)[i] \in Message
               PROVE  \E k \in 1..Len(Tail(s)) : i < k /\ Tail(s)[k] = "off"
    BY DEF Followed
  <2>1. PICK k \in 1..Len(s) : i + 1 < k /\ s[k] = "off"
    BY <1>6, <1>7 DEF Followed
  <2>2. k - 1 \in 1..Len(Tail(s)) /\ i < k - 1 /\ Tail(s)[k - 1] = "off"
    BY <1>6, <1>7, <2>1
  <2> QED
    BY <2>2
<1>8. ASSUME s # <<>>, Followed(s), Head(s) \in Message PROVE Contains(Tail(s), "off")
  <2>1. PICK k \in 1..Len(s) : 1 < k /\ s[k] = "off"
    BY <1>6, <1>8 DEF Followed
  <2> QED
    BY <1>6, <1>8, <2>1 DEF Contains
<1>9. ASSUME s # <<>>, Contains(s, "off"), Head(s) # "off" PROVE Contains(Tail(s), "off")
  <2>1. PICK k \in 1..Len(s) : s[k] = "off"
    BY <1>9 DEF Contains
  <2>2. k > 1
    BY <1>6, <1>9, <2>1
  <2> QED
    BY <1>6, <1>9, <2>1, <2>2 DEF Contains
<1> QED
  BY <1>1, <1>3, <1>4, <1>5, <1>7, <1>8, <1>9

LEMMA ChosenUser == NoUser \notin Users
BY GroupRelayAssumption

LEMMA SpokenOutside ==
    ASSUME TypeOK, OutsidersLearn, ChosenOneIsThere, NEW m \in Message,
           inbox' = Broadcast(m) \/ inbox' = inbox, UNCHANGED <<occupants, chosen>>
    PROVE  OutsidersLearn' /\ ChosenOneIsThere'
<1>1. \A u \in Users \ occupants : inbox'[u] = inbox[u]
  BY BroadcastType DEF Message, Report
<1>2. OutsidersLearn'
  BY <1>1 DEF OutsidersLearn
<1>3. ChosenOneIsThere'
  BY <1>1 DEF ChosenOneIsThere, TypeOK
<1> QED
  BY <1>2, <1>3

LEMMA MatrixChosen ==
    ASSUME TypeOK, OutsidersLearn, ChosenOneIsThere, Environment \cap {"early", "refuse"} = {},
           \/ \E m \in OwnMessages : SendMessage(m)
           \/ \E t \in Task : GoesOn(t)
           \/ \E u \in Users : MatrixJoin(u) \/ MatrixLeave(u) \/ Unlock(u)
           \/ \E r \in Remote : RemoteSays(r)
    PROVE  OutsidersLearn' /\ ChosenOneIsThere'
<1>1. ASSUME NEW m \in OwnMessages, SendMessage(m) PROVE OutsidersLearn' /\ ChosenOneIsThere'
  <2>1. m \in Message /\ (inbox' = Broadcast(m) \/ inbox' = inbox) /\ UNCHANGED <<occupants, chosen>>
    BY <1>1 DEF SendMessage, Say, Message
  <2> QED
    BY <2>1, SpokenOutside
<1>2. ASSUME NEW t \in Task, GoesOn(t) PROVE OutsidersLearn' /\ ChosenOneIsThere'
  <2>1. CASE t \in Users
    BY <1>2, <2>1 DEF GoesOn, OutsidersLearn, ChosenOneIsThere
  <2>2. CASE t \notin Users
    <3>1. t \in Message /\ (inbox' = Broadcast(t) \/ inbox' = inbox) /\ UNCHANGED <<occupants, chosen>>
      BY <1>2, <2>2, TaskUsers DEF GoesOn, Say, Message
    <3> QED
      BY <3>1, SpokenOutside
  <2> QED
    BY <2>1, <2>2
<1>3. ASSUME NEW u \in Users, MatrixJoin(u) \/ Unlock(u) PROVE OutsidersLearn' /\ ChosenOneIsThere'
  <2>1. UNCHANGED <<inbox, occupants, chosen>>
    BY <1>3 DEF MatrixJoin, Unlock, chatVars, dedupVars
  <2> QED
    BY <2>1 DEF OutsidersLearn, ChosenOneIsThere
<1>4. ASSUME NEW u \in Users, MatrixLeave(u) PROVE OutsidersLearn' /\ ChosenOneIsThere'
  <2>1. inbox[u] = <<>>
    BY <1>4 DEF MatrixLeave, Happens
  <2>2. inbox' = inbox /\ occupants' = occupants \ {u} /\ chosen' = WithoutChosen(u)
    BY <1>4 DEF MatrixLeave
  <2>3. Followed(inbox[u])
    BY <2>1, FollowedKeeps DEF TypeOK
  <2> QED
    BY <2>2, <2>3 DEF OutsidersLearn, ChosenOneIsThere, WithoutChosen
<1>5. ASSUME NEW r \in Remote, RemoteSays(r) PROVE OutsidersLearn' /\ ChosenOneIsThere'
  BY <1>5, SpokenOutside, RemoteMessages DEF RemoteSays, dedupVars
<1> QED
  BY <1>1, <1>2, <1>3, <1>4, <1>5

LEMMA ReportedChosen ==
    ASSUME TypeOK, OutsidersLearn, ChosenOneIsThere, NEW u \in Users, Reported(u)
    PROVE  OutsidersLearn' /\ ChosenOneIsThere'
<1>1. /\ inbox[u] # <<>> /\ inbox[u] \in Seq(Report) /\ inbox' = Rest(u) /\ occupants' = occupants
      /\ inbox'[u] = Tail(inbox[u]) /\ \A x \in Users \ {u} : inbox'[x] = inbox[x]
  <2>1. inbox[u] # <<>> /\ inbox' = Rest(u) /\ occupants' = occupants
    <3>1. ChatJoined(u) \/ SignedOn(u) \/ SignedOff(u) => inbox[u] # <<>> /\ inbox' = Rest(u) /\ occupants' = occupants
      BY DEF ChatJoined, SignedOn, SignedOff, Polled
    <3>2. ChatMessage(u) => inbox[u] # <<>> /\ inbox' = Rest(u) /\ occupants' = occupants
      BY DEF ChatMessage, Polled
    <3> QED
      BY <3>1, <3>2 DEF Reported
  <2>2. inbox[u] \in Seq(Report)
    BY DEF TypeOK
  <2> QED
    BY <2>1, <2>2, RestType
<1>2. OutsidersLearn'
  <2>1. u \in occupants \/ Followed(inbox'[u])
    BY <1>1, FollowedKeeps DEF OutsidersLearn
  <2> QED
    BY <1>1, <2>1 DEF OutsidersLearn
<1>3. CASE SignedOff(u)
  BY <1>1, <1>2, <1>3, ChosenUser DEF SignedOff, WithoutChosen, ChosenOneIsThere, TypeOK
<1>4. CASE ChatJoined(u) \/ SignedOn(u)
  <2>1. Head(inbox[u]) # "off" /\ chosen' = chosen
    BY <1>4 DEF ChatJoined, SignedOn, Polled, dedupVars
  <2> QED
    BY <1>1, <1>2, <2>1, FollowedKeeps DEF ChosenOneIsThere, TypeOK
<1>5. CASE ChatMessage(u)
  <2>1. Head(inbox[u]) \in Message /\ Head(inbox[u]) # "off" /\ chosen' \in {chosen, u}
    BY <1>5, GroupRelayAssumption DEF ChatMessage, Polled, Message
  <2>2. u \in occupants \/ Contains(inbox'[u], "off")
    BY <1>1, <2>1, FollowedKeeps DEF OutsidersLearn
  <2>3. CASE chosen' = u
    BY <1>1, <1>2, <2>2, <2>3 DEF ChosenOneIsThere
  <2>4. CASE chosen' = chosen /\ chosen # u
    BY <1>1, <1>2, <2>1, <2>4, FollowedKeeps DEF ChosenOneIsThere, TypeOK
  <2> QED
    BY <2>1, <2>3, <2>4
<1> QED
  BY <1>2, <1>3, <1>4, <1>5 DEF Reported

LEMMA AccountsChosen ==
    ASSUME TypeOK, OutsidersLearn, ChosenOneIsThere, NEW u \in Users, Enter(u) \/ SignOn(u) \/ SignOff(u)
    PROVE  OutsidersLearn' /\ ChosenOneIsThere'
<1>1. \A x \in Users \ {u} : inbox'[x] = inbox[x] /\ (x \in occupants' <=> x \in occupants)
  BY DEF Enter, SignOn, SignOff, TypeOK
<1>2. chosen' = chosen /\ inbox[u] \in Seq(Report)
  BY DEF Enter, SignOn, SignOff, dedupVars, TypeOK
<1>3. /\ u \in occupants' \/ Followed(inbox'[u])
      /\ Contains(inbox[u], "off") \/ u \in occupants => Contains(inbox'[u], "off") \/ u \in occupants'
  <2>1. CASE Enter(u)
    BY <2>1 DEF Enter
  <2>2. CASE SignOn(u)
    <3>1. inbox'[u] = Append(inbox[u], "on") /\ occupants' = occupants
      BY <2>2 DEF SignOn, TypeOK
    <3> QED
      BY <1>2, <3>1, FollowedKeeps DEF OutsidersLearn
  <2>3. CASE SignOff(u)
    <3>1. inbox'[u] = Append(inbox[u], "off")
      BY <2>3 DEF SignOff, TypeOK
    <3> QED
      BY <1>2, <3>1, FollowedKeeps
  <2> QED
    BY <2>1, <2>2, <2>3
<1>4. OutsidersLearn'
  BY <1>1, <1>3 DEF OutsidersLearn
<1>5. ChosenOneIsThere'
  BY <1>1, <1>2, <1>3 DEF ChosenOneIsThere, TypeOK
<1> QED
  BY <1>4, <1>5

\* Where users leave only after their account has joined and has been heard
\* to the end, the chosen one is in the chat, or on its way to be found out.
THEOREM ChosenStays ==
    ASSUME Environment \cap {"early", "refuse"} = {}
    PROVE  Spec => []ChosenOneIsThere
<1>1. Init => OutsidersLearn /\ ChosenOneIsThere
  <2>1. <<>> \in Seq(Report)
    OBVIOUS
  <2> QED
    BY <2>1, FollowedKeeps DEF Init, OutsidersLearn, ChosenOneIsThere
<1>2. TypeOK /\ OutsidersLearn /\ ChosenOneIsThere /\ [Next]_vars => OutsidersLearn' /\ ChosenOneIsThere'
  <2> SUFFICES ASSUME TypeOK, OutsidersLearn, ChosenOneIsThere, [Next]_vars
               PROVE  OutsidersLearn' /\ ChosenOneIsThere'
    OBVIOUS
  <2>1. CASE UNCHANGED vars
    BY <2>1 DEF vars, chatVars, dedupVars, OutsidersLearn, ChosenOneIsThere
  <2> QED
    BY <2>1, MatrixChosen, ReportedChosen, AccountsChosen DEF Next
<1> QED
  BY <1>1, <1>2, InitType, NextType, PTL DEF Spec

-----------------------------------------------------------------------------
(* To whom a message is left                                               *)

LEMMA TailHolds ==
    ASSUME NEW S, NEW s \in Seq(S), s # <<>>, NEW x, Contains(s, x), Head(s) # x
    PROVE  Contains(Tail(s), x)
<1>1. /\ Len(Tail(s)) = Len(s) - 1 /\ Len(s) \in Nat \ {0} /\ Head(s) = s[1]
      /\ \A i \in 1..Len(Tail(s)) : Tail(s)[i] = s[i + 1] /\ i + 1 \in 1..Len(s)
  BY HeadTailProperties, LenProperties, EmptySeq
<1>2. PICK k \in 1..Len(s) : s[k] = x
  BY DEF Contains
<1>3. k - 1 \in 1..Len(Tail(s)) /\ Tail(s)[k - 1] = x
  BY <1>1, <1>2
<1> QED
  BY <1>3 DEF Contains

LEMMA HistoryHolds ==
    ASSUME NEW S, "joined" \in S, NEW s \in Seq(S), NEW h \in Seq(S), NEW x, Contains(s, x) \/ Contains(h, x)
    PROVE  Contains(s \o <<"joined">> \o h, x)
<1> DEFINE j == <<"joined">>
           t == s \o j \o h
<1>1. j \in Seq(S) /\ Len(j) = 1
  OBVIOUS
<1>2. s \o j \in Seq(S) /\ Len(s \o j) = Len(s) + 1 /\ \A i \in 1..Len(s) : (s \o j)[i] = s[i]
  BY <1>1, ConcatProperties, LenProperties
<1>3. /\ Len(t) = Len(s) + 1 + Len(h) /\ Len(s) \in Nat /\ Len(h) \in Nat
      /\ \A i \in 1..Len(s) : t[i] = s[i]
      /\ \A i \in 1..Len(t) : i > Len(s) + 1 => t[i] = h[i - Len(s) - 1]
  BY <1>2, ConcatProperties, LenProperties
<1> HIDE DEF t, j
<1>4. ASSUME Contains(s, x) PROVE Contains(t, x)
  BY <1>3, <1>4 DEF Contains
<1>5. ASSUME Contains(h, x) PROVE Contains(t, x)
  <2>1. PICK k \in 1..Len(h) : h[k] = x
    BY <1>5 DEF Contains
  <2>2. PICK i \in 1..Len(t) : i = k + Len(s) + 1
    BY <1>3, <2>1
  <2>3. i > Len(s) + 1 /\ i - Len(s) - 1 = k
    BY <1>3, <2>1, <2>2
  <2>4. t[i] = x
    BY <1>3, <2>1, <2>3
  <2> QED
    BY <2>4 DEF Contains
<1>6. Contains(t, x)
  BY <1>4, <1>5
<1> QED
  BY <1>6 DEF t, j

\* What is said is heard by those in the chat, and nothing is forgotten.
LEMMA BroadcastHolds ==
    ASSUME TypeOK, NEW m \in Message, NEW u \in Users, NEW x
    PROVE  /\ Contains(inbox[u], x) => Contains(Broadcast(m)[u], x)
           /\ Contains(Broadcast(m)[u], x) => Contains(inbox[u], x) \/ x = m
           /\ u \in occupants => Contains(Broadcast(m)[u], m)
<1>1. m \in Report /\ inbox[u] \in Seq(Report)
  BY DEF Report, TypeOK
<1>2. Broadcast(m)[u] = IF u \in occupants THEN Append(inbox[u], m) ELSE inbox[u]
  BY <1>1, BroadcastType
<1> QED
  BY <1>1, <1>2, AppendKeeps

LEMMA RestHolds ==
    ASSUME TypeOK, NEW u \in Users, inbox[u] # <<>>, NEW v \in Users, NEW x
    PROVE  /\ Contains(Rest(u)[v], x) => Contains(inbox[v], x)
           /\ Contains(inbox[v], x) /\ (v = u => Head(inbox[u]) # x) => Contains(Rest(u)[v], x)
<1>1. inbox[u] \in Seq(Report)
  BY DEF TypeOK
<1>2. CASE v = u
  BY <1>1, <1>2, RestType, TailKeeps, TailHolds
<1>3. CASE v # u
  BY <1>3, RestType
<1> QED
  BY <1>2, <1>3

\* Who is not in the chat has gone, or learns behind all it has heard that it
\* is out; so does the chosen one.
OutsidersKnow ==
    /\ \A u \in Users : u \in occupants \cup gone \/ Followed(inbox[u])
    /\ chosen = NoUser \/ chosen \in occupants \cup gone \/ Contains(inbox[chosen], "off")

\* What has been said has come to everyone in the chat, and nowhere else.
HeardByAll(r) ==
    /\ \A u \in Users : Contains(inbox[u], r) => Contains(log, r)
    /\ Contains(log, r) => \A u \in occupants : Excused(u, r) \/ relayed[r] # <<>> \/ left[r] # {}

\* Those to whom it was left are the chosen one and former ones.
LeftToChosen(r) == left[r] \subseteq gone \cup {chosen}

InHands(r) == left[r] # {} => relayed[r] # <<>> \/ \E u \in left[r] : Excused(u, r)

HandsInv == OutsidersKnow /\ \A r \in Remote : HeardByAll(r) /\ LeftToChosen(r) /\ InHands(r)

LEMMA InitHands == Init => HandsInv
<1> SUFFICES ASSUME Init PROVE HandsInv
  OBVIOUS
<1>1. <<>> \in Seq(Report) /\ log = <<>> /\ \A u \in Users : inbox[u] = <<>>
  BY DEF Init
<1>2. Followed(<<>>) /\ \A r : ~Contains(<<>>, r)
  <2>1. Len(<<>>) = 0 /\ 1..0 = {}
    OBVIOUS
  <2> QED
    BY <1>1, <2>1, FollowedKeeps DEF Contains
<1>3. occupants = {} /\ chosen = NoUser /\ \A r \in Remote : left[r] = {}
  BY DEF Init
<1> QED
  BY <1>1, <1>2, <1>3 DEF HandsInv, OutsidersKnow, HeardByAll, LeftToChosen, InHands

\* Nobody loses what excuses it, and nobody takes the place of the chosen one.
LEMMA ExcusesStay ==
    ASSUME TypeOK, HandsInv, NEW r \in Remote, UNCHANGED <<relayed, left>>,
           \A u \in Users : Excused(u, r) => Excused(u, r)',
           gone \subseteq gone', chosen \in gone' \cup {chosen', NoUser}
    PROVE  LeftToChosen(r)' /\ InHands(r)'
<1>1. left[r] \subseteq Users /\ NoUser \notin Users
  BY ChosenUser DEF TypeOK
<1>2. LeftToChosen(r)'
  BY <1>1 DEF HandsInv, LeftToChosen
<1>3. InHands(r)'
  <2> SUFFICES ASSUME left[r] # {}, relayed[r] = <<>> PROVE \E u \in left[r] : Excused(u, r)'
    BY DEF InHands
  <2>1. PICK u \in left[r] : Excused(u, r)
    BY DEF HandsInv, InHands
  <2>2. Excused(u, r)'
    BY <1>1, <2>1
  <2> QED
    BY <2>2
<1> QED
  BY <1>2, <1>3

LEMMA SpokenHands ==
    ASSUME TypeOK, HandsInv, NEW m \in Message,
           \/ inbox' = Broadcast(m) /\ log' = Append(log, m)
           \/ UNCHANGED <<inbox, log>>,
           UNCHANGED <<occupants, chosen, gone, relayed, left, ignored>>
    PROVE  HandsInv'
<1>1. CASE UNCHANGED <<inbox, log>>
  BY <1>1 DEF HandsInv, OutsidersKnow, HeardByAll, LeftToChosen, InHands, Excused
<1>2. CASE inbox' = Broadcast(m) /\ log' = Append(log, m)
  <2>1. ASSUME NEW u \in Users, NEW x
        PROVE  /\ Contains(inbox[u], x) => Contains(inbox'[u], x)
               /\ Contains(inbox'[u], x) => Contains(inbox[u], x) \/ x = m
               /\ u \in occupants => Contains(inbox'[u], m)
    BY <1>2, BroadcastHolds
  <2>2. ASSUME NEW x PROVE Contains(log', x) <=> Contains(log, x) \/ x = m
    BY <1>2, AppendKeeps DEF TypeOK
  <2>3. OutsidersKnow'
    <3>1. \A u \in Users \ occupants : inbox'[u] = inbox[u]
      BY <1>2, BroadcastType DEF Message, Report
    <3>2. chosen # NoUser => chosen \in Users
      BY DEF TypeOK
    <3> QED
      BY <2>1, <3>1, <3>2 DEF HandsInv, OutsidersKnow
  <2>4. ASSUME NEW r \in Remote PROVE HeardByAll(r)' /\ LeftToChosen(r)' /\ InHands(r)'
    <3>1. ASSUME NEW u \in Users, Excused(u, r) PROVE Excused(u, r)'
      BY <2>1, <3>1 DEF Excused
    <3>2. ASSUME NEW u \in Users, Contains(inbox'[u], r) PROVE Contains(log', r)
      BY <2>1, <2>2, <3>2 DEF HandsInv, HeardByAll
    <3>3. ASSUME Contains(log', r), NEW u \in occupants PROVE Excused(u, r)' \/ relayed[r] # <<>> \/ left[r] # {}
      <4>1. u \in Users
        BY DEF TypeOK
      <4>2. CASE r = m
        BY <2>1, <4>1, <4>2 DEF Excused
      <4>3. CASE r # m
        BY <2>2, <3>1, <3>3, <4>1, <4>3 DEF HandsInv, HeardByAll
      <4> QED
        BY <4>2, <4>3
    <3>4. HeardByAll(r)'
      BY <3>2, <3>3 DEF HeardByAll
    <3> QED
      BY <3>1, <3>4, ExcusesStay
  <2> QED
    BY <2>3, <2>4 DEF HandsInv
<1> QED
  BY <1>1, <1>2

LEMMA MatrixHands ==
    ASSUME TypeOK, HandsInv,
           \/ \E m \in OwnMessages : SendMessage(m)
           \/ \E t \in Task : GoesOn(t)
           \/ \E u \in Users : MatrixJoin(u) \/ MatrixLeave(u) \/ Unlock(u)
           \/ \E r \in Remote : RemoteSays(r)
    PROVE  HandsInv'
<1>0. UNCHANGED <<inbox, log, occupants, chosen, gone, relayed, left, ignored>> => HandsInv'
  BY DEF HandsInv, OutsidersKnow, HeardByAll, LeftToChosen, InHands, Excused
<1>1. ASSUME NEW m \in OwnMessages, SendMessage(m) PROVE HandsInv'
  BY <1>0, <1>1, SpokenHands DEF SendMessage, Say, Message
<1>2. ASSUME NEW t \in Task, GoesOn(t) PROVE HandsInv'
  <2>1. CASE t \in Users
    BY <1>0, <1>2, <2>1 DEF GoesOn
  <2>2. CASE t \notin Users
    BY <1>2, <2>2, TaskUsers, SpokenHands DEF GoesOn, Say, Message
  <2> QED
    BY <2>1, <2>2
<1>3. ASSUME NEW u \in Users, MatrixJoin(u) \/ Unlock(u) PROVE HandsInv'
  BY <1>0, <1>3 DEF MatrixJoin, Unlock, chatVars, dedupVars
<1>4. ASSUME NEW u \in Users, MatrixLeave(u) PROVE HandsInv'
  <2>1. /\ occupants' = occupants \ {u} /\ gone' = gone \cup {u} /\ chosen' = WithoutChosen(u)
        /\ UNCHANGED <<inbox, log, relayed, left, ignored>>
    BY <1>4 DEF MatrixLeave
  <2>2. OutsidersKnow'
    BY <2>1 DEF HandsInv, OutsidersKnow, WithoutChosen
  <2>3. ASSUME NEW r \in Remote PROVE HeardByAll(r)' /\ LeftToChosen(r)' /\ InHands(r)'
    <3>1. \A v \in Users : Excused(v, r) => Excused(v, r)'
      BY <2>1 DEF Excused
    <3>2. HeardByAll(r)'
      BY <2>1, <3>1 DEF HandsInv, HeardByAll, TypeOK
    <3> QED
      BY <2>1, <3>1, <3>2, ExcusesStay DEF WithoutChosen
  <2> QED
    BY <2>2, <2>3 DEF HandsInv
<1>5. ASSUME NEW r \in Remote, RemoteSays(r) PROVE HandsInv'
  BY <1>5, SpokenHands, RemoteMessages DEF RemoteSays, dedupVars
<1> QED
  BY <1>1, <1>2, <1>3, <1>4, <1>5

\* Reports that are no messages.
LEMMA ReportedHands ==
    ASSUME TypeOK, HandsInv, NEW u \in Users, ChatJoined(u) \/ SignedOn(u) \/ SignedOff(u)
    PROVE  HandsInv'
<1>1. /\ inbox[u] # <<>> /\ inbox' = Rest(u) /\ inbox[u] \in Seq(Report)
      /\ UNCHANGED <<log, occupants, relayed, left, ignored>>
      /\ Head(inbox[u]) \in {"joined", "on", "off"}
      /\ \/ Head(inbox[u]) # "off" /\ UNCHANGED <<chosen, gone>>
         \/ chosen' = WithoutChosen(u) /\ gone' = gone \cup {u}
  BY DEF ChatJoined, SignedOn, SignedOff, Polled, dedupVars, TypeOK
<1>2. inbox'[u] = Tail(inbox[u]) /\ \A v \in Users \ {u} : inbox'[v] = inbox[v]
  BY <1>1, RestType
<1>3. ASSUME NEW v \in Users, NEW x
      PROVE  /\ Contains(inbox'[v], x) => Contains(inbox[v], x)
             /\ Contains(inbox[v], x) /\ (v = u => Head(inbox[u]) # x) => Contains(inbox'[v], x)
  BY <1>1, RestHolds
<1>4. gone \subseteq gone' /\ chosen \in gone' \cup {chosen'}
  BY <1>1 DEF WithoutChosen
<1>5. OutsidersKnow'
  <2>1. \A v \in Users : v \in occupants' \cup gone' \/ Followed(inbox'[v])
    BY <1>1, <1>2, <1>4, FollowedKeeps DEF HandsInv, OutsidersKnow
  <2>2. chosen' = NoUser \/ chosen' \in occupants' \cup gone' \/ Contains(inbox'[chosen'], "off")
    BY <1>1, <1>3, <1>4 DEF HandsInv, OutsidersKnow, WithoutChosen, TypeOK
  <2> QED
    BY <2>1, <2>2 DEF OutsidersKnow
<1>6. ASSUME NEW r \in Remote PROVE HeardByAll(r)' /\ LeftToChosen(r)' /\ InHands(r)'
  <2>1. Head(inbox[u]) # r
    BY <1>1, RemoteMessages
  <2>2. ASSUME NEW v \in Users, Excused(v, r) PROVE Excused(v, r)'
    BY <1>1, <1>3, <1>4, <2>1, <2>2 DEF Excused
  <2>3. HeardByAll(r)'
    BY <1>1, <1>3, <2>2 DEF HandsInv, HeardByAll, TypeOK
  <2> QED
    BY <1>1, <1>4, <2>2, <2>3, ExcusesStay
<1> QED
  BY <1>5, <1>6 DEF HandsInv

\* A message that is left to the chosen one is still to come to it, or it has
\* been left to another before.
LEMMA MessageHands ==
    ASSUME TypeOK, HandsInv, NEW u \in Users, ChatMessage(u)
    PROVE  HandsInv'
<1>1. PICK m \in Message : inbox[u] # <<>> /\ Head(inbox[u]) = m
  BY DEF ChatMessage, Polled
<1>2. /\ inbox' = Rest(u) /\ inbox[u] \in Seq(Report) /\ UNCHANGED <<log, occupants, gone>>
      /\ m # "off"
  BY <1>1, GroupRelayAssumption DEF ChatMessage, Message, TypeOK
<1>3. inbox'[u] = Tail(inbox[u]) /\ \A v \in Users \ {u} : inbox'[v] = inbox[v]
  BY <1>1, <1>2, RestType
<1>4. ASSUME NEW v \in Users, NEW x
      PROVE  /\ Contains(inbox'[v], x) => Contains(inbox[v], x)
             /\ Contains(inbox[v], x) /\ (v = u => m # x) => Contains(inbox'[v], x)
  BY <1>1, <1>2, RestHolds
<1>5. chosen' = chosen \/ (chosen' = u /\ chosen \in {NoUser, u})
  BY DEF ChatMessage, IsChosen
<1>6. OutsidersKnow'
  <2>1. \A v \in Users : v \in occupants \cup gone \/ Followed(inbox'[v])
    BY <1>2, <1>1, <1>3, FollowedKeeps DEF HandsInv, OutsidersKnow
  <2>2. chosen' = NoUser \/ chosen' \in occupants \cup gone \/ Contains(inbox'[chosen'], "off")
    <3>1. u \in occupants \cup gone \/ Contains(inbox'[u], "off")
      BY <1>1, <1>2, <1>3, FollowedKeeps DEF HandsInv, OutsidersKnow
    <3>2. chosen # NoUser => chosen \in Users
      BY DEF TypeOK
    <3> QED
      BY <1>2, <1>4, <1>5, <3>1, <3>2 DEF HandsInv, OutsidersKnow
  <2> QED
    BY <1>2, <2>1, <2>2 DEF OutsidersKnow
<1>7. ASSUME NEW r \in Remote PROVE HeardByAll(r)' /\ LeftToChosen(r)' /\ InHands(r)'
  <2>0. /\ HeardByAll(r) /\ LeftToChosen(r) /\ InHands(r)
        /\ left[r] \subseteq Users /\ NoUser \notin Users /\ occupants \subseteq Users
        /\ r \in Message /\ r \notin OwnMessages
    BY ChosenUser, RemoteMessages DEF HandsInv, TypeOK
  <2>1. \A v \in Users : Contains(inbox'[v], r) => Contains(log', r)
    BY <1>2, <1>4, <2>0 DEF HeardByAll
  <2>2. CASE /\ relayed'[r] = relayed[r] /\ left'[r] = left[r]
             /\ \/ m # r /\ ignored'[r] = ignored[r]
                \/ m = r /\ ignored'[r] = ignored[r] \cup {u}
    <3>1. ASSUME NEW v \in Users, Excused(v, r) PROVE Excused(v, r)'
      BY <1>2, <1>4, <2>2, <3>1 DEF Excused
    <3>2. HeardByAll(r)'
      BY <1>2, <2>0, <2>1, <2>2, <3>1 DEF HeardByAll
    <3>3. LeftToChosen(r)'
      BY <1>2, <1>5, <2>0, <2>2 DEF LeftToChosen
    <3>4. InHands(r)'
      BY <2>0, <2>2, <3>1 DEF InHands
    <3> QED
      BY <3>2, <3>3, <3>4
  <2>3. CASE relayed'[r] # <<>> /\ left'[r] = left[r]
    BY <1>2, <1>5, <2>0, <2>1, <2>3 DEF HeardByAll, LeftToChosen, InHands
  <2>4. CASE /\ m = r /\ chosen \notin {NoUser, u} /\ chosen' = chosen
             /\ UNCHANGED <<relayed, ignored>> /\ left'[r] = left[r] \cup {chosen}
    <3>1. HeardByAll(r)' /\ LeftToChosen(r)'
      BY <1>2, <2>0, <2>1, <2>4 DEF HeardByAll, LeftToChosen
    <3>2. ASSUME NEW v \in Users, v # u, Excused(v, r) PROVE Excused(v, r)'
      BY <1>2, <1>3, <2>4, <3>2 DEF Excused
    <3>3. chosen \in Users /\ Contains(log, r)
      <4>1. Contains(inbox[u], r)
        <5>1. 1 \in 1..Len(inbox[u]) /\ inbox[u][1] = r
          BY <1>1, <1>2, <2>4, HeadTailProperties, LenProperties, EmptySeq
        <5> QED
          BY <5>1 DEF Contains
      <4> QED
        BY <2>0, <2>4, <4>1 DEF HeardByAll, TypeOK
    <3>4. PICK w \in Users : w = chosen
      BY <3>3
    <3>5. Excused(w, r) \/ relayed[r] # <<>> \/ left[r] # {}
      <4>1. CASE w \in occupants
        BY <2>0, <3>3, <4>1 DEF HeardByAll
      <4>2. CASE w \notin occupants
        BY <2>4, <3>4, <4>2 DEF HandsInv, OutsidersKnow, Excused
      <4> QED
        BY <4>1, <4>2
    <3>6. CASE Excused(w, r)
      <4>1. w # u /\ w \in left'[r]
        BY <2>4, <3>4
      <4>2. Excused(w, r)'
        BY <3>2, <3>6, <4>1
      <4>3. InHands(r)'
        BY <4>1, <4>2 DEF InHands
      <4> QED
        BY <3>1, <4>3
    <3>7. CASE relayed[r] # <<>>
      BY <2>4, <3>1, <3>7 DEF InHands
    <3>8. CASE left[r] # {} /\ relayed[r] = <<>>
      <4>1. PICK v \in left[r] : Excused(v, r)
        BY <2>0, <3>8 DEF InHands
      <4>2. v # u \/ u \in gone
        BY <2>0, <2>4 DEF LeftToChosen
      <4>3. v # u => Excused(v, r)'
        BY <2>0, <3>2, <4>1
      <4>4. u \in gone => Excused(u, r)'
        BY <1>2 DEF Excused
      <4>5. Excused(v, r)' /\ v \in left'[r]
        BY <2>4, <4>1, <4>2, <4>3, <4>4
      <4>6. InHands(r)'
        BY <4>5 DEF InHands
      <4> QED
        BY <3>1, <4>6
    <3> QED
      BY <3>1, <3>5, <3>6, <3>7, <3>8
  <2>5. \/ UNCHANGED <<relayed, left>> /\ ignored'[r] = ignored[r] \cup (IF m = r THEN {u} ELSE {})
        \/ m \in OwnMessages /\ UNCHANGED <<relayed, left, ignored>>
        \/ relayed' = [relayed EXCEPT ![m] = Append(@, u)] /\ UNCHANGED <<left, ignored>>
        \/ /\ chosen \notin {NoUser, u} /\ chosen' = chosen /\ UNCHANGED <<relayed, ignored>>
           /\ left'[r] = left[r] \cup (IF m = r THEN {chosen} ELSE {})
    BY <1>1 DEF ChatMessage, Expects, IsChosen
  <2>6. relayed' = [relayed EXCEPT ![m] = Append(@, u)] =>
            IF m = r THEN relayed'[r] # <<>> ELSE relayed'[r] = relayed[r]
    <3>1. relayed[r] \in Seq(Users) => Append(relayed[r], u) # <<>>
      OBVIOUS
    <3> QED
      BY <2>0, <3>1 DEF TypeOK
  <2> QED
    BY <2>0, <2>2, <2>3, <2>4, <2>5, <2>6
<1> QED
  BY <1>6, <1>7 DEF HandsInv

LEMMA AccountsHands ==
    ASSUME TypeOK, HandsInv, NEW u \in Users, Enter(u) \/ SignOn(u) \/ SignOff(u)
    PROVE  HandsInv'
<1>1. /\ UNCHANGED <<log, chosen, gone, relayed, left, ignored>>
      /\ inbox[u] \in Seq(Report) /\ log \in Seq(Report) /\ {"joined", "on", "off"} \subseteq Report
      /\ \A v \in Users \ {u} : inbox'[v] = inbox[v] /\ (v \in occupants' <=> v \in occupants)
      /\ occupants' \subseteq Users /\ (chosen = NoUser \/ chosen \in Users)
  BY DEF Enter, SignOn, SignOff, dedupVars, TypeOK, Message, Report
<1>2. ASSUME NEW x
      PROVE  /\ Contains(inbox[u], x) => Contains(inbox'[u], x)
             /\ Contains(inbox'[u], x) /\ x \notin {"joined", "on", "off"} => Contains(inbox[u], x) \/ Contains(log, x)
             /\ u \in occupants' /\ u \notin occupants /\ Contains(log, x) => Contains(inbox'[u], x)
  <2>1. CASE Enter(u)
    <3>1. inbox'[u] = inbox[u] \o <<"joined">> \o log
      BY <2>1 DEF Enter, TypeOK
    <3>2. Contains(inbox'[u], x) /\ x # "joined" => Contains(inbox[u], x) \/ Contains(log, x)
      BY <1>1, <3>1, HistoryKeeps
    <3>3. Contains(inbox[u], x) \/ Contains(log, x) => Contains(inbox'[u], x)
      BY <1>1, <3>1, HistoryHolds
    <3> QED
      BY <3>2, <3>3
  <2>2. CASE SignOn(u) \/ SignOff(u)
    <3>1. (\E e \in {"on", "off"} : inbox'[u] = Append(inbox[u], e)) /\ occupants' \subseteq occupants
      BY <2>2 DEF SignOn, SignOff, TypeOK
    <3> QED
      BY <1>1, <3>1, AppendKeeps
  <2> QED
    BY <2>1, <2>2
<1>3. /\ u \in occupants' \cup gone \/ Followed(inbox'[u])
      /\ u \in occupants => u \in occupants' \/ Contains(inbox'[u], "off")
  <2>1. CASE Enter(u)
    BY <2>1 DEF Enter
  <2>2. CASE SignOn(u)
    <3>1. inbox'[u] = Append(inbox[u], "on") /\ occupants' = occupants
      BY <2>2 DEF SignOn, TypeOK
    <3> QED
      BY <1>1, <3>1, FollowedKeeps DEF HandsInv, OutsidersKnow
  <2>3. CASE SignOff(u)
    <3>1. inbox'[u] = Append(inbox[u], "off")
      BY <2>3 DEF SignOff, TypeOK
    <3> QED
      BY <1>1, <3>1, FollowedKeeps
  <2> QED
    BY <2>1, <2>2, <2>3
<1>4. OutsidersKnow'
  BY <1>1, <1>2, <1>3 DEF HandsInv, OutsidersKnow
<1>5. ASSUME NEW r \in Remote PROVE HeardByAll(r)' /\ LeftToChosen(r)' /\ InHands(r)'
  <2>1. r \notin {"joined", "on", "off"} /\ HeardByAll(r)
    BY RemoteMessages DEF HandsInv
  <2>2. ASSUME NEW v \in Users, Excused(v, r) PROVE Excused(v, r)'
    BY <1>1, <1>2, <2>2 DEF Excused
  <2>3. ASSUME NEW v \in Users, Contains(inbox'[v], r) PROVE Contains(log, r)
    BY <1>1, <1>2, <2>1, <2>3 DEF HeardByAll
  <2>4. ASSUME Contains(log, r), NEW v \in occupants' PROVE Excused(v, r)' \/ relayed[r] # <<>> \/ left[r] # {}
    <3>1. CASE v \in occupants
      BY <1>1, <2>1, <2>2, <2>4, <3>1 DEF HeardByAll
    <3>2. CASE v \notin occupants
      BY <1>1, <1>2, <2>4, <3>2 DEF Excused
    <3> QED
      BY <3>1, <3>2
  <2>5. HeardByAll(r)'
    BY <1>1, <2>3, <2>4 DEF HeardByAll
  <2> QED
    BY <1>1, <2>2, <2>5, ExcusesStay
<1> QED
  BY <1>4, <1>5 DEF HandsInv

LEMMA NextHands ==
    ASSUME TypeOK, HandsInv, [Next]_vars
    PROVE  HandsInv'
<1>1. CASE UNCHANGED vars
  BY <1>1 DEF vars, chatVars, dedupVars, HandsInv, OutsidersKnow, HeardByAll, LeftToChosen, InHands, Excused
<1> QED
  BY <1>1, MatrixHands, ReportedHands, MessageHands, AccountsHands DEF Next, Reported

\* Whatever the environment does: when accounts leave a message to the chosen
\* one, it is relayed, or one of those it was left to has gone, was locked, or
\* will still hear of it.
THEOREM LeftMessagesRelayed == Spec => []LeftInGoodHands
<1>1. HandsInv => LeftInGoodHands
  BY DEF HandsInv, InHands, LeftInGoodHands
<1> QED
  BY <1>1, InitType, InitHands, NextType, NextHands, PTL DEF Spec

-----------------------------------------------------------------------------
(* Whose copies are expected                                               *)

LEMMA OwnReports ==
    \A m \in OwnMessages : m \in Message /\ m \in Report /\ m \in Task /\ m \notin {"joined", "on", "off"}
BY GroupRelayAssumption DEF Message, Report, Task

\* The counter stands for every account as often as it has joined.
Places == {p \in Users \X Nat : 1 <= p[2] /\ p[2] <= counted[p[1]]}

\* Accounts that are in the chat are counted, or have yet to report that they
\* have joined.
CountInv ==
    /\ IsFiniteSet(Places) /\ Cardinality(Places) = counter
    /\ \A u \in occupants : counted[u] > 0 \/ Contains(inbox[u], "joined")

\* The account u will hand a copy of m to the Deduplicator.
Hears(u, m) == u \notin locked /\ ~Guarded(inbox[u], m)
Hearers(m) == {p \in Users \X {1} : Hears(p[1], m)}

\* An own message is said once, and every copy that will be heard is expected.
CopiesInv(m) ==
    /\ Once(log, m) /\ (Contains(log, m) => tasks[m] = "done")
    /\ \A u \in Users : Separate(inbox[u], m) /\ (Contains(inbox[u], m) => Contains(log, m))
    /\ IsFiniteSet(Hearers(m)) /\ Cardinality(Hearers(m)) <= expected[m]
    /\ relayed[m] = <<>>

EchoInv == CountInv /\ \A m \in OwnMessages : CopiesInv(m)

LEMMA SilenceIsGuarded ==
    ASSUME NEW s, NEW m, ~Contains(s, m)
    PROVE  Guarded(s, m) /\ Separate(s, m)
BY DEF Contains, Guarded, Separate

LEMMA EmptyIsSilent == \A m : ~Contains(<<>>, m)
<1>1. Len(<<>>) = 0 /\ 1..0 = {}
  OBVIOUS
<1> QED
  BY <1>1 DEF Contains

LEMMA InitEcho == Init => EchoInv
<1> SUFFICES ASSUME Init PROVE EchoInv
  OBVIOUS
<1>1. CountInv
  <2>1. Places = {}
    BY DEF Init, Places
  <2>2. counter = 0 /\ occupants = {}
    BY DEF Init
  <2> QED
    BY <2>1, <2>2, FS_EmptySet DEF CountInv
<1>2. ASSUME NEW m \in OwnMessages PROVE CopiesInv(m)
  <2>1. log = <<>> /\ expected[m] = 0 /\ relayed[m] = <<>> /\ \A u \in Users : inbox[u] = <<>>
    BY <1>2, OwnReports DEF Init
  <2>2. \A u \in Users : Guarded(inbox[u], m) /\ Separate(inbox[u], m) /\ ~Contains(inbox[u], m)
    BY <2>1, EmptyIsSilent, SilenceIsGuarded
  <2>3. Hearers(m) = {}
    BY <2>2 DEF Hearers, Hears
  <2>4. Once(<<>>, m)
    <3>1. Len(<<>>) = 0 /\ 1..0 = {}
      OBVIOUS
    <3> QED
      BY <3>1 DEF Once
  <2> QED
    BY <2>1, <2>2, <2>3, <2>4, EmptyIsSilent, FS_EmptySet DEF CopiesInv
<1> QED
  BY <1>1, <1>2 DEF EchoInv

\* The counter, as long as nobody joins or leaves.
LEMMA CountStays ==
    ASSUME TypeOK, CountInv, UNCHANGED <<counter, counted>>,
           \A u \in occupants' : counted[u] > 0 \/ Contains(inbox'[u], "joined")
    PROVE  CountInv'
<1>1. Places' = Places
  BY DEF Places
<1> QED
  BY <1>1 DEF CountInv

\* A step that lets nobody hear the message who would not have before.
LEMMA CopiesStay ==
    ASSUME TypeOK, NEW m \in OwnMessages, CopiesInv(m),
           Once(log', m), Contains(log', m) <=> Contains(log, m),
           tasks[m] = "done" => tasks'[m] = "done",
           \A u \in Users : /\ Separate(inbox'[u], m)
                            /\ Contains(inbox'[u], m) => Contains(inbox[u], m) \/ Contains(log, m)
                            /\ Hears(u, m)' => Hears(u, m),
           expected'[m] \in Nat, expected[m] <= expected'[m], relayed'[m] = relayed[m]
    PROVE  CopiesInv(m)'
<1>1. Hearers(m)' \subseteq Hearers(m)
  BY DEF Hearers
<1>2. IsFiniteSet(Hearers(m)) /\ Cardinality(Hearers(m)) <= expected[m] /\ expected[m] \in Nat
  BY DEF CopiesInv, TypeOK
<1>3. IsFiniteSet(Hearers(m)') /\ Cardinality(Hearers(m)') <= Cardinality(Hearers(m))
  BY <1>1, <1>2, FS_Subset
<1>4. Cardinality(Hearers(m)) \in Nat /\ Cardinality(Hearers(m)') \in Nat
  BY <1>2, <1>3, FS_CardinalityType
<1>5. Cardinality(Hearers(m)') <= expected'[m]
  BY <1>2, <1>3, <1>4
<1> QED
  BY <1>3, <1>5 DEF CopiesInv

LEMMA QuietEcho ==
    ASSUME TypeOK, EchoInv,
           UNCHANGED <<log, inbox, expected, occupants, counter, counted, locked, relayed>>,
           \A m \in OwnMessages : tasks[m] = "done" => tasks'[m] = "done"
    PROVE  EchoInv'
<1>1. CountInv'
  BY CountStays DEF EchoInv, CountInv
<1>2. ASSUME NEW m \in OwnMessages PROVE CopiesInv(m)'
  <2>1. CopiesInv(m)
    BY DEF EchoInv
  <2>2. \A u \in Users : Hears(u, m)' => Hears(u, m)
    BY DEF Hears
  <2>3. Hearers(m)' = Hearers(m)
    BY DEF Hearers, Hears
  <2> QED
    BY <2>1, <2>3 DEF CopiesInv
<1> QED
  BY <1>1, <1>2 DEF EchoInv

\* Somebody else says something.
LEMMA NewsEcho ==
    ASSUME TypeOK, NEW x \in Message, NEW m \in OwnMessages, CopiesInv(m), x # m,
           inbox' = Broadcast(x), log' = Append(log, x),
           tasks[m] = "done" => tasks'[m] = "done",
           expected'[m] = expected[m], UNCHANGED <<locked, relayed>>
    PROVE  CopiesInv(m)'
<1>1. Once(log', m) /\ (Contains(log', m) <=> Contains(log, m))
  BY AppendKeeps DEF CopiesInv, TypeOK
<1>2. ASSUME NEW u \in Users
      PROVE  /\ Separate(inbox'[u], m)
             /\ Contains(inbox'[u], m) => Contains(inbox[u], m) \/ Contains(log, m)
             /\ Hears(u, m)' => Hears(u, m)
  <2>1. inbox[u] \in Seq(Report) /\ x \in Report /\ Separate(inbox[u], m)
    BY DEF TypeOK, Report, CopiesInv
  <2>2. inbox'[u] = inbox[u] \/ inbox'[u] = Append(inbox[u], x)
    <3>1. Broadcast(x)[u] = IF u \in occupants THEN Append(inbox[u], x) ELSE inbox[u]
      BY <2>1, BroadcastType
    <3>2. inbox'[u] = Broadcast(x)[u]
      OBVIOUS
    <3> QED
      BY <3>1, <3>2
  <2>3. LET s == Append(inbox[u], x)
        IN  /\ Guarded(inbox[u], m) => Guarded(s, m)
            /\ Separate(s, m)
            /\ Contains(s, m) => Contains(inbox[u], m)
    BY <2>1, AppendKeeps
  <2>4. /\ Guarded(inbox[u], m) => Guarded(inbox'[u], m)
        /\ Separate(inbox'[u], m)
        /\ Contains(inbox'[u], m) => Contains(inbox[u], m)
    <3>1. CASE inbox'[u] = inbox[u]
      BY <2>1, <3>1
    <3>2. CASE inbox'[u] = Append(inbox[u], x)
      BY <2>3, <3>2
    <3> QED
      BY <2>2, <3>1, <3>2
  <2> QED
    BY <2>4 DEF Hears
<1>3. expected[m] \in Nat
  BY DEF TypeOK
<1> QED
  BY <1>1, <1>2, <1>3, CopiesStay

\* A message that nobody has said yet: as many copies are expected as there
\* are accounts that will hear it.
LEMMA FirstCopies ==
    ASSUME TypeOK, CountInv, NEW m \in OwnMessages, CopiesInv(m), tasks[m] # "done", tasks'[m] = "done",
           Say(m), UNCHANGED <<occupants, counter, counted, locked, relayed>>
    PROVE  CopiesInv(m)'
<1>1. /\ ~Contains(log, m) /\ relayed[m] = <<>>
      /\ \A u \in Users : ~Contains(inbox[u], m) /\ inbox[u] \in Seq(Report)
      /\ m \in Message /\ m \in Report /\ m # "joined"
  BY OwnReports DEF CopiesInv, TypeOK
<1>2. expected'[m] = expected[m] + counter /\ expected[m] \in Nat /\ counter \in Nat
  BY DEF Say, Insert, Hashes, TypeOK
<1>3. /\ Once(log', m)
      /\ \A u \in Users : Separate(inbox'[u], m) /\ (Contains(inbox'[u], m) => Contains(log', m))
      /\ \A u \in Users : Hears(u, m)' => u \in occupants /\ ~Contains(inbox[u], "joined")
  <2>1. CASE UNCHANGED <<inbox, log>>
    <3>1. Once(log, m)
      BY DEF CopiesInv
    <3>2. \A u \in Users : Guarded(inbox[u], m) /\ Separate(inbox[u], m)
      BY <1>1, SilenceIsGuarded
    <3> QED
      BY <1>1, <2>1, <3>1, <3>2 DEF Hears
  <2>2. CASE inbox' = Broadcast(m) /\ log' = Append(log, m)
    <3>1. Once(log', m) /\ Contains(log', m)
      BY <1>1, <2>2, AppendKeeps DEF CopiesInv, TypeOK
    <3>2. ASSUME NEW u \in Users
          PROVE  Separate(inbox'[u], m) /\ (Hears(u, m)' => u \in occupants /\ ~Contains(inbox[u], "joined"))
      <4>1. Guarded(inbox[u], m) /\ Separate(inbox[u], m)
        BY <1>1, SilenceIsGuarded
      <4>2. CASE u \notin occupants
        <5>1. inbox'[u] = inbox[u]
          BY <1>1, <2>2, <4>2, BroadcastType
        <5> QED
          BY <4>1, <5>1 DEF Hears
      <4>3. CASE u \in occupants
        <5>1. inbox'[u] = Append(inbox[u], m)
          BY <1>1, <2>2, <4>3, BroadcastType
        <5>2. Separate(inbox'[u], m)
          BY <1>1, <4>1, <5>1, AppendKeeps
        <5>3. ASSUME Contains(inbox[u], "joined") PROVE Guarded(inbox'[u], m)
          <6>1. PICK k \in 1..Len(inbox[u]) : inbox[u][k] = "joined"
            BY <5>3 DEF Contains
          <6>2. /\ Len(inbox'[u]) = Len(inbox[u]) + 1 /\ Len(inbox[u]) \in Nat
                /\ \A i \in 1..Len(inbox[u]) : inbox'[u][i] = inbox[u][i]
            BY <1>1, <5>1, AppendProperties, LenProperties
          <6>3. \A i \in 1..Len(inbox'[u]) : inbox'[u][i] = m => i = Len(inbox[u]) + 1
            BY <1>1, <6>2 DEF Contains
          <6> QED
            BY <6>1, <6>2, <6>3 DEF Guarded
        <5> QED
          BY <4>3, <5>2, <5>3 DEF Hears
      <4> QED
        BY <4>2, <4>3
    <3> QED
      BY <3>1, <3>2
  <2> QED
    BY <2>1, <2>2 DEF Say
<1>4. Hearers(m)' \subseteq Places
  <2> SUFFICES ASSUME NEW u \in Users, Hears(u, m)' PROVE <<u, 1>> \in Places
    BY DEF Hearers
  <2>1. counted[u] > 0 /\ counted[u] \in Nat
    BY <1>3 DEF CountInv, TypeOK
  <2> QED
    BY <2>1 DEF Places
<1>5. IsFiniteSet(Places) /\ Cardinality(Places) = counter
  BY DEF CountInv
<1>6. IsFiniteSet(Hearers(m)') /\ Cardinality(Hearers(m)') <= counter
  BY <1>4, <1>5, FS_Subset
<1>7. Cardinality(Hearers(m)') \in Nat
  BY <1>6, FS_CardinalityType
<1>8. Cardinality(Hearers(m)') <= expected'[m]
  BY <1>2, <1>6, <1>7
<1> QED
  BY <1>1, <1>3, <1>6, <1>8 DEF CopiesInv

LEMMA SayEcho ==
    ASSUME TypeOK, EchoInv, NEW m \in OwnMessages, Say(m), tasks[m] # "done", tasks'[m] = "done",
           \A x \in OwnMessages : tasks[x] = "done" => tasks'[x] = "done",
           UNCHANGED <<occupants, counter, counted, locked, relayed>>
    PROVE  EchoInv'
<1>1. m \in Message
  BY OwnReports
<1>2. CountInv'
  <2>1. ASSUME NEW u \in occupants, Contains(inbox[u], "joined") PROVE Contains(inbox'[u], "joined")
    <3>1. u \in Users
      BY DEF TypeOK
    <3> QED
      BY <1>1, <2>1, <3>1, BroadcastHolds DEF Say
  <2> QED
    BY <2>1, CountStays DEF EchoInv, CountInv
<1>3. CopiesInv(m)'
  BY FirstCopies DEF EchoInv
<1>4. ASSUME NEW x \in OwnMessages, x # m PROVE CopiesInv(x)'
  <2>1. CopiesInv(x) /\ expected'[x] = expected[x]
    BY <1>4 DEF EchoInv, Say, Insert, TypeOK
  <2>2. CASE inbox' = Broadcast(m) /\ log' = Append(log, m)
    BY <1>1, <1>4, <2>1, <2>2, NewsEcho
  <2>3. CASE UNCHANGED <<inbox, log>>
    <3>1. Hearers(x)' = Hearers(x)
      BY <2>3 DEF Hearers, Hears
    <3> QED
      BY <2>1, <2>3, <3>1 DEF CopiesInv
  <2> QED
    BY <2>2, <2>3 DEF Say
<1> QED
  BY <1>2, <1>3, <1>4 DEF EchoInv

\* A counted account that leaves gives one of its places up.
LEMMA LeaveEcho ==
    ASSUME TypeOK, EchoInv, "refuse" \notin Environment, NEW u \in Users, MatrixLeave(u)
    PROVE  EchoInv'
<1>1. /\ counted[u] > 0 /\ counted[u] \in Nat /\ occupants' = occupants \ {u}
      /\ counter' = Decrement(counter) /\ counted' = [counted EXCEPT ![u] = Decrement(@)]
      /\ UNCHANGED <<log, inbox, tasks, expected, locked, relayed>>
  BY DEF MatrixLeave, Happens, TypeOK
<1>2. /\ counted'[u] = counted[u] - 1
      /\ \A v \in Users \ {u} : counted'[v] = counted[v]
      /\ \A v \in Users : counted[v] \in Nat
  BY <1>1 DEF Decrement, TypeOK
<1>3. Places' = Places \ {<<u, counted[u]>>}
  <2>1. ASSUME NEW v \in Users, NEW k \in Nat
        PROVE  <<v, k>> \in Places' <=> <<v, k>> \in Places /\ <<v, k>> # <<u, counted[u]>>
    BY <1>1, <1>2 DEF Places
  <2>2. Places \subseteq Users \X Nat /\ Places' \subseteq Users \X Nat
    BY DEF Places
  <2> QED
    BY <2>1, <2>2
<1>4. <<u, counted[u]>> \in Places
  BY <1>1 DEF Places
<1>5. IsFiniteSet(Places) /\ Cardinality(Places) = counter /\ counter \in Nat
  BY DEF EchoInv, CountInv, TypeOK
<1>6. /\ IsFiniteSet(Places \ {<<u, counted[u]>>})
      /\ Cardinality(Places \ {<<u, counted[u]>>}) = counter - 1
  BY <1>4, <1>5, FS_RemoveElement
<1>7. counter > 0
  <2>1. Cardinality(Places \ {<<u, counted[u]>>}) \in Nat
    BY <1>6, FS_CardinalityType
  <2> QED
    BY <1>5, <1>6, <2>1
<1>8. CountInv'
  <2>1. counter' = counter - 1
    BY <1>1, <1>5, <1>7 DEF Decrement
  <2>2. \A v \in occupants' : counted'[v] > 0 \/ Contains(inbox'[v], "joined")
    BY <1>1, <1>2 DEF EchoInv, CountInv, TypeOK
  <2> QED
    BY <1>3, <1>6, <2>1, <2>2 DEF CountInv
<1>9. ASSUME NEW m \in OwnMessages PROVE CopiesInv(m)'
  <2>1. Hearers(m)' = Hearers(m)
    BY <1>1 DEF Hearers, Hears
  <2> QED
    BY <1>1, <2>1 DEF EchoInv, CopiesInv
<1> QED
  BY <1>8, <1>9 DEF EchoInv

LEMMA MatrixEcho ==
    ASSUME TypeOK, EchoInv, Environment \cap {"slow", "refuse"} = {},
           \/ \E m \in OwnMessages : SendMessage(m)
           \/ \E t \in Task : GoesOn(t)
           \/ \E u \in Users : MatrixJoin(u) \/ MatrixLeave(u) \/ Unlock(u)
           \/ \E r \in Remote : RemoteSays(r)
    PROVE  EchoInv'
<1>1. ASSUME NEW m \in OwnMessages, SendMessage(m) PROVE EchoInv'
  <2>1. /\ tasks[m] = "idle" /\ \A x \in OwnMessages : tasks[x] = "done" => tasks'[x] = "done"
        /\ UNCHANGED <<occupants, counter, counted, locked, relayed>>
    BY <1>1, OwnReports DEF SendMessage, TypeOK
  <2>2. \/ Say(m) /\ tasks'[m] = "done"
        \/ UNCHANGED <<log, inbox, expected>>
    BY <1>1, OwnReports DEF SendMessage, TypeOK
  <2> QED
    BY <2>1, <2>2, SayEcho, QuietEcho
<1>2. ASSUME NEW t \in Task, GoesOn(t) PROVE EchoInv'
  <2>1. /\ tasks[t] # "done" /\ \A x \in OwnMessages : tasks[x] = "done" => tasks'[x] = "done"
        /\ UNCHANGED <<occupants, counter, counted, locked, relayed>>
    BY <1>2, OwnReports DEF GoesOn, TypeOK
  <2>2. \/ t \in OwnMessages /\ Say(t) /\ tasks'[t] = "done"
        \/ UNCHANGED <<log, inbox, expected>>
    BY <1>2, TaskUsers DEF GoesOn, TypeOK
  <2> QED
    BY <2>1, <2>2, SayEcho, QuietEcho
<1>3. ASSUME NEW u \in Users, MatrixJoin(u) PROVE EchoInv'
  <2>1. /\ \A x \in OwnMessages : tasks[x] = "done" => tasks'[x] = "done"
        /\ UNCHANGED <<log, inbox, expected, occupants, counter, counted, locked, relayed>>
    BY <1>3, OwnReports DEF MatrixJoin, dedupVars, TypeOK
  <2> QED
    BY <2>1, QuietEcho
<1>4. ASSUME NEW u \in Users, MatrixLeave(u) PROVE EchoInv'
  BY <1>4, LeaveEcho
<1>5. ASSUME NEW u \in Users, Unlock(u) PROVE EchoInv'
  <2>1. inbox[u] = <<>> /\ locked' = locked \ {u}
        /\ UNCHANGED <<log, inbox, tasks, expected, occupants, counter, counted, relayed>>
    BY <1>5 DEF Unlock, Happens, chatVars, dedupVars
  <2>2. CountInv'
    BY <2>1, CountStays DEF EchoInv, CountInv
  <2>3. ASSUME NEW m \in OwnMessages PROVE CopiesInv(m)'
    <3>1. Guarded(inbox[u], m)
      BY <2>1, EmptyIsSilent, SilenceIsGuarded
    <3>2. Hearers(m)' \subseteq Hearers(m)
      BY <2>1, <3>1 DEF Hearers, Hears
    <3>3. Hearers(m) \subseteq Hearers(m)'
      BY <2>1 DEF Hearers, Hears
    <3>4. Hearers(m)' = Hearers(m)
      BY <3>2, <3>3
    <3> QED
      BY <2>1, <3>4 DEF EchoInv, CopiesInv
  <2> QED
    BY <2>2, <2>3 DEF EchoInv
<1>6. ASSUME NEW r \in Remote, RemoteSays(r) PROVE EchoInv'
  <2>1. /\ inbox' = Broadcast(r) /\ log' = Append(log, r) /\ r \in Message
        /\ UNCHANGED <<tasks, expected, occupants, counter, counted, locked, relayed>>
    BY <1>6, RemoteMessages DEF RemoteSays, dedupVars
  <2>2. CountInv'
    <3>1. ASSUME NEW u \in occupants, Contains(inbox[u], "joined") PROVE Contains(inbox'[u], "joined")
      <4>1. u \in Users
        BY DEF TypeOK
      <4> QED
        BY <2>1, <3>1, <4>1, BroadcastHolds
    <3> QED
      BY <2>1, <3>1, CountStays DEF EchoInv, CountInv
  <2>3. ASSUME NEW m \in OwnMessages PROVE CopiesInv(m)'
    <3>1. r # m /\ CopiesInv(m)
      BY RemoteMessages DEF EchoInv
    <3> QED
      BY <2>1, <3>1, NewsEcho
  <2> QED
    BY <2>2, <2>3 DEF EchoInv
<1> QED
  BY <1>1, <1>2, <1>3, <1>4, <1>5, <1>6

\* What an account has to report of one message, without the first report.
LEMMA RestCopies ==
    ASSUME TypeOK, NEW u \in Users, inbox[u] # <<>>, NEW v \in Users, NEW m, m # "joined",
           Separate(inbox[v], m)
    PROVE  /\ Contains(Rest(u)[v], m) => Contains(inbox[v], m)
           /\ Separate(Rest(u)[v], m)
           /\ Guarded(inbox[v], m) /\ (v = u => Head(inbox[u]) # "joined") => Guarded(Rest(u)[v], m)
           /\ v = u /\ Head(inbox[u]) = m => Guarded(Rest(u)[v], m)
<1>1. inbox[v] \in Seq(Report)
  BY DEF TypeOK
<1>2. CASE v # u
  <2>1. Rest(u)[v] = inbox[v]
    BY <1>2, RestType
  <2> QED
    BY <1>2, <2>1
<1>3. CASE v = u
  <2>1. Rest(u)[v] = Tail(inbox[v]) /\ inbox[v] # <<>>
    BY <1>3, RestType
  <2>2. /\ Separate(Tail(inbox[v]), m)
        /\ Head(inbox[v]) = m => Guarded(Tail(inbox[v]), m)
        /\ Guarded(inbox[v], m) /\ Head(inbox[v]) # "joined" => Guarded(Tail(inbox[v]), m)
        /\ Contains(Tail(inbox[v]), m) => Contains(inbox[v], m)
    BY <1>1, <2>1, TailKeeps
  <2> QED
    BY <1>3, <2>1, <2>2
<1> QED
  BY <1>2, <1>3

\* An account that joins is counted and locked.
LEMMA JoinedEcho ==
    ASSUME TypeOK, EchoInv, NEW u \in Users, ChatJoined(u)
    PROVE  EchoInv'
<1>1. /\ inbox[u] # <<>> /\ Head(inbox[u]) = "joined" /\ inbox' = Rest(u) /\ locked' = locked \cup {u}
      /\ counter' = counter + 1 /\ counted' = [counted EXCEPT ![u] = @ + 1]
      /\ UNCHANGED <<log, expected, occupants, relayed>>
      /\ \A x \in OwnMessages : tasks[x] = "done" => tasks'[x] = "done"
  BY OwnReports DEF ChatJoined, Polled
<1>2. /\ counted'[u] = counted[u] + 1 /\ counted[u] \in Nat
      /\ \A v \in Users \ {u} : counted'[v] = counted[v]
      /\ \A v \in Users : counted[v] \in Nat
  BY <1>1 DEF TypeOK
<1>3. Places' = Places \cup {<<u, counted[u] + 1>>}
  <2>1. ASSUME NEW v \in Users, NEW k \in Nat
        PROVE  <<v, k>> \in Places' <=> <<v, k>> \in Places \/ <<v, k>> = <<u, counted[u] + 1>>
    BY <1>1, <1>2 DEF Places
  <2>2. Places \subseteq Users \X Nat /\ Places' \subseteq Users \X Nat /\ <<u, counted[u] + 1>> \in Users \X Nat
    BY <1>2 DEF Places
  <2> QED
    BY <2>1, <2>2
<1>4. <<u, counted[u] + 1>> \notin Places
  BY <1>2 DEF Places
<1>5. IsFiniteSet(Places) /\ Cardinality(Places) = counter
  BY DEF EchoInv, CountInv
<1>6. /\ IsFiniteSet(Places \cup {<<u, counted[u] + 1>>})
      /\ Cardinality(Places \cup {<<u, counted[u] + 1>>}) = counter + 1
  BY <1>4, <1>5, FS_AddElement
<1>7. CountInv'
  <2>1. ASSUME NEW v \in occupants PROVE counted'[v] > 0 \/ Contains(inbox'[v], "joined")
    <3>1. v \in Users
      BY DEF TypeOK
    <3>2. CASE v = u
      BY <1>2, <3>2
    <3>3. CASE v # u
      <4>1. inbox'[v] = inbox[v]
        BY <1>1, <3>1, <3>3, RestType
      <4> QED
        BY <1>2, <3>1, <3>3, <4>1 DEF EchoInv, CountInv
    <3> QED
      BY <3>2, <3>3
  <2> QED
    BY <1>1, <1>3, <1>6, <2>1 DEF CountInv
<1>8. ASSUME NEW m \in OwnMessages PROVE CopiesInv(m)'
  <2>1. m # "joined" /\ CopiesInv(m) /\ expected[m] \in Nat
    BY OwnReports DEF EchoInv, TypeOK
  <2>2. ASSUME NEW v \in Users
        PROVE  /\ Separate(inbox'[v], m)
               /\ Contains(inbox'[v], m) => Contains(inbox[v], m) \/ Contains(log, m)
               /\ Hears(v, m)' => Hears(v, m)
    <3>1. Separate(inbox[v], m)
      BY <2>1 DEF CopiesInv
    <3>2. Separate(inbox'[v], m) /\ (Contains(inbox'[v], m) => Contains(inbox[v], m))
      BY <1>1, <2>1, <3>1, RestCopies
    <3>3. v # u /\ Guarded(inbox[v], m) => Guarded(inbox'[v], m)
      BY <1>1, <2>1, <3>1, RestCopies
    <3> QED
      BY <1>1, <3>2, <3>3 DEF Hears
  <2>3. Once(log', m)
    BY <1>1, <2>1 DEF CopiesInv
  <2> QED
    BY <1>1, <2>1, <2>2, <2>3, CopiesStay
<1> QED
  BY <1>7, <1>8 DEF EchoInv

LEMMA SignedEcho ==
    ASSUME TypeOK, EchoInv, NEW u \in Users, SignedOn(u) \/ SignedOff(u)
    PROVE  EchoInv'
<1>1. /\ inbox[u] # <<>> /\ Head(inbox[u]) \in {"on", "off"} /\ inbox' = Rest(u)
      /\ UNCHANGED <<log, expected, occupants, counter, counted, locked, relayed>>
      /\ \A x \in OwnMessages : tasks[x] = "done" => tasks'[x] = "done"
  BY OwnReports DEF SignedOn, SignedOff, Polled, dedupVars, Woken, DeferredOf
<1>2. CountInv'
  <2>1. ASSUME NEW v \in occupants, Contains(inbox[v], "joined") PROVE Contains(inbox'[v], "joined")
    <3>1. v \in Users
      BY DEF TypeOK
    <3> QED
      BY <1>1, <2>1, <3>1, RestHolds
  <2> QED
    BY <1>1, <2>1, CountStays DEF EchoInv, CountInv
<1>3. ASSUME NEW m \in OwnMessages PROVE CopiesInv(m)'
  <2>1. m # "joined" /\ CopiesInv(m) /\ expected[m] \in Nat
    BY OwnReports DEF EchoInv, TypeOK
  <2>2. ASSUME NEW v \in Users
        PROVE  /\ Separate(inbox'[v], m)
               /\ Contains(inbox'[v], m) => Contains(inbox[v], m) \/ Contains(log, m)
               /\ Hears(v, m)' => Hears(v, m)
    <3>1. Separate(inbox[v], m)
      BY <2>1 DEF CopiesInv
    <3>2. Separate(inbox'[v], m) /\ (Contains(inbox'[v], m) => Contains(inbox[v], m))
      BY <1>1, <2>1, <3>1, RestCopies
    <3>3. Guarded(inbox[v], m) => Guarded(inbox'[v], m)
      BY <1>1, <2>1, <3>1, RestCopies
    <3> QED
      BY <1>1, <3>2, <3>3 DEF Hears
  <2>3. Once(log', m)
    BY <1>1, <2>1 DEF CopiesInv
  <2> QED
    BY <1>1, <2>1, <2>2, <2>3, CopiesStay
<1> QED
  BY <1>2, <1>3 DEF EchoInv

\* A copy that comes to an account that is not locked is one of those expected.
LEMMA MessageEcho ==
    ASSUME TypeOK, EchoInv, NEW u \in Users, ChatMessage(u)
    PROVE  EchoInv'
<1>1. PICK x \in Message : inbox[u] # <<>> /\ Head(inbox[u]) = x
  BY DEF ChatMessage, Polled
<1>2. /\ inbox' = Rest(u) /\ inbox[u] \in Seq(Report) /\ x # "joined"
      /\ UNCHANGED <<log, tasks, occupants, counter, counted, locked>>
  BY <1>1, GroupRelayAssumption DEF ChatMessage, Message, TypeOK
<1>3. CountInv'
  <2>1. ASSUME NEW v \in occupants, Contains(inbox[v], "joined") PROVE Contains(inbox'[v], "joined")
    <3>1. v \in Users
      BY DEF TypeOK
    <3> QED
      BY <1>1, <1>2, <2>1, <3>1, RestHolds
  <2> QED
    BY <1>2, <2>1, CountStays DEF EchoInv, CountInv
<1>4. \/ u \in locked /\ UNCHANGED <<expected, relayed>>
      \/ u \notin locked /\ Expects(x) /\ expected' = [expected EXCEPT ![x] = @ - 1] /\ relayed' = relayed
      \/ u \notin locked /\ ~Expects(x) /\ expected' = expected /\ relayed' = [relayed EXCEPT ![x] = Append(@, u)]
      \/ u \notin locked /\ ~Expects(x) /\ UNCHANGED <<expected, relayed>>
  BY <1>1 DEF ChatMessage
<1>5. ASSUME NEW m \in OwnMessages PROVE CopiesInv(m)'
  <2>1. m # "joined" /\ CopiesInv(m) /\ expected[m] \in Nat /\ m \in Message /\ Once(log', m)
    BY <1>2, OwnReports DEF EchoInv, TypeOK, CopiesInv
  <2>2. ASSUME NEW v \in Users
        PROVE  /\ Separate(inbox'[v], m) /\ (Contains(inbox'[v], m) => Contains(inbox[v], m))
               /\ Guarded(inbox[v], m) => Guarded(inbox'[v], m)
               /\ v = u /\ x = m => Guarded(inbox'[v], m)
    <3>1. Separate(inbox[v], m)
      BY <2>1 DEF CopiesInv
    <3> QED
      BY <1>1, <1>2, <2>1, <3>1, RestCopies
  <2>3. \A v \in Users : Hears(v, m)' => Hears(v, m)
    BY <1>2, <2>2 DEF Hears
  <2>4. CASE x # m \/ u \in locked
    <3>1. expected'[m] = expected[m] /\ relayed'[m] = relayed[m]
      BY <1>4, <2>1, <2>4 DEF TypeOK
    <3> QED
      BY <1>2, <2>1, <2>2, <2>3, <3>1, CopiesStay
  <2>5. CASE x = m /\ u \notin locked
    <3>1. ~Guarded(inbox[u], m)
      <4>1. 1 \in 1..Len(inbox[u]) /\ inbox[u][1] = m
        BY <1>1, <1>2, <2>5, HeadTailProperties, LenProperties, EmptySeq
      <4> QED
        BY <4>1 DEF Guarded
    <3>2. <<u, 1>> \in Hearers(m) /\ <<u, 1>> \notin Hearers(m)'
      BY <2>2, <2>5, <3>1 DEF Hearers, Hears
    <3>3. Hearers(m)' \subseteq Hearers(m) \ {<<u, 1>>}
      BY <2>3, <3>2 DEF Hearers
    <3>4. IsFiniteSet(Hearers(m)) /\ Cardinality(Hearers(m)) <= expected[m] /\ relayed[m] = <<>>
      BY <2>1 DEF CopiesInv
    <3>5. /\ IsFiniteSet(Hearers(m) \ {<<u, 1>>})
          /\ Cardinality(Hearers(m) \ {<<u, 1>>}) = Cardinality(Hearers(m)) - 1
      BY <3>2, <3>4, FS_RemoveElement
    <3>6. /\ IsFiniteSet(Hearers(m)')
          /\ Cardinality(Hearers(m)') <= Cardinality(Hearers(m) \ {<<u, 1>>})
      BY <3>3, <3>5, FS_Subset
    <3>7. /\ Cardinality(Hearers(m)) \in Nat /\ Cardinality(Hearers(m)') \in Nat
          /\ Cardinality(Hearers(m) \ {<<u, 1>>}) \in Nat
      BY <3>4, <3>5, <3>6, FS_CardinalityType
    <3>8. expected[m] > 0
      BY <2>1, <3>4, <3>5, <3>7
    <3>9. expected'[m] = expected[m] - 1 /\ relayed'[m] = <<>>
      BY <1>4, <2>1, <2>5, <3>4, <3>8 DEF Expects, TypeOK
    <3>10. Cardinality(Hearers(m)') <= expected'[m]
      BY <2>1, <3>4, <3>5, <3>6, <3>7, <3>9
    <3> QED
      BY <1>2, <2>1, <2>2, <3>6, <3>9, <3>10 DEF CopiesInv
  <2> QED
    BY <2>4, <2>5
<1> QED
  BY <1>3, <1>5 DEF EchoInv

LEMMA AccountsEcho ==
    ASSUME TypeOK, EchoInv, NEW u \in Users, Enter(u) \/ SignOn(u) \/ SignOff(u)
    PROVE  EchoInv'
<1>1. /\ UNCHANGED <<log, tasks, expected, counter, counted, locked, relayed>>
      /\ inbox[u] \in Seq(Report) /\ log \in Seq(Report) /\ {"joined", "on", "off"} \subseteq Report
      /\ \A v \in Users \ {u} : inbox'[v] = inbox[v] /\ (v \in occupants' <=> v \in occupants)
      /\ occupants' \subseteq Users
  BY DEF Enter, SignOn, SignOff, dedupVars, TypeOK, Message, Report
<1>2. \/ inbox'[u] = inbox[u] \o <<"joined">> \o log
      \/ occupants' \subseteq occupants /\ \E e \in {"on", "off"} : inbox'[u] = Append(inbox[u], e)
  BY DEF Enter, SignOn, SignOff, TypeOK
<1>3. CountInv'
  <2>1. ASSUME NEW v \in occupants' PROVE counted[v] > 0 \/ Contains(inbox'[v], "joined")
    <3>1. CASE v # u
      BY <1>1, <3>1 DEF EchoInv, CountInv
    <3>2. CASE inbox'[u] = inbox[u] \o <<"joined">> \o log
      <4>1. Contains(inbox'[u], "joined")
        <5>1. /\ Len(inbox[u] \o <<"joined">>) = Len(inbox[u]) + 1 /\ Len(inbox[u]) \in Nat
              /\ (inbox[u] \o <<"joined">>)[Len(inbox[u]) + 1] = "joined"
          <6>1. <<"joined">> \in Seq(Report) /\ Len(<<"joined">>) = 1 /\ <<"joined">>[1] = "joined"
            BY <1>1
          <6> QED
            BY <1>1, <6>1, ConcatProperties, LenProperties
        <5>2. inbox[u] \o <<"joined">> \in Seq(Report)
          BY <1>1
        <5>3. /\ Len(inbox'[u]) = Len(inbox[u]) + 1 + Len(log) /\ Len(log) \in Nat
              /\ inbox'[u][Len(inbox[u]) + 1] = "joined"
          BY <1>1, <3>2, <5>1, <5>2, ConcatProperties, LenProperties
        <5>4. Len(inbox[u]) + 1 \in 1..Len(inbox'[u])
          BY <5>1, <5>3
        <5> QED
          BY <5>3, <5>4 DEF Contains
      <4> QED
        BY <3>1, <4>1
    <3>3. CASE v = u /\ occupants' \subseteq occupants /\ \E e \in {"on", "off"} : inbox'[u] = Append(inbox[u], e)
      <4>1. counted[u] > 0 \/ Contains(inbox[u], "joined")
        BY <3>3 DEF EchoInv, CountInv
      <4>2. PICK e \in {"on", "off"} : inbox'[u] = Append(inbox[u], e)
        BY <3>3
      <4>3. Contains(inbox[u], "joined") => Contains(inbox'[u], "joined")
        BY <1>1, <4>2, AppendKeeps
      <4> QED
        BY <3>3, <4>1, <4>3
    <3> QED
      BY <1>2, <3>1, <3>2, <3>3
  <2> QED
    BY <1>1, <2>1, CountStays DEF EchoInv
<1>4. ASSUME NEW m \in OwnMessages PROVE CopiesInv(m)'
  <2>1. m \notin {"joined", "on", "off"} /\ CopiesInv(m) /\ expected[m] \in Nat
    BY OwnReports DEF EchoInv, TypeOK
  <2>2. Once(log, m) /\ Separate(inbox[u], m)
    BY <2>1 DEF CopiesInv
  <2>3. /\ Separate(inbox'[u], m)
        /\ Contains(inbox'[u], m) => Contains(inbox[u], m) \/ Contains(log, m)
        /\ Guarded(inbox[u], m) => Guarded(inbox'[u], m)
    <3>1. CASE inbox'[u] = inbox[u] \o <<"joined">> \o log
      BY <1>1, <2>1, <2>2, <3>1, HistoryKeeps
    <3>2. CASE \E e \in {"on", "off"} : inbox'[u] = Append(inbox[u], e)
      BY <1>1, <2>1, <2>2, <3>2, AppendKeeps
    <3> QED
      BY <1>2, <3>1, <3>2
  <2>4. ASSUME NEW v \in Users
        PROVE  /\ Separate(inbox'[v], m)
               /\ Contains(inbox'[v], m) => Contains(inbox[v], m) \/ Contains(log, m)
               /\ Hears(v, m)' => Hears(v, m)
    <3>1. CASE v = u
      BY <1>1, <2>3, <3>1 DEF Hears
    <3>2. CASE v # u
      BY <1>1, <2>1, <3>2 DEF Hears, CopiesInv
    <3> QED
      BY <3>1, <3>2
  <2> QED
    BY <1>1, <2>1, <2>2, <2>4, CopiesStay
<1> QED
  BY <1>3, <1>4 DEF EchoInv

LEMMA NextEcho ==
    ASSUME TypeOK, EchoInv, [Next]_vars, Environment \cap {"slow", "refuse"} = {}
    PROVE  EchoInv'
<1>1. CASE UNCHANGED vars
  <2>1. UNCHANGED <<log, inbox, tasks, expected, occupants, counter, counted, locked, relayed>>
    BY <1>1 DEF vars, chatVars, dedupVars
  <2> QED
    BY <2>1, QuietEcho
<1> QED
  BY <1>1, MatrixEcho, JoinedEcho, SignedEcho, MessageEcho, AccountsEcho DEF Next, Reported

\* When a lock outlives the history that comes with a join, and no user leaves
\* whose account has never joined, the bridge hears nothing back of what it has
\* said: every copy that reaches the Deduplicator is one it expects.
THEOREM NothingEchoes ==
    ASSUME Environment \cap {"slow", "refuse"} = {}
    PROVE  Spec => []NoEcho
<1>1. EchoInv => NoEcho
  BY DEF EchoInv, CopiesInv, NoEcho
<1>2. Environment \cap {"slow", "refuse"} = {}
  OBVIOUS
<1> QED
  BY <1>1, <1>2, InitType, InitEcho, NextType, NextEcho, PTL DEF Spec
=============================================================================
