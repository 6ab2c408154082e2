------------------------ MODULE RoomCreation_proofs ------------------------
(***************************************************************************)
(* What holds of RoomCreation for every number of calls, conversations and *)
(* messages, with or without waiting for the user to join.                 *)
(***************************************************************************)
EXTENDS RoomCreation, TLAPS

-----------------------------------------------------------------------------
(* Types                                                                   *)

LEMMA NewCallType ==
    /\ NewCall \in Call
    /\ NewCall.stage = "idle" /\ NewCall.again = FALSE
<1>1. (CHOOSE k \in Keys : TRUE) \in Keys
  BY RoomCreationAssumption
<1> QED
  BY <1>1 DEF NewCall, Call, Stages, Kinds

LEMMA EnteredType ==
    ASSUME TypeOK, NEW c \in Calls, NEW k \in Keys
    PROVE  /\ Entered(c, k) \in Call
           /\ Entered(c, k).kind = calls[c].kind /\ Entered(c, k).key = k
           /\ \/ /\ Entered(c, k).stage = "waiting"
                 /\ lock[k] # Nobody /\ Pending(lock[k]) /\ Entered(c, k).on = lock[k]
              \/ /\ Entered(c, k).stage = "lookup"
                 /\ ~(lock[k] # Nobody /\ Pending(lock[k]))
<1>1. calls[c] \in Call /\ lock[k] \in Calls \cup {Nobody}
  BY DEF TypeOK
<1>2. CASE lock[k] # Nobody /\ Pending(lock[k])
  BY <1>1, <1>2 DEF Entered, Call, Stages
<1>3. CASE ~(lock[k] # Nobody /\ Pending(lock[k]))
  BY <1>1, <1>3 DEF Entered, Call, Stages
<1> QED
  BY <1>2, <1>3

LEMMA SettledType ==
    ASSUME TypeOK, NEW c \in Calls, NEW rec \in Call, NEW s \in Stages
    PROVE  /\ Settled(c, rec, s) \in [Calls -> Call]
           /\ Settled(c, rec, s)[c] = rec
           /\ \A d \in Calls \ {c} :
                 IF d \in Waiters(c)
                 THEN /\ Settled(c, rec, s)[d].stage = s
                      /\ Settled(c, rec, s)[d].kind = calls[d].kind
                      /\ Settled(c, rec, s)[d].key = calls[d].key
                 ELSE Settled(c, rec, s)[d] = calls[d]
<1>1. \A d \in Calls : /\ [calls[d] EXCEPT !.stage = s, !.on = Nobody] \in Call
                       /\ [calls[d] EXCEPT !.stage = s, !.on = Nobody].stage = s
                       /\ [calls[d] EXCEPT !.stage = s, !.on = Nobody].kind = calls[d].kind
                       /\ [calls[d] EXCEPT !.stage = s, !.on = Nobody].key = calls[d].key
  BY DEF TypeOK, Call
<1> QED
  BY <1>1 DEF Settled, TypeOK

LEMMA PairedType ==
    ASSUME NEW S \in SUBSET Calls
    PROVE  /\ Paired(S) \subseteq SUBSET Calls
           /\ \A c, d \in S : c # d => {c, d} \in Paired(S)
BY DEF Paired

LEMMA FoundStageType ==
    ASSUME NEW c \in Calls
    PROVE  FoundStage(c) \in {"joining", "sending"}
BY DEF FoundStage

LEMMA RoomsHere ==
    /\ AliasRoom \in Rooms /\ DirectRoom \in Rooms /\ PlumbedRoom \in Rooms
    /\ \A c \in Calls, b \in BOOLEAN : <<c, b>> \in Rooms
BY DEF Rooms, NewRooms

\* What a call is about to store it has made.
StoresARoom == \A c \in Calls : At(c, "storing") => calls[c].room # NoRoom

LEMMA InitType == Init => TypeOK /\ StoresARoom
<1> SUFFICES ASSUME Init PROVE TypeOK /\ StoresARoom
  OBVIOUS
<1>1. calls \in [Calls -> Call] /\ StoresARoom
  BY NewCallType DEF Init, StoresARoom, At
<1>2. lock \in [Keys -> Calls \cup {Nobody}] /\ texts \in [Texts -> {"unwritten", "before", "pushed", "handled"}]
  BY DEF Init
<1>3. relayed \in [Texts -> Nat]
  BY DEF Init
<1> QED
  BY <1>1, <1>2, <1>3 DEF Init, TypeOK

LEMMA CallType ==
    ASSUME TypeOK, StoresARoom, NEW c \in Calls, CallNext(c)
    PROVE  TypeOK'
<1> USE DEF At
<1>0. calls[c] \in Call /\ calls[c].key \in Keys
  BY DEF TypeOK, Call
<1>1. CASE \E kind \in Kinds, k \in Keys : Begin(c, kind, k)
  <2>1. PICK kind \in Kinds, k \in Keys : Begin(c, kind, k)
    BY <1>1
  <2>2. [Entered(c, k) EXCEPT !.kind = kind] \in Call
    BY EnteredType DEF Call
  <2>3. calls' \in [Calls -> Call]
    BY <2>1, <2>2 DEF Begin, TypeOK
  <2>4. Paired(LookingUp(k) \cup {c}) \subseteq SUBSET Calls
    BY PairedType DEF LookingUp
  <2> QED
    BY <2>1, <2>3, <2>4 DEF Begin, TypeOK, directVars
<1>2. CASE FindAnyRoom(c)
  <2>1. PICK r \in Rooms : FindRoom(c, r)
    BY <1>2 DEF FindAnyRoom
  <2>2. calls' \in [Calls -> Call]
    BY <2>1, <1>0, FoundStageType DEF FindRoom, TypeOK, Call, Stages
  <2> QED
    BY <2>1, <2>2 DEF FindRoom, TypeOK, directVars
<1>3. CASE StartCreation(c) \/ AskForAlias(c)
  <2>1. calls' \in [Calls -> Call]
    BY <1>3, <1>0 DEF StartCreation, AskForAlias, TypeOK, Call, Stages
  <2> QED
    BY <1>3, <1>0, <2>1 DEF StartCreation, AskForAlias, TypeOK, directVars
<1>4. CASE RefuseToMake(c) \/ Send(c) \/ CallFails(c)
  <2>1. Finished(c) \in [Calls -> Call]
    BY NewCallType DEF Finished, TypeOK, Call, Stages
  <2> QED
    BY <1>4, <2>1 DEF RefuseToMake, Send, CallFails, TypeOK, directVars
<1>5. CASE AliasStored(c)
  <2>1. calls' \in [Calls -> Call]
    BY <1>5, <1>0, RoomsHere DEF AliasStored, TypeOK, Call, Stages
  <2> QED
    BY <1>5, <1>0, <2>1, RoomsHere DEF AliasStored, TypeOK, directVars
<1>6. CASE LookupFails(c)
  <2>1. Finished(c) \in [Calls -> Call]
    BY NewCallType DEF Finished, TypeOK, Call, Stages
  <2>2. [calls EXCEPT ![c].stage = "creating"] \in [Calls -> Call]
    BY <1>0 DEF TypeOK, Call, Stages
  <2> QED
    BY <1>6, <1>0, <2>1, <2>2 DEF LookupFails, TypeOK, directVars
<1>7. CASE RoomMade(c)
  <2>1. <<c, calls[c].again>> \in Rooms
    BY <1>0, RoomsHere DEF Call
  <2>2. calls' \in [Calls -> Call]
    BY <1>7, <1>0, <2>1 DEF RoomMade, TypeOK, Call, Stages
  <2> QED
    BY <1>7, <2>2 DEF RoomMade, TypeOK, directVars
<1>8. CASE RoomStored(c)
  <2> DEFINE next == IF WaitOnJoin THEN "joinwait" ELSE FoundStage(c)
  <2>1. next \in Stages
    BY FoundStageType DEF Stages
  <2>2. [calls[c] EXCEPT !.stage = next] \in Call
    BY <2>1, <1>0 DEF Call
  <2>3. calls' \in [Calls -> Call]
    BY <1>8, <2>2, SettledType DEF RoomStored, Stages
  <2>4. together' \subseteq SUBSET Calls
    <3>1. LookingUp(calls[c].key) \cup Waiters(c) \cup PendingHolder(calls[c].key) \in SUBSET Calls
      BY DEF LookingUp, Waiters, PendingHolder
    <3> QED
      BY <1>8, <3>1, PairedType DEF RoomStored, TypeOK
  <2>5. lock' \in [Keys -> Calls \cup {Nobody}]
    BY <1>8 DEF RoomStored, Released, TypeOK
  <2>6. calls[c].room \in Rooms
    BY <1>8, <1>0 DEF RoomStored, Call, StoresARoom
  <2>7. rows' \subseteq Keys \X Rooms
    BY <1>8, <1>0, <2>6 DEF RoomStored, TypeOK
  <2> QED
    BY <1>8, <2>3, <2>4, <2>5, <2>7 DEF RoomStored, TypeOK, directVars
<1>9. CASE CreationFails(c)
  <2>1. [calls[c] EXCEPT !.stage = FoundStage(c), !.room = NoRoom] \in Call
    BY <1>0, FoundStageType DEF Call, Stages
  <2>2. calls' \in [Calls -> Call]
    BY <1>9, <2>1, SettledType DEF CreationFails, Stages
  <2>3. together' \subseteq SUBSET Calls
    <3>1. LookingUp(calls[c].key) \cup Waiters(c) \in SUBSET Calls
      BY DEF LookingUp, Waiters
    <3> QED
      BY <1>9, <3>1, PairedType DEF CreationFails, TypeOK
  <2>4. lock' \in [Keys -> Calls \cup {Nobody}]
    BY <1>9 DEF CreationFails, Released, Waiters, TypeOK
  <2> QED
    BY <1>9, <2>2, <2>3, <2>4 DEF CreationFails, TypeOK, directVars
<1>10. CASE UserJoins(c) \/ JoinWaitExpires(c)
  <2>0. /\ [calls[c] EXCEPT !.joined = FALSE, !.stage = FoundStage(c)] \in Call
        /\ [calls[c] EXCEPT !.joined = TRUE] \in Call
    BY <1>0, FoundStageType DEF Call, Stages
  <2>1. calls' \in [Calls -> Call]
    <3>1. \/ calls' = [calls EXCEPT ![c] = [calls[c] EXCEPT !.joined = FALSE, !.stage = FoundStage(c)]]
          \/ calls' = [calls EXCEPT ![c] = [calls[c] EXCEPT !.joined = TRUE]]
      BY <1>10 DEF UserJoins, JoinWaitExpires, TypeOK
    <3> QED
      BY <3>1, <2>0 DEF TypeOK
  <2>2. lock' \in [Keys -> Calls \cup {Nobody}]
    BY <1>10 DEF UserJoins, JoinWaitExpires, Released, TypeOK
  <2> QED
    BY <1>10, <2>1, <2>2 DEF UserJoins, JoinWaitExpires, TypeOK, directVars
<1>11. CASE GhostJoins(c) \/ GhostCannotJoin(c)
  <2>1. calls' \in [Calls -> Call]
    BY <1>11, <1>0 DEF GhostJoins, GhostCannotJoin, TypeOK, Call, Stages
  <2> QED
    BY <1>11, <2>1 DEF GhostJoins, GhostCannotJoin, TypeOK, directVars
<1>12. CASE RowRemoved(c)
  <2> DEFINE k == calls[c].key
  <2> DEFINE e == Entered(c, k)
  <2>0. e \in Call
    BY <1>0, EnteredType
  <2> HIDE DEF e
  <2>1. [e EXCEPT !.again = TRUE, !.room = NoRoom] \in Call
    BY <2>0 DEF Call
  <2>2. calls' \in [Calls -> Call]
    BY <1>12, <2>1 DEF RowRemoved, TypeOK, e
  <2>3. Paired(LookingUp(k) \cup {c}) \subseteq SUBSET Calls
    BY PairedType DEF LookingUp
  <2> QED
    BY <1>12, <2>2, <2>3 DEF RowRemoved, TypeOK, directVars
<1> QED
  BY <1>1, <1>2, <1>3, <1>4, <1>5, <1>6, <1>7, <1>8, <1>9, <1>10, <1>11, <1>12
     DEF CallNext, Proceed

LEMMA OtherType ==
    ASSUME TypeOK, DirectNext \/ PlumbingNext
    PROVE  TypeOK' /\ UNCHANGED <<calls, together>>
<1>1. CASE OpenDirect \/ GhostJoinsDirect \/ DirectFails
  BY <1>1 DEF OpenDirect, GhostJoinsDirect, DirectFails, TypeOK, roomVars
<1>2. CASE \E k \in Chats : DirectStored(k)
  BY <1>2, RoomsHere DEF DirectStored, TypeOK, roomVars, Keys
<1>3. CASE FetchMissedTexts
  <2>1. relayed' \in [Texts -> Nat]
    BY <1>3 DEF FetchMissedTexts, Relay, TypeOK
  <2>2. texts' \in [Texts -> {"unwritten", "before", "pushed", "handled"}]
    BY <1>3 DEF FetchMissedTexts, TypeOK
  <2> QED
    BY <1>3, <2>1, <2>2 DEF FetchMissedTexts, TypeOK, roomVars
<1>4. CASE \E m \in Texts : WriteText(m)
  BY <1>4 DEF WriteText, TypeOK, roomVars
<1>5. CASE \E m \in Texts : HandleText(m)
  <2>1. relayed' \in [Texts -> Nat]
    BY <1>5 DEF HandleText, Relay, TypeOK
  <2> QED
    BY <1>5, <2>1 DEF HandleText, TypeOK, roomVars
<1>6. CASE StartPlumbing \/ PlumbingFails \/ Unplumb
  BY <1>6 DEF StartPlumbing, PlumbingFails, Unplumb, TypeOK, roomVars, directVars
<1>7. CASE \E g \in Groups : Plumb(g)
  <2>1. PICK g \in Groups : Plumb(g)
    BY <1>7
  <2>2. lock' \in [Keys -> Calls \cup {Nobody}]
    BY <2>1 DEF Plumb, Released, TypeOK
  <2>3. rows' \subseteq Keys \X Rooms
    BY <2>1, RoomsHere DEF Plumb, TypeOK, Keys
  <2> QED
    BY <2>1, <2>2, <2>3 DEF Plumb, TypeOK, directVars
<1> QED
  BY <1>1, <1>2, <1>3, <1>4, <1>5, <1>6, <1>7 DEF DirectNext, PlumbingNext

-----------------------------------------------------------------------------
(* Locks, and the lookups that overlap                                     *)

AliasesAreOfGateways == \A c \in Calls : At(c, "alias") => calls[c].kind = "gateway"

\* Who looks for the same room at the same time is noted as a pair, and so is
\* who looks while the lock is held by a call he did not wait for.
LookupsArePaired ==
    \A c, d \in Calls :
        c # d /\ At(c, "lookup") /\ At(d, "lookup") /\ calls[c].key = calls[d].key
        => {c, d} \in together

HoldersArePaired ==
    \A c \in Calls :
        At(c, "lookup") /\ lock[calls[c].key] # Nobody /\ Pending(lock[calls[c].key])
        => {c, lock[calls[c].key]} \in together

RaceInv ==
    /\ StoresARoom /\ LocksAreLive /\ AliasesAreOfGateways
    /\ LookupsArePaired /\ HoldersArePaired

HeldByMakers == \A k \in Keys : lock[k] # Nobody => InCreation(lock[k]) /\ calls[lock[k]].key = k
AwaitedAreMade ==
    \A c \in Calls : At(c, "waiting") =>
        calls[c].on # Nobody /\ Pending(calls[c].on) /\ calls[calls[c].on].key = calls[c].key

LEMMA LiveHalves ==
    /\ LocksAreLive <=> HeldByMakers /\ AwaitedAreMade
    /\ LocksAreLive' <=> HeldByMakers' /\ AwaitedAreMade'
BY DEF LocksAreLive, HeldByMakers, AwaitedAreMade

LEMMA CallFields ==
    /\ TypeOK => /\ \A c \in Calls : calls[c].key \in Keys /\ calls[c].on \in Calls \cup {Nobody}
                 /\ \A k \in Keys : lock[k] \in Calls \cup {Nobody}
    /\ TypeOK' => /\ \A c \in Calls : calls'[c].key \in Keys /\ calls'[c].on \in Calls \cup {Nobody}
                  /\ \A k \in Keys : lock'[k] \in Calls \cup {Nobody}
BY DEF TypeOK, Call

OthersStay(c) == \A x \in Calls \ {c} : calls'[x] = calls[x]

Leaving == {"joining", "sending", "removing", "done"}

LEMMA InitRace == Init => RaceInv
<1> SUFFICES ASSUME Init PROVE RaceInv
  OBVIOUS
<1>1. \A c \in Calls : calls[c].stage = "idle"
  BY NewCallType DEF Init
<1>2. \A k \in Keys : lock[k] = Nobody
  BY DEF Init
<1> QED
  BY <1>1, <1>2 DEF RaceInv, StoresARoom, LocksAreLive, AliasesAreOfGateways, LookupsArePaired,
                    HoldersArePaired, At

\* A call that makes no room goes on to one of the last stages.
LEMMA LeavingKeepsRace ==
    ASSUME TypeOK, TypeOK', RaceInv, NEW c \in Calls, ~InCreation(c), OthersStay(c),
           calls'[c].stage \in Leaving,
           UNCHANGED <<lock, together>>
    PROVE  RaceInv'
<1> USE DEF At, Pending, InCreation, OthersStay, Leaving
<1>1. LocksAreLive'
  <2>1. HeldByMakers'
    BY CallFields, LiveHalves DEF RaceInv, HeldByMakers
  <2>2. AwaitedAreMade'
    BY CallFields, LiveHalves DEF RaceInv, AwaitedAreMade
  <2> QED
    BY <2>1, <2>2, LiveHalves
<1>2. StoresARoom' /\ AliasesAreOfGateways' /\ LookupsArePaired'
  BY DEF RaceInv, StoresARoom, AliasesAreOfGateways, LookupsArePaired
<1>3. HoldersArePaired'
  BY DEF RaceInv, HoldersArePaired, TypeOK, Call
<1> QED
  BY <1>1, <1>2, <1>3 DEF RaceInv

\* The lock of a conversation is taken away.
LEMMA ReleasingKeepsRace ==
    ASSUME TypeOK, TypeOK', RaceInv, NEW c \in Calls, OthersStay(c), NEW k \in Keys,
           lock' = Released(k), UNCHANGED together,
           \/ calls'[c] = calls[c]
           \/ At(c, "joinwait") /\ calls[c].key = k /\ calls'[c].stage \in Leaving
    PROVE  RaceInv'
<1> USE DEF At, Pending, InCreation, OthersStay, Leaving
<1>0. \A j \in Keys : lock'[j] = IF j = k THEN Nobody ELSE lock[j]
  BY DEF Released, TypeOK
<1>1. LocksAreLive'
  <2>1. HeldByMakers'
    BY <1>0, CallFields, LiveHalves DEF RaceInv, HeldByMakers
  <2>2. AwaitedAreMade'
    BY <1>0, CallFields, LiveHalves DEF RaceInv, AwaitedAreMade
  <2> QED
    BY <2>1, <2>2, LiveHalves
<1>2. StoresARoom' /\ AliasesAreOfGateways' /\ LookupsArePaired'
  BY DEF RaceInv, StoresARoom, AliasesAreOfGateways, LookupsArePaired
<1>3. HoldersArePaired'
  BY <1>0 DEF RaceInv, HoldersArePaired, TypeOK, Call
<1> QED
  BY <1>1, <1>2, <1>3 DEF RaceInv

\* A call looks into the store, unless it finds a lock to wait for.
LEMMA EnteringKeepsRace ==
    ASSUME TypeOK, TypeOK', RaceInv, NEW c \in Calls, ~InCreation(c), OthersStay(c), NEW k \in Keys,
           calls'[c].key = k,
           \/ /\ calls'[c].stage = "waiting"
              /\ lock[k] # Nobody /\ Pending(lock[k]) /\ calls'[c].on = lock[k]
              /\ UNCHANGED together
           \/ /\ calls'[c].stage = "lookup"
              /\ ~(lock[k] # Nobody /\ Pending(lock[k]))
              /\ together' = together \cup Paired(LookingUp(k) \cup {c}),
           UNCHANGED lock
    PROVE  RaceInv'
<1> USE DEF At, Pending, InCreation, OthersStay
<1>0. together \subseteq together'
  OBVIOUS
<1>1. LocksAreLive'
  <2>1. HeldByMakers'
    BY CallFields, LiveHalves DEF RaceInv, HeldByMakers
  <2>2. AwaitedAreMade'
    <3> SUFFICES ASSUME NEW x \in Calls, calls'[x].stage = "waiting"
                 PROVE  /\ calls'[x].on # Nobody /\ Pending(calls[x].on)'
                        /\ calls'[calls'[x].on].key = calls'[x].key
      BY DEF AwaitedAreMade
    <3>1. CASE x = c
      <4>1. lock[k] \in Calls \ {c} /\ calls[lock[k]].key = k
        BY <3>1, CallFields, LiveHalves DEF RaceInv, HeldByMakers
      <4> QED
        BY <3>1, <4>1
    <3>2. CASE x # c
      <4>1. calls'[x] = calls[x] /\ calls[x].on \in Calls \ {c} /\ Pending(calls[x].on)
            /\ calls[calls[x].on].key = calls[x].key
        BY <3>2, CallFields, LiveHalves DEF RaceInv, AwaitedAreMade
      <4> QED
        BY <4>1, RoomCreationAssumption
    <3> QED
      BY <3>1, <3>2
  <2> QED
    BY <2>1, <2>2, LiveHalves
<1>2. StoresARoom' /\ AliasesAreOfGateways'
  BY DEF RaceInv, StoresARoom, AliasesAreOfGateways
<1>3. LookupsArePaired'
  <2>1. CASE calls'[c].stage = "waiting"
    BY <2>1 DEF RaceInv, LookupsArePaired
  <2>2. CASE calls'[c].stage = "lookup"
    <3>1. \A d \in LookingUp(k) \ {c} : {c, d} \in together' /\ {d, c} \in together'
      <4>1. LookingUp(k) \cup {c} \in SUBSET Calls
        BY DEF LookingUp
      <4> QED
        BY <2>2, <4>1, PairedType
    <3> QED
      BY <2>2, <3>1, <1>0 DEF RaceInv, LookupsArePaired, LookingUp
  <2> QED
    BY <2>1, <2>2
<1>4. HoldersArePaired'
  BY <1>0, RoomCreationAssumption DEF RaceInv, HoldersArePaired, LocksAreLive, TypeOK, Call
<1> QED
  BY <1>1, <1>2, <1>3, <1>4 DEF RaceInv

\* A call that has found no room sets the lock.
LEMMA CreatingKeepsRace ==
    ASSUME TypeOK, TypeOK', RaceInv, NEW c \in Calls, OthersStay(c), At(c, "lookup"),
           calls'[c].stage = "creating", calls'[c].key = calls[c].key,
           lock' = [lock EXCEPT ![calls[c].key] = c],
           UNCHANGED together
    PROVE  RaceInv'
<1> USE DEF At, Pending, InCreation, OthersStay
<1>0. /\ calls[c].key \in Keys
      /\ \A j \in Keys : lock'[j] = IF j = calls[c].key THEN c ELSE lock[j]
  BY DEF TypeOK, Call
<1>1. LocksAreLive'
  <2>1. HeldByMakers'
    BY <1>0, CallFields, LiveHalves DEF RaceInv, HeldByMakers
  <2>2. AwaitedAreMade'
    BY <1>0, CallFields, LiveHalves DEF RaceInv, AwaitedAreMade
  <2> QED
    BY <2>1, <2>2, LiveHalves
<1>2. StoresARoom' /\ AliasesAreOfGateways' /\ LookupsArePaired'
  BY DEF RaceInv, StoresARoom, AliasesAreOfGateways, LookupsArePaired
<1>3. HoldersArePaired'
  BY <1>0, RoomCreationAssumption DEF RaceInv, HoldersArePaired, LookupsArePaired, LocksAreLive, TypeOK, Call
<1> QED
  BY <1>1, <1>2, <1>3 DEF RaceInv

\* A room is made, or its user joins before it is stored.
LEMMA MakingKeepsRace ==
    ASSUME TypeOK, TypeOK', RaceInv, NEW c \in Calls, OthersStay(c), Pending(c),
           calls'[c].stage = "storing", calls'[c].key = calls[c].key, calls'[c].room # NoRoom,
           UNCHANGED <<lock, together>>
    PROVE  RaceInv'
<1> USE DEF At, Pending, InCreation, OthersStay
<1>1. LocksAreLive'
  <2>1. HeldByMakers'
    BY CallFields, LiveHalves DEF RaceInv, HeldByMakers
  <2>2. AwaitedAreMade'
    BY CallFields, LiveHalves DEF RaceInv, AwaitedAreMade
  <2> QED
    BY <2>1, <2>2, LiveHalves
<1>2. StoresARoom' /\ AliasesAreOfGateways' /\ LookupsArePaired'
  BY DEF RaceInv, StoresARoom, AliasesAreOfGateways, LookupsArePaired
<1>3. HoldersArePaired'
  BY DEF RaceInv, HoldersArePaired, TypeOK, Call
<1> QED
  BY <1>1, <1>2, <1>3 DEF RaceInv

\* The row is written: who waited looks into the store, next to those who
\* look already and to whoever holds the lock by now.
LEMMA StoringKeepsRace ==
    ASSUME TypeOK, TypeOK', RaceInv, NEW c \in Calls, RoomStored(c)
    PROVE  RaceInv'
<1> USE DEF At, Pending, InCreation
<1> DEFINE k == calls[c].key
           next == IF WaitOnJoin THEN "joinwait" ELSE FoundStage(c)
           rec == [calls[c] EXCEPT !.stage = next]
           S == LookingUp(k) \cup Waiters(c) \cup PendingHolder(k)
<1>0. k \in Keys /\ calls[c] \in Call /\ next \in {"joinwait", "joining", "sending"}
  BY CallFields, FoundStageType DEF TypeOK
<1>1. rec \in Call /\ rec.stage = next /\ rec.key = k
  BY <1>0 DEF Call, Stages
<1>2. /\ calls'[c].stage = next /\ calls'[c].key = k
      /\ \A d \in Calls \ {c} :
            IF d \in Waiters(c)
            THEN /\ calls'[d].stage = "lookup"
                 /\ calls'[d].kind = calls[d].kind
                 /\ calls'[d].key = calls[d].key
            ELSE calls'[d] = calls[d]
  <2>1. calls' = Settled(c, rec, "lookup")
    BY DEF RoomStored
  <2>2. "lookup" \in Stages
    BY DEF Stages
  <2> HIDE DEF next, rec, k
  <2>3. \A d \in Calls \ {c} :
           IF d \in Waiters(c)
           THEN /\ calls'[d].stage = "lookup"
                /\ calls'[d].kind = calls[d].kind
                /\ calls'[d].key = calls[d].key
           ELSE calls'[d] = calls[d]
    BY <1>1, <2>1, <2>2, SettledType
  <2>4. calls'[c] = rec
    BY <1>1, <2>1, <2>2, SettledType
  <2> QED
    BY <1>1, <2>3, <2>4
<1>3. \A j \in Keys : lock'[j] = IF j = k /\ ~WaitOnJoin THEN Nobody ELSE lock[j]
  BY <1>0 DEF RoomStored, Released, TypeOK
<1>4. \A d \in Waiters(c) : d \in Calls \ {c} /\ calls[d].stage = "waiting" /\ calls[d].key = k
  BY LiveHalves DEF RoomStored, Waiters, RaceInv, AwaitedAreMade
<1>5. /\ together \subseteq together'
      /\ \A d, e \in S : d # e => {d, e} \in together'
  <2>1. S \in SUBSET Calls
    BY DEF LookingUp, Waiters, PendingHolder
  <2> QED
    BY <2>1, PairedType DEF RoomStored
<1> HIDE DEF k, next, rec
<1>6. HeldByMakers'
  <2> SUFFICES ASSUME NEW j \in Keys, lock'[j] # Nobody
               PROVE  InCreation(lock[j])' /\ calls'[lock'[j]].key = j
    BY DEF HeldByMakers
  <2>1. lock'[j] = lock[j] /\ lock[j] \in Calls /\ InCreation(lock[j]) /\ calls[lock[j]].key = j
    BY <1>3, CallFields, LiveHalves DEF RaceInv, HeldByMakers
  <2>2. CASE lock[j] = c
    BY <2>1, <2>2, <1>2, <1>3 DEF k, next
  <2>3. CASE lock[j] # c
    BY <2>1, <2>3, <1>2, <1>4
  <2> QED
    BY <2>2, <2>3
<1>7. AwaitedAreMade'
  <2> SUFFICES ASSUME NEW x \in Calls, calls'[x].stage = "waiting"
               PROVE  /\ calls'[x].on # Nobody /\ Pending(calls[x].on)'
                      /\ calls'[calls'[x].on].key = calls'[x].key
    BY DEF AwaitedAreMade
  <2>1. x # c /\ x \notin Waiters(c) /\ calls'[x] = calls[x]
    BY <1>0, <1>2
  <2>2. /\ calls[x].on \in Calls \ {c} /\ Pending(calls[x].on)
        /\ calls[calls[x].on].key = calls[x].key
    BY <2>1, CallFields, LiveHalves DEF RaceInv, AwaitedAreMade, Waiters
  <2>3. calls'[calls[x].on] = calls[calls[x].on]
    BY <2>2, <1>2, <1>4
  <2> QED
    BY <2>1, <2>2, <2>3, RoomCreationAssumption
<1>8. StoresARoom' /\ AliasesAreOfGateways'
  BY <1>0, <1>2, <1>4 DEF RaceInv, StoresARoom, AliasesAreOfGateways
<1>9. LookupsArePaired'
  <2> SUFFICES ASSUME NEW d \in Calls, NEW e \in Calls, d # e, calls'[d].stage = "lookup",
                      calls'[e].stage = "lookup", calls'[d].key = calls'[e].key
               PROVE  {d, e} \in together'
    BY DEF LookupsArePaired
  <2>1. d # c /\ e # c
    BY <1>0, <1>2
  <2>2. \A x \in {d, e} : x \in Waiters(c) \/ (calls[x].stage = "lookup" /\ calls[x].key = calls'[x].key)
    BY <2>1, <1>2
  <2>3. CASE d \in Waiters(c) \/ e \in Waiters(c)
    <3>1. calls'[d].key = k /\ calls'[e].key = k
      BY <2>1, <2>3, <1>2, <1>4
    <3>2. d \in S /\ e \in S
      BY <2>1, <2>2, <3>1, <1>2 DEF LookingUp
    <3> QED
      BY <3>2, <1>5
  <2>4. CASE d \notin Waiters(c) /\ e \notin Waiters(c)
    BY <2>1, <2>4, <1>2, <1>5 DEF RaceInv, LookupsArePaired
  <2> QED
    BY <2>3, <2>4
<1>10. HoldersArePaired'
  <2> SUFFICES ASSUME NEW x \in Calls, calls'[x].stage = "lookup", lock'[calls'[x].key] # Nobody,
                      Pending(lock[calls[x].key])'
               PROVE  {x, lock'[calls'[x].key]} \in together'
    BY DEF HoldersArePaired
  <2> DEFINE j == calls'[x].key
             h == lock[j]
  <2>1. /\ x # c /\ j \in Keys /\ calls[x].key = j
        /\ lock'[j] = h /\ h \in Calls /\ h # c
    BY <1>0, <1>2, <1>3, CallFields
  <2>2. h \notin Waiters(c) /\ Pending(h)
    BY <2>1, <1>2
  <2>3. CASE x \in Waiters(c)
    <3>1. j = k /\ h \in PendingHolder(k)
      BY <2>1, <2>2, <2>3, <1>4 DEF PendingHolder
    <3>2. x # h
      BY <2>2, <2>3
    <3> QED
      BY <2>1, <2>3, <3>1, <3>2, <1>5
  <2>4. CASE x \notin Waiters(c)
    BY <2>1, <2>2, <2>4, <1>2, <1>5 DEF RaceInv, HoldersArePaired
  <2> QED
    BY <2>3, <2>4
<1> QED
  BY <1>6, <1>7, <1>8, <1>9, <1>10, LiveHalves DEF RaceInv

\* The promise is rejected: who waited makes a room, and one of them holds
\* the lock.
LEMMA FailingKeepsRace ==
    ASSUME TypeOK, TypeOK', RaceInv, NEW c \in Calls, CreationFails(c)
    PROVE  RaceInv'
<1> USE DEF At, Pending, InCreation
<1> DEFINE k == calls[c].key
           rec == [calls[c] EXCEPT !.stage = FoundStage(c), !.room = NoRoom]
           S == LookingUp(k) \cup Waiters(c)
<1>0. k \in Keys /\ calls[c] \in Call /\ FoundStage(c) \in {"joining", "sending"}
  BY CallFields, FoundStageType DEF TypeOK
<1>1. rec \in Call /\ rec.stage = FoundStage(c)
  BY <1>0 DEF Call, Stages
<1>2. /\ calls'[c].stage \in {"joining", "sending"}
      /\ \A d \in Calls \ {c} :
            IF d \in Waiters(c)
            THEN /\ calls'[d].stage = "creating"
                 /\ calls'[d].kind = calls[d].kind
                 /\ calls'[d].key = calls[d].key
            ELSE calls'[d] = calls[d]
  <2>1. calls' = Settled(c, rec, "creating")
    BY DEF CreationFails
  <2>2. "creating" \in Stages
    BY DEF Stages
  <2> HIDE DEF rec, k
  <2>3. \A d \in Calls \ {c} :
           IF d \in Waiters(c)
           THEN /\ calls'[d].stage = "creating"
                /\ calls'[d].kind = calls[d].kind
                /\ calls'[d].key = calls[d].key
           ELSE calls'[d] = calls[d]
    BY <1>1, <2>1, <2>2, SettledType
  <2>4. calls'[c] = rec
    BY <1>1, <2>1, <2>2, SettledType
  <2> QED
    BY <1>0, <1>1, <2>3, <2>4
<1>3. /\ \A j \in Keys \ {k} : lock'[j] = lock[j]
      /\ lock'[k] = Nobody \/ lock'[k] \in Waiters(c)
  BY <1>0 DEF CreationFails, Released, TypeOK
<1>4. \A d \in Waiters(c) : d \in Calls \ {c} /\ calls[d].stage = "waiting" /\ calls[d].key = k
  BY LiveHalves DEF CreationFails, Waiters, RaceInv, AwaitedAreMade
<1>5. /\ together \subseteq together'
      /\ \A d, e \in S : d # e => {d, e} \in together'
  <2>1. S \in SUBSET Calls
    BY DEF LookingUp, Waiters
  <2> QED
    BY <2>1, PairedType DEF CreationFails
<1> HIDE DEF k, rec
<1>6. HeldByMakers'
  <2> SUFFICES ASSUME NEW j \in Keys, lock'[j] # Nobody
               PROVE  InCreation(lock[j])' /\ calls'[lock'[j]].key = j
    BY DEF HeldByMakers
  <2>1. CASE j = k
    BY <2>1, <1>2, <1>3, <1>4
  <2>2. CASE j # k
    <3>1. lock'[j] = lock[j] /\ lock[j] \in Calls \ {c} /\ InCreation(lock[j]) /\ calls[lock[j]].key = j
      BY <2>2, <1>3, CallFields, LiveHalves DEF RaceInv, HeldByMakers, k
    <3> QED
      BY <3>1, <1>2, <1>4
  <2> QED
    BY <2>1, <2>2
<1>7. AwaitedAreMade'
  <2> SUFFICES ASSUME NEW x \in Calls, calls'[x].stage = "waiting"
               PROVE  /\ calls'[x].on # Nobody /\ Pending(calls[x].on)'
                      /\ calls'[calls'[x].on].key = calls'[x].key
    BY DEF AwaitedAreMade
  <2>1. x # c /\ x \notin Waiters(c) /\ calls'[x] = calls[x]
    BY <1>0, <1>2
  <2>2. /\ calls[x].on \in Calls \ {c} /\ Pending(calls[x].on)
        /\ calls[calls[x].on].key = calls[x].key
    BY <2>1, CallFields, LiveHalves DEF RaceInv, AwaitedAreMade, Waiters
  <2>3. calls'[calls[x].on] = calls[calls[x].on]
    BY <2>2, <1>2, <1>4
  <2> QED
    BY <2>1, <2>2, <2>3, RoomCreationAssumption
<1>8. StoresARoom' /\ AliasesAreOfGateways' /\ LookupsArePaired'
  <2>1. StoresARoom' /\ AliasesAreOfGateways'
    BY <1>0, <1>2, <1>4 DEF RaceInv, StoresARoom, AliasesAreOfGateways
  <2>2. LookupsArePaired'
    BY <1>2, <1>4, <1>5 DEF RaceInv, LookupsArePaired
  <2> QED
    BY <2>1, <2>2
<1>9. HoldersArePaired'
  <2> SUFFICES ASSUME NEW x \in Calls, calls'[x].stage = "lookup", lock'[calls'[x].key] # Nobody,
                      Pending(lock[calls[x].key])'
               PROVE  {x, lock'[calls'[x].key]} \in together'
    BY DEF HoldersArePaired
  <2>1. /\ x # c /\ x \notin Waiters(c) /\ calls'[x] = calls[x] /\ calls[x].key \in Keys
    BY <1>2, CallFields
  <2>2. CASE calls[x].key = k
    <3>1. x \in S /\ lock'[k] \in S /\ x # lock'[k]
      BY <2>1, <2>2, <1>3 DEF LookingUp
    <3> QED
      BY <2>1, <2>2, <3>1, <1>5
  <2>3. CASE calls[x].key # k
    <3>1. /\ lock'[calls[x].key] = lock[calls[x].key] /\ lock[calls[x].key] \in Calls \ {c}
          /\ InCreation(lock[calls[x].key])
      BY <2>1, <2>3, <1>3, CallFields, LiveHalves DEF RaceInv, HeldByMakers, k
    <3>2. calls'[lock[calls[x].key]] = calls[lock[calls[x].key]]
      BY <3>1, <1>2, <1>4
    <3> QED
      BY <2>1, <3>1, <3>2, <1>5 DEF RaceInv, HoldersArePaired
  <2> QED
    BY <2>2, <2>3
<1> QED
  BY <1>6, <1>7, <1>8, <1>9, LiveHalves DEF RaceInv

LEMMA CallRace ==
    ASSUME TypeOK, TypeOK', RaceInv, NEW c \in Calls, CallNext(c)
    PROVE  RaceInv'
<1> USE DEF At
<1>0. calls[c] \in Call /\ calls[c].key \in Keys
  BY CallFields DEF TypeOK
<1>1. CASE \E kind \in Kinds, k \in Keys : Begin(c, kind, k)
  <2>1. PICK kind \in Kinds, k \in Keys : Begin(c, kind, k)
    BY <1>1
  <2> DEFINE e == Entered(c, k)
             new == [e EXCEPT !.kind = kind]
  <2>2. e \in Call
    BY EnteredType
  <2>3. new.stage = e.stage /\ new.key = e.key /\ new.on = e.on
    <3> HIDE DEF e
    <3> QED
      BY <2>2 DEF Call
  <2>4. calls' = [calls EXCEPT ![c] = new]
    BY <2>1 DEF Begin
  <2>5. calls'[c] = new /\ OthersStay(c)
    <3> HIDE DEF new
    <3> QED
      BY <2>4 DEF TypeOK, OthersStay
  <2>6. together' = IF new.stage = "lookup" THEN together \cup Paired(LookingUp(k) \cup {c}) ELSE together
    BY <2>1 DEF Begin
  <2>7. ~InCreation(c) /\ UNCHANGED lock
    BY <2>1 DEF Begin, InCreation
  <2> HIDE DEF e, new
  <2>8. /\ e.key = k
        /\ \/ /\ e.stage = "waiting"
              /\ lock[k] # Nobody /\ Pending(lock[k]) /\ e.on = lock[k]
           \/ /\ e.stage = "lookup"
              /\ ~(lock[k] # Nobody /\ Pending(lock[k]))
    BY EnteredType DEF e
  <2> QED
    BY <2>3, <2>5, <2>6, <2>7, <2>8, EnteringKeepsRace
<1>2. CASE RowRemoved(c)
  <2> DEFINE k == calls[c].key
             e == Entered(c, k)
             new == [e EXCEPT !.again = TRUE, !.room = NoRoom]
  <2>2. e \in Call
    BY <1>0, EnteredType
  <2>3. new.stage = e.stage /\ new.key = e.key /\ new.on = e.on
    <3> HIDE DEF e
    <3> QED
      BY <2>2 DEF Call
  <2>4. calls' = [calls EXCEPT ![c] = new]
    BY <1>2 DEF RowRemoved
  <2>5. calls'[c] = new /\ OthersStay(c)
    <3> HIDE DEF new
    <3> QED
      BY <2>4 DEF TypeOK, OthersStay
  <2>6. together' = IF new.stage = "lookup" THEN together \cup Paired(LookingUp(k) \cup {c}) ELSE together
    BY <1>2 DEF RowRemoved
  <2>7. ~InCreation(c) /\ UNCHANGED lock /\ k \in Keys
    BY <1>0, <1>2 DEF RowRemoved, InCreation
  <2> HIDE DEF e, new, k
  <2>8. /\ e.key = k
        /\ \/ /\ e.stage = "waiting"
              /\ lock[k] # Nobody /\ Pending(lock[k]) /\ e.on = lock[k]
           \/ /\ e.stage = "lookup"
              /\ ~(lock[k] # Nobody /\ Pending(lock[k]))
    BY <2>7, EnteredType DEF e
  <2> QED
    BY <2>3, <2>5, <2>6, <2>7, <2>8, EnteringKeepsRace
<1>3. CASE FindAnyRoom(c) \/ GhostJoins(c) \/ GhostCannotJoin(c) \/ AliasStored(c)
  <2>1. /\ ~InCreation(c) /\ OthersStay(c) /\ UNCHANGED <<lock, together>>
        /\ calls'[c].stage \in Leaving
    BY <1>0, <1>3, FoundStageType
       DEF FindAnyRoom, FindRoom, GhostJoins, GhostCannotJoin, AliasStored, InCreation, OthersStay,
           Leaving, TypeOK, Call
  <2> QED
    BY <2>1, LeavingKeepsRace
<1>4. CASE RefuseToMake(c) \/ Send(c) \/ CallFails(c)
  <2>1. Finished(c)[c].stage = "done" /\ \A x \in Calls \ {c} : Finished(c)[x] = calls[x]
    BY NewCallType DEF Finished, TypeOK, Call
  <2>2. /\ ~InCreation(c) /\ OthersStay(c) /\ UNCHANGED <<lock, together>>
        /\ calls'[c].stage \in Leaving
    BY <1>4, <2>1 DEF RefuseToMake, Send, CallFails, InCreation, OthersStay, Leaving
  <2> QED
    BY <2>2, LeavingKeepsRace
<1>5. CASE AskForAlias(c)
  <2>1. /\ OthersStay(c) /\ calls[c].stage = "lookup" /\ UNCHANGED <<lock, together>>
        /\ calls'[c].stage = "alias" /\ calls'[c].kind = "gateway"
    BY <1>0, <1>5 DEF AskForAlias, OthersStay, TypeOK, Call
  <2>2. HeldByMakers' /\ AwaitedAreMade'
    BY <2>1, CallFields, LiveHalves
       DEF RaceInv, HeldByMakers, AwaitedAreMade, OthersStay, InCreation, Pending
  <2>3. StoresARoom' /\ AliasesAreOfGateways' /\ LookupsArePaired'
    BY <2>1 DEF RaceInv, StoresARoom, AliasesAreOfGateways, LookupsArePaired, OthersStay
  <2>4. HoldersArePaired'
    BY <2>1, CallFields DEF RaceInv, HoldersArePaired, OthersStay, Pending
  <2> QED
    BY <2>2, <2>3, <2>4, LiveHalves DEF RaceInv
<1>6. CASE StartCreation(c) \/ LookupFails(c)
  <2>1. CASE calls' = Finished(c)
    <3>1. Finished(c)[c].stage = "done" /\ \A x \in Calls \ {c} : Finished(c)[x] = calls[x]
      BY NewCallType DEF Finished, TypeOK, Call
    <3>2. /\ ~InCreation(c) /\ OthersStay(c) /\ UNCHANGED <<lock, together>>
          /\ calls'[c].stage \in Leaving
      <4>1. calls'[c].stage = "done"
        BY <2>1, <3>1
      <4>2. calls' # [calls EXCEPT ![c].stage = "creating"]
        BY <4>1, <1>0 DEF TypeOK, Call
      <4> QED
        BY <1>6, <2>1, <3>1, <4>1, <4>2 DEF StartCreation, LookupFails, InCreation, OthersStay, Leaving
    <3> QED
      BY <3>2, LeavingKeepsRace
  <2>2. CASE calls' = [calls EXCEPT ![c].stage = "creating"]
    <3>1. /\ OthersStay(c) /\ calls'[c].stage = "creating" /\ calls'[c].key = calls[c].key
      BY <1>0, <2>2 DEF OthersStay, TypeOK, Call
    <3>2. calls' # Finished(c)
      BY <3>1, NewCallType DEF Finished, TypeOK, Call
    <3>3. calls[c].stage = "lookup" /\ UNCHANGED together /\ lock' = [lock EXCEPT ![calls[c].key] = c]
      BY <1>6, <3>2 DEF StartCreation, LookupFails, RaceInv, AliasesAreOfGateways
    <3> QED
      BY <3>1, <3>3, CreatingKeepsRace
  <2> QED
    BY <1>6, <2>1, <2>2 DEF StartCreation, LookupFails
<1>7. CASE RoomMade(c)
  <2>1. <<c, calls[c].again>> # NoRoom
    BY <1>0, RoomsHere, RoomCreationAssumption DEF Call
  <2>2. /\ OthersStay(c) /\ Pending(c) /\ UNCHANGED <<lock, together>>
        /\ calls'[c].stage = "storing" /\ calls'[c].key = calls[c].key /\ calls'[c].room # NoRoom
    BY <1>0, <1>7, <2>1 DEF RoomMade, OthersStay, Pending, TypeOK, Call
  <2> QED
    BY <2>2, MakingKeepsRace
<1>8. CASE RoomStored(c)
  BY <1>8, StoringKeepsRace
<1>9. CASE CreationFails(c)
  BY <1>9, FailingKeepsRace
<1>10. CASE UserJoins(c) \/ JoinWaitExpires(c)
  <2>1. CASE calls[c].stage = "joinwait"
    <3>1. calls' = [calls EXCEPT ![c] = [calls[c] EXCEPT !.joined = FALSE, !.stage = FoundStage(c)]]
      BY <1>10, <2>1 DEF UserJoins, JoinWaitExpires, TypeOK
    <3>2. calls'[c].stage = FoundStage(c) /\ OthersStay(c)
      BY <1>0, <3>1 DEF OthersStay, TypeOK, Call
    <3>3. lock' = Released(calls[c].key) /\ UNCHANGED together
      BY <1>10, <2>1 DEF UserJoins, JoinWaitExpires
    <3> QED
      BY <1>0, <2>1, <3>2, <3>3, FoundStageType, ReleasingKeepsRace DEF Leaving
  <2>2. CASE calls[c].stage = "storing"
    <3>1. calls' = [calls EXCEPT ![c] = [calls[c] EXCEPT !.joined = TRUE]]
      BY <1>10, <2>2 DEF UserJoins, JoinWaitExpires, TypeOK
    <3>2. /\ calls'[c].stage = "storing" /\ calls'[c].key = calls[c].key /\ calls'[c].room = calls[c].room
          /\ OthersStay(c)
      BY <1>0, <2>2, <3>1 DEF OthersStay, TypeOK, Call
    <3>3. UNCHANGED <<lock, together>> /\ Pending(c) /\ calls[c].room # NoRoom
      BY <1>10, <2>2 DEF UserJoins, JoinWaitExpires, Pending, RaceInv, StoresARoom
    <3> QED
      BY <3>2, <3>3, MakingKeepsRace
  <2> QED
    BY <1>10, <2>1, <2>2 DEF UserJoins, JoinWaitExpires
<1> QED
  BY <1>1, <1>2, <1>3, <1>4, <1>5, <1>6, <1>7, <1>8, <1>9, <1>10 DEF CallNext, Proceed

LEMMA SameRace ==
    ASSUME TypeOK, TypeOK', RaceInv, UNCHANGED <<calls, together>>,
           UNCHANGED lock \/ \E k \in Keys : lock' = Released(k)
    PROVE  RaceInv'
<1>1. CASE UNCHANGED lock
  BY <1>1 DEF RaceInv, StoresARoom, LocksAreLive, AliasesAreOfGateways, LookupsArePaired,
              HoldersArePaired, At, Pending, InCreation
<1>2. CASE \E k \in Keys : lock' = Released(k)
  <2>1. PICK k \in Keys : lock' = Released(k)
    BY <1>2
  <2>2. \A j \in Keys : lock'[j] = IF j = k THEN Nobody ELSE lock[j]
    BY <2>1 DEF Released, TypeOK
  <2>3. LocksAreLive'
    BY <2>2 DEF RaceInv, LocksAreLive, At, Pending, InCreation
  <2>4. HoldersArePaired'
    BY <2>2, CallFields DEF RaceInv, HoldersArePaired, At, Pending
  <2> QED
    BY <2>3, <2>4 DEF RaceInv, StoresARoom, AliasesAreOfGateways, LookupsArePaired, At
<1> QED
  BY <1>1, <1>2

LEMMA NextRace ==
    ASSUME TypeOK, RaceInv, [Next]_vars
    PROVE  TypeOK' /\ RaceInv'
<1>1. CASE \E c \in Calls : CallNext(c)
  BY <1>1, CallType, CallRace DEF RaceInv
<1>2. CASE DirectNext
  <2>1. UNCHANGED lock
    BY <1>2 DEF DirectNext, OpenDirect, GhostJoinsDirect, DirectStored, DirectFails, FetchMissedTexts,
                WriteText, HandleText, roomVars
  <2> QED
    BY <1>2, <2>1, OtherType, SameRace
<1>3. CASE PlumbingNext
  <2>1. UNCHANGED lock \/ \E k \in Keys : lock' = Released(k)
    BY <1>3 DEF PlumbingNext, StartPlumbing, Plumb, PlumbingFails, Unplumb, roomVars, Keys
  <2> QED
    BY <1>3, <2>1, OtherType, SameRace
<1>4. CASE UNCHANGED vars
  <2>1. TypeOK'
    BY <1>4 DEF TypeOK, vars
  <2> QED
    BY <1>4, <2>1, SameRace DEF vars
<1> QED
  BY <1>1, <1>2, <1>3, <1>4 DEF Next

\* The inductive invariant as a whole: whatever fails, and whoever sets or
\* deletes a lock, locks, lookups and aliases stay as RaceInv says.
THEOREM CreationRace == Spec => [](TypeOK /\ RaceInv)
<1>1. Init => TypeOK /\ RaceInv
  BY InitType, InitRace
<1>2. TypeOK /\ RaceInv /\ [Next]_vars => (TypeOK /\ RaceInv)'
  BY NextRace
<1> QED
  BY <1>1, <1>2, PTL DEF Spec

\* Every variable keeps its type, whatever fails and whoever plumbs.
THEOREM CreationTypes == Spec => []TypeOK
BY CreationRace, PTL

\* For every number of calls and conversations a lock is that of a call that
\* still makes a room, and whoever waits does so for a pending promise.
THEOREM LocksStayLive == Spec => []LocksAreLive
<1>1. RaceInv => LocksAreLive
  BY DEF RaceInv
<1> QED
  BY <1>1, CreationRace, PTL

\* A second room for a conversation is made only by calls that looked for one
\* at the same time.
THEOREM OnlyOverlaps == Spec => OnlyOverlappingLookupsRace
<1> DEFINE Race ==
        \A c, d \in Calls :
          /\ At(c, "lookup") /\ calls'[c].stage = "creating"
          /\ lock[calls[c].key] = d /\ Pending(d)
          => {c, d} \in together
<1>1. TypeOK /\ RaceInv /\ [Next]_vars => [Race]_vars
  BY RoomCreationAssumption DEF RaceInv, HoldersArePaired
<1> QED
  BY <1>1, CreationRace, PTL DEF Spec, OnlyOverlappingLookupsRace

-----------------------------------------------------------------------------
(* Messages of a direct chat                                               *)

TextsInv == \A m \in Texts : relayed[m] <= 1 /\ (texts[m] # "handled" => relayed[m] = 0)

LEMMA TextsStep ==
    ASSUME TypeOK, TextsInv, [Next]_vars
    PROVE  TextsInv'
<1>1. CASE UNCHANGED <<texts, relayed>>
  BY <1>1 DEF TextsInv
<1>2. CASE \E m \in Texts : WriteText(m)
  BY <1>2 DEF WriteText, TextsInv, TypeOK
<1>3. CASE \E m \in Texts : HandleText(m)
  BY <1>3 DEF HandleText, Relay, TextsInv, TypeOK
<1>4. CASE FetchMissedTexts
  BY <1>4 DEF FetchMissedTexts, TextsBeforeJoin, Relay, TextsInv, TypeOK
<1>5. ASSUME NEW c \in Calls, CallNext(c) PROVE UNCHANGED <<texts, relayed>>
  BY <1>5 DEF CallNext, Proceed, Begin, FindAnyRoom, FindRoom, StartCreation, RefuseToMake, AskForAlias,
              AliasStored, LookupFails, RoomMade, RoomStored, CreationFails, UserJoins,
              JoinWaitExpires, GhostJoins, GhostCannotJoin, RowRemoved, Send, CallFails, directVars
<1> QED
  BY <1>1, <1>2, <1>3, <1>4, <1>5
     DEF Next, DirectNext, OpenDirect, GhostJoinsDirect, DirectStored, DirectFails, PlumbingNext,
         StartPlumbing, Plumb, PlumbingFails, Unplumb, vars, directVars

\* No message of a direct chat is relayed twice, however many there are.
THEOREM TextsOnce == Spec => []TextsRelayedOnce
<1>1. Init => TextsInv
  BY DEF Init, TextsInv
<1>2. TypeOK /\ TextsInv /\ [Next]_vars => TextsInv'
  BY TextsStep
<1>3. TextsInv => TextsRelayedOnce
  BY DEF TextsInv, TextsRelayedOnce
<1> QED
  BY <1>1, <1>2, <1>3, CreationTypes, PTL DEF Spec
=============================================================================
