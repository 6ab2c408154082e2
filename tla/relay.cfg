\* Two accounts, a message of one of them and two remote messages, with two
\* events: another join event, a user leaving, a connection lost.
SPECIFICATION FairSpec
CONSTANTS
    u1 = u1
    Users = {u1, u2}
    OwnMessages = {m1}
    Owner <- OwnerOfAll
    Remote = {r1, r2}
    NoUser = NoUser
    Environment = {"rejoin", "leave", "signoff"}
    MaxEvents = 2
CHECK_DEADLOCK FALSE
INVARIANTS TypeOK NoEcho RepeatedBySuccessors ChosenOneIsThere LeftInGoodHands
PROPERTIES DeferredSendsEnd
