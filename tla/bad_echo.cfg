\* Two accounts, a message of one of them and two remote messages: users who
\* join again, or whose account never joined and who then leave.
SPECIFICATION Spec
CONSTANTS
    u1 = u1
    Users = {u1, u2}
    OwnMessages = {m1}
    Owner <- OwnerOfAll
    Remote = {r1, r2}
    NoUser = NoUser
    Environment = {"rejoin", "refuse"}
    MaxEvents = 2
CHECK_DEADLOCK FALSE
INVARIANTS NoEcho
