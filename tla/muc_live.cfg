\* A client that asks to join is answered, and no ghost is left without a user.
SPECIFICATION FairSpec
CONSTANTS
    Users = {u1}
    Resources = {phone}
    Nicks = {frog, toad}
    MatrixNicks = {}
    JoinIds = {j1, j2}
    NoUser = NoUser
    Environment = {"early_leave"}
    MaxLeaveCalls = 1
    MaxRestarts = 0
INVARIANTS GhostsAreAccounted
PROPERTIES JoinsAreAnswered
