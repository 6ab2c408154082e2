\* A join fails and the client tries again.
SPECIFICATION FairSpec
CONSTANTS
    Users = {u1}
    Resources = {phone}
    Nicks = {frog}
    MatrixNicks = {}
    JoinIds = {j1}
    NoUser = NoUser
    Environment = {"fail"}
    MaxLeaveCalls = 1
    MaxRestarts = 0
PROPERTIES JoinsAreAnswered
