\* A kick after a restart.
SPECIFICATION Spec
CONSTANTS
    Users = {u1}
    Resources = {phone}
    Nicks = {frog}
    MatrixNicks = {}
    JoinIds = {j1}
    NoUser = NoUser
    Environment = {"kick"}
    MaxLeaveCalls = 1
    MaxRestarts = 1
SYMMETRY Symmetry
PROPERTIES KicksReachEverybody
