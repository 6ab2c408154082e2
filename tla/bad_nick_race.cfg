\* Two users join with one nickname at the same time.
SPECIFICATION Spec
CONSTANTS
    Users = {u1, u2}
    Resources = {phone}
    Nicks = {frog}
    MatrixNicks = {}
    JoinIds = {j1, j2}
    NoUser = NoUser
    Environment = {}
    MaxLeaveCalls = 1
    MaxRestarts = 0
SYMMETRY Symmetry
INVARIANTS NicksUnique
