\* Two devices of one user leave one after the other.
SPECIFICATION Spec
CONSTANTS
    Users = {u1}
    Resources = {phone, laptop}
    Nicks = {frog}
    MatrixNicks = {}
    JoinIds = {j1}
    NoUser = NoUser
    Environment = {}
    MaxLeaveCalls = 1
    MaxRestarts = 0
SYMMETRY Symmetry
INVARIANTS DevicesAreLive
