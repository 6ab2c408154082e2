\* A user is kicked, comes back, and joins with a second device.
SPECIFICATION Spec
CONSTANTS
    Users = {u1}
    Resources = {phone, laptop}
    Nicks = {frog}
    MatrixNicks = {}
    JoinIds = {j1}
    NoUser = NoUser
    Environment = {"kick"}
    MaxLeaveCalls = 1
    MaxRestarts = 1
SYMMETRY Symmetry
PROPERTIES RefreshIsAccurate
