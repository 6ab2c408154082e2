\* One user with two devices, which is kicked and comes back. The member list
\* is lost once and rebuilt from the store.
SPECIFICATION Spec
CONSTANTS
    Users = {u1}
    Resources = {phone, laptop}
    Nicks = {frog}
    MatrixNicks = {}
    JoinIds = {j1}
    NoUser = NoUser
    Environment = {"kick", "early_leave", "same_id"}
    MaxLeaveCalls = 1
    MaxRestarts = 1
SYMMETRY Symmetry
INVARIANTS TypeOK OneMemberPerUser ByMxidFindsMembers
PROPERTIES PartsOnlyAbsentUsers ImplementsOccupancy KicksTakeEffect
