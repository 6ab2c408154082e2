\* Two users race for nicknames, one of them a Matrix member's; they leave
\* early, change their nicknames, and their joins fail.
SPECIFICATION Spec
CONSTANTS
    Users = {u1, u2}
    Resources = {phone}
    Nicks = {frog, toad}
    MatrixNicks = {toad}
    JoinIds = {j1, j2}
    NoUser = NoUser
    Environment = {"fail", "early_leave", "nick_change"}
    MaxLeaveCalls = 1
    MaxRestarts = 0
SYMMETRY Symmetry
INVARIANTS CachedStanzasAreAwaited MembersCarryTheirMxid
