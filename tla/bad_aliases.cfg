\* Two XMPP users join one room by two of its aliases, nothing failing.
SPECIFICATION Spec
CONSTANTS
    Users = {u1}
    Ghosts = {g1, g2}
    Names = {n1}
    Aliases = {a1, a2}
    Handlers = {h1}
    NoName = NoName
    NoAlias = NoAlias
    NoRoom = NoRoom
    NoEvent = NoEvent
    MaxSteps = 3
    MaxPending = 1
    Environment = {}
CHECK_DEADLOCK FALSE
PROPERTIES OneAliasPerRoom
