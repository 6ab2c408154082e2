\* Two messages find out at the same time that the MUC has lost the puppet.
SPECIFICATION Spec
CONSTANTS
    Messages = {m1, m2}
    Names = {n1}
    Suffixed <- WithSuffix
    NoMessage = NoMessage
    NoNick = NoNick
    ForceReconnect = TRUE
    Environment = {"drop"}
    MaxEvents = 1
    MaxHandlers = 2
CHECK_DEADLOCK FALSE
INVARIANTS ResentAfterRejoining
