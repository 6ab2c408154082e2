\* Two messages of one puppet, with a stream that goes down once, writes that
\* fail, a MUC that loses the puppet once, a new name, and a homeserver that does
\* not answer.
SPECIFICATION FairSpec
CONSTANTS
    Messages = {m1, m2}
    Names = {n1, n2}
    Suffixed <- WithSuffix
    NoMessage = NoMessage
    NoNick = NoNick
    ForceReconnect = TRUE
    Environment = {"cut", "fail", "late", "drop", "kick", "rename", "nostate", "taken", "check"}
    MaxEvents = 1
    MaxHandlers = 2
CHECK_DEADLOCK FALSE
INVARIANTS TypeOK AcceptedOnce MessagesGetThrough HandleIsTheirs
PROPERTIES SendsFinish
