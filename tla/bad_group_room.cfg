\* Two calls for one group chat, nothing failing: the first makes the room
\* and neither is ever finished.
SPECIFICATION FairSpec
CONSTANTS
    Calls = {c1, c2}
    Chats = {chat}
    Groups = {muc}
    Texts = {m1}
    DirectRoom = DirectRoom
    PlumbedRoom = PlumbedRoom
    AliasRoom = AliasRoom
    Nobody = Nobody
    NoRoom = NoRoom
    WaitOnJoin = FALSE
    Environment = {}
CHECK_DEADLOCK FALSE
PROPERTIES ChatCallsFinish
