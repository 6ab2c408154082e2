\* Two calls for one direct conversation or one group chat, with failures at
\* every await, beside a direct chat the user opens, and plumbing.
SPECIFICATION FairSpec
CONSTANTS
    Calls = {c1, c2}
    Chats = {chat}
    Groups = {muc}
    Texts = {m1}
    DirectRoom = DirectRoom
    PlumbedRoom = PlumbedRoom
    AliasRoom = AliasRoom
    Nobody = Nobody
    NoRoom = NoRoom
    WaitOnJoin = TRUE
    Environment = {"fail", "unjoinable", "direct", "plumb"}
CHECK_DEADLOCK FALSE
CONSTRAINT OneCallBesideDirect
INVARIANTS TypeOK LocksAreLive TextsRelayedOnce
PROPERTIES OnlyOverlappingLookupsRace ImCallsFinish
