\* The homeserver will not tell who is in the rooms.
SPECIFICATION FairSpec
CONSTANTS
    Rooms = {r1, r2, r3}
    Accounts = {a1}
    MaxSyncs = 2
    Lists = {l1, l2}
    Handlers = {h1}
    None = None
    Environment = {"forbidden"}
CHECK_DEADLOCK FALSE
PROPERTIES SyncFinishes
