\* Three rooms of one account, which may sign on early and more than once.
SPECIFICATION FairSpec
CONSTANTS
    Rooms = {r1, r2, r3}
    Accounts = {a1}
    MaxSyncs = 2
    Lists = {l1, l2, l3}
    Handlers = {h1, h2}
    None = None
    Environment = {"forbidden", "error", "fail", "early", "again"}
CHECK_DEADLOCK FALSE
INVARIANTS TypeOK AtMostMaxSyncs
PROPERTIES JoinsOnce SyncFinishesWithASlotLeft ListedRoomsAreRejoined
