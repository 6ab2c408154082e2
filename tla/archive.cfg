\* Two queries at a time; the second event of the room is no message.
SPECIFICATION Spec
CONSTANTS
    Queries = {q1, q2}
    Kinds = {"latest", "after", "since"}
    N = 5
    Noise = {2}
    MaxQueries = 2
    Batch = 1
    PageSize = 2
    CacheMax = 3
    Environment = {"fail", "lost", "reorder"}
SYMMETRY Symmetry
CHECK_DEADLOCK FALSE
INVARIANTS TypeOK NoHoles
PROPERTIES ReaderMissesNothing LatestPageIsFull
