\* A query without result set management asks for the last page.
SPECIFICATION Spec
CONSTANTS
    Queries = {q1}
    Kinds = {"page"}
    N = 3
    Noise = {}
    MaxQueries = 1
    Batch = 2
    PageSize = 2
    CacheMax = 3
    Environment = {}
CHECK_DEADLOCK FALSE
PROPERTIES LastPageIsLast
