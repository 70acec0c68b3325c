\* The requests end.
SPECIFICATION PartsSpec
CONSTANTS
    Words = {"a", "b"}
    Lengths = {1, 9}
    SuffixLen = 2
    Steps = {3, 8}
    MinSnapshot = 3
    MaxSnapshot = 14
    MaxLen = 25
    MaxRequests = 3
    Queries = {3, 4, 5, 6, 7, 8, 9, 10, 11}
    Contexts = {0, 1, 4, 9}
    MinRows = 4
    Unit = 2
    Limit = 60
CHECK_DEADLOCK FALSE
INVARIANTS
    StoredExact
    HistoryRestored
    ChunksEven
    BlocksExact
PROPERTIES
    ProgressRises
