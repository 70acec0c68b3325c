\* generate() returns.
SPECIFICATION PartsSpec
CONSTANTS
    Tokens = {1, 2}
    Stops = {2}
    NTokens = 4
    KMax = 3
    Keeps = {0, 2, 3}
    Depth = 3
    MaxPairs = 8
    Ids = {1, 2, 3}
    Whole = 6
    GateProbe = 2
    GateMin = 1
    GateHold = 2
    GateHoldMax = 4
    ExploreEvery = 3
    Costs = {2, 3}
    Extra = 3
    Feeds = TRUE
    HostResets = TRUE
    Upsets = 1
CHECK_DEADLOCK FALSE
INVARIANTS
    CacheFollows
    FedInOrder
    HeadContext
    LosslessLaunched
    GateHolds
PROPERTIES
    ImplementsPlainLoop
    ProbesOther
