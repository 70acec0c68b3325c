SPECIFICATION HostsSpec
CONSTANTS
    NExperts = 4
    NSlots = 2
    NLayers = 2
    SweepBatch = 2
    AheadMax = 4
    Workers = 1
    Decodes = FALSE
    MaxPrefetch = 0
    MaxRaises = 1
    NTasks = 8
CHECK_DEADLOCK FALSE
INVARIANTS
    BatchesWhole
    ReadOnce
    NoOrphanWaits
PROPERTIES
    CallsEnd
