\* A call ends.
SPECIFICATION PartsSpec
CONSTANTS
    PlanLayers = {1, 2, 3}
    PlanStages = {4}
    PlanBytes = {1, 2, 3}
    PlanCounts = {2, 4}
    PlanK = 2
    MaxBudget = 38
    RangeExperts = 4
    NTensors = 3
    Files = {1, 2}
    Strides = {1, 2}
    Gaps = {0, 2, 3}
    MergeGap = 2
    MaxSpan = 5
    RangeWorkers = 2
    ChunkExperts = 3
    ChunkSlots = 2
    ChunkK = 2
    RowCounts = {2, 3, 4}
    ChunkBatch = 2
    StockMin = 6
    KernelMin = 3
    PerExpert = 2
    SliceExperts = {1, 2, 3, 4, 5}
    SliceSlots = 3
    Ks = {2, 4}
    SliceRows = 3
    TouchExperts = {1, 2, 3, 4, 5, 6}
    TouchSlots = 4
    TouchK = 2
CHECK_DEADLOCK FALSE
INVARIANTS
    PlanHolds
    RangesExact
    SpansMaximal
    RowsInPlace
    SameKernel
    WarmestLast
    SlicesExact
PROPERTIES
    OneCallAgrees
