SPECIFICATION Spec
CONSTANTS
    Experts = {0, 1, 2, 3, 4}
    NSlots = 3
    Policy = "lru"
    TopM = 1
    ReadsFail = FALSE
INVARIANTS
    SlotMap
    NoSelfEviction
    SweepWarms
PROPERTIES
    ImplementsStock
