SPECIFICATION Spec
CONSTANTS
    Experts = {0, 1, 2}
    NSlots = 2
    Policy = "lru"
    TopM = 1
    ReadsFail = TRUE
INVARIANT OutputExact
