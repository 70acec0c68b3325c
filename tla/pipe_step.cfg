SPECIFICATION Spec
CONSTANTS
    Experts = {e1, e2, e3, e4}
    NSlots = 2
    TopK = 1
    NLayers = 2
    KMax = 3
    ReadsFail = TRUE
SYMMETRY Alike
INVARIANTS
    RowsInReach
    LayersAgree
PROPERTIES
    SettleKeeps
