SPECIFICATION Spec
CONSTANTS
    Tokens = {a, b}
    Caches = {c1, c2}
    KMax = 3
    HasPlain = TRUE
    MaxLen = 4
    MaxPrompt = 2
    HostMay = {"rewind", "move", "new"}
SYMMETRY Alike
INVARIANTS
    PendingKept
PROPERTIES
    ImplementsPlain
