SPECIFICATION Spec
CONSTANTS
    Tokens = {a, b}
    Caches = {c1}
    KMax = 3
    HasPlain = TRUE
    MaxLen = 5
    MaxPrompt = 2
    HostMay = {}
INVARIANT DrafterExact
CHECK_DEADLOCK FALSE
