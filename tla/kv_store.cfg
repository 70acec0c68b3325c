SPECIFICATION ServersSpec
CONSTANTS
    Tokens = {a, b}
    MaxLen = 3
    MaxBytes = 2
    PendingCap = 1
    Sliced = TRUE
    Faults = TRUE
    MaxDisk = 3
    TmpKeys <- OneSegment
INVARIANTS
    BooksKept
    DiskAgrees
    RestoreExact
    CalmChainsWhole
PROPERTIES
    BytesGrowthBounded
    RequestsServed
