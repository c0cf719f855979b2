SPECIFICATION FairSpec
CONSTANTS
    Node = {n1, n2, n3}
    NULL = NULL
    NRef = 1
    Kinds = {"object"}
    Policies = {"GC_NEVER"}
    Features = {"self", "allocate", "raise"}
    MaxSize = 1
    MaxCycles = 3
INVARIANTS NoAssertionFails ExitIsClean
PROPERTY WalksEnd
