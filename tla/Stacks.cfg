SPECIFICATION Spec
CONSTANTS
    Uses = {"destructor raises"}
    MaxNest = 2
    MaxCalls = 1
    MaxMoves = 1
INVARIANTS NoWildAccess FpIsTheTopFrame NoStaleHandler
