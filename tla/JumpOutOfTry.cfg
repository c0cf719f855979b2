SPECIFICATION Spec
CONSTANTS
    Uses = {"jump out of try"}
    MaxNest = 2
    MaxCalls = 1
    MaxMoves = 0
INVARIANT XpDescribesOpenTries
