SPECIFICATION Spec
CONSTANTS
    Uses = {}
    MaxNest = 2
    MaxCalls = 2
    MaxMoves = 0
INVARIANTS TypeOK XpDescribesOpenTries EvalStackIsBalanced
PROPERTIES DestructorIsTransparent FollowsTheSource
