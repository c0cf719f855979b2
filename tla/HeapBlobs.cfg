SPECIFICATION Spec
CONSTANTS
    Node = {n1, n2, n3}
    NULL = NULL
    NRef = 1
    Kinds = {"blob"}
    Policies = {"GC_ON_LIMIT_HIT", "GC_ALWAYS", "GC_NEVER"}
    Features = {"collect"}
    MaxSize = 2
    MaxCycles = 3
SYMMETRY Symmetry
INVARIANTS ListIsTheHeap BytesAreAccounted
