SPECIFICATION Spec
CONSTANTS
    Node = {n1, n2, n3}
    NULL = NULL
    NRef = 1
    Kinds = {"object"}
    Policies = {"GC_NEVER"}
    Features = {"collect", "allocate"}
    MaxSize = 1
    MaxCycles = 3
SYMMETRY Symmetry
INVARIANT BcfreeFindsMagic
