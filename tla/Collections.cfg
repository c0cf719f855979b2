SPECIFICATION Spec
CONSTANTS
    Node = {n1, n2, n3}
    NULL = NULL
    NRef = 1
    Kinds = {"object", "record"}
    Policies = {"GC_ALWAYS"}
    Features = {"collect", "self"}
    MaxSize = 1
    MaxCycles = 3
SYMMETRY Symmetry
INVARIANTS TypeOK NoAssertionFails ListIsTheHeap
PROPERTIES DestructorBeforeFree CollectsGarbage IsAManagedHeap
