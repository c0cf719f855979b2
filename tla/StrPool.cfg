SPECIFICATION Spec
CONSTANTS
    Strings = {s1, s2, s3, s4, s5}
    NULL = NULL
    Junk = {NULL}
    INITIAL_POOL_LENGTH = 2
    MaxPoolLength = 4
INVARIANTS TypeOK FreeListExact OneOwner
PROPERTY IsAStringStore
