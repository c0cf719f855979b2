SPECIFICATION Spec
CONSTANTS
    Node = {n1, n2, n3}
    NULL = NULL
    MaxRef = 2
    Unlisted = {n3}
INVARIANTS TypeOK NoReferenceIsLost MarksWhatItReaches
PROPERTY Terminates
