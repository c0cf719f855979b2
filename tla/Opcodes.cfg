CONSTANT Variants = {"packed", "split", "full"}
SPECIFICATION Spec
INVARIANTS
    NoWildAccess
    NoDanglingReference
    RaiseEndsOpcode
    SkipsItsWords
    KeepsStackEffect
    NothingStaleAbove
CHECK_DEADLOCK FALSE
