SPECIFICATION Spec
CONSTANTS
  M = M
  N = N
  Names = {"x"}
  ModuleNames = {M, N}
  ArgTypes = {"int", "real"}
  Uses = {}
  Bounds <- Programs
SYMMETRY ModuleSymmetry
INVARIANTS
  FindsWhatIsMeant
  RefusesOnlyClashes
