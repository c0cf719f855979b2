SPECIFICATION Spec
CONSTANTS
  Labels = {"a"}
  Names = {"f", "g"}
  ModuleNames = {"h"}
  Uses = {}
  Bounds <- Programs
  MaxIdentifiers = 2
INVARIANTS
  JumpsGoHome
  CallsGoHome
  PendingIsOwed
  NothingLeftOpen
  NoAssertionFails
