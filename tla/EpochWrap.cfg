SPECIFICATION Spec
CONSTANTS
  MaxAddr = 7
  MaxId = 1
  Inputs <- FullInputs
INVARIANT
  EdgesAreReferences
CHECK_DEADLOCK FALSE
