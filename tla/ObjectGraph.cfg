SPECIFICATION Spec
CONSTANTS
  MaxAddr = 7
  MaxId = 3
  Inputs <- MCInputs
INVARIANTS
  FindIsContainment
  OverlapsReported
  EdgesAreReferences
  EachEdgeOnce
  StrictIsClean
  ReturnedIsComplete
CHECK_DEADLOCK FALSE
