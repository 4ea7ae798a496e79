SPECIFICATION Spec
CONSTANTS
  Continue = 8
  MaxGroups = 3
  LastGroup = 4
  MaxStringBytes = 2
  MaxMemRangeSize = 4
  MaxLine = 4
  MemStatsWords = 3
  Dumps <- MCDumps
  OptionSets <- MCOptionSets
INVARIANTS
  TruncationIsAnError
  WholeDumpsAreAccepted
  FramesStayHome
  SnapshotIsTheDump
  RootsAreMemory
  ReadsAreTheDump
CHECK_DEADLOCK FALSE
