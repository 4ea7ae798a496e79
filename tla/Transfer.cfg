\* A bundle from the target's memory through a breaking connection to an
\* analysis: two runs of fetch, thirteen archives of other servers.
CONSTANTS
  SegmentNames <- MCSegmentNames
  TopAddr = 9
  MaxMetadata = 4
  Mappings <- MCMappings
  ChunkSize = 1
  Options <- MCOptions
  Foreign <- MCForeign
  Fragile = {2}
  Holes <- MCHoles
  DumpUnits <- MCDump
  Modes <- MCModes
  ReadLimits <- MCReadLimits
  MaxFetches = 2
  Nothing = Nothing
SPECIFICATION Spec
INVARIANTS CutsNeverOpen SegmentsReadBack
PROPERTIES KeepsPromise FetchEnds
CHECK_DEADLOCK FALSE
