SPECIFICATION Spec
CONSTANTS
  Objects <- MCObjects
  Children <- MCChildren
  Size <- MCSize
  SizeBits <- MCSizeBits
  Clients = {c1, c2}
  Sources <- MCSources
  Calls <- MCCalls
  NoCall = NoCall
  NoData = NoData
  NoClient = NoClient
  NotCached = NotCached
INVARIANTS
  CacheIsWhole
  ClosedHoldsNothing
  Authoritative
PROPERTIES
  KeepsPromise
  Answered
