SPECIFICATION WalkSpec
CONSTANTS
  N = 3
  ChildLists <- MCChildLists
  RootLists <- MCRootLists
INVARIANTS
  Exact
  VisitedOnce
PROPERTIES
  Terminates
CHECK_DEADLOCK FALSE
