SPECIFICATION Spec
CONSTANTS
  N = 5
  ChildLists <- MCChildLists
  RootLists <- MCRootLists
  OwnerLists <- MCOwnerLists
  Targets = {4, 5}
  Limits = {0, 3}
  PathDepths = {0, 3, 4}
  NoObject = NoObject
INVARIANTS
  ShortestWitness
  StatusIsHonest
  StacksAreHonest
CHECK_DEADLOCK FALSE
