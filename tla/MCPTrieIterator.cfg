SPECIFICATION FairISpec
CONSTANTS
  Keys <- KeysWalk
  BSIZE = 3
  BDIV = 1
  HEAPBOUND = 2
  PTR = 1
  SPLITBOUND = 6
  Root = 0
  FwdIds = {0, 1, 2, 3, 4}
  NodeIds = {20, 21, 22, 23, 24}
  Null = 99
INVARIANTS
  EqualityExact
PROPERTIES
  ImplementsCursor
  WalkEnds
