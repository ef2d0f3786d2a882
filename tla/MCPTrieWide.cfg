SPECIFICATION Spec
CONSTANTS
  Keys <- KeysWide
  BSIZE = 2
  BDIV = 2
  HEAPBOUND = 2
  PTR = 1
  SPLITBOUND = 6
  Root = 0
  FwdIds = {0, 1, 2, 3, 4, 5, 6, 7, 8}
  NodeIds = {20, 21, 22, 23, 24, 25, 26, 27}
  Null = 99
INVARIANTS
  ContentInv
  LookupsExact
  EntriesPointHome
  BucketsSorted
  TreeWellFormed
  NoBarrenFwd
  MergeEmptyAtRoot
  ByteIsLevel
  LevelInv
  TreeInv
  ShapeInv
  CopyExact
