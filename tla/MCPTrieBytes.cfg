SPECIFICATION FairSpec
CONSTANTS
  Keys <- KeysBytes
  BSIZE = 2
  BDIV = 4
  HEAPBOUND = 9
  PTR = 8
  SPLITBOUND = 6
  Root = 0
  FwdIds = {0, 1, 2, 3, 4, 5, 6, 7, 8, 9, 10, 11, 12, 13}
  NodeIds = {20, 21, 22, 23, 24, 25, 26, 27}
  Null = 99
INVARIANTS
  UnpackExact
  NoFault
  BucketsBounded
  SharedInv
PROPERTIES
  CallsReturn
  ImplementsKeySet
