SPECIFICATION SSpec
CONSTANTS
  Keys <- KeysNarrow
  BSIZE = 3
  BDIV = 1
  HEAPBOUND = 2
  PTR = 1
  SPLITBOUND = 6
  Root = 0
  FwdIds = {0, 1, 2, 3, 4, 5, 6}
  NodeIds = {20, 21, 22, 23, 24, 25, 26}
  Null = 99
  IdSpan = 2
  IdBase = 16
  MaxIds = 3
  Values = {0, 1}
  Default = 0
  Assigned <- KeysAssigned
  Erased <- KeysAssigned
  Opening <- KeysNone
INVARIANTS
  IdsResolve
