SPECIFICATION SSpec
CONSTANTS
  Keys <- KeysStable
  BSIZE = 3
  BDIV = 1
  HEAPBOUND = 2
  PTR = 1
  SPLITBOUND = 6
  Root = 0
  FwdIds = {0, 1, 2, 3, 4, 5, 6}
  NodeIds = {20, 21, 22, 23, 24, 25, 26}
  Null = 99
  IdSpan = 1
  IdBase = 16
  MaxIds = 8
  Values = {0, 1}
  Default = 0
  Assigned <- KeysAssigned
  Erased <- KeysErased
  Opening <- KeysOpening
INVARIANTS
  IdsResolve
PROPERTIES
  ImplementsStableMap
