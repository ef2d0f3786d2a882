SPECIFICATION OSpec
CONSTANTS
  Objects = {o1, o2}
  Keys = {1, 2}
  Values = {7, 8}
  Default = 7
  Trees = {t1, t2, t3}
  Lists = {l1, l2}
  MaxIds = 2
  MaxLost = 1
  Null = none
SYMMETRY Alike
INVARIANTS
  OwnedOnce
PROPERTIES
  LostByAssignOnly
  ImplementsObjectMaps
