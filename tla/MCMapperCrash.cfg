SPECIFICATION Spec
CONSTANTS
  o1 = o1
  o2 = o2
  o3 = o3
  k1 = k1
  k2 = k2
  Null = Null
  Functions <- FewFunctions
  Objects <- FewObjects
  KeyOf <- FewKeyOf
  Connections <- MCConnections
  ConnectionOf <- FewConnectionOf
  Convertible = {1}
  Levels <- MCLevels
  MaxChannel = 2
  Limits = {0, 1}
  Unreliable = {}
  MaxRows = 1
PROPERTY
  OnlyRemovalForgets
