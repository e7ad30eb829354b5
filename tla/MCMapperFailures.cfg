SPECIFICATION Spec
CONSTANTS
  o1 = o1
  o2 = o2
  o3 = o3
  k1 = k1
  k2 = k2
  Null = Null
  Functions <- MCFunctions
  Objects <- MCObjects
  KeyOf <- MCKeyOf
  Connections <- MCConnections
  ConnectionOf <- MCConnectionOf
  Convertible = {1, 2, 3}
  Levels = {255}
  MaxChannel = 2
  Limits = {1}
  Unreliable = {1}
  MaxRows = 2
INVARIANT
  DbCurrent
PROPERTY
  ChannelSetsItsFunctions
