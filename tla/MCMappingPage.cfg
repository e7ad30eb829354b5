SPECIFICATION PageSpec
CONSTANTS
  o1 = o1
  o2 = o2
  o3 = o3
  k1 = k1
  k2 = k2
  Null = Null
  DefaultOf <- MCDefaultOf
  Functions <- MCFunctions
  Objects <- MCObjects
  KeyOf <- MCKeyOf
  Connections <- MCConnections
  ConnectionOf <- MCConnectionOf
  Convertible <- MCConvertible
  Levels <- MCLevels
  MaxChannel = 2
  Limits = {0, 1}
  Unreliable = {}
  MaxRows = 1
INVARIANTS
  TypeOK
  MapsAgree
  BoundToLive
  BoundWhenReady
  PageAgrees
PROPERTIES
  LimitsKept
