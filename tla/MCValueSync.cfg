SPECIFICATION FairSpec
CONSTANTS
  Types <- MCTypes
  DeviceValues <- MCDeviceValues
  UserValues <- MCUserValues
  MaxOnTheWay = 2
INVARIANTS
  TypeOK
  Converges
PROPERTIES
  Settles
  SendsBack
