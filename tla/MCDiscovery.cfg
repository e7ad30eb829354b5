SPECIFICATION FairDiscovery
CONSTANTS
  d1 = d1
  d2 = d2
  d3 = d3
  a1 = a1
  a2 = a2
  None = None
  Devices <- MCDevices
  Answers <- MCAnswers
  ShortReads = {}
  MaxIdle = 1
  Programs = {"dmx2c2ip", "c2ip_tool"}
  Addresses <- MCAddresses
  DevicesAt <- MCDevicesAt
  LongNames = {d3}
INVARIANTS
  ScanTypeOK
  OneTimer
  TypeOK
  AttemptSound
  NoStall
PROPERTIES
 OneAttempt
 Served
 Rediscovered
