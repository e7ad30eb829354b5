SPECIFICATION FairReceiver
CONSTANTS
  MaxBuffer = 2
  StartCodes = {0, 7}
  Levels = {0, 7, 255}
  SkippedBytes = {0, 7}
  MaxSlots = 5
INVARIANTS
  TypeOK
  ThreadTypeOK
  UsesLive
PROPERTIES
  FramesExact
  Starts
  Stops
