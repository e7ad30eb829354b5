SPECIFICATION Spec
CONSTANTS
  MaxBuffer = 2
  StartCodes = {0, 7}
  Levels = {0, 7, 255}
  SkippedBytes = {0, 7, 255}
  MaxSlots = 6
PROPERTY
  SwitchOnBreak
