SPECIFICATION Spec
CONSTANTS
  d1 = d1
  d2 = d2
  None = None
  Devices <- MCDevices
  Answers <- MCAnswers
  ShortReads = {1, 2, 3}
  MaxIdle = 1
INVARIANT
  PortAsOffered
