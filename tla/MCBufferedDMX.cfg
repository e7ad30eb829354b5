SPECIFICATION FairSpec
CONSTANTS
  MaxBuffer = 2
  Bytes = {b0, b1}
  Unset = Unset
INVARIANTS
  TypeOK
  ViewCurrent
  Lifetime
PROPERTIES
  NotifiesExactlyChanges
  Conflates
