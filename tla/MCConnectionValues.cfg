SPECIFICATION FairSpec
CONSTANTS
  MaxDones = 2
  Functions <- MCFunctions
  HasInfo <- MCHasInfo
  Options = {1, 2}
  SendOutcomes = {TRUE, FALSE}
INVARIANTS
  TypeOK
  OneRequest
PROPERTIES
  ReadyComplete
  GetsReady
