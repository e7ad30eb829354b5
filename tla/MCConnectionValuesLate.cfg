SPECIFICATION Spec
CONSTANTS
  MaxDones = 2
  Functions <- MCFunctions
  HasInfo <- MCHasInfo
  Options = {1, 2}
  SendOutcomes = {TRUE}
INVARIANT
  AvailableBound
