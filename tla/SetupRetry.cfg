\* One call is refused, once; the user tries again.
CONSTANTS
  NoRecord = NoRecord
  TroubleKinds = {"refused"}
  MaxTroubles = 1
  MaxRollbacks = 0
  Apps <- KeyApps
  FirstTokens <- AllTokens
SPECIFICATION MCFairSpec
PROPERTIES
  SetupConverges
CHECK_DEADLOCK FALSE
