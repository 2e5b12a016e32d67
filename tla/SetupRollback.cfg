\* One apply without a fault, and its rollback.
CONSTANTS
  NoRecord = NoRecord
  TroubleKinds = {}
  MaxTroubles = 0
  MaxRollbacks = 1
  Apps <- VercelApps
  FirstTokens <- AllTokens
SPECIFICATION Spec
INVARIANTS
  DnsRestored
CHECK_DEADLOCK FALSE
