\* Applies, run again as often as one likes, two troubles, and one rollback.
CONSTANTS
  NoRecord = NoRecord
  TroubleKinds = {"refused", "half", "dies", "health", "check"}
  MaxTroubles = 2
  MaxRollbacks = 1
  Apps <- MCApps
  FirstTokens <- MCFirstTokens
SPECIFICATION Spec
INVARIANTS
  TypeOKRollback
  KeyBacked
  RecordedOnce
  TheirsKept
  RollbackUndoes
PROPERTIES
  DownstreamWaits
CHECK_DEADLOCK FALSE
