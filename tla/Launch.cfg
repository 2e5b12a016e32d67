SPECIFICATION FairLaunch
CONSTANTS
  Workspaces = {1, 2, 3}
  MaxTroubles = 2
  Settings <- MCSettings
INVARIANT TypeOKLaunch
INVARIANT ReceiptMeansGone
INVARIANT RefusedLeavesNothing
INVARIANT RestorableBeforeDestroyed
INVARIANT GreenMeansDetonated
INVARIANT NothingLeftBehind
INVARIANT BundleKept
PROPERTY FailedStaysFailed
PROPERTY LaunchEnds
