SPECIFICATION SpecLaunch
CONSTANTS
  Workspaces = {1, 2, 3}
  MaxTroubles = 0
  Settings <- Ordinary
INVARIANT SafeLaunchSucceeds
