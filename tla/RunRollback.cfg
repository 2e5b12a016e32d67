\* No fault: a second rollback request finds the marker of the first.
CONSTANTS
  Jobs = {j1}
  Procs = {p1}
  Payloads <- MCPayloads
  LongLived = {}
  Faults = {}
  NoJob = NoJob
  NoRequest = NoRequest
  Receivers = {r1}
  Outcomes <- MCOutcomes
  DispatchFaults = {}
  RunFaults = {}
  MaxSpawns = 2
  NoMarker = NoMarker
  Partial = Partial
  NoDispatch = NoDispatch
  NoWorker = NoWorker
  NoProc = NoProc
SPECIFICATION MCFairSpec
PROPERTIES
  RollbackAnswered
VIEW RunView
CHECK_DEADLOCK FALSE
