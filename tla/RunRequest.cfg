\* No fault: a maintenance request is forgotten by the next proof.
CONSTANTS
  Jobs = {j1}
  Procs = {p1}
  Payloads <- MCPayloads
  LongLived = {}
  Faults = {}
  NoJob = NoJob
  NoRequest = NoRequest
  Receivers = {r1}
  Outcomes <- MCOutcomes
  DispatchFaults = {}
  RunFaults = {}
  MaxSpawns = 2
  NoMarker = NoMarker
  Partial = Partial
  NoDispatch = NoDispatch
  NoWorker = NoWorker
  NoProc = NoProc
SPECIFICATION MCSpec
INVARIANTS
  RequestHonoured
VIEW RunView
CHECK_DEADLOCK FALSE
