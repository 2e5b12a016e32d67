\* One server process and one receiver, with every fault or none.
CONSTANTS
  Jobs = {j1}
  Procs = {p1}
  Payloads <- MCPayloads
  LongLived = {}
  Faults = {"store", "crash"}
  NoJob = NoJob
  NoRequest = NoRequest
  Receivers = {r1}
  Outcomes <- MCOutcomes
  DispatchFaults = {"disk", "spawn", "crash"}
  RunFaults = {"timeout", "worker"}
  MaxSpawns = 2
  NoMarker = NoMarker
  Partial = Partial
  NoDispatch = NoDispatch
  NoWorker = NoWorker
  NoProc = NoProc
SPECIFICATION MCFairSpec
INVARIANTS
  TypeOKRun
  WorkersPaid
  WorkMeansStarted
  WorkRequested
PROPERTIES
  ImplementsLifecycle
  StartedGetsProof
VIEW RunView
CHECK_DEADLOCK FALSE
