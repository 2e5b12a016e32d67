\* Three deployments over a store and two without one; puts may fail,
\* processes may die.
CONSTANTS
  p1 = p1
  p2 = p2
  p3 = p3
  Jobs = {j1}
  Procs <- MCProcs
  Payloads <- MCPayloads
  LongLived <- MCLongLived
  Faults = {"store", "crash"}
  NoJob = NoJob
  NoRequest = NoRequest
  Deployments <- MCDeployments
  MaxTokens = 2
SPECIFICATION SpecDeployed
INVARIANTS
  TypeOKDeployed
  MoneyBeforeWork
  EnvelopesPaid
  CompleteMeansProven
  OneProcessArtifact
  TokensTrue
  MaintenanceFollowsStart
SYMMETRY ProcSymmetry
CHECK_DEADLOCK FALSE
