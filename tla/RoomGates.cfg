\* The gates in seven scenarios, and the file of the vault behind them.
CONSTANTS
  plan = plan
  token = token
  pack = pack
  t1 = t1
  t2 = t2
  key = key
  url = url
  cli = cli
  p1 = p1
  p2 = p2
  Gates = {plan, token, pack}
  Targets = {key, url}
  TargetsOf <- MCTargetsOf
  ApprovalGates = {plan}
  PackGates = {pack}
  Threads = {t1, t2}
  Scenarios <- MCScenarios
  MaxDeaths = 1
  Writers = {cli, t1, t2}
  Contents = {c1, c2}
  Temps = {p1, p2}
  TempOf <- ProcessTemp
  Inodes = {i1, i2, i3, i4}
  WriteFaults = {"disk", "crash"}
  NoFile = NoFile
  Empty = Empty
  Torn = Torn
SPECIFICATION SuiteSpec
INVARIANTS
  TypeOK
  CapturedInVault
  ResumeComplete
  PassedEarned
  OneWakePerRound
PROPERTIES
  PassedStays
  TokenPickedUp
  ImplementsDurableFile
CHECK_DEADLOCK FALSE
