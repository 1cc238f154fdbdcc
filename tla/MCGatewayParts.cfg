\* One component at a time: two requests to a machine that restarts once, with other machines sharing the
\* pools; one machine and the gateway under the watchdog, two boxes in its episode reports; two fleet
\* requests; three puts of two chunks.
SPECIFICATION PartsSpec
CONSTANTS
  r1 = r1
  r2 = r2
  Requests = {r1, r2}
  MaxIdle = 1
  MaxConnections = 2
  MaxRestarts = 1
  Machines = {m1}
  Gateway = gateway
  ProbeStates = {"ok", "401"}
  Failures = {"keystore"}
  MaxFaults = 1
  Boxes = {b1, b2}
  MaxReportFaults = 2
  FleetRequests = {f1, f2}
  MAX_REPLY = 2
  MAX_BUFFERED = 3
  ChunkSizes = {1, 2}
  MaxAccessChanges = 1
  Chunks = 2
  MaxPuts = 3
  MaxTransferFaults = 2
INVARIANTS
  PartsTypeOK
  RunsAtMostOnce
  StalePoolHidden
  LogTellsOutcome
  OwnerUpToDate
  EpisodesHeard
  BudgetExact
  TransfersWhole
PROPERTIES
  Answered
  OwedEpisodesSettled
  BudgetReturns
CHECK_DEADLOCK FALSE
