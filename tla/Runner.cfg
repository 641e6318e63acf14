SPECIFICATION RunToTheEnd
CONSTANTS
  NodeIds = {1, 2}
  ProcIds = {1, 2, 3}
  AgingInterval = 1
  One = 4096
  Steps = 256
  Ulps = {1, 2, 4, 8, 16, 32}
  HeartbeatTimeout = 0
  MaxNodes = 2
  MaxProcesses = 3
  DefaultAlgorithm = "least-loaded"
  Capacities <- NoInputs
  Definitions <- NoInputs
  Scenarios <- Documents
  TickBound = 9
INVARIANTS
  BudgetEndsTheRun
  NothingIsLost
  NobodyStarves
  OnlyFailuresFail
