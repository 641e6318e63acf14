SPECIFICATION LogRunSpec
CONSTANTS
  NodeIds = {1}
  ProcIds = {1, 2}
  AgingInterval = 5
  One = 4096
  Steps = 256
  Ulps = {1, 2, 4, 8, 16, 32}
  HeartbeatTimeout = 2
  MaxNodes = 1
  MaxProcesses = 2
  DefaultAlgorithm = "round-robin"
  Capacities <- OneSize
  Definitions <- LongOnly
  Scenarios <- Logs
  TickBound = 3
  LogBound = 12
  ShortLog = 4
INVARIANTS
  LogTellsTheState
  StatisticsMatchTheLog
  LogIsNumbered
  LogAccountsForResources
PROPERTIES
  LogOnlyGrows
CHECK_DEADLOCK FALSE
