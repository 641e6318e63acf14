SPECIFICATION MeasuredSpec
CONSTANTS
  NodeIds = {1}
  ProcIds = {1, 2}
  AgingInterval = 5
  One = 4096
  Steps = 256
  Ulps = {1, 2, 4, 8, 16, 32}
  HeartbeatTimeout = 0
  MaxNodes = 1
  MaxProcesses = 2
  DefaultAlgorithm = "round-robin"
  Capacities <- OneSize
  Definitions <- LongOnly
  Scenarios <- Measured
  TickBound = 3
INVARIANTS
  WaitIsReported
  TimesAgree
  ReportIsCoherent
CHECK_DEADLOCK FALSE
