SPECIFICATION Spec
CONSTANTS
  NodeIds = {1}
  ProcIds = {1}
  AgingInterval = 5
  One = 4096
  Steps = 256
  Ulps = {1, 2, 4, 8, 16, 32}
  HeartbeatTimeout = 1
  MaxNodes = 1
  MaxProcesses = 1
  DefaultAlgorithm = "round-robin"
  Capacities <- SomeSizes
  Definitions <- SomeDefinitions
  Scenarios <- NoScenarios
  TickBound = 3
INVARIANTS
  BlockedOnlyWhileBlocked
