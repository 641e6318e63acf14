SPECIFICATION EngineSpec
CONSTANTS
  Clients = {1, 2}
  Loops = {1, 2}
  NoClient = 0
  NoLoop = 0
  MaxSteps = 2
INVARIANTS
  StopReachesTheLoop
  StopIsComplete
  QuietWhenStopped
  CancelIsNotLeftOver
  FailureIsReported
PROPERTIES
  CallsReturn
