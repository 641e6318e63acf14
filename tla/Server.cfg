SPECIFICATION ServerSpec
CONSTANTS
  Clients = {1, 3}
  Loops = {1, 2}
  NoClient = 0
  NoLoop = 0
  MaxSteps = 2
  Main = 3
INVARIANTS
  CleanShutdown
PROPERTIES
  ShutdownEnds
CHECK_DEADLOCK FALSE
