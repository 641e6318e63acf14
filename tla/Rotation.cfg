SPECIFICATION RotationSpec
CONSTANTS
  NodeIds = {1, 2, 3}
  ProcIds = {}
  AgingInterval = 5
  One = 4096
  Steps = 256
  Ulps = {1, 2, 4, 8, 16, 32}
  Requests <- LightAndHeavy
  Sizes <- SmallAndLarge
  MaxPatience = 3
INVARIANTS
  EveryoneInTurn
  WalkFindsTheNext
  ScanFindsTheLeast
