SPECIFICATION LiveSpec
CONSTANTS
  WorkersCount = 3
  ShutdownTimeout = 2
  MaxInterrupts = 2
  SpawnMayFail = TRUE
INVARIANTS
  NobodyLeftBehind
  TypeOK
  OneMoreTask
  OnlyStragglersKilled
PROPERTIES
  StopReturns
CHECK_DEADLOCK FALSE
