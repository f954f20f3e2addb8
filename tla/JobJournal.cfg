CONSTANTS
  Jobs = {j1, j2}
  FsyncEnabled = TRUE
  HostCatches = TRUE
  SyncMayFail = TRUE
  MaxStarts = 3
  MaxFullDisks = 1
SPECIFICATION Spec
INVARIANTS NothingSentIsForgotten MemoryIsOnDisk
PROPERTY HonestRecovery
CHECK_DEADLOCK FALSE
