CONSTANTS
  Jobs = {j1, j2}
  FsyncEnabled = TRUE
  HostCatches = TRUE
  SyncMayFail = FALSE
  MaxStarts = 3
  MaxFullDisks = 1
SPECIFICATION Spec
INVARIANT NeverBelievesItDidNotStart

CHECK_DEADLOCK FALSE
