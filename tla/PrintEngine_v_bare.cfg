SPECIFICATION Spec
CONSTANTS
  Keys = {"k1"}
  Completion = "GsR1"
  CutModes = {TRUE}
  StrictModes = {FALSE}
  ReprintKeys = {"k1"}
  SessionBound = TRUE
  MaxJobs = 2
  MaxRestarts = 0
  MaxDrops = 0
CHECK_DEADLOCK FALSE
INVARIANTS
  ConfirmedMeansPrinted
