SPECIFICATION Spec
CONSTANTS
  Keys = {"k1"}
  Completion = "GsParenH"
  CutModes = {TRUE}
  StrictModes = {TRUE}
  ReprintKeys = {"k1"}
  SessionBound = TRUE
  MaxJobs = 2
  MaxRestarts = 1
  MaxDrops = 1
CHECK_DEADLOCK FALSE
INVARIANTS
  TypeOK
  DurableBeforeWire
  FailedKnownPrintedNothing
  PublishedIsDurable
  InStep
  ConfirmedMeansPrinted
PROPERTIES
  ForwardOnly
  KeepsTheLedger
