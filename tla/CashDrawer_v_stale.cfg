SPECIFICATION Spec
CONSTANTS
    Late = FALSE
    MaxPolls = 2
    MaxInFlight = 1
    MaxTasks = 2
PROPERTY FailedToOpenIsMeasured
CHECK_DEADLOCK FALSE
