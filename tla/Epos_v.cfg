SPECIFICATION Spec
CONSTANTS
    Spoolers = {TRUE, FALSE}
    MaxPolls = 2
INVARIANT
    UnreachableMeansNoPaper
CHECK_DEADLOCK FALSE
