CONSTANTS
    Keys = {"k1"}
    MaxBareJobs = 2
    MaxJobs = 3
    MaxRestarts = 1
    MaxDrops = 1
SPECIFICATION FairSpec
INVARIANTS
    OneCopyPerKey
    TokenNamesOneReceipt
PROPERTIES
    EveryJobEnds
CHECK_DEADLOCK FALSE
