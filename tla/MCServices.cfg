CONSTANTS
    MaxTokens = 2
    MaxPending = 2
    MaxHistory = 1
    MaxLost = 1
    MaxRestarts = 1
    Requests = {1, 2}
    Ids = {"kitchen", "bar"}
    Endpoints = {"ep1", "ep2"}
    Keys = {"k1"}
    AnyKind = {1}
    MaxJobIds = 2
    Spoolers = {FALSE, TRUE}
    MaxRetrievals = 2
    Methods = {"StarEtb", "StarEtx", "None"}
    MaxJobs = 2
    MaxForeign = 1
    MaxDrops = 1
    Modulus = 3
    MaxDrawerPolls = 2
    MaxReports = 1
    MaxOperations = 2
SPECIFICATION FairSpec
INVARIANTS
    DoneMeansPrinted
    OneCopy
    ToldOnEvidence
    NothingForgotten
    DrawerIsSpared
PROPERTIES
    VerdictsStand
    EveryRequestEnds
CHECK_DEADLOCK FALSE
