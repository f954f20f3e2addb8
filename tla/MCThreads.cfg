CONSTANTS
    Subscribers = {"s1", "s2"}
    Waiters = {"w1"}
    Timed = {"w1"}
    LastEvent = 3
    Jobs = {"j1"}
    Calls = {"c1"}
    Ahead = {"c1"}
    Drainers = {"d1"}
    Stoppers = {"s1", "s2"}
    Probe = "probe"
    LinkKinds = {"tcp", "winsock", "serial", "bluez", "custom"}
    MaxBytes = 2
    MaxLinks = 2
    Callers = {"a", "b"}
    Keys = {"k1", "k2"}
    MaxFeeds = 2
    CoreThreads = {"w1", "w2"}
    Pointers = {"p1", "p2"}
    MaxAsks = 2
    Registrars = {"t1", "t2"}
    Ids = {"x"}
    MaxOps = 3
    Conns = {"c1", "c2"}
    Workers = {"w1", "w2"}
    MaxQueued = 1
    MaxStarts = 2
    W = 4
    Blocks = {0, 6, 15}
    Sweepers = {"s1", "s2"}
    MinPrefix = 1
SPECIFICATION FairSpec
INVARIANTS
    ObserversInOrder
    LaneIsOrderly
    ClosedIsClosed
    OneForAll
    BridgeAnswers
PROPERTIES
    EveryCallReturns
    NothingIsLeftHanging
CHECK_DEADLOCK FALSE
