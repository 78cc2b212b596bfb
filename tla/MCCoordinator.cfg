SPECIFICATION Parts
CONSTANTS
    j1 = j1
    j2 = j2
    Rows = {j1, j2}
    Limits <- MCLimits
    MaxCount = 4
    RecordLimit = 39
    MaxResult = 1
    MaxSize = 3
    Nodes = {n1}
    Conns = {c1}
    Grants = {g1, g2}
    Peers = {g2}
    Controls = {}
    MaxStarts = 1
    QueueLimit = 2
    ByteLimit = 2
    WorkerLimit = 1
    NoNode = NoNode
    NoConn = NoConn
    None = None
    Providers = {p1, p2}
    Caps = {c1}
    Holders = {j1, j2}
    Submissions = {s1}
    MaxQueue = 1
    MaxBus = 1
    MaxWorkers = 1
    MaxInFlight = 2
    NodeLimit <- MCNodeLimit
    p1 = p1
    Ceiling = 2
    Adverts <- MCAdverts
    MaxInputs = 2
    Ops = {o1}
    Models = {m1, m2}
    MaxActive = 1
    MaxCalls = 2
    MaxFaults = 1
    MaxLosses = 3
    MaxTries = 2
    MaxEdits = 2
    MaxBoots = 2
    Opening = 1
    ReceiptIds = {2}
    Texts = {1, 2}
    MaxRuns = 2
    MaxRuntime = 2
SYMMETRY Symmetry
INVARIANTS
    LimitsHold
    ConfirmedIsSaved
PROPERTIES
    ViewIsCurrent
CHECK_DEADLOCK FALSE
