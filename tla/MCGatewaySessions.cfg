SPECIFICATION FairSpec
CONSTANTS
    Nodes = {n1}
    Conns = {c1, c2}
    Grants = {g1}
    Peers = {g1}
    Controls = {k1}
    MaxStarts = 2
    QueueLimit = 1
    ByteLimit = 1
    WorkerLimit = 1
    NoNode = NoNode
    NoConn = NoConn
INVARIANTS
    RouteIsOwn
    NoWaiterStranded
    QuietWhenDown
PROPERTIES
    StopReturns
