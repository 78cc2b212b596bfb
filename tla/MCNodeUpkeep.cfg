CONSTANTS
    None = None
    Root = Root
    Plain = Plain
    MaxVersion = 3
    RootVersion = 2
    Prereleases = {3}
    MaxOperations = 3
    RepairIds = {11, 12}
    MaxPolicy = 2
    MaxRestarts = 1
    Models = {m1, m2}
    Users = {u1}
    Commands = {c1}
    MaxProcs = 2
    MaxStops = 2
    QueueCap = 1
    MaxRevision = 1
    MaxRuntimes = 2
    MaxFaults = 1
    Torn = Torn
    SettingCommands = {c1}
    Offered = {"policy", "listening", "permissions", "relay", "python", "restart", "network", "pair", "request"}
    MaxSettingRuntimes = 2
    MaxOther = 1

SPECIFICATION Spec
   
PROPERTIES NeverReplayed ConsentHeld
CHECK_DEADLOCK FALSE
