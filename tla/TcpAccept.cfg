SPECIFICATION FairSpec
CONSTANTS
    c1 = c1
    p1 = p1
    CClients = {c1}
    PythonClients = {p1}
    Queries <- MCOneQuery
    Garbage <- MCGarbage
    IDSpace = 2
    ListenQueue = 1
    MaxAsks = 2
    MaxEmpty = 1
    MaxKills = 0
    MaxRestarts = 0
    Uninit = Uninit
    None = None
PROPERTIES MainAcceptLoop
CHECK_DEADLOCK FALSE
