SPECIFICATION FairSpec
CONSTANTS
    c1 = c1
    p1 = p1
    CClients = {c1}
    PythonClients = {p1}
    Queries <- MCOneQuery
    Garbage <- MCGarbage
    IDSpace = 2
    ListenQueue = 1
    MaxAsks = 3
    MaxEmpty = 1
    MaxKills = 1
    MaxRestarts = 1
    Uninit = Uninit
    None = None
PROPERTIES ServedIsAnswered NobodyWaitsForTheDead
CHECK_DEADLOCK FALSE
