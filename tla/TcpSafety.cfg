SPECIFICATION Spec
CONSTANTS
    c1 = c1
    p1 = p1
    CClients = {c1}
    PythonClients = {p1}
    Queries <- MCQueries
    Garbage <- MCGarbage
    IDSpace = 2
    ListenQueue = 1
    MaxAsks = 4
    MaxEmpty = 2
    MaxKills = 1
    MaxRestarts = 1
    Uninit = Uninit
    None = None
INVARIANTS TypeOK AnswersCurrent InTurn ZombiesReaped
PROPERTY TcpImplements
CHECK_DEADLOCK FALSE
