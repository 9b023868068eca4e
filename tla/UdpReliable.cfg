CONSTANTS
    c1 = c1
    c2 = c2
    Uninit = Uninit
    NoBytes = NoBytes
    Clients <- MCClients
    Queries <- MCQueries
    Servers <- MCServers
    Spills <- MCSoundBuild
    IDSpace = 2
    CanLose = FALSE
    CanDuplicate = FALSE
    MaxAsks = 5
    MaxRestarts = 0
    Garbage <- MCGarbage
CHECK_DEADLOCK FALSE
SPECIFICATION FairSpec
INVARIANTS
    TypeOK
    ReplyMatches
    OneUnderWay
PROPERTIES EveryAskAnswered UdpImplements
