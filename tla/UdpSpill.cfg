CONSTANTS
    c1 = c1
    c2 = c2
    Uninit = Uninit
    NoBytes = NoBytes
    Clients <- MCOneClient
    Queries <- MCFewQueries
    Servers <- MCServers
    Spills <- MCSpilling
    IDSpace = 2
    CanLose = FALSE
    CanDuplicate = FALSE
    MaxAsks = 2
    MaxRestarts = 0
    Garbage <- MCGarbage
CHECK_DEADLOCK FALSE
SPECIFICATION Spec
INVARIANT ReplyMatches
