CONSTANTS
    c1 = c1
    c2 = c2
    Uninit = Uninit
    NoBytes = NoBytes
    Clients <- MCClients
    Queries <- MCFewQueries
    Servers <- MCServers
    Spills <- MCAnyBuild
    IDSpace = 2
    CanLose = TRUE
    CanDuplicate = TRUE
    MaxAsks = 3
    MaxRestarts = 1
    Garbage <- MCGarbage
CHECK_DEADLOCK FALSE
SPECIFICATION Spec
SYMMETRY MCSymmetry
INVARIANTS
    HonestReplies
    IdIdentifies
    NeverFromUninit
