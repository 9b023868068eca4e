CONSTANTS
    s1 = s1
    s2 = s2
    s3 = s3
    x = x
    hM = hM
    h2 = h2
    None = None
    Eof = Eof
    Slaves <- MCThreeSlaves
    Strangers <- MCStrangers
    Program <- MCThreeProgram
    Leftovers <- MCLeftovers
    Ephemeral <- MCEphemeral
    Hosts <- MCHosts
    HostOf <- MCThreeHostOf
    MasterHost = hM
    MaxRID = 1
    ListenQueue = 2
    MaxSends = 1
SPECIFICATION LabFairSpec
CHECK_DEADLOCK FALSE
PROPERTIES
    EveryRequestServed
    CirculationEnds
    TurnedAwayLearns
