CONSTANTS
    s1 = s1
    s2 = s2
    s3 = s3
    x = x
    hM = hM
    h2 = h2
    None = None
    Eof = Eof
    Slaves <- MCTwoSlaves
    Strangers <- MCStrangers
    Program <- MCTwoProgram
    Leftovers <- MCLeftovers
    Ephemeral <- MCEphemeral
    Hosts <- MCHosts
    HostOf <- MCTwoHostOf
    MasterHost = hM
    MaxRID = 1
    ListenQueue = 2
    MaxSends = 0
SPECIFICATION LabSpec
CHECK_DEADLOCK FALSE
INVARIANT ListensOnRingPort
