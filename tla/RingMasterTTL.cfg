CONSTANTS
    s1 = s1
    x = x
    hM = hM
    h2 = h2
    None = None
    Eof = Eof
    Slaves <- MCSlaves
    Strangers <- MCStrangers
    Hosts <- MCHosts
    HostOf <- MCHostOf
    MasterHost = hM
    MaxRID = 1
    ListenQueue = 2
    MaxSends = 1
SPECIFICATION FairSpec
CHECK_DEADLOCK FALSE
PROPERTY DatagramsDie
