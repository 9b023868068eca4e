CONSTANTS
    s1 = s1
    s2 = s2
    s3 = s3
    x = x
    hM = hM
    h2 = h2
    None = None
    Eof = Eof
    Slaves <- MCSlaves
    Strangers <- MCStrangers
    Program <- MCProgram
    Leftovers <- MCLeftovers
    Ephemeral <- MCEphemeral
    Hosts <- MCHosts
    HostOf <- MCHostOf
    MasterHost = hM
    MaxRID = 1
    ListenQueue = 2
    MaxSends = 1
SPECIFICATION LabSpec
SYMMETRY MCSymmetry
CHECK_DEADLOCK FALSE
INVARIANTS
    TypeOK
    PlacesFollowAdmission
    DistinctRingIDs
    SettledTarget
    AimNeverBehindHost
    OneCopy
    NoLostAdmission
    LabTypeOK
    ShownIsAdmission
PROPERTIES
    NoNewSelfDatagram
    ImplementsRing
