SPECIFICATION FairSpec
CONSTANTS
    Ids = {1}
    UdpIds = {1}
    SyntheticOf <- MCSyntheticOf
    Sessions = {"s"}
    MaxAssociations = 2
    UdpIdle = 1
    IdleTtl = 2
    Grace = 1
    MaxPackets = 1
    MaxFaults = 1
INVARIANTS ReturnedMeansJoined
PROPERTIES ShutdownCompletes ExpiredGoes
CHECK_DEADLOCK FALSE
