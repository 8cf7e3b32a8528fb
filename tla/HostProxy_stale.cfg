SPECIFICATION Spec
CONSTANTS
    Ids = {1, 2}
    UdpIds = {1, 2}
    SyntheticOf <- MCSyntheticOf
    Sessions = {}
    MaxAssociations = 2
    UdpIdle = 1
    IdleTtl = 2
    Grace = 1
    MaxPackets = 2
    MaxFaults = 1
INVARIANTS DeletionInvalidates
CHECK_DEADLOCK FALSE
