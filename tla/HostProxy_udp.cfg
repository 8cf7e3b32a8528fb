SPECIFICATION Spec
CONSTANTS
    Ids = {1, 2}
    UdpIds = {1, 2}
    SyntheticOf <- MCSyntheticOf
    Sessions = {}
    MaxAssociations = 2
    UdpIdle = 1
    IdleTtl = 2
    Grace = 1
    MaxPackets = 2
    MaxFaults = 1
CONSTRAINT MCRunning
INVARIANTS NoOrphanRelay SettledLeavesNoStamp
PROPERTIES RemovesOnlyExpired
CHECK_DEADLOCK FALSE
