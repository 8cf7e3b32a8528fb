SPECIFICATION FairSpec
CONSTANTS
    Clients <- MCClients
    Operators <- MCOperators
    InterfaceOf <- MCInterfaceOf
    Elfs <- MCElfs
    ElfOf <- MCElfOf
    ElfMax <- MCElfMax
    StoreMax = 2
    Families <- MCFamilies
    FamilyOf <- MCFamilyOf
    Initial <- MCInitial
    Capacities <- MCCapacities
INVARIANTS ReportedInstalled OwnershipExact MapMatchesSnapshot
PROPERTY RpcReturns
CHECK_DEADLOCK FALSE
