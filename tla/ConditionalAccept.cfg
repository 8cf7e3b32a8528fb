CONSTANTS
    Clients = {"a", "b"}
    TupleOf <- SameTuple
SPECIFICATION FairSpec
INVARIANT PairedByRequest
INVARIANT ReservationsExact
PROPERTY NoClaimAfterStop
PROPERTY StopCompletes
PROPERTY HeadLeaves
CHECK_DEADLOCK FALSE
