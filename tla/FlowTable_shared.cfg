CONSTANTS
    c1 = c1  c2 = c2  c3 = c3
    o1 = o1  t1 = t1  r1 = r1  o2 = o2
    g1 = g1  g2 = g2  e1 = e1  e2 = e2
    CPUs = {c1, c2, c3}
    Guards = {g1}
    Cells = {e1, e2}
    Tuples <- SharedTuples
    Eligible <- SharedEligible
    TargetOf <- MCTargetOf
    ReverseOf <- MCReverseOf
    FlowId <- MCFlowId
    Observations = {}
    Capacity = 2
    QueueCapacity = 1
    CounterMax = 9
    MaxGeneration = 3
    MaxClock = 1
    MaxFaults = 1
    EarlyDelete = FALSE
SYMMETRY MCSymmetry
VIEW MCView
SPECIFICATION Spec
INVARIANT ActiveOwnsIndexes
PROPERTY OnlyOwnerRemovesIndex
INVARIANT WithinCapacity
INVARIANT SlotAccounting
