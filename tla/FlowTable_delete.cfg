CONSTANTS
    c1 = c1  c2 = c2  c3 = c3
    o1 = o1  t1 = t1  r1 = r1  o2 = o2
    g1 = g1  g2 = g2  e1 = e1  e2 = e2
    CPUs = {c1, c2}
    Guards = {g1, g2}
    Cells = {e1}
    Tuples <- OneTuples
    Eligible <- OneEligible
    TargetOf <- MCTargetOf
    ReverseOf <- MCReverseOf
    FlowId <- MCFlowId
    Observations = {0, 1, 2}
    Capacity = 1
    QueueCapacity = 1
    CounterMax = 9
    MaxGeneration = 1
    MaxClock = 2
    MaxFaults = 0
    EarlyDelete = TRUE
SYMMETRY MCSymmetry
VIEW MCView
SPECIFICATION Spec
INVARIANT FlowTableInv
INVARIANT NoUseAfterDelete
INVARIANT InFlightExact
PROPERTY DeletedAsObserved
PROPERTY RefinesLifecycle
