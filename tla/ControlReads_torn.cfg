SPECIFICATION Spec
CONSTANTS
    a = a
    b = b
    CPUs = {a, b}
    Workload <- MCWorkload
    Hash <- MCHash
    Listener <- MCListener
    Proposals <- MCProposals
    Initial <- MCInitial
    Cuts = {8}
    MaxEvents = 2
    PageLimit = 1
    PullLimit = 1
    TokenTtl = 2
INVARIANT FlowTargetsConfigured
SYMMETRY Alike
CHECK_DEADLOCK FALSE
