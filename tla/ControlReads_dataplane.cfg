SPECIFICATION Spec
CONSTANTS
    a = a
    b = b
    CPUs = {a, b}
    Workload <- MCWorkload
    Hash <- MCHash
    Listener <- MCListener
    Proposals <- MCProposals
    Initial <- MCInitial
    Cuts = {8}
    MaxEvents = 3
    PageLimit = 1
    PullLimit = 1
    TokenTtl = 2
INVARIANT Transparent
INVARIANT ChecksumsFollow
INVARIANT ControlUntouched
INVARIANT ResolvesToContacted
INVARIANT TerminalIsTrue
INVARIANT SerialMatchesReference
INVARIANT ScanComplete
INVARIANT LogsWithoutGap
SYMMETRY Alike
CHECK_DEADLOCK FALSE
