SPECIFICATION Spec
CONSTANTS
    None = None
    n1 = n1
    b1 = b1
    b2 = b2
    s1 = s1
    s2 = s2
    launch = launch
    Nodes = {n1}
    Buffers = {b1, b2}
    TorchBacked = {b2}
    Calls = {launch}
    Sites = {s1, s2}
    Exporting = {n1}
    Usage <- NoUsage
    MaxCalls = 1
    MaxRegions = 2
    MaxPasses = 2
SYMMETRY Interchangeable
CHECK_DEADLOCK FALSE
INVARIANTS
    TypeOK
    OutputsFollowRegions
    CapturedAsDiscovered
    BlockKeepsRegion
    StreamCaptured
