SPECIFICATION SpecTwice
CONSTANTS
    None = None
    n1 = n1
    n2 = n2
    b1 = b1
    s1 = s1
    launch = launch
    Nodes = {n1, n2}
    Buffers = {b1}
    TorchBacked = {}
    Calls = {launch}
    Sites = {s1}
    Exporting = {n1, n2}
    Usage <- NoUsage
    MaxCalls = 2
    MaxRegions = 2
    MaxPasses = 2
    MaxSteps = 8
CHECK_DEADLOCK FALSE
INVARIANTS
    TwoPassesSuffice
