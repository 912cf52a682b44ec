SPECIFICATION Spec
CONSTANTS
    Inputs = {"obs"}
    Outputs = {"action"}
    States = {"h"}
    Injected = {"buf"}
    Skips <- None
    MaxCachedIO = 3
    MaxPasses = 7
INVARIANTS
    TypeOK
    SamplesAreIterations
    SamplesKept
CHECK_DEADLOCK FALSE
