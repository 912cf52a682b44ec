SPECIFICATION Spec
CONSTANTS
    NumNodes = 3
    Ports = {p1, p2}
    MinPasses = 2
    MaxPasses = 3
    MaxRuns = 3
    MaxDelay = 1
    DelayedForward = FALSE
    InitFrom <- PlainTensors
INVARIANTS
    TypeOK
    PipelineIsProgram
PROPERTY ReplaysEager
CHECK_DEADLOCK FALSE
