SPECIFICATION Spec
CONSTANTS
    NumNodes = 3
    Targets <- TargetsDef
    External <- OneExternal
    Observations = {"a"}
    Usage <- Copying
    Generations = 2
    MaxRuns = 2
    MaxWrites = 1
INVARIANTS
    TypeOK
    ForwardIntact
PROPERTIES
    ReturnedAreResults
    FeedbackPersists
CHECK_DEADLOCK FALSE
