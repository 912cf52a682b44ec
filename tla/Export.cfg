SPECIFICATION Spec
CONSTANTS
    NumNodes = 2
    Kinds <- MCKinds
    MaxSessions = 2
    MaxCalls = 2
    MaxFaults = 1
CHECK_DEADLOCK FALSE
INVARIANTS
    TypeOK
    AcceptedIsOneExport
    ValidatedRepeats
PROPERTY Recovers
