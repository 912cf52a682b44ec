SPECIFICATION Spec
CONSTANTS
    n1 = n1
    n2 = n2
    b1 = b1
    b2 = b2
    Names <- OneName
    Buffers <- OneBuffer
    MaxSessions = 2
    MaxSegments = 1
    Usage <- EveryUsage
INVARIANTS
    PatchedWhileInterpreting
PROPERTIES
    NumberedOnce
CHECK_DEADLOCK FALSE
