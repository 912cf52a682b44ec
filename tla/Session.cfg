SPECIFICATION Spec
CONSTANTS
    n1 = n1
    n2 = n2
    b1 = b1
    b2 = b2
    Names <- NamesDef
    Buffers <- OneBuffer
    MaxSessions = 2
    MaxSegments = 1
    Usage <- Documented
SYMMETRY NameSymmetry
INVARIANTS
    TypeOK
    TracingMutex
    CompletionOrder
    BorrowedByTracker
    CompiledAtRest
CHECK_DEADLOCK FALSE
