SPECIFICATION Spec
CONSTANTS
    n1 = n1
    n2 = n2
    b1 = b1
    b2 = b2
    Names <- NamesDef
    Buffers <- BuffersDef
    MaxSessions = 1
    MaxSegments = 1
    Usage <- Documented
SYMMETRY Symmetry
INVARIANTS
    BuffersRestored
PROPERTIES
    ReassignedExported
CHECK_DEADLOCK FALSE
