SPECIFICATION FunctionSpec
CONSTANTS
    Programs <- MCPrograms
    MaxCalls = 4
    MaxCache = 2
INVARIANTS
    ReplaysCalls
    PortsNameOutputs
CHECK_DEADLOCK FALSE
