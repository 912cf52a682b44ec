SPECIFICATION Spec
CONSTANTS
    Named <- MCNamed
    Start <- MCStartNamed
    Temps = {"p"}
    Stores = {"s1", "s2", "s3", "s4"}
    Live = {"s1"}
    Habits = {}
    MaxOps = 3
    MaxOutputs = 1
    MaxPasses = 2
INVARIANTS TypeOK TraceFaithful OutputFaithful GraphClosed PortTruthful AliasesShareCells
CHECK_DEADLOCK FALSE
