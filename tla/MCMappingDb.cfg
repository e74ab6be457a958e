\* Every order of additions and removals of up to three entries.
CONSTANTS
    NULL = NULL
    e1 = e1
    e2 = e2
    e3 = e3
    Entries = {e1, e2, e3}
    MaxBits <- MCMaxBits
    Addrs <- MCAddrs
SYMMETRY Symmetry
SPECIFICATION Spec
INVARIANTS
    HoldsTable
    
    TriesWellFormed
CHECK_DEADLOCK FALSE
