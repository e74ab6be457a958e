SPECIFICATION Spec
CONSTANTS
    NULL = NULL
    f1 = f1 f2 = f2 f3 = f3 f4 = f4 lisp = lisp group = group
    n1 = n1 n2 = n2 n3 = n3 n4 = n4
    i1 = i1 i2 = i2 a1 = a1 a2 = a2 a3 = a3
    TIMEOUT = 1
    NEGATIVE_TIMEOUT = 0
    MAX_SIZE = 2
    OLD_ENTRIES = 1
    Tuples <- MCTuples
    Hash <- MCHash
    Sizes = {4, 8}
    Nodes = {n1, n2, n3}
    Devices <- MCDevices
    Ifaces = {i1, i2}
    Addrs = {a1, a2}
    HasPetr = TRUE
    Fds = {1, 2, 3}
    LispEnds = {lisp}
    MulticastEnds = {group}
    MaxChanges <- MCMaxChanges
INVARIANTS
    
    
    SentByRecentDecision
    SentByOpenSocket
SYMMETRY NodeSymmetry
