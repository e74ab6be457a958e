SPECIFICATION Spec
CONSTANTS
    i1 = i1  i2 = i2
    a1 = a1  a2 = a2  b1 = b1
    g1 = g1  g2 = g2
    e1 = e1  e2 = e2
    NO_ADDR = NO_ADDR
    NULL = NULL
    Modes = {"xTR", "MN", "RTR", "MS"}
    Eids = {e1, e2}
    MaxInputs = 5
    interface_list <- MCInterfaceList
    Configured <- MCConfigured
    AddrsOf <- MCAddrsOf
    InitialAddresses <- MCInitialAddresses
    Gateways <- MCGateways
    KernelAddrs <- MCKernelAddrs
    InitialLinks <- MCInitialLinks
    InitialGateways <- MCInitialGateways
    EidAfi <- MCEidAfi
    ConfiguredEids <- MCConfiguredEids
    FirstIndex <- MCFirstIndex
    NextIndex <- MCNextIndex
INVARIANTS
    KernelFollowsDaemon
    
PROPERTIES
    ExitRestoresKernel
CHECK_DEADLOCK FALSE
