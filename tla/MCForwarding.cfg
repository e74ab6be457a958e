SPECIFICATION Spec
CONSTANTS
    NULL = NULL
    Modes = {"xTR_MODE", "RTR_MODE"}
    Hashes = {0, 1, 2, 5, 7}
    Addresses = {1, 2, 3, 4, 5, 6, 7, 8, 9}
    LocalMaps <- MCLocalMaps
    RemoteMaps <- MCRemoteMaps
    PetrMaps <- MCPetrMaps
INVARIANTS
    TrafficSpreadByWeight
    RlocsAreBest
    NativeOnlyWithoutPath
CHECK_DEADLOCK FALSE
