SPECIFICATION FairSpec
CONSTANTS
    i1 = i1  i2 = i2
    a1 = a1  a2 = a2  b1 = b1
    m1 = m1  s1 = s1
    NO_ADDR = NO_ADDR
    NULL = NULL
    Mappings = {m1}
    MapServers = {s1}
    probe_retries = 1
    interface_list <- MCInterfaceList
    Configured <- MCConfigured
    AddrsOf <- MCAddrsOf
    Locators <- MCLocators
    MapServerAfi <- MCMapServerAfi
    InitialAddresses <- MCUniformAddresses
INVARIANTS
    DefaultIfacesUsable
    
    VectorsFollowLocators
    
PROPERTIES
    ServersCatchUp
CHECK_DEADLOCK FALSE
