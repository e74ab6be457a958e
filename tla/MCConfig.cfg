SPECIFICATION Spec
CONSTANTS
    KernelAddr <- MCKernelAddr
    LiteralAfi <- MCLiteralAfi
    PrefixAfi <- MCPrefixAfi
    Covers <- MCCovers
    Dns <- MCDns
    Sections <- MCSections
    MaxSections <- MCMaxSections
    Changes <- MCChanges
    MaxSteps <- MCMaxSteps
INVARIANTS
    
    InterfaceTableExact
    NoTwinLocators
    DatabaseIsServed
PROPERTIES
    ErrorKeepsLists
    
CHECK_DEADLOCK FALSE
