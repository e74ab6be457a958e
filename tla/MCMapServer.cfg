CONSTANTS
    NULL = NULL
    k1 = k1
    k2 = k2
    m4 = m4
    m6 = m6
    Flags = {TRUE, FALSE}
    WIDTH = 2
    Prefixes <- MCPrefixes
    Configured <- MCConfigured
    Static <- MCStatic
    MoreSpecifics <- MCMoreSpecifics
    Merge <- MCMerge
    Keys = {k1, k2}
    Key <- MCKey
    KeyPrefix <- MCKeyPrefix
    Mappings = {m4, m6}
    Reachable = {m4}
    Messages <- MCMessages
SPECIFICATION Spec
INVARIANTS DynamicEntriesExpire RegisteredWithSiteKey NotifiedIsRegistered
CHECK_DEADLOCK FALSE
