CONSTANTS
    NULL = NULL
    h1 = h1
    s1 = s1
    e1 = e1
    e2 = e2
    t1 = t1
    t2 = t2
    t3 = t3
    n1 = n1
    n2 = n2
    n3 = n3
    Hosts = {h1}
    Sites <- MCSites
    SiteOf <- MCSiteOf
    Mces = {e1, e2}
    Timers = {t1, t2, t3}
    Nonces = {n1, n2, n3}
    map_request_retries = 1
    LISPD_MAX_SMR_RETRANSMIT = 0
    probe_retries = 0
    probe_interval = 30
    Outages = FALSE
SPECIFICATION FairSpec
 
PROPERTY PlaceholdersAreResolved
