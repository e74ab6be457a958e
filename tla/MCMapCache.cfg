CONSTANTS
    NULL = NULL
    h1 = h1
    h2 = h2
    s1 = s1
    e1 = e1
    e2 = e2
    t1 = t1
    t2 = t2
    t3 = t3
    t4 = t4
    n1 = n1
    n2 = n2
    Hosts = {h1, h2}
    Sites <- MCSites
    SiteOf <- MCSiteOf
    Mces = {e1, e2}
    Timers = {t1, t2, t3, t4}
    Nonces = {n1, n2}
    map_request_retries = 1
    LISPD_MAX_SMR_RETRANSMIT = 0
    probe_retries = 0
    probe_interval = 30
    Outages = TRUE
SPECIFICATION Spec
SYMMETRY Symmetry
INVARIANTS  PlaceholdersAreCached
PROPERTY AcceptedOnce
