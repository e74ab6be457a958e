---------------------------- MODULE ManagementApi ----------------------------
(***************************************************************************)
(* Run-time reconfiguration: the NETCONF module (netconf/) turns a change  *)
(* of the datastore into a request, sends it to lispd over a ZeroMQ        *)
(* request/reply socket and blocks for the result (lispd_api.c); lispd     *)
(* polls that socket once per turn of its event loop, carries the request  *)
(* out on the running device and answers (lispd_api_internals.c).          *)
(*                                                                         *)
(* Content is what the XML document says: a list of addresses, of servers  *)
(* or of mappings.  "too_large" is a document over MAX_API_PKT_LEN.        *)
(***************************************************************************)
EXTENDS Config

CONSTANTS
    Changes,        \* [target -> set of changes of the datastore: [dev, op, data, too_large]]
    MaxSteps        \* bound on sections and changes together

VARIABLES
    request,        \* requests on the socket: a sequence of at most one
    reply,          \* results on the socket: a sequence of at most one
    waiting,        \* the NETCONF module is blocked in lmapi_recv
    ncalls,         \* changes so far (bound)
    removed         \* targets whose previous objects a call has freed so far

apiVars == <<request, reply, waiting, ncalls, removed>>
vars == <<front, mode, stage, at, nread, dev, request, reply, waiting, ncalls, removed>>

-----------------------------------------------------------------------------
(* Operations: each returns [d, ok]; ok is the result sent back *)

Distinct(s) == \A j, k \in DOMAIN s : s[j] = s[k] => j = k

\* Every address an IP literal, none twice
ValidList(list) ==
    Distinct(list) /\ \A k \in DOMAIN list : list[k].address \in DOMAIN LiteralAfi

\* Mutant: the old list is emptied before the new one is checked
lmapi_xtr_mr_createEarly(d, list) ==
    IF ValidList(list)
    THEN [ok |-> TRUE,
          d  |-> [d EXCEPT !.map_resolvers = [k \in DOMAIN list |-> IP(list[k].address)]]]
    ELSE [ok |-> FALSE, d |-> [d EXCEPT !.map_resolvers = <<>>]]

lmapi_xtr_mr_create(d, list) ==
    IF ValidList(list)
    THEN [ok |-> TRUE,
          d  |-> [d EXCEPT !.map_resolvers = [k \in DOMAIN list |-> IP(list[k].address)]]]
    ELSE [ok |-> FALSE, d |-> d]

lmapi_xtr_mr_delete(d) ==
    [ok |-> d.map_resolvers # <<>>, d |-> [d EXCEPT !.map_resolvers = <<>>]]

\* The list of servers, each pushed on the front; a missing field, a key type
\* other than SHA1 or an address that does not parse refuses the whole list
lxml_update_map_server_list(d, servers) ==
    LET good(c) == c.key /\ c.key_type = 1 /\ c.address \in DOMAIN LiteralAfi
        add(s, c) == [s EXCEPT !.map_servers = <<[id |-> s.next, addr |-> IP(c.address)]>> \o @,
                               !.next = @ + 1]
    IN  [ok |-> \A k \in DOMAIN servers : good(servers[k]),
         d  |-> FoldLeft(add, [d EXCEPT !.map_servers = <<>>], servers)]

\* A server listed twice is freed and then added
lmapi_xtr_ms_undefined(servers) ==
    ~ Distinct([k \in DOMAIN servers |-> servers[k].address])

lmapi_xtr_ms_create(d, servers) ==
    LET new == lxml_update_map_server_list(d, servers) IN
    IF new.ok THEN [ok |-> TRUE, d |-> program_map_register(new.d)]
    ELSE [ok |-> FALSE, d |-> d]

\* The timers of the Map-Registers are left as they are
lmapi_xtr_ms_delete(d) ==
    [ok |-> d.map_servers # <<>>, d |-> [d EXCEPT !.map_servers = <<>>]]

\* A number the document leaves out
UNSET == -1

\* An interface stands for two locators, one per address family; priority and
\* weight that a locator leaves out are those of the locator before it
lxml_get_conf_mapping(c) ==
    LET given(k) == {j \in 1 .. k : c.rlocs[j].priority # UNSET}
        prio(k)  == IF given(k) = {} THEN 255
                    ELSE c.rlocs[CHOOSE j \in given(k) : \A n \in given(k) : n <= j].priority
        rl(k)    == [address |-> c.rlocs[k].address, priority |-> prio(k), weight |-> 1]
        n        == Len(c.ifaces)
        ifc(k)   == [interface |-> c.ifaces[n - (k - 1) \div 2],
                     afi |-> IF k % 2 = 1 THEN "v6" ELSE "v4", priority |-> 1, weight |-> 1]
    IN  [eid    |-> c.eid,
         rlocs  |-> Reverse([k \in DOMAIN c.rlocs |-> rl(k)]),
         ifaces |-> [k \in 1 .. 2 * n |-> ifc(k)]]

\* Mutant: the prefixes stay in the data plane
empty_local_mdbRouted(d) ==
    LET del(s, e) == map_local_entry_del(s, e)
    IN  [FoldLeft(del, d, SetToSeq(LocalEntries(d) \cap DOMAIN d.entries)) EXCEPT
            !.local_mdb = <<>>]

\* ctrl_unregister_eid_prefix of each entry, then local_map_db_del: entries,
\* their locators and their timers go; the interface table is not told
empty_local_mdb(d) ==
    LET del(s, e) == map_local_entry_del(s, e)
    IN  [FoldLeft(del, d, SetToSeq(LocalEntries(d) \cap DOMAIN d.entries)) EXCEPT
            !.local_mdb = <<>>, !.eids = {}]

EidAfi(eid) == IF Head(eid.v) \in DOMAIN PrefixAfi THEN PrefixAfi[Head(eid.v)]
               ELSE LiteralAfi[Head(eid.v)]

\* One mapping of lmapi_xtr_mapdb_create; s.go is FALSE after an error ("goto
\* err", s.ok = FALSE) and after the mapping a mobile node cannot take
\* ("break", s.ok stays TRUE)
mapdb_add(s, c) ==
    LET taken(p) == mode = "MN" /\ \E x \in DOMAIN p.d.local_mdb : EidAfi(x) = EidAfi(p.eid)
        served(a, eid) == [d |-> IF a.ok THEN [a.d EXCEPT !.eids = @ \cup {eid}] ELSE a.d,
                           ok |-> a.ok, go |-> a.ok]
        add(p) == IF p.eid = NO_ADDR THEN [d |-> p.d, ok |-> FALSE, go |-> FALSE]
                  ELSE IF taken(p) THEN [d |-> p.d, ok |-> TRUE, go |-> FALSE]
                  ELSE served(add_new_entry(p), p.eid)
    IN  IF s.go THEN add(process_mapping_config(s.d, c, TRUE)) ELSE s

lmapi_xtr_mapdb_create(d, mappings) ==
    LET confs == Reverse([k \in DOMAIN mappings |-> lxml_get_conf_mapping(mappings[k])])
        registered(r) == [ok |-> r.ok, d |-> IF r.ok THEN program_map_register(r.d) ELSE r.d]
    IN  IF \E k \in DOMAIN mappings : mappings[k].eid = "" THEN [ok |-> FALSE, d |-> d]
        ELSE registered(FoldLeft(mapdb_add,
                                 [d |-> empty_local_mdb(d), ok |-> TRUE, go |-> TRUE], confs))

lmapi_xtr_mapdb_delete(d) == [ok |-> TRUE, d |-> empty_local_mdb(d)]

\* The locators of the proxies are freed, the new ones added with priority 1
\* and weight 100, and the forwarding information rebuilt
lmapi_xtr_petrs_create(d, list) ==
    LET clean == [locator_del(d, d.petrs) EXCEPT !.petrs = {}]
        add(s, c) == add_proxy_etr_entry(s, [address |-> c.address, priority |-> 1,
                                             weight |-> 100])
        rebuilt(new) == [new EXCEPT !.petrs_fwd = balancing_locators(new, new.petrs)]
    IN  IF ValidList(list) THEN [ok |-> TRUE, d |-> rebuilt(FoldLeft(add, clean, list))]
        ELSE [ok |-> FALSE, d |-> d]

\* The forwarding information is left as it is
lmapi_xtr_petrs_delete(d) ==
    [ok |-> TRUE, d |-> [locator_del(d, d.petrs) EXCEPT !.petrs = {}]]

\* lmapi_get_proc_func: the requests this device answers with an operation
lmapi_get_proc_func(r) ==
    \/ r.dev = "xTR" /\ mode \in {"xTR", "MN"} /\ r.target \in {"MR", "MS", "MAPDB", "PETR"}
    \/ r.dev = "RTR" /\ mode = "RTR" /\ r.target = "MR"

process(d, r) ==
    CASE r.target = "MR"    /\ r.op = "create" -> lmapi_xtr_mr_create(d, r.data)
      [] r.target = "MR"    /\ r.op = "delete" -> lmapi_xtr_mr_delete(d)
      [] r.target = "MS"    /\ r.op = "create" -> lmapi_xtr_ms_create(d, r.data)
      [] r.target = "MS"    /\ r.op = "delete" -> lmapi_xtr_ms_delete(d)
      [] r.target = "MAPDB" /\ r.op = "create" -> lmapi_xtr_mapdb_create(d, r.data)
      [] r.target = "MAPDB" /\ r.op = "delete" -> lmapi_xtr_mapdb_delete(d)
      [] r.target = "PETR"  /\ r.op = "create" -> lmapi_xtr_petrs_create(d, r.data)
      [] r.target = "PETR"  /\ r.op = "delete" -> lmapi_xtr_petrs_delete(d)

-----------------------------------------------------------------------------
(* The two processes *)

Message(device, target, op, data) ==
    [dev |-> device, target |-> target, op |-> op, data |-> data]

lmapi_nc_xtr_mr_add(data)    == Message("xTR", "MR", "create", data)
lmapi_nc_xtr_mr_rem          == Message("xTR", "MR", "delete", <<>>)
lmapi_nc_xtr_petrs_add(data) == Message("xTR", "PETR", "create", data)
lmapi_nc_xtr_petrs_rem       == Message("xTR", "PETR", "delete", <<>>)
lmapi_nc_xtr_ms_add(data)    == Message("xTR", "MS", "create", data)
lmapi_nc_xtr_ms_rem          == Message("xTR", "MS", "delete", <<>>)
lmapi_nc_xtr_mapdb_add(data) == Message("xTR", "MAPDB", "create", data)
lmapi_nc_xtr_mapdb_rem       == Message("xTR", "MAPDB", "delete", <<>>)
lmapi_nc_rtr_mr_add(data)    == Message("RTR", "MR", "create", data)
lmapi_nc_rtr_mr_rem          == Message("RTR", "MR", "delete", <<>>)

\* XMLDIFF_ADD, _MOD and _CHAIN install the new list, XMLDIFF_REM removes it
Installs(c) == c.op \in {"ADD", "MOD", "CHAIN"}

lmapi_nc_message(target, c) ==
    IF Installs(c)
    THEN CASE c.dev = "xTR" /\ target = "MR"    -> lmapi_nc_xtr_mr_add(c.data)
           [] c.dev = "xTR" /\ target = "MS"    -> lmapi_nc_xtr_ms_add(c.data)
           [] c.dev = "xTR" /\ target = "MAPDB" -> lmapi_nc_xtr_mapdb_add(c.data)
           [] c.dev = "xTR" /\ target = "PETR"  -> lmapi_nc_xtr_petrs_add(c.data)
           [] c.dev = "RTR" /\ target = "MR"    -> lmapi_nc_rtr_mr_add(c.data)
    ELSE CASE c.dev = "xTR" /\ target = "MR"    -> lmapi_nc_xtr_mr_rem
           [] c.dev = "xTR" /\ target = "MS"    -> lmapi_nc_xtr_ms_rem
           [] c.dev = "xTR" /\ target = "MAPDB" -> lmapi_nc_xtr_mapdb_rem
           [] c.dev = "xTR" /\ target = "PETR"  -> lmapi_nc_xtr_petrs_rem
           [] c.dev = "RTR" /\ target = "MR"    -> lmapi_nc_rtr_mr_rem

\* A datastore change reaches a callback, which sends one request and blocks
lmapi_nc_node_accessed ==
    /\ stage = "running" /\ ~ waiting /\ nread + ncalls < MaxSteps
    /\ \E t \in DOMAIN Changes : \E c \in Changes[t] :
        /\ Installs(c) => ~ c.too_large     \* over MAX_API_PKT_LEN: refused here
        /\ request' = <<lmapi_nc_message(t, c)>>
    /\ waiting' = TRUE
    /\ ncalls' = ncalls + 1
    /\ UNCHANGED <<front, mode, stage, at, nread, dev, reply, removed>>

\* lmapi_apply_config returns the result to the callback
lmapi_apply_config ==
    /\ waiting /\ reply # <<>>
    /\ waiting' = FALSE
    /\ reply' = <<>>
    /\ UNCHANGED <<front, mode, stage, at, nread, dev, request, ncalls, removed>>

\* A call whose arguments C leaves no meaning for
undefined_call(r) == r.target = "MS" /\ r.op = "create" /\ lmapi_xtr_ms_undefined(r.data)

\* The request r is carried out on the device and its result sent back
answer(r) ==
    \E p \in {process(dev, r)} :
        /\ reply' = <<IF p.ok THEN "OK" ELSE "ERR">>
        /\ dev' = p.d
        /\ removed' = removed \cup
             {t \in {r.target} : \/ t = "MAPDB"
                                 \/ t = "MS" /\ p.d.map_servers = <<>>
                                 \/ t = "PETR" /\ r.op = "delete"}
        /\ stage' = stage

\* Mutant: an unknown request is dropped
lmapi_loopSilent ==
    /\ stage = "running" /\ request # <<>>
    /\ LET r == Head(request)
       IN  IF ~ lmapi_get_proc_func(r)
           THEN UNCHANGED <<reply, dev, stage, removed>>
           ELSE IF undefined_call(r)
           THEN stage' = "undefined" /\ UNCHANGED <<reply, dev, removed>>
           ELSE answer(r)
    /\ request' = <<>>
    /\ UNCHANGED <<front, mode, at, nread, waiting, ncalls>>

\* A turn of the event loop that finds a request on the socket
lmapi_loop ==
    /\ stage = "running" /\ request # <<>>
    /\ LET r == Head(request)
       IN  IF ~ lmapi_get_proc_func(r)
           THEN reply' = <<"ERR">> /\ UNCHANGED <<dev, stage, removed>>
           ELSE IF undefined_call(r)
           THEN stage' = "undefined" /\ UNCHANGED <<reply, dev, removed>>
           ELSE answer(r)
    /\ request' = <<>>
    /\ UNCHANGED <<front, mode, at, nread, waiting, ncalls>>

Init ==
    /\ ConfigInit
    /\ request = <<>> /\ reply = <<>> /\ waiting = FALSE /\ ncalls = 0
    /\ removed = {}

Next ==
    \/ (\E type \in SectionTypes : read_section(type)) /\ UNCHANGED apiVars
    \/ handle_config_file /\ UNCHANGED apiVars
    \/ lmapi_nc_node_accessed
    \/ lmapi_apply_config
    \/ lmapi_loop

\* A step that takes the request off the socket: lmapi_loop is the only one
turn_of_the_loop == stage = "running" /\ request # <<>> /\ request' = <<>>

\* The event loop turns at least once per tick of the timer wheel, and the
\* NETCONF module is waiting for nothing else.
Fairness == WF_request(turn_of_the_loop) /\ WF_vars(lmapi_apply_config)

Spec == Init /\ [][Next]_vars /\ Fairness

-----------------------------------------------------------------------------
(* Properties *)

TypeOK ==
    /\ mode \in Modes /\ front \in DOMAIN Sections
    /\ stage \in {"reading", "running", "exited", "undefined"}
    /\ Len(request) <= 1 /\ Len(reply) <= 1
    /\ waiting \in BOOLEAN
    /\ DOMAIN dev.locts \cap DOMAIN dev.entries = {}
    /\ \A id \in DOMAIN dev.locts \cup DOMAIN dev.entries : id < dev.next

\* Interface table (iface_locators.c) of an xTR or mobile node configured by
\* the libconfuse front end, as long as no call has replaced its database:
\* each locator of a local mapping is on exactly one list, no other locator is
\* on any, and a row names exactly the mappings that have a locator on it.
InterfaceTableExact ==
    front = "confuse" /\ TiesLocators /\ stage # "undefined" /\ "MAPDB" \notin removed =>
        LET local == UNION {dev.entries[e].locts : e \in LocalEntries(dev)}
            lists == (DOMAIN dev.table) \X Afis
        IN  /\ RowLocators(dev) = local
            /\ \A id \in local :
                 Cardinality({p \in lists : id \in dev.table[p[1]].locts[p[2]]}) = 1
            /\ \A i \in DOMAIN dev.table :
                 dev.table[i].entries =
                    {e \in LocalEntries(dev) :
                        \E f \in Afis : dev.table[i].locts[f] \cap dev.entries[e].locts # {}}

\* LiveReferences, for an xTR or mobile node under libconfuse until a call of
\* the API frees a database, a list of servers or the proxies.
LiveUntilRemoved ==
    front = "confuse" /\ TiesLocators /\ removed = {} => LiveReferences

\* What the device does follows its local database: the data plane routes
\* exactly its EID prefixes, also after a mapdb_create that failed half way
\* (lmapi_xtr_mapdb_create), and until a call frees servers or entries, each
\* entry has a Map-Register timer for each server of the list, and there is no
\* other timer (program_map_register).
DatabaseIsServed ==
    stage = "running" /\ TiesLocators =>
        /\ dev.eids = DOMAIN dev.local_mdb
        /\ removed = {} =>
              dev.registers = LocalEntries(dev) \X
                                {dev.map_servers[k].id : k \in DOMAIN dev.map_servers}

\* A call answered with ERR leaves resolvers, servers and proxies as they
\* were: "Everything fine. We replace the old list with the new one" comes
\* after every check.
ErrorKeepsLists ==
    [][reply' = <<"ERR">> /\ reply = <<>> =>
        /\ dev'.map_resolvers = dev.map_resolvers
        /\ dev'.map_servers = dev.map_servers
        /\ dev'.petrs = dev.petrs]_vars

\* Every request is answered: the NETCONF module never stays blocked in
\* lmapi_recv (lmapi_loop answers what it cannot carry out with an error),
\* unless the program has run into undefined behaviour.
RequestsAreAnswered == waiting ~> (~ waiting \/ stage = "undefined")
=============================================================================
