------------------------------ MODULE Forwarding ------------------------------
(* The forwarding decision of a tunnel router, tr_get_fwd_entry, for the    *)
(* flows from one local EID prefix to one remote EID, while the locators of *)
(* the local mapping, of the map-cache entry and of the Proxy-ETRs go up    *)
(* and down and the entry comes and goes (control/lisp_xtr.c).  How the     *)
(* entry comes and goes is the subject of MapCache.                         *)
EXTENDS FlowBalancing, FiniteSets

CONSTANTS
    Modes,        \* the modes of the device: xTR_MODE, MN_MODE, RTR_MODE
    LocalMaps,    \* the configured mappings of the local EID prefix
    RemoteMaps,   \* the mappings Map-Replies bring; <<>> is a negative one
    PetrMaps,     \* the configured Proxy-ETRs
    Addresses,    \* the addresses of locators
    Hashes,       \* the values of pkt_tuple_hash
    NULL

\* Priorities and weights are of a byte.
Locators ==
    [addr : Addresses, afi : {0, AF_INET, AF_INET6}, priority : 0 .. 255, weight : Weights,
     state : {UP, DOWN}]

\* mapping_add_locator keeps one locator of each address; no two locators
\* without an address are the same to it.
Mappings ==
    {m \in Seq(Locators) :
        \A j, k \in DOMAIN m :
            m[j].afi # 0 /\ m[j].afi = m[k].afi /\ m[j].addr = m[k].addr => j = k}

\* balancing_vectors_calculate has room for 32 locators.
ASSUME ForwardingAssumption ==
    /\ LocalMaps \cup RemoteMaps \cup PetrMaps \subseteq {m \in Mappings : Len(m) <= 32}
    /\ Hashes \subseteq Nat

VARIABLES
    mode,
    local, local_fwd,   \* the local mapping and its forwarding information
    mce, mce_fwd,       \* the map-cache entry, if any, and its routing_info
    petrs, petrs_fwd,   \* the Proxy-ETRs and their routing_info
    fwd_info,           \* the decision for the last packet
    crashed             \* a null routing_info was used

vars == <<mode, local, local_fwd, mce, mce_fwd, petrs, petrs_fwd, fwd_info,
          crashed>>

NoEntry == [status |-> "NONE", map |-> <<>>]
NoPacket == [made |-> FALSE, found |-> FALSE, temporal |-> FALSE, entry |-> Native]

-----------------------------------------------------------------------------
\* The routing_info of the Proxy-ETRs is made when an xTR or a mobile node is
\* configured; an RTR has no Proxy-ETRs and no routing_info for them.
Init ==
    /\ mode \in Modes
    /\ local \in LocalMaps
    /\ local_fwd = balancing_vectors_calculate(local)
    /\ mce = NoEntry
    /\ mce_fwd = NULL
    /\ petrs \in IF mode = "RTR_MODE" THEN {<<>>} ELSE PetrMaps
    /\ petrs_fwd = IF mode = "RTR_MODE" THEN NULL
                   ELSE balancing_vectors_calculate(petrs)
    /\ fwd_info = NoPacket
    /\ crashed = FALSE

-----------------------------------------------------------------------------
\* The decision in force is that of the last packet and is dropped when
\* anything it rests on changes.
Event == ~crashed /\ fwd_info' = NoPacket /\ UNCHANGED <<mode, crashed>>

Opposite(state) == IF state = UP THEN DOWN ELSE UP

\* An interface of the local mapping goes up or down.
xtr_if_event(k) ==
    /\ Event
    /\ local' = [local EXCEPT ![k].state = Opposite(@)]
    /\ local_fwd' = balancing_vectors_calculate(local')
    /\ UNCHANGED <<mce, mce_fwd, petrs, petrs_fwd>>

\* A Map-Reply activates the entry; tr_mcache_add_mapping makes its vectors.
tr_mcache_add_mapping(m) ==
    /\ Event
    /\ mce.status = "NOT_ACTIVE"
    /\ mce' = [status |-> "ACTIVE", map |-> m]
    /\ mce_fwd' = balancing_vectors_calculate(m)
    /\ UNCHANGED <<local, local_fwd, petrs, petrs_fwd>>

\* A Map-Reply to a Map-Request that refreshes the entry replaces its locators.
update_mcache_entry(m) ==
    /\ Event
    /\ mce.status = "ACTIVE"
    /\ mce' = [mce EXCEPT !.map = m]
    /\ mce_fwd' = balancing_vectors_calculate(m)
    /\ UNCHANGED <<local, local_fwd, petrs, petrs_fwd>>

\* The entry expires, or its Map-Requests got no answer.
mc_entry_expiration_timer_cb ==
    /\ Event
    /\ mce.status # "NONE"
    /\ mce' = NoEntry
    /\ mce_fwd' = NULL
    /\ UNCHANGED <<local, local_fwd, petrs, petrs_fwd>>

\* The vectors are left as they were.
rloc_probing_cbNot(k) ==
    /\ Event
    /\ mce.map[k].state = UP
    /\ mce' = [mce EXCEPT !.map[k].state = DOWN]
    /\ UNCHANGED <<local, local_fwd, mce_fwd, petrs, petrs_fwd>>

\* The probes of locator k of the entry got no answer.
rloc_probing_cb(k) ==
    /\ Event
    /\ mce.map[k].state = UP
    /\ mce' = [mce EXCEPT !.map[k].state = DOWN]
    /\ mce_fwd' = balancing_vectors_calculate(mce'.map)
    /\ UNCHANGED <<local, local_fwd, petrs, petrs_fwd>>

\* A probe of locator k of the entry is answered.
handle_locator_probe_reply(k) ==
    /\ Event
    /\ mce.map[k].state = DOWN
    /\ mce' = [mce EXCEPT !.map[k].state = UP]
    /\ mce_fwd' = balancing_vectors_calculate(mce'.map)
    /\ UNCHANGED <<local, local_fwd, petrs, petrs_fwd>>

\* The same two for a locator of the Proxy-ETRs.
petr_probing(k) ==
    /\ Event
    /\ petrs' = [petrs EXCEPT ![k].state = Opposite(@)]
    /\ petrs_fwd' = balancing_vectors_calculate(petrs')
    /\ UNCHANGED <<local, local_fwd, mce, mce_fwd>>

-----------------------------------------------------------------------------
\* The temporary entry of a destination that is not in the map cache.
handle_map_cache_miss ==
    /\ mce' = [status |-> "NOT_ACTIVE", map |-> <<>>]
    /\ mce_fwd' = balancing_vectors_calculate(<<>>)

\* The entry has locators to send to.
Positive == mce.status = "ACTIVE" /\ mce.map # <<>>

\* The fallback to the Proxy-ETRs when the entry has no locator compatible
\* with the local ones is taken if there are no Proxy-ETRs.
FallsBack(hash) ==
    /\ Positive
    /\ fb_get_fw_entry(local_fwd, mce_fwd, hash) = Native
    /\ petrs = <<>>

\* fb_get_fw_entry looks at the destination once it has seen a source vector.
UsesNull(hash) ==
    /\ FallsBack(hash)
    /\ petrs_fwd = NULL
    /\ \E f \in DOMAIN local_fwd : ~local_fwd[f].null

tr_get_fwd_entry_of(hash) ==
    CASE FallsBack(hash) -> fb_get_fw_entry(local_fwd, petrs_fwd, hash)
      [] Positive /\ ~FallsBack(hash) -> fb_get_fw_entry(local_fwd, mce_fwd, hash)
      [] ~Positive /\ petrs # <<>> -> fb_get_fw_entry(local_fwd, petrs_fwd, hash)
      [] OTHER -> Native

\* A packet whose source address is not in a local EID prefix; an RTR looks
\* for none.
tr_get_fwd_entry_foreign ==
    /\ ~crashed
    /\ mode # "RTR_MODE"
    /\ fwd_info' = [NoPacket EXCEPT !.made = TRUE]
    /\ UNCHANGED <<mode, local, local_fwd, mce, mce_fwd, petrs, petrs_fwd, crashed>>

\* A packet from the local EID prefix to the remote EID.
tr_get_fwd_entry(hash) ==
    /\ ~crashed
    /\ IF mce.status = "NONE" THEN handle_map_cache_miss
       ELSE UNCHANGED <<mce, mce_fwd>>
    /\ crashed' = UsesNull(hash)
    /\ fwd_info' = IF UsesNull(hash) THEN NoPacket
                   ELSE [made |-> TRUE, found |-> TRUE,
                         temporal |-> mce.status # "ACTIVE",
                         entry |-> tr_get_fwd_entry_of(hash)]
    /\ UNCHANGED <<mode, local, local_fwd, petrs, petrs_fwd>>

Next ==
    \/ \E k \in DOMAIN local : xtr_if_event(k)
    \/ \E m \in RemoteMaps : tr_mcache_add_mapping(m)
    \/ \E m \in RemoteMaps : update_mcache_entry(m)
    \/ mc_entry_expiration_timer_cb
    \/ \E k \in DOMAIN mce.map : rloc_probing_cb(k)
    \/ \E k \in DOMAIN mce.map : handle_locator_probe_reply(k)
    \/ \E k \in DOMAIN petrs : petr_probing(k)
    \/ tr_get_fwd_entry_foreign
    \/ \E hash \in Hashes : tr_get_fwd_entry(hash)

Spec == Init /\ [][Next]_vars

-----------------------------------------------------------------------------
\* What the code is compared with: the locators that may be used, by their
\* position, and the best of them.
Eligible(map, afis) ==
    {k \in DOMAIN map : /\ map[k].state = UP
                        /\ map[k].priority # UNUSED_RLOC_PRIORITY
                        /\ map[k].afi \in afis}

Best(map, afis) ==
    {k \in Eligible(map, afis) :
        \A j \in Eligible(map, afis) : map[k].priority <= map[j].priority}

CommonFamilies(map1, map2) ==
    {afi \in {AF_INET, AF_INET6} :
        Eligible(map1, {afi}) # {} /\ Eligible(map2, {afi}) # {}}

Cells(vector, l) == Cardinality({p \in DOMAIN vector.cells : vector.cells[p] = l})

\* The vector is filled to its length with the best locators, the cells of any
\* two locators are in the ratio of their weights (all the best ones have as
\* many when all the weights are 0), and no shorter vector would do.
Spreads(vector, map, best) ==
    LET part(k) == IF k \notin best THEN 0
                   ELSE IF \A j \in best : map[j].weight = 0 THEN 1
                   ELSE map[k].weight
    IN  /\ Len(vector.cells) = vector.length
        /\ vector.length > 0
        /\ \A p \in 1 .. vector.length : \E k \in best : vector.cells[p] = map[k]
        /\ \A j, k \in DOMAIN map :
              Cells(vector, map[j]) * part(k) = Cells(vector, map[k]) * part(j)
        /\ \A d \in 2..vector.length :
              \E k \in best : Cells(vector, map[k]) % d # 0

SpreadsFamily(vector, map, afi) ==
    IF Eligible(map, {afi}) = {} THEN vector = NoVector
    ELSE ~vector.null /\ Spreads(vector, map, Best(map, {afi}))

Balanced(map, fwd) ==
    /\ SpreadsFamily(fwd.v4, map, AF_INET)
    /\ SpreadsFamily(fwd.v6, map, AF_INET6)
    /\ IF CommonFamilies(map, map) = {AF_INET, AF_INET6}
       THEN ~fwd.mixed.null /\ Spreads(fwd.mixed, map, Best(map, {AF_INET, AF_INET6}))
       ELSE fwd.mixed = NoVector

\* The mapping a packet is sent by: that of the entry, or the Proxy-ETRs while
\* the destination is unknown or is not a LISP site.
Destination == IF Positive THEN mce.map ELSE petrs

-----------------------------------------------------------------------------
\* Types of the state; an entry of the map cache has its routing_info, and so
\* have the Proxy-ETRs of every device but an RTR.
TypeOK ==
    /\ mode \in Modes
    /\ mce.status \in {"NONE", "NOT_ACTIVE", "ACTIVE"}
    /\ mce.status # "ACTIVE" => mce.map = <<>>
    /\ (mce_fwd = NULL) <=> (mce.status = "NONE")
    /\ (petrs_fwd = NULL) <=> (mode = "RTR_MODE")
    /\ {fwd_info.made, fwd_info.found, fwd_info.temporal, crashed} \subseteq BOOLEAN
    /\ Len(fwd_info.entry) \in {0, 2}

\* At every moment, whatever locators went up and down and whatever mapping a
\* Map-Reply brought, the vectors of the local mapping, of the entry and of
\* the Proxy-ETRs give each usable locator of the best priority a share of the
\* hash space in proportion to its weight (balancing_vectors_calculate and its
\* callers).
TrafficSpreadByWeight ==
    /\ Balanced(local, local_fwd)
    /\ mce_fwd # NULL => Balanced(mce.map, mce_fwd)
    /\ petrs_fwd # NULL => Balanced(petrs, petrs_fwd)

\* The RLOCs of an encapsulated packet are of the same family and up; the
\* source has the best priority among the local locators of the families the
\* destination has, and the destination the best priority of that family
\* (fb_get_fw_entry).
RlocsAreBest ==
    fwd_info.entry # Native =>
        LET src == fwd_info.entry[1]
            dst == fwd_info.entry[2]
        IN  /\ src.afi = dst.afi
            /\ \E k \in Best(local, CommonFamilies(local, Destination)) : local[k] = src
            /\ \E k \in Best(Destination, {src.afi}) : Destination[k] = dst

\* A packet from a local EID leaves without encapsulation only when the local
\* mapping and the mapping it is sent by have no family in common
\* (tr_get_fwd_entry, fb_get_fw_entry).
NativeOnlyWithoutPath ==
    (fwd_info.found /\ fwd_info.entry = Native) =>
        CommonFamilies(local, Destination) = {}

\* A packet from a local EID leaves without encapsulation only when the
\* Proxy-ETRs cannot be used either: the log of tr_get_fwd_entry for this case
\* is "No compatible src and dst rlocs. No PeTRs configured".
PetrsAreLastResort ==
    (fwd_info.found /\ fwd_info.entry = Native) =>
        CommonFamilies(local, petrs) = {}

=============================================================================
