------------------------------- MODULE Config -------------------------------
(***************************************************************************)
(* Start-up configuration of a LISPmob device: the two front ends (the     *)
(* libconfuse file of lispd_config_confuse.c and the OpenWrt UCI package   *)
(* of lispd_config_uci.c), the functions they share                        *)
(* (lispd_config_functions.c) and the table that ties each interface to    *)
(* the locators and mappings that use it (iface_locators.c).               *)
(*                                                                         *)
(* Locators, map entries and map servers are heap objects: each has an     *)
(* identifier that is never used twice, so a pointer kept after its object *)
(* is freed names an identifier that is no longer in the heap.             *)
(*                                                                         *)
(* A file is a sequence of sections, read one per step.  libconfuse groups *)
(* the sections by type, so that front end meets them in the fixed order   *)
(* of configure_*; UCI reads the addresses, the RLOCs and the RLOC sets in *)
(* passes of their own and the rest in the order of the file.  The "-a"    *)
(* option (default_rloc_afi) is not used.                                  *)
(***************************************************************************)
EXTENDS Integers, FiniteSets, SequencesExt

CONSTANTS
    KernelAddr,     \* [interface -> [Afis -> address]]: what the kernel says
    LiteralAfi,     \* [text of an IP address -> Afis]
    PrefixAfi,      \* [text of a prefix -> Afis]
    Covers,         \* pairs <<p, q>> of prefixes, q inside p
    Dns,            \* [host name -> sequence of IP texts], the resolver
    Sections,       \* [front end -> [section type -> set of contents]]
    MaxSections     \* [front end -> Nat]: bound on the sections of a file

VARIABLES
    front,          \* "confuse" or "uci": the front end compiled in
    mode,           \* operating mode
    stage,          \* "reading", "running", "exited" or "undefined"
    at,             \* pass of the front end that is reading
    nread,          \* sections read so far (bound)
    dev             \* the device being configured

configVars == <<front, mode, stage, at, nread, dev>>

-----------------------------------------------------------------------------
(* Addresses *)

Afis == {"v4", "v6"}    \* AF_INET and AF_INET6

IP(t)     == [lafi |-> "ip",   v |-> <<t>>]
Prefix(t) == [lafi |-> "pref", v |-> <<t>>]
NO_ADDR   == [lafi |-> "none", v |-> <<>>]

\* lisp_addr_cmp = 0; two absent addresses are never equal (they compare as 2)
SameAddr(a, b) == a = b /\ a.lafi # "none"

\* lisp_addr_get_ip_addr: the last node of an explicit path, the source of a
\* multicast address; a replication list has none
lisp_addr_get_ip_addr(a) ==
    CASE a.lafi = "ip"          -> a
      [] a.lafi \in {"elp"}     -> IP(Last(a.v))
      [] a.lafi = "mc"          -> IP(Head(a.v))
      [] OTHER                  -> NO_ADDR

\* The resolver's answers, each pushed on the front of the list
fqdn_to_addresses(t) ==
    IF t \in DOMAIN Dns
    THEN Reverse([k \in DOMAIN Dns[t] |-> IP(Dns[t][k])])
    ELSE <<>>

parse_ip_addr(t) ==
    IF t \in DOMAIN LiteralAfi THEN <<IP(t)>> ELSE fqdn_to_addresses(t)

parse_lisp_addr(t, lcaf_ht) ==
    CASE t \in DOMAIN LiteralAfi -> <<IP(t)>>
      [] t \in DOMAIN PrefixAfi  -> <<Prefix(t)>>
      [] t \in DOMAIN lcaf_ht    -> <<lcaf_ht[t]>>
      [] OTHER                   -> fqdn_to_addresses(t)

\* Name of the interface that has an address, as a set of at most one
get_interface_name_from_address(a) ==
    {i \in DOMAIN KernelAddr : \E f \in Afis : SameAddr(KernelAddr[i][f], a)}

-----------------------------------------------------------------------------
(* Ranges *)

MAX_RETRANSMITS == 5
MAX_IID == 16777215

\* conf_loc_new_init and conf_loc_iface_new_init take uint8_t parameters, so a
\* number of the file is truncated before it is validated
Uint8(n) == n % 256

validate_priority_weight(p, w) == p \in -1 .. 255 /\ w \in 0 .. 255

Clamp(n, lo, hi) == IF n < lo THEN lo ELSE IF n > hi THEN hi ELSE n

validate_rloc_probing_parameters(p) ==
    LET interval == IF p.interval < 0 THEN 0 ELSE p.interval
        retries  == IF interval = 0 THEN p.retries
                    ELSE Clamp(p.retries, 0, MAX_RETRANSMITS)
        pause    == IF interval = 0 \/ retries <= 0 THEN p.pause
                    ELSE IF p.pause < 1 THEN 1
                    ELSE IF p.pause > interval THEN interval ELSE p.pause
    IN  [interval |-> interval, retries |-> retries, pause |-> pause]

DefaultProbing == [interval |-> 30, retries |-> 2, pause |-> 5]
DEFAULT_MAP_REQUEST_RETRIES == 3

-----------------------------------------------------------------------------
(* Heap and interface table *)

NewDevice ==
    [next |-> 1, locts |-> <<>>, entries |-> <<>>, local_mdb |-> <<>>,
     all_locs_map |-> 0, ifaces |-> <<>>, table |-> <<>>, eids |-> {},
     map_resolvers |-> <<>>, pitrs |-> <<>>, map_servers |-> <<>>,
     registers |-> {}, petrs |-> {}, petrs_fwd |-> {}, map_cache |-> <<>>,
     lisp_sites |-> {}, reg_sites |-> <<>>, control |-> {},
     probing |-> DefaultProbing, retries |-> DEFAULT_MAP_REQUEST_RETRIES,
     nat_aware |-> FALSE, lcaf_ht |-> <<>>, rlocs_ht |-> <<>>,
     rlocs_null |-> FALSE, rloc_sets |-> <<>>]

Without(f, S) == [x \in DOMAIN f \ S |-> f[x]]

locator_new_init(d, addr, p, w) ==
    [d EXCEPT !.locts = (d.next :> [addr |-> addr, priority |-> p, weight |-> w]) @@ @,
              !.next = @ + 1]

locator_del(d, ids) == [d EXCEPT !.locts = Without(@, ids)]

\* add_interface (when the interface is new) and iface_setup_addr
iface_setup_addr(d, i, f) ==
    LET known == IF i \in DOMAIN d.ifaces THEN d.ifaces[i] ELSE <<>>
    IN  [d EXCEPT !.ifaces = (i :> ((f :> KernelAddr[i][f]) @@ known)) @@ @]

iface_locators_new == [locts |-> [f \in Afis |-> {}], entries |-> {}]

\* shash_lookup, iface_locators_new on a miss, and glist_add on the list of f
attach_locator(d, i, f, id) ==
    LET row == IF i \in DOMAIN d.table THEN d.table[i] ELSE iface_locators_new
    IN  [d EXCEPT !.table = (i :> [row EXCEPT !.locts[f] = @ \cup {id}]) @@ @]

\* The row of a locator: found by its address, or by identity when it has none
iface_locators_get_element_with_loct(d, id) ==
    LET a == d.locts[id].addr IN
    IF a.lafi = "none"
    THEN {i \in DOMAIN d.table : \E f \in Afis : id \in d.table[i].locts[f]}
    ELSE get_interface_name_from_address(lisp_addr_get_ip_addr(a)) \cap DOMAIN d.table

iface_locators_unattach_locator(d, id) ==
    LET rows == iface_locators_get_element_with_loct(d, id) IN
    [d EXCEPT !.table = [i \in DOMAIN @ |->
        IF i \in rows
        THEN [@[i] EXCEPT !.locts = [f \in Afis |-> @[f] \ {id}]]
        ELSE @[i]]]

\* Mutant: the rows are not told of the entry
iface_locators_attach_map_local_entryNone(d, e) == d

iface_locators_attach_map_local_entry(d, e) ==
    LET rows == UNION {iface_locators_get_element_with_loct(d, id) :
                        id \in d.entries[e].locts} IN
    [d EXCEPT !.table = [i \in DOMAIN @ |->
        IF i \in rows THEN [@[i] EXCEPT !.entries = @ \cup {e}] ELSE @[i]]]

iface_locators_unattach_mapping_and_loct(d, e) ==
    LET u == FoldLeft(iface_locators_unattach_locator, d,
                      SetToSeq(d.entries[e].locts))
    IN  [u EXCEPT !.table = [i \in DOMAIN @ |->
            [@[i] EXCEPT !.entries = @ \ {e}]]]

-----------------------------------------------------------------------------
(* Mappings: a mapping under construction is a set of locators *)

\* Mutant: a better locator is added beside the old
mapping_add_locatorBeside(s, id) ==
    LET l    == s.d.locts[id]
        same == {k \in s.m : SameAddr(s.d.locts[k].addr, l.addr)}
    IN  IF \A k \in same : s.d.locts[k].priority > l.priority
        THEN [d |-> s.d, m |-> s.m \cup {id}, ok |-> TRUE]
        ELSE [d |-> s.d, m |-> s.m, ok |-> FALSE]

\* mapping_add_locator: an equal address with a worse (greater) priority is
\* replaced and its locator freed, otherwise the new locator is refused.
\* s = [d, m, ok]
mapping_add_locator(s, id) ==
    LET l    == s.d.locts[id]
        same == {k \in s.m : SameAddr(s.d.locts[k].addr, l.addr)}
        worse == {k \in same : s.d.locts[k].priority > l.priority}
    IN  IF same = {} THEN [d |-> s.d, m |-> s.m \cup {id}, ok |-> TRUE]
        ELSE IF worse # {}
        THEN [d |-> locator_del(s.d, worse), m |-> (s.m \ worse) \cup {id}, ok |-> TRUE]
        ELSE [d |-> s.d, m |-> s.m, ok |-> FALSE]

\* Does the device tie local locators to interfaces while it reads mappings?
TiesLocators == mode \in {"xTR", "MN"}

discard_locator(s, id, is_local) ==
    LET u == IF TiesLocators /\ is_local
             THEN iface_locators_unattach_locator(s.d, id) ELSE s.d
    IN  [s EXCEPT !.d = locator_del(u, {id})]

\* A local locator: interface set up, locator created, tied to the interface
new_local_locator(d, a, i, f, p, w) ==
    LET n == locator_new_init(iface_setup_addr(d, i, f), a, p, w)
    IN  IF TiesLocators THEN attach_locator(n, i, f, d.next) ELSE n

\* One address of process_rloc_address.  s = [d, ids, ok]; ok = FALSE is the
\* "return(NULL)" of a local LCAF address without an IP
add_rloc_address(s, a, p, w, is_local) ==
    LET ip == lisp_addr_get_ip_addr(a)
        on == get_interface_name_from_address(ip)
    IN  IF a.lafi = "pref" \/ ~ s.ok THEN s
        ELSE IF ~ is_local
        THEN [s EXCEPT !.d = locator_new_init(s.d, a, p, w), !.ids = @ \o <<s.d.next>>]
        ELSE IF ip = NO_ADDR THEN [s EXCEPT !.ok = FALSE]
        ELSE IF on = {} THEN s
        ELSE LET i == CHOOSE i \in on : TRUE
             IN  [s EXCEPT !.d = new_local_locator(s.d, a, i, LiteralAfi[Head(ip.v)], p, w),
                           !.ids = @ \o <<s.d.next>>]

process_rloc_address(d, c, is_local) ==
    LET p == Uint8(c.priority)
        w == Uint8(c.weight)
        add(s, a) == add_rloc_address(s, a, p, w, is_local)
        r == FoldLeft(add, [d |-> d, ids |-> <<>>, ok |-> TRUE],
                      parse_lisp_addr(c.address, d.lcaf_ht))
    IN  IF ~ validate_priority_weight(p, w) THEN [d |-> d, ids |-> <<>>]
        ELSE [d |-> r.d, ids |-> IF r.ok THEN Reverse(r.ids) ELSE <<>>]

process_rloc_interface(d, c) ==
    LET p == Uint8(c.priority)
        w == Uint8(c.weight)
    IN  IF validate_priority_weight(p, w) /\ c.interface \in DOMAIN KernelAddr
        THEN [d |-> new_local_locator(d, KernelAddr[c.interface][c.afi],
                                      c.interface, c.afi, p, w),
              ids |-> <<d.next>>]
        ELSE [d |-> d, ids |-> <<>>]

\* Mutant: the duplicate is left to the mapping
add_unless_duplicatedUnchecked(s, id, is_local) ==
    LET try == mapping_add_locator(s, id)
    IN  IF try.ok THEN try ELSE discard_locator(s, id, is_local)

\* A locator whose address the mapping already has is discarded, so
\* mapping_add_locator never replaces one here
add_unless_duplicated(s, id, is_local) ==
    IF \E k \in s.m : SameAddr(s.d.locts[k].addr, s.d.locts[id].addr)
    THEN discard_locator(s, id, is_local)
    ELSE mapping_add_locator(s, id)

\* mapping_new_init: a mapping stores a prefix
mapping_eid(a) == IF a.lafi = "ip" THEN Prefix(Head(a.v)) ELSE a

NULL_MAPPING(d) == [d |-> d, m |-> {}, eid |-> NO_ADDR]

new_mapping(s, eids) == [d |-> s.d, m |-> s.m, eid |-> mapping_eid(Head(eids))]

process_mapping_config(d, c, is_local) ==
    LET eids == parse_lisp_addr(c.eid, d.lcaf_ht)
        addAll(s, r) == LET one(t, id) == add_unless_duplicated(t, id, is_local)
                        IN  FoldLeft(one, [s EXCEPT !.d = r.d], r.ids)
        addr(s, l) == addAll(s, process_rloc_address(s.d, l, is_local))
        ifc(s, l)  == addAll(s, process_rloc_interface(s.d, l))
        rlocs == FoldLeft(addr, [d |-> d, m |-> {}, ok |-> TRUE], c.rlocs)
    IN  IF Len(eids) # 1 THEN NULL_MAPPING(d)
        ELSE new_mapping(FoldLeft(ifc, rlocs, IF is_local THEN c.ifaces ELSE <<>>), eids)

\* The rloc-iface sections before the first one whose ip_version is neither 4
\* nor 6: parse_mapping ignores the error
parse_mapping_cfg_params(c) ==
    [c EXCEPT !.ifaces =
        LET bad == {k \in DOMAIN c.ifaces : c.ifaces[k].afi \notin Afis}
        IN  IF bad = {} THEN @
            ELSE SubSeq(@, 1, (CHOOSE k \in bad : \A n \in bad : k <= n) - 1)]

confuse_parse_mapping(d, c, is_local) ==
    process_mapping_config(d, parse_mapping_cfg_params(c), is_local)

\* clone_customize_locator: the copy of an RLOC of a set that one mapping uses
clone_customize_locator(d, r, is_local) ==
    LET ip == lisp_addr_get_ip_addr(r.addr)
        on == IF r.addr.lafi = "none" THEN {r.iface}
              ELSE get_interface_name_from_address(ip)
        f  == IF r.addr.lafi = "none" THEN r.afi ELSE LiteralAfi[Head(ip.v)]
    IN  IF ~ is_local THEN locator_new_init(d, r.addr, r.priority, r.weight)
        ELSE IF on = {} THEN d
        ELSE new_local_locator(d, r.addr, CHOOSE i \in on : TRUE, f, r.priority, r.weight)

uci_parse_mapping(d, c, is_local) ==
    LET eids == parse_lisp_addr(c.eid, d.lcaf_ht)
        add(s, name) ==
            LET n   == clone_customize_locator(s.d, d.rlocs_ht[name], is_local)
                try == mapping_add_locator([s EXCEPT !.d = n], s.d.next)
            IN  IF n = s.d THEN s
                ELSE IF try.ok THEN try ELSE discard_locator(try, s.d.next, is_local)
    IN  IF c.rloc_set \notin DOMAIN d.rloc_sets \/ Len(eids) # 1 THEN NULL_MAPPING(d)
        ELSE new_mapping(FoldLeft(add, [d |-> d, m |-> {}, ok |-> TRUE],
                                  d.rloc_sets[c.rloc_set]), eids)

parse_mapping(d, c, is_local) ==
    IF front = "confuse" THEN confuse_parse_mapping(d, c, is_local)
    ELSE uci_parse_mapping(d, c, is_local)

-----------------------------------------------------------------------------
(* Local database, static cache, registered sites *)

LoctAfi(l) == LiteralAfi[Head(lisp_addr_get_ip_addr(l.addr).v)]

\* The locators the balancing vectors point to: per address family, those of
\* the best priority (FlowBalancing models how the vectors are built)
balancing_locators(d, m) ==
    LET usable == {id \in m : /\ lisp_addr_get_ip_addr(d.locts[id].addr) # NO_ADDR
                              /\ d.locts[id].priority # 255}
    IN  {id \in usable : \A k \in usable :
            LoctAfi(d.locts[k]) = LoctAfi(d.locts[id]) =>
                d.locts[id].priority <= d.locts[k].priority}

map_local_entry_new(d, eid, m) ==
    [d EXCEPT !.entries = (d.next :> [eid |-> eid, locts |-> m,
                                      fwd |-> balancing_locators(d, m)]) @@ @,
              !.next = @ + 1]

\* map_local_entry_del: locators, forwarding information and timers with it
map_local_entry_del(d, e) ==
    [locator_del(d, d.entries[e].locts) EXCEPT
        !.entries = Without(@, {e}),
        !.registers = {r \in @ : r[1] # e}]

\* s.ok is the GOOD of the call
add_local_db_map_local_entry(d, e) ==
    LET eid == d.entries[e].eid IN
    IF eid \in DOMAIN d.local_mdb
    THEN [ok |-> FALSE, d |-> iface_locators_unattach_mapping_and_loct(d, e)]
    ELSE [ok |-> TRUE,
          d  |-> iface_locators_attach_map_local_entry(
                    [d EXCEPT !.local_mdb = (eid :> e) @@ @], e)]

\* The entry of a mapping p that was read, added to the local database
add_new_entry(p) ==
    add_local_db_map_local_entry(map_local_entry_new(p.d, p.eid, p.m), p.d.next)

\* An entry that the database refuses is deleted
kept_or_deleted(a, e) == IF a.ok THEN a.d ELSE map_local_entry_del(a.d, e)

database_mapping(d, c) ==
    LET add(p) == IF p.eid = NO_ADDR THEN p.d
                  ELSE kept_or_deleted(add_new_entry(p), p.d.next)
    IN  add(parse_mapping(d, c, TRUE))

\* configure_rtr of the libconfuse front end adds a new entry twice, and
\* deletes it when the second call refuses it
rtr_database_mapping(d, c) ==
    LET again(a, e) == kept_or_deleted(IF a.ok THEN add_local_db_map_local_entry(a.d, e)
                                       ELSE a, e)
        add(p) == IF p.eid = NO_ADDR THEN p.d ELSE again(add_new_entry(p), p.d.next)
    IN  add(parse_mapping(d, c, TRUE))

static_map_cache(d, c) ==
    LET add(p) == IF p.eid = NO_ADDR THEN p.d
                  ELSE IF p.eid \in DOMAIN p.d.map_cache THEN locator_del(p.d, p.m)
                  ELSE [p.d EXCEPT !.map_cache = (p.eid :> p.m) @@ @]
    IN  add(parse_mapping(d, c, FALSE))

ms_static_registered_site(d, c) ==
    LET add(p) == IF p.eid = NO_ADDR THEN p.d
                  ELSE IF p.eid \in DOMAIN p.d.reg_sites THEN locator_del(p.d, p.m)
                  ELSE [p.d EXCEPT !.reg_sites = (p.eid :> p.m) @@ @]
    IN  add(parse_mapping(d, c, FALSE))

\* build_lisp_site_prefix: a prefix or the name of an LCAF address
build_lisp_site_prefix(d, c) ==
    LET iid == IF c.iid > MAX_IID \/ c.iid < 0 THEN 0 ELSE c.iid IN
    CASE c.eid \in DOMAIN PrefixAfi -> {[eid |-> Prefix(c.eid), iid |-> iid]}
      [] c.eid \in DOMAIN d.lcaf_ht -> {[eid |-> d.lcaf_ht[c.eid], iid |-> iid]}
      [] OTHER                      -> {}

\* The libconfuse front end tests for a duplicate with mdb_lookup_entry, the
\* longest match: a site inside one that is already there counts as one
lisp_site(d, c) ==
    LET new == build_lisp_site_prefix(d, c)
        dup == {s \in new : \E t \in d.lisp_sites :
                    \/ t.eid = s.eid
                    \/ /\ front = "confuse"
                       /\ s.eid.lafi = "pref" /\ t.eid.lafi = "pref"
                       /\ <<Head(t.eid.v), Head(s.eid.v)>> \in Covers}
    IN  [d EXCEPT !.lisp_sites = @ \cup (new \ dup)]

-----------------------------------------------------------------------------
(* Servers and proxies *)

map_resolver(d, t) == [d EXCEPT !.map_resolvers = @ \o parse_ip_addr(t)]
proxy_itr(d, t) == [d EXCEPT !.pitrs = @ \o parse_ip_addr(t)]

\* add_map_server: each address in front of the list
add_map_server(d, c) ==
    LET add(s, a) == [s EXCEPT !.map_servers = <<[id |-> s.next, addr |-> a]>> \o @,
                               !.next = @ + 1]
    IN  FoldLeft(add, d, parse_ip_addr(c.address))

\* A map server without address, key or key type, or with a key type other
\* than SHA1, ends the program
map_server_exits(c) == c.address = "" \/ ~ c.key \/ c.key_type # 1

add_proxy_etr_entry(d, c) ==
    LET add(s, a) ==
            LET try == mapping_add_locator(
                        [d |-> locator_new_init(s, a, Uint8(c.priority), c.weight),
                         m |-> s.petrs, ok |-> TRUE], s.next)
            IN  IF try.ok THEN [try.d EXCEPT !.petrs = try.m]
                ELSE locator_del(try.d, {s.next})
    IN  IF c.address # "" /\ validate_priority_weight(c.priority, c.weight)
        THEN FoldLeft(add, d, parse_ip_addr(c.address)) ELSE d

\* The row of the interface and the entry of all the RLOCs, when they are new
rtr_iface_setup(d, i) ==
    LET row == [d EXCEPT !.table = @ @@ (i :> iface_locators_new)]
    IN  IF d.all_locs_map # 0 THEN row
        ELSE [map_local_entry_new(row, Prefix("all"), {}) EXCEPT !.all_locs_map = d.next]

\* The row names the entry, and both get a new locator; one that the mapping
\* refuses is freed
link_iface_and_mapping(d, i, f, p, w) ==
    LET e == d.all_locs_map
        link(try) ==
            IF ~ try.ok THEN [ok |-> FALSE, d |-> locator_del(try.d, {d.next})]
            ELSE [ok |-> TRUE,
                  d  |-> [try.d EXCEPT !.entries[e].locts = try.m,
                                       !.table[i].locts[f] = @ \cup {d.next}]]
        named == [d EXCEPT !.table[i].entries = @ \cup {e}]
    IN  link(mapping_add_locator([d |-> locator_new_init(named, KernelAddr[i][f], p, w),
                                  m |-> d.entries[e].locts, ok |-> TRUE], d.next))

\* The forwarding information is built anew with the new locator
add_rtr_iface(d, c) ==
    LET i == c.interface
        updated(r) == IF ~ r.ok THEN r.d
                      ELSE [r.d EXCEPT !.entries[r.d.all_locs_map].fwd =
                              balancing_locators(r.d, r.d.entries[r.d.all_locs_map].locts)]
    IN  IF \/ c.interface = ""
           \/ ~ validate_priority_weight(c.priority, c.weight)
           \/ c.priority < 0
           \/ c.afi \notin Afis
           \/ i \notin DOMAIN KernelAddr THEN d
        ELSE updated(link_iface_and_mapping(rtr_iface_setup(iface_setup_addr(d, i, c.afi), i),
                                            i, c.afi, c.priority, c.weight))

-----------------------------------------------------------------------------
(* LCAF addresses, RLOCs and RLOC sets *)

\* The nodes of an explicit path that are IP addresses
parse_elp_list(d, c) ==
    [d EXCEPT !.lcaf_ht =
        IF front = "confuse"
        THEN (c.name :> [lafi |-> "elp",
                         v |-> SelectSeq(c.nodes, LAMBDA t : t \in DOMAIN LiteralAfi)]) @@ @
        ELSE (c.name :> [lafi |-> "elp",
                         v |-> (IF c.name \in DOMAIN @ THEN @[c.name].v ELSE <<>>) \o
                               SelectSeq(c.nodes, LAMBDA t : t \in DOMAIN LiteralAfi)]) @@ @]

parse_rle_list(d, c) ==
    [d EXCEPT !.lcaf_ht = (c.name :> [lafi |-> "rle", v |-> c.nodes]) @@ @]

parse_mcinfo_list(d, c) ==
    [d EXCEPT !.lcaf_ht = (c.name :> [lafi |-> "mc", v |-> <<c.source, c.group>>]) @@ @]

\* An RLOC that is incomplete, names no address family or an interface that
\* does not exist makes parse_rlocs return NULL
parse_rloc_gives_up(c) ==
    \/ ~ c.complete
    \/ /\ validate_priority_weight(c.priority, c.weight)
       /\ c.interface # ""
       /\ c.afi \notin Afis \/ c.interface \notin DOMAIN KernelAddr

parse_rlocs(d, c) ==
    LET addrs == IF c.interface = "" THEN parse_lisp_addr(c.address, d.lcaf_ht)
                 ELSE <<KernelAddr[c.interface][c.afi]>>
        base  == IF c.interface = "" THEN d ELSE iface_setup_addr(d, c.interface, c.afi)
    IN  CASE d.rlocs_null -> d
          [] ~ d.rlocs_null /\ parse_rloc_gives_up(c) ->
                [d EXCEPT !.rlocs_null = TRUE, !.rlocs_ht = <<>>]
          [] OTHER ->
                IF \/ ~ validate_priority_weight(c.priority, c.weight)
                   \/ c.name \in DOMAIN d.rlocs_ht
                   \/ addrs = <<>>
                THEN d
                ELSE IF Head(addrs).lafi = "pref" THEN d
                ELSE [base EXCEPT !.rlocs_ht =
                        (c.name :> [addr |-> Head(addrs), priority |-> Uint8(c.priority),
                                    weight |-> c.weight, iface |-> c.interface,
                                    afi |-> c.afi]) @@ @]

\* shash_lookup on the NULL table that parse_rlocs returned
rloc_set_reads_null(d, c) == d.rlocs_null /\ c.rlocs # <<>>

parse_rloc_sets(d, c) ==
    IF c.name \in DOMAIN d.rloc_sets THEN d
    ELSE [d EXCEPT !.rloc_sets =
            (c.name :> SelectSeq(c.rlocs, LAMBDA n : n \in DOMAIN d.rlocs_ht)) @@ @]

-----------------------------------------------------------------------------
(* Parameters *)

map_request_retries(d, n) ==
    [d EXCEPT !.retries =
        IF front = "confuse" THEN (IF n # 0 THEN n ELSE DEFAULT_MAP_REQUEST_RETRIES)
        ELSE IF n < 0 THEN @ ELSE IF n > MAX_RETRANSMITS THEN MAX_RETRANSMITS ELSE n]

rloc_probing(d, p) == [d EXCEPT !.probing = validate_rloc_probing_parameters(p)]

\* The libconfuse front end refuses identifiers that are not hexadecimal
nat_traversal(d, c) == [d EXCEPT !.nat_aware = c.aware]
nat_exits(c) == front = "confuse" /\ c.aware /\ ~ c.ids

control_iface(d, i) ==
    LET set(s, f) == iface_setup_addr(s, i, f)
    IN  [FoldLeft(set, d, SetToSeq(Afis)) EXCEPT !.control = {i}]

-----------------------------------------------------------------------------
(* What each front end reads, pass by pass *)

confuse_configure_xtr ==
    <<{"elp"}, {"rle"}, {"mcinfo"}, {"retries"}, {"probing"}, {"nat"}, {"resolver"},
      {"server"}, {"petr"}, {"pitr"}, {"mapping"}, {"static"}>>
confuse_configure_mn == confuse_configure_xtr
confuse_configure_rtr ==
    <<{"elp"}, {"rle"}, {"mcinfo"}, {"retries"}, {"probing"}, {"resolver"},
      {"rtr_iface"}, {"static"}, {"rtr_mapping"}, {"server"}>>
confuse_configure_ms ==
    <<{"elp"}, {"rle"}, {"mcinfo"}, {"control"}, {"site"}, {"registered"}>>

uci_configure_xtr ==
    <<{"elp"}, {"rloc"}, {"rloc_set"},
      {"retries", "probing", "nat", "resolver", "server", "petr", "pitr", "mapping", "static"}>>
uci_configure_mn == uci_configure_xtr
uci_configure_rtr ==
    <<{"elp"}, {"rloc"}, {"rloc_set"},
      {"retries", "probing", "resolver", "server", "static", "rtr_iface"}>>
uci_configure_ms ==
    <<{"elp"}, {"rloc"}, {"rloc_set"}, {"control", "site", "registered"}>>

Modes == {"xTR", "MN", "RTR", "MS"}

passes ==
    [confuse |-> [xTR |-> confuse_configure_xtr, MN |-> confuse_configure_mn,
                  RTR |-> confuse_configure_rtr, MS |-> confuse_configure_ms],
     uci     |-> [xTR |-> uci_configure_xtr, MN |-> uci_configure_mn,
                  RTR |-> uci_configure_rtr, MS |-> uci_configure_ms]]

\* Options libconfuse keeps once per file
Single == {"retries", "probing", "nat", "control"}

\* What a section does to the device
configure(d, type, c) ==
    CASE type = "elp"         -> parse_elp_list(d, c)
      [] type = "rle"         -> parse_rle_list(d, c)
      [] type = "mcinfo"      -> parse_mcinfo_list(d, c)
      [] type = "rloc"        -> parse_rlocs(d, c)
      [] type = "rloc_set"    -> parse_rloc_sets(d, c)
      [] type = "retries"     -> map_request_retries(d, c)
      [] type = "probing"     -> rloc_probing(d, c)
      [] type = "nat"         -> nat_traversal(d, c)
      [] type = "resolver"    -> map_resolver(d, c)
      [] type = "server"      -> add_map_server(d, c)
      [] type = "petr"        -> add_proxy_etr_entry(d, c)
      [] type = "pitr"        -> proxy_itr(d, c)
      [] type = "mapping"     -> database_mapping(d, c)
      [] type = "rtr_mapping" -> rtr_database_mapping(d, c)
      [] type = "static"      -> static_map_cache(d, c)
      [] type = "rtr_iface"   -> add_rtr_iface(d, c)
      [] type = "control"     -> control_iface(d, c)
      [] type = "site"        -> lisp_site(d, c)
      [] type = "registered"  -> ms_static_registered_site(d, c)

\* Sections that end the program: exit_cleanup, or BAD from configure_*
exits(type, c) ==
    \/ type = "server" /\ map_server_exits(c)
    \/ type = "nat" /\ nat_exits(c)
    \/ type = "control" /\ c \notin DOMAIN KernelAddr
    \/ type = "rtr_iface" /\ front = "uci" /\ c.afi = "unset"
    \/ type = "site" /\ front = "uci" /\ c.eid = ""

\* Sections whose effect C leaves undefined: a name looked up in a NULL table;
\* a repeated RLOC of an RTR mapping, unattached through an xtr pointer that
\* process_mapping_config sets only for an xTR and a mobile node
undefined(d, type, c) ==
    \/ type = "rloc_set" /\ rloc_set_reads_null(d, c)
    \/ /\ type = "rtr_mapping"
       /\ \E j, k \in DOMAIN c.rlocs : j # k /\ c.rlocs[j].address = c.rlocs[k].address

-----------------------------------------------------------------------------
ConfigInit ==
    /\ front \in DOMAIN Sections
    /\ mode \in Modes
    /\ stage = "reading"
    /\ at = 0
    /\ nread = 0
    /\ dev = NewDevice

\* The next section of the file
read_section(type) ==
    /\ stage = "reading"
    /\ nread < MaxSections[front]
    /\ type \in DOMAIN Sections[front]
    /\ \E pass \in DOMAIN passes[front][mode] :
        /\ type \in passes[front][mode][pass]
        /\ pass >= at
        /\ front = "confuse" /\ type \in Single => pass > at
        /\ at' = pass
    /\ nread' = nread + 1
    /\ \E c \in Sections[front][type] :
        IF exits(type, c) THEN stage' = "exited" /\ dev' = dev
        ELSE IF undefined(dev, type, c) THEN stage' = "undefined" /\ dev' = dev
        ELSE stage' = stage /\ dev' = configure(dev, type, c)
    /\ UNCHANGED <<front, mode>>

\* xtr_run: program_map_register starts a Map-Register timer for each local
\* entry and server; with no server it changes nothing
program_map_register(d) ==
    IF d.map_servers = <<>> THEN d
    ELSE LET es == {d.local_mdb[x] : x \in DOMAIN d.local_mdb}
             ss == {d.map_servers[k].id : k \in DOMAIN d.map_servers}
         IN  [d EXCEPT !.registers = {r \in @ : r[1] \notin es} \cup (es \X ss)]

\* The end of the file: the forwarding information of the proxies is built,
\* the tables of the reader are freed, and ctrl_dev_run starts the device,
\* which hands its EID prefixes to the data plane (xTR and mobile node).
\* A map server whose file names no control interface uses one never set.
handle_config_file ==
    /\ stage = "reading"
    /\ LET done == [dev EXCEPT !.lcaf_ht = <<>>, !.rlocs_ht = <<>>, !.rloc_sets = <<>>,
                               !.petrs_fwd = balancing_locators(dev, dev.petrs)]
       IN  IF mode = "MS" /\ front = "confuse" /\ dev.control = {}
           THEN stage' = "undefined" /\ dev' = dev
           ELSE /\ stage' = "running"
                /\ dev' = IF TiesLocators
                          THEN program_map_register([done EXCEPT !.eids = DOMAIN done.local_mdb])
                          ELSE done
    /\ UNCHANGED <<front, mode, at, nread>>

SectionTypes == {"elp", "rle", "mcinfo", "rloc", "rloc_set", "retries", "probing", "nat",
                 "resolver", "server", "petr", "pitr", "mapping", "rtr_mapping", "static",
                 "rtr_iface", "control", "site", "registered"}

ConfigNext == (\E type \in SectionTypes : read_section(type)) \/ handle_config_file

-----------------------------------------------------------------------------
(* References *)

RowLocators(d) == UNION {UNION {d.table[i].locts[f] : f \in Afis} : i \in DOMAIN d.table}
EntryLocators(d) == UNION {d.entries[e].locts : e \in DOMAIN d.entries}
LocalEntries(d) == {d.local_mdb[x] : x \in DOMAIN d.local_mdb}

\* Every pointer the device keeps names an object it has not freed: locators
\* of the interface table, of the entries and of the forwarding information,
\* entries of the database and of the interface table, servers of the
\* Map-Register timers.
LiveReferences ==
    /\ RowLocators(dev) \cup EntryLocators(dev) \cup dev.petrs \cup dev.petrs_fwd
          \subseteq DOMAIN dev.locts
    /\ UNION {dev.entries[e].fwd : e \in DOMAIN dev.entries} \subseteq DOMAIN dev.locts
    /\ LocalEntries(dev) \cup UNION {dev.table[i].entries : i \in DOMAIN dev.table}
          \subseteq DOMAIN dev.entries
    /\ {r[2] : r \in dev.registers} \subseteq
          {dev.map_servers[k].id : k \in DOMAIN dev.map_servers}

\* No mapping of the device has two locators of the same address: local
\* mappings, proxies, static cache entries and registered sites alike.
NoTwinLocators ==
    \A m \in {dev.entries[e].locts : e \in DOMAIN dev.entries}
             \cup {dev.petrs}
             \cup {dev.map_cache[x] : x \in DOMAIN dev.map_cache}
             \cup {dev.reg_sites[x] : x \in DOMAIN dev.reg_sites} :
        \A j, k \in m \cap DOMAIN dev.locts :
            SameAddr(dev.locts[j].addr, dev.locts[k].addr) => j = k

=============================================================================
