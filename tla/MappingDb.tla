----------------------------- MODULE MappingDb ------------------------------
(***************************************************************************)
(* The mapping database of lib/mapping_db.c: Patricia tries for unicast    *)
(* EIDs, and for multicast ones tries of sources whose data are tries of   *)
(* groups; with the wrappers of control/lisp_local_db.c and                *)
(* control/lisp_map_cache.c through which the rest of the program uses it. *)
(*                                                                         *)
(* mdb_new hangs the unicast trie of a family under the only node of an    *)
(* outer trie, so that one walk serves unicast and multicast; ip[afi] is   *)
(* that inner trie.                                                        *)
(***************************************************************************)
EXTENDS Patricia
LOCAL INSTANCE SequencesExt
LOCAL INSTANCE FiniteSetsExt

CONSTANTS MaxBits,     \* function from address families to their widths
          Addrs,       \* the EIDs that operations are called with
          Entries      \* the entries (mappings, sites) that are stored

ASSUME MaxBitsAssumption == \A afi \in DOMAIN MaxBits : MaxBits[afi] \in Nat \ {0}

VARIABLES db,          \* [ip, mc, n_entries], or NULL once deleted
          holder,      \* who holds each entry: its caller, the db, nobody
          answer,      \* what the last addition or removal returned
          table,       \* the table that the users rely on: see PrefixTable
          expected     \* and what it returns

vars == <<db, holder, answer, table, expected>>

Table == INSTANCE PrefixTable

Afis == DOMAIN MaxBits

\* The lisp_addr_t kinds that reach the database.
IsIp(a)     == a.lafi = "IP"
IsIppref(a) == a.lafi = "IPPREF"
IsMc(a)     == a.lafi = "MC"

lisp_addr_ip_get_plen(a) == IF IsIp(a) THEN MaxBits[a.afi] ELSE a.plen

mdb_new ==
    [ip |-> [afi \in Afis |-> New_Patricia(MaxBits[afi])],
     mc |-> [afi \in Afis |-> New_Patricia(MaxBits[afi])],
     n_entries |-> 0]

-----------------------------------------------------------------------------
(* The wrappers around the trie *)

\* The data of a node that has some are not changed.
WithData(found, data) ==
    IF found.tree.node[found.node].data # NULL THEN found
    ELSE [found EXCEPT !.tree.node[found.node].data = data]

pt_add_node(t, addr, plen, data) ==
    WithData(patricia_lookup(t, New_Prefix(addr, plen)), data)

pt_find_ip_node(t, afi, addr) == patricia_search_best(t, New_Prefix(addr, MaxBits[afi]))

pt_find_ip_node_exact(t, addr, plen) == patricia_search_exact(t, New_Prefix(addr, plen))

DataOf(t, n) == IF n = NULL THEN NULL ELSE t.node[n].data

\* Sources are added without data, and given a group trie when they have none.
AddGroup(s, a, data) ==
    LET gtrie == IF s.tree.node[s.node].data # NULL THEN s.tree.node[s.node].data
                 ELSE New_Patricia(MaxBits[a.afi])
    IN  [s.tree EXCEPT !.node[s.node].data = pt_add_node(gtrie, a.grp, a.gplen, data).tree]

pt_add_mc_addr(strie, a, data) ==
    AddGroup(pt_add_node(strie, a.src, a.splen, NULL), a, data)

_get_grp_pt_for_mc_addr(strie, a, exact) ==
    DataOf(strie, IF exact THEN pt_find_ip_node_exact(strie, a.src, a.splen)
                  ELSE pt_find_ip_node(strie, a.afi, a.src))

\* The group is looked up by longest match in both cases.
pt_find_mc_node(strie, a, exact) ==
    LET find(gtrie) == IF gtrie = NULL THEN NULL
                       ELSE DataOf(gtrie, pt_find_ip_node(gtrie, a.afi, a.grp))
    IN  find(_get_grp_pt_for_mc_addr(strie, a, exact))

pt_test_if_empty(t) == t.num_active_node = 0

\* [tree, data]: the trie without the prefix, and what it held.
pt_remove_ippref(t, addr, plen) ==
    LET remove(n) == IF n = NULL THEN [tree |-> t, data |-> NULL]
                     ELSE [tree |-> patricia_remove(t, n), data |-> t.node[n].data]
    IN  remove(pt_find_ip_node_exact(t, addr, plen))

\* The source goes with its last group.
WithGroups(strie, snode, gtrie) ==
    IF pt_test_if_empty(gtrie) THEN patricia_remove(strie, snode)
    ELSE [strie EXCEPT !.node[snode].data = gtrie]

pt_remove_mc_addr(strie, a) ==
    LET without(snode, group) ==
            IF group.data = NULL THEN [tree |-> strie, data |-> NULL]
            ELSE [tree |-> WithGroups(strie, snode, group.tree), data |-> group.data]
        remove(gtrie) ==
            IF gtrie = NULL THEN [tree |-> strie, data |-> NULL]
            ELSE without(pt_find_ip_node_exact(strie, a.src, a.splen),
                         pt_remove_ippref(gtrie, a.grp, a.gplen))
    IN  remove(_get_grp_pt_for_mc_addr(strie, a, TRUE))

-----------------------------------------------------------------------------
(* The database *)

_find_ip_node(d, a, exact) ==
    DataOf(d.ip[a.afi],
           IF exact THEN pt_find_ip_node_exact(d.ip[a.afi], a.addr, lisp_addr_ip_get_plen(a))
           ELSE pt_find_ip_node(d.ip[a.afi], a.afi, a.addr))

_find_lcaf_node(d, a, exact) ==
    IF IsMc(a) THEN pt_find_mc_node(d.mc[a.afi], a, exact) ELSE NULL

\* The data of the node that is found.
_find_node(d, a, exact) ==
    IF IsIp(a) \/ IsIppref(a) THEN _find_ip_node(d, a, exact) ELSE _find_lcaf_node(d, a, exact)

mdb_lookup_entry(d, a) == _find_node(d, a, FALSE)

mdb_lookup_entry_exact(d, a) == _find_node(d, a, TRUE)

_add_ippref_entry(d, data, a) ==
    [d EXCEPT !.ip[a.afi] = pt_add_node(@, a.addr, a.plen, data).tree]

_add_mc_entry(d, data, a) == [d EXCEPT !.mc[a.afi] = pt_add_mc_addr(@, a, data)]

\* Of the LCAF types only multicast ones are stored.
_add_lcaf_entry(d, data, a) == IF IsMc(a) THEN _add_mc_entry(d, data, a) ELSE NULL

mdb_add_entry(d, a, data) ==
    LET counted(added) == IF added = NULL THEN [db |-> d, ret |-> "BAD"]
                          ELSE [db |-> [added EXCEPT !.n_entries = @ + 1], ret |-> "GOOD"]
    IN  counted(IF IsIp(a) THEN NULL
                ELSE IF IsIppref(a) THEN _add_ippref_entry(d, data, a)
                ELSE _add_lcaf_entry(d, data, a))

_del_lcaf_entry(d, a) ==
    IF IsMc(a) THEN pt_remove_mc_addr(d.mc[a.afi], a) ELSE [tree |-> NULL, data |-> NULL]

mdb_remove_entry(d, a) ==
    LET counted(gone) ==
            [db |-> IF gone.data = NULL THEN d
                    ELSE IF IsMc(a) THEN [d EXCEPT !.mc[a.afi] = gone.tree, !.n_entries = @ - 1]
                    ELSE [d EXCEPT !.ip[a.afi] = gone.tree, !.n_entries = @ - 1],
             ret |-> gone.data]
    IN  counted(IF IsIp(a) \/ IsIppref(a)
                  THEN pt_remove_ippref(d.ip[a.afi], a.addr, lisp_addr_ip_get_plen(a))
                  ELSE _del_lcaf_entry(d, a))

\* The entries in the order of mdb_foreach_ip_entry, IPv4 before IPv6.
IpEntries(d, afi) == Clear_Patricia(d.ip[afi])

\* Those of mdb_foreach_mc_entry: the groups of every source.
McEntries(d, afi) ==
    LET gtries == Clear_Patricia(d.mc[afi])
    IN  FlattenSeq([i \in DOMAIN gtries |-> Clear_Patricia(gtries[i])])

EntriesOf(d) == UNION {Range(IpEntries(d, afi)) \cup Range(McEntries(d, afi)) : afi \in Afis}

-----------------------------------------------------------------------------
(* Its users *)

local_map_db_num_ip_eids(d, afi) == Len(IpEntries(d, afi))

\* The source of a Map-Request and the inner header of a Map-Register: the
\* first EID of the family in the walk.
local_map_db_get_main_eid(d, afi) ==
    IF IpEntries(d, afi) = <<>> THEN NULL ELSE Head(IpEntries(d, afi))

KeyOf(a) ==
    IF IsMc(a) THEN [kind |-> "mc", afi |-> a.afi, bits |-> SubSeq(a.src, 1, a.splen),
                     grp |-> SubSeq(a.grp, 1, a.gplen)]
    ELSE [kind |-> "ip", afi |-> a.afi, bits |-> SubSeq(a.addr, 1, lisp_addr_ip_get_plen(a)),
          grp |-> <<>>]

\* The key of the whole address, which a lookup by longest match is for.
HostKeyOf(a) ==
    IF IsMc(a) THEN [kind |-> "mc", afi |-> a.afi, bits |-> a.src, grp |-> a.grp]
    ELSE [kind |-> "ip", afi |-> a.afi, bits |-> a.addr, grp |-> <<>>]

ExactKeyOf(a) == IF IsMc(a) THEN [KeyOf(a) EXCEPT !.grp = a.grp] ELSE KeyOf(a)

Init ==
    /\ Table!Init
    /\ db = mdb_new
    /\ holder = [e \in Entries |-> "caller"]
    /\ answer = NULL

\* ms_add_lisp_site_prefix and mcache_add_entry: no look for a duplicate.  An
\* accepted entry that was not stored stays with nobody.
ms_add_lisp_site_prefix(a, e) ==
    /\ db # NULL
    /\ holder[e] = "caller"
    /\ IF IsIppref(a) \/ IsMc(a) THEN Table!Add(KeyOf(a), e) ELSE Table!Refuse
    /\ \E add \in {mdb_add_entry(db, a, e)} :
         /\ db' = add.db
         /\ answer' = add.ret
         /\ holder' = IF add.ret = "BAD" THEN holder
                      ELSE [holder EXCEPT ![e] = IF e \in EntriesOf(add.db) THEN "db" ELSE "lost"]

\* add_local_db_map_local_entry, and the same test before static map-cache
\* entries and static registered sites: a duplicate is discarded.
add_local_db_map_local_entry(a, e) ==
    /\ db # NULL
    /\ holder[e] = "caller"
    /\ IF mdb_lookup_entry_exact(db, a) # NULL
         THEN Table!Refuse /\ answer' = "BAD" /\ UNCHANGED <<db, holder>>
         ELSE /\ IF IsIppref(a) \/ IsMc(a) THEN Table!Add(KeyOf(a), e) ELSE Table!Refuse
              /\ \E add \in {mdb_add_entry(db, a, e)} :
                   /\ db' = add.db
                   /\ answer' = add.ret
                   /\ holder' = IF add.ret = "GOOD" THEN [holder EXCEPT ![e] = "db"] ELSE holder

\* Faulty: the caller ignores the entry that was taken out.
mcache_remove_entryLeak(a) ==
    /\ db # NULL
    /\ IF a.lafi = "IID" THEN expected' = NULL /\ UNCHANGED table ELSE Table!Take(KeyOf(a))
    /\ \E gone \in {mdb_remove_entry(db, a)} : db' = gone.db /\ answer' = gone.ret
    /\ UNCHANGED holder

\* mcache_remove_entry and local_map_db_del_entry: the caller gets the entry
\* back, and frees it.
mcache_remove_entry(a) ==
    /\ db # NULL
    /\ IF a.lafi = "IID" THEN expected' = NULL /\ UNCHANGED table ELSE Table!Take(KeyOf(a))
    /\ \E gone \in {mdb_remove_entry(db, a)} :
         /\ db' = gone.db
         /\ answer' = gone.ret
         /\ holder' = IF gone.ret = NULL THEN holder ELSE [holder EXCEPT ![gone.ret] = "caller"]

\* Every entry of the four tries is handed to the delete function.
mdb_del ==
    /\ db # NULL
    /\ Table!Clear
    /\ db' = NULL
    /\ answer' = NULL
    /\ holder' = [e \in Entries |-> IF e \in EntriesOf(db) THEN "freed" ELSE holder[e]]

Next ==
    \/ \E a \in Addrs, e \in Entries :
         ms_add_lisp_site_prefix(a, e) \/ add_local_db_map_local_entry(a, e)
    \/ \E a \in Addrs : mcache_remove_entry(a)
    \/ mdb_del

Spec == Init /\ [][Next]_vars

-----------------------------------------------------------------------------
(* Properties *)

TypeOK ==
    /\ db # NULL => DOMAIN db.ip = Afis /\ DOMAIN db.mc = Afis /\ db.n_entries \in Nat
    /\ holder \in [Entries -> {"caller", "db", "lost", "freed"}]
    /\ answer \in Entries \cup {"GOOD", "BAD", NULL}

PrefixBits(t, n) == SubSeq(t.node[n].prefix.addr, 1, t.node[n].prefix.bitlen)

\* The table that the tries hold: what the walks over them meet.
TableOf(d) ==
    LET walk(t) == Range(PATRICIA_WALK(t))
        ip == UNION {{<<[kind |-> "ip", afi |-> afi, bits |-> PrefixBits(d.ip[afi], n), grp |-> <<>>],
                        d.ip[afi].node[n].data>> : n \in walk(d.ip[afi])} : afi \in Afis}
        groups(afi, s) ==
            LET t == d.mc[afi].node[s].data
            IN  {<<[kind |-> "mc", afi |-> afi, bits |-> PrefixBits(d.mc[afi], s),
                    grp |-> PrefixBits(t, g)], t.node[g].data>> : g \in walk(t)}
        mc == UNION {UNION {groups(afi, s) : s \in walk(d.mc[afi])} : afi \in Afis}
        pairs == ip \cup mc
    IN  [k \in {p[1] : p \in pairs} |-> (CHOOSE p \in pairs : p[1] = k)[2]]

\* An entry is in the database exactly while the database holds it, and in one
\* place: none that was returned or freed can still be found, and mdb_del frees
\* each of the others once.
HeldOnce ==
    /\ db # NULL => {e \in Entries : holder[e] = "db"} = EntriesOf(db)
    /\ db # NULL => Cardinality(EntriesOf(db)) =
          MapThenSumSet(LAMBDA afi : Len(IpEntries(db, afi)) + Len(McEntries(db, afi)), Afis)
    /\ db = NULL => \A e \in Entries : holder[e] # "db"

\* Whatever the order of additions and removals, the tries hold exactly the
\* keys added and not removed, each with its first entry, and mdb_add_entry and
\* mdb_remove_entry return what the table of PrefixTable does; HeldOnce.
HoldsTable ==
    /\ db # NULL => TableOf(db) = table
    /\ answer = expected
    /\ HeldOnce

\* mdb_lookup_entry finds the longest match and mdb_lookup_entry_exact the key
\* itself, for every EID and in every shape that the tries take.
LookupsAgree ==
    db # NULL => \A a \in {b \in Addrs : b.lafi # "IID"} :
        /\ mdb_lookup_entry(db, a) = Table!Best(table, HostKeyOf(a))
        /\ mdb_lookup_entry_exact(db, a) = Table!Exact(table, ExactKeyOf(a))

\* The pointers of every trie stay consistent through the splits of
\* patricia_lookup and the merges of patricia_remove, which its asserts and the
\* destruction of a trie rely on; a source never stays without groups.
TriesWellFormed ==
    db # NULL => \A afi \in Afis :
        /\ WellFormed(db.ip[afi])
        /\ WellFormed(db.mc[afi])
        /\ \A s \in Range(PATRICIA_WALK(db.mc[afi])) :
              LET gtrie == db.mc[afi].node[s].data
              IN  gtrie # NULL /\ WellFormed(gtrie) /\ ~pt_test_if_empty(gtrie)

=============================================================================
