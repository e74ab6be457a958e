------------------------------ MODULE MapServer ------------------------------
(***************************************************************************)
(* A Map-Server (control/lisp_ms.c, lib/lisp_site.c): it keeps the         *)
(* mappings that sites register under their configured EID prefixes, lets  *)
(* them expire, and answers Map-Requests itself, on behalf of a site, or   *)
(* by forwarding them to the site.                                         *)
(*                                                                         *)
(* An EID prefix is an address and a length over addresses of WIDTH bits.  *)
(* A mapping stands for the list of locators that a site registers.  The   *)
(* registered sites database has at most one entry per prefix, identified  *)
(* with the prefix.                                                        *)
(*                                                                         *)
(* The daemon is single threaded.  The records of a Map-Register are       *)
(* processed one step at a time so that a record can be seen to act on     *)
(* what the previous one has left; nothing else runs in between.  Time is  *)
(* abstracted: a running expiration timer may fire at any moment.          *)
(***************************************************************************)
EXTENDS Integers, FiniteSets, Sequences

CONSTANTS WIDTH,          \* bits of an address
          Prefixes,       \* the EID prefixes that occur
          Configured,     \* lisp_sites_db: the prefixes of the lisp-site entries
          Static,         \* prefixes of the static registered-site entries
          MoreSpecifics,  \* sites with accept_more_specifics
          Merge,          \* sites with merge semantics
          Keys, Key,      \* Key[c]: the key of site c
          KeyPrefix,      \* <<k, l>>: k is an initial segment of l
          Mappings,       \* the sets of locators that a site may register
          Reachable,      \* mappings with a locator of a supported family
          Messages,       \* the Map-Registers that may arrive
          NULL

\* The block of 2^(WIDTH - plen) addresses of prefix p, by its number.
Block(p, plen) == p.addr \div (2 ^ (WIDTH - plen))

ASSUME MapServerAssumption ==
    /\ WIDTH \in Nat
    /\ Prefixes \subseteq [addr : 0 .. 2 ^ WIDTH - 1, plen : 0 .. WIDTH]
    /\ \A p \in Prefixes : p.addr = Block(p, p.plen) * 2 ^ (WIDTH - p.plen)
    /\ Configured \subseteq Prefixes /\ Static \subseteq Prefixes
    /\ MoreSpecifics \subseteq Configured /\ Merge \subseteq Configured
    /\ Key \in [Configured -> Keys]
    /\ \A k \in Keys : <<k, k>> \in KeyPrefix
    /\ Reachable \subseteq Mappings
    /\ Messages \subseteq [records : Seq([eid : Prefixes, mapping : Mappings, parses : BOOLEAN]),
                           key : Keys, proxy : BOOLEAN, want_map_notify : BOOLEAN]
    /\ NULL \notin Prefixes /\ NULL \notin Keys /\ NULL \notin Mappings

VARIABLES
    reg,          \* reg_sites_db: prefix -> mapping, or NULL
    timers,       \* prefixes whose entry has an expiration timer, running
    proxy_reply,  \* the proxy_reply field of the configured sites
    call,         \* the Map-Register being processed, or idle
    answer,       \* the message sent by the last step, or NULL
    crashed,      \* the daemon has followed a null pointer
    origin        \* history: the key of the record last accepted for a prefix

vars == <<reg, timers, proxy_reply, call, answer, crashed, origin>>

(* A call of ms_recv_map_register: the message, the index of the next      *)
(* record, the key that validated the message, the records confirmed.      *)
Calls == [msg : Messages, i : Nat \ {0}, key : Keys \cup {NULL}, valid : SUBSET Prefixes]

Answers == [kind : {"notify"}, eids : SUBSET Prefixes]
             \cup [kind : {"negative 15 min", "negative 1 min"}, eid : Prefixes]
             \cup [kind : {"forward", "discard", "proxy"}, site : Prefixes]

TypeOK ==
    /\ reg \in [Prefixes -> Mappings \cup {NULL}]
    /\ timers \subseteq Prefixes
    /\ proxy_reply \in [Configured -> BOOLEAN]
    /\ call \in Calls \cup {NULL}
    /\ answer \in Answers \cup {NULL}
    /\ crashed \in BOOLEAN
    /\ origin \in [Prefixes -> Keys \cup {NULL}]

-----------------------------------------------------------------------------
(* Prefixes and databases.                                                 *)

\* pref_is_prefix_b_part_of_a
PartOf(b, a) == a.plen <= b.plen /\ Block(b, a.plen) = Block(a, a.plen)

\* lisp_addr_cmp of two prefixes compares the addresses and not the lengths.
lisp_addr_cmp(p, q) == p.addr = q.addr

\* The entry of db with the longest prefix that p is part of, or NULL.
mdb_lookup_entry(db, p) ==
    LET covering == {c \in db : PartOf(p, c)}
    IN  IF covering = {} THEN NULL
        ELSE CHOOSE c \in covering : \A d \in covering : d.plen <= c.plen

Registered == {p \in Prefixes : reg[p] # NULL}

Idle == call = NULL /\ ~crashed

Init ==
    /\ \E m \in Mappings : reg = [p \in Prefixes |-> IF p \in Static THEN m ELSE NULL]
    /\ timers = {}
    /\ proxy_reply \in [Configured -> BOOLEAN]
    /\ call = NULL
    /\ answer = NULL
    /\ crashed = FALSE
    /\ origin = [p \in Prefixes |-> NULL]

-----------------------------------------------------------------------------
(* Map-Registers.                                                          *)

ms_recv_map_register(m) ==
    /\ Idle
    /\ call' = [msg |-> m, i |-> 1, key |-> NULL, valid |-> {}]
    /\ answer' = NULL
    /\ UNCHANGED <<reg, timers, proxy_reply, crashed, origin>>

Record == call.msg.records[call.i]

Processing ==
    /\ call # NULL /\ ~crashed
    /\ call.i <= Len(call.msg.records)

\* The loop is left without a Map-Notify: the record cannot be parsed, or it
\* is the first of a configured prefix and the message does not validate with
\* the key of that prefix.
register_stop ==
    /\ Processing
    /\ LET c == mdb_lookup_entry(Configured, Record.eid)
       IN  ~Record.parses \/ (c # NULL /\ call.key = NULL /\ call.msg.key # Key[c])
    /\ call' = NULL
    /\ UNCHANGED <<reg, timers, proxy_reply, answer, crashed, origin>>

\* Only the first record is held against a key.
KeyAgreesFirst(c) == call.key = NULL => call.msg.key = Key[c]

\* The key against which the record of site c is held.
KeyAgrees(c) ==
    IF call.key = NULL THEN call.msg.key = Key[c] ELSE <<call.key, Key[c]>> \in KeyPrefix

\* "check more specific"
Accepts(c, p) == IF c \in MoreSpecifics THEN PartOf(p, c) ELSE lisp_addr_cmp(c, p)

\* The record is discarded and the loop goes on.  The key of the message is
\* set by the first record that is validated, accepted or not.
register_skip ==
    /\ Processing
    /\ Record.parses
    /\ LET c == mdb_lookup_entry(Configured, Record.eid)
       IN  \/ /\ c = NULL
              /\ call' = [call EXCEPT !.i = @ + 1]
           \/ /\ c # NULL /\ call.key # NULL
              /\ ~KeyAgrees(c)
              /\ call' = [call EXCEPT !.i = @ + 1]
           \/ /\ c # NULL
              /\ KeyAgrees(c)
              /\ ~Accepts(c, Record.eid)
              /\ call' = [call EXCEPT !.i = @ + 1, !.key = IF @ = NULL THEN Key[c] ELSE @]
    /\ UNCHANGED <<reg, timers, proxy_reply, answer, crashed, origin>>

\* The timer is not started.
lsite_entry_start_expiration_timerNot(p) ==
    timers' = timers

\* lsite_entry_start_expiration_timer, for a new entry
lsite_entry_start_expiration_timer(p) ==
    timers' = timers \cup {p}

\* Merge semantics are not implemented: the mapping stays as it is.
NewMapping(c, p, m) == IF reg[p] # NULL /\ c \in Merge THEN reg[p] ELSE m

\* The record is accepted: the registration is created, or updated and its
\* timer started again.  The list of timers of a static entry is NULL and
\* lsite_entry_update_expiration_timer takes its size.
register_accept ==
    /\ Processing
    /\ Record.parses
    /\ LET p == Record.eid
           c == mdb_lookup_entry(Configured, p)
       IN  /\ c # NULL
           /\ KeyAgrees(c)
           /\ Accepts(c, p)
           /\ reg' = [reg EXCEPT ![p] = NewMapping(c, p, Record.mapping)]
           /\ proxy_reply' = [proxy_reply EXCEPT
                                ![c] = IF reg[p] = Record.mapping THEN @ ELSE call.msg.proxy]
           /\ \/ /\ reg[p] = NULL
                 /\ lsite_entry_start_expiration_timer(p)
                 /\ UNCHANGED crashed
              \/ /\ reg[p] # NULL /\ p \in timers
                 /\ UNCHANGED <<timers, crashed>>
              \/ /\ reg[p] # NULL /\ p \notin timers
                 /\ crashed' = TRUE
                 /\ UNCHANGED timers
           /\ call' = [call EXCEPT !.i = @ + 1,
                                   !.key = IF @ = NULL THEN Key[c] ELSE @,
                                   !.valid = @ \cup {p}]
           /\ origin' = [origin EXCEPT ![p] = call.msg.key]
    /\ UNCHANGED answer

\* A message is confirmed without a look at valid_records.
register_endUnchecked ==
    /\ call # NULL /\ ~crashed
    /\ call.i > Len(call.msg.records)
    /\ answer' = IF call.msg.want_map_notify /\ call.key # NULL
                 THEN [kind |-> "notify", eids |-> call.valid] ELSE NULL
    /\ call' = NULL
    /\ UNCHANGED <<reg, timers, proxy_reply, crashed, origin>>

\* The message is confirmed if one record at least is.
register_end ==
    /\ call # NULL /\ ~crashed
    /\ call.i > Len(call.msg.records)
    /\ answer' = IF call.msg.want_map_notify /\ call.key # NULL /\ call.valid # {}
                 THEN [kind |-> "notify", eids |-> call.valid] ELSE NULL
    /\ call' = NULL
    /\ UNCHANGED <<reg, timers, proxy_reply, crashed, origin>>

-----------------------------------------------------------------------------
(* Expiration and Map-Requests.                                            *)

\* lsite_entry_expiration_timer_cb, with lisp_reg_site_del
lsite_entry_expiration_timer_cb(p) ==
    /\ Idle
    /\ p \in timers
    /\ reg' = [reg EXCEPT ![p] = NULL]
    /\ timers' = timers \ {p}
    /\ answer' = NULL
    /\ UNCHANGED <<proxy_reply, call, crashed, origin>>

\* get_locator_with_afi finds a locator of a family in ctrl_supported_afis.
forward_mreq(m) == m \in Reachable

\* A Map-Request for deid, neither a probe nor an SMR.
ms_recv_map_request(deid) ==
    LET site  == mdb_lookup_entry(Configured, deid)
        rsite == mdb_lookup_entry(Registered, deid)
    IN  /\ Idle
        /\ \/ /\ site = NULL /\ rsite = NULL
              /\ answer' = [kind |-> "negative 15 min", eid |-> deid]
           \/ /\ site # NULL /\ rsite = NULL
              /\ answer' = [kind |-> "negative 1 min", eid |-> deid]
           \/ /\ rsite # NULL /\ site # NULL /\ ~proxy_reply[site]
              /\ answer' = [kind |-> IF forward_mreq(reg[rsite]) THEN "forward" ELSE "discard",
                            site |-> rsite]
           \/ /\ rsite # NULL /\ (site # NULL => proxy_reply[site])
              /\ answer' = [kind |-> "proxy", site |-> rsite]
        /\ UNCHANGED <<reg, timers, proxy_reply, call, crashed, origin>>

Next ==
    \/ \E m \in Messages : ms_recv_map_register(m)
    \/ register_stop
    \/ register_skip
    \/ register_accept
    \/ register_end
    \/ \E p \in Prefixes : lsite_entry_expiration_timer_cb(p)
    \/ \E deid \in Prefixes : ms_recv_map_request(deid)

Spec == Init /\ [][Next]_vars

-----------------------------------------------------------------------------
(* Properties.                                                             *)

\* Every registration that is not configured as static has its expiration
\* timer, and a timer always has the entry its callback deletes
\* (lsite_entry_start_expiration_timer, lsite_entry_expiration_timer_cb).
DynamicEntriesExpire == timers = Registered \ Static

\* A registration is under a configured site and was accepted from a message
\* validated with the key of that site, in a Map-Register of many records too
\* (ms_recv_map_register, "CHECK AUTH").
RegisteredWithSiteKey ==
    \A p \in timers :
        LET c == mdb_lookup_entry(Configured, p)
        IN  c # NULL /\ origin[p] = Key[c]

\* A Map-Notify confirms prefixes that are registered, also when the message
\* was refused in part or registers a prefix twice.
NotifiedIsRegistered ==
    answer # NULL /\ answer.kind = "notify" => answer.eids # {} /\ answer.eids \subseteq Registered

\* "more specifics not configured! Discarding": a registration is the prefix
\* of its site unless the site accepts more specifics.
OnlyConfiguredPrefixes ==
    \A p \in timers :
        LET c == mdb_lookup_entry(Configured, p) IN c = p \/ c \in MoreSpecifics

=============================================================================
