------------------------------ MODULE MapCache ------------------------------
(***************************************************************************)
(* The life of the map-cache entries of a tunnel router                    *)
(* (control/lisp_xtr.c, with lib/map_cache_entry.c, lib/mapping_db.c,      *)
(* lib/timers_utils.c, lib/pointers_table.c and lib/nonces_table.c).       *)
(*                                                                         *)
(* A packet to an unknown EID installs a NOT_ACTIVE placeholder and asks   *)
(* the map resolver.  The reply replaces the placeholder by an ACTIVE      *)
(* entry, which expires, is refreshed when the remote site solicits it     *)
(* (SMR) and has its locators probed.  Four kinds of timers drive this;    *)
(* those that send carry the nonces of the requests they have sent.        *)
(*                                                                         *)
(* lispd is single threaded, so that every handler and every timer         *)
(* callback is one atomic action.  Time is abstracted: a running timer may *)
(* fire at any moment.  The network loses, delays, repeats and reorders.   *)
(*                                                                         *)
(* An EID is a host or the prefix of the site of a host; a mapping is      *)
(* negative or has one locator.  PeTRs, static entries and multicast are   *)
(* left out.                                                               *)
(***************************************************************************)
EXTENDS Integers, FiniteSets

CONSTANTS Hosts,                     \* destinations of packets, as host EIDs
          Sites,                     \* EID prefixes registered by sites
          SiteOf,                    \* SiteOf[h]: the prefix that covers h
          Mces,                      \* addresses of mcache_entry_t objects
          Timers,                    \* addresses of lmtimer_t objects
          Nonces,                    \* values of nonce_new()
          NULL,                      \* the null pointer
          map_request_retries,       \* xtr->map_request_retries
          LISPD_MAX_SMR_RETRANSMIT,  \* 2 in defs.h
          probe_retries,             \* xtr->probe_retries
          probe_interval,            \* xtr->probe_interval, 0 disables probing
          Outages                    \* whether the control RLOCs may go away

Eids == Hosts \cup Sites

ASSUME MapCacheAssumption ==
    /\ SiteOf \in [Hosts -> Sites]
    /\ Hosts \cap Sites = {}
    /\ IsFiniteSet(Nonces)
    /\ NULL \notin Mces \cup Timers \cup Nonces \cup Eids
    /\ {map_request_retries, LISPD_MAX_SMR_RETRANSMIT, probe_retries, probe_interval} \subseteq Nat
    /\ Outages \in BOOLEAN

VARIABLES
    xtr,     \* the router: see XtrType
    net,     \* requests that may still be answered, any number of times
    online   \* a control RLOC and a map resolver of its family are available

vars == <<xtr, net, online>>

(* The type of a timer says which callback it calls.                       *)
TimerTypes == {"EXPIRE_MAP_CACHE", "MAP_REQUEST_RETRY", "SMR_INV_RETRY", "RLOC_PROBING"}

(* The router.  A timer belongs to the entry of its argument, under which  *)
(* ptrs_to_timers_ht lists it.                                             *)
XtrType ==
    [db      : [Eids -> Mces \cup {NULL}],              \* xtr->map_cache
     status  : [Mces -> {"free", "NOT_ACTIVE", "ACTIVE"}],
     eid     : [Mces -> Eids \cup {NULL}],              \* mapping_eid(mce->mapping)
     locator : [Mces -> {"none", "UP", "DOWN"}],        \* the state of its locator
     type    : [Timers -> TimerTypes \cup {"free"}],
     mce     : [Timers -> Mces \cup {NULL}],            \* the entry in its argument
     armed   : SUBSET Timers,                           \* timers linked in the wheel
     nonces  : [Nonces -> Timers \cup {NULL}]]          \* nonces_ht

Requests == [nonce : Nonces, eid : Eids, probe : BOOLEAN]

(* What a Map-Reply says of an EID: its mapping, or a record that          *)
(* tr_recv_map_reply refuses (an explicit locator path with the L bit).    *)
Records == [eid : Eids, locator : {"none", "UP"}, refused : BOOLEAN]

TypeOK ==
    /\ xtr \in XtrType
    /\ net \subseteq Requests
    /\ online \in BOOLEAN

-----------------------------------------------------------------------------
(* Timers, pointers table and nonces table.                                *)

TimersOf(s, e) == {t \in Timers : s.type[t] # "free" /\ s.mce[t] = e}

FreeTimers(s) == {t \in Timers : s.type[t] = "free"}

FreeMces(s) == {e \in Mces : s.status[e] = "free"}

NoncesOf(s, t) == {n \in Nonces : s.nonces[n] = t}

\* nonce_new() draws 64 random bits: a value that nothing else uses.
FreshNonces(s) == {n \in Nonces : s.nonces[n] = NULL /\ \A m \in net : m.nonce # n}

\* Forget the nonces of the timers in T.
htable_nonces_reset_nonces_lst(s, T) ==
    [s EXCEPT !.nonces = [n \in Nonces |-> IF @[n] \in T THEN NULL ELSE @[n]]]

\* lmtimer_create, lmtimer_init and htable_ptrs_timers_add.
NewTimer(s, t, type, e) ==
    [s EXCEPT !.type[t] = type, !.mce[t] = e]

lmtimer_start(s, t) == [s EXCEPT !.armed = @ \cup {t}]

\* Take the timers in T out of the pointers table, reset their nonces and
\* stop them, which frees them.
StopTimers(s, T) ==
    [htable_nonces_reset_nonces_lst(s, T) EXCEPT
        !.type = [t \in Timers |-> IF t \in T THEN "free" ELSE @[t]],
        !.mce = [t \in Timers |-> IF t \in T THEN NULL ELSE @[t]],
        !.armed = @ \ T]

stop_timers_from_obj(s, e) == StopTimers(s, TimersOf(s, e))

stop_timers_of_type_from_obj(s, e, type) ==
    StopTimers(s, {t \in TimersOf(s, e) : s.type[t] = type})

-----------------------------------------------------------------------------
(* Entries and the map cache.                                              *)

\* A lookup that does not see placeholders.
mcache_lookupActive(s, a) ==
    IF a \in Hosts /\ s.db[a] = NULL THEN s.db[SiteOf[a]]
    ELSE IF s.db[a] # NULL /\ s.status[s.db[a]] = "ACTIVE" THEN s.db[a] ELSE NULL

\* The longest match for an address: a host entry hides that of its site.
mcache_lookup(s, a) ==
    IF a \in Hosts /\ s.db[a] = NULL THEN s.db[SiteOf[a]] ELSE s.db[a]

\* An entry that is deleted without its timers.
mcache_entry_delKeepTimers(s, e) ==
    IF e = NULL
    THEN s
    ELSE [s EXCEPT !.status[e] = "free", !.eid[e] = NULL, !.locator[e] = "none"]

mcache_entry_del(s, e) ==
    IF e = NULL
    THEN s
    ELSE [stop_timers_from_obj(s, e) EXCEPT
            !.status[e] = "free", !.eid[e] = NULL, !.locator[e] = "none"]

\* The entry is removed by its EID: what is deleted is what the database
\* holds under that EID, which may be another entry or nothing.
tr_mcache_remove_entry(s, e) ==
    mcache_entry_del([s EXCEPT !.db[s.eid[e]] = NULL], s.db[s.eid[e]])

\* pt_add_node: "Node with prefix exists! Data won't be changed", yet GOOD.
mcache_add_entry(s, k, e) ==
    IF s.db[k] = NULL THEN [s EXCEPT !.db[k] = e] ELSE s

\* A new entry for k is filled in and added: in tr_mcache_add_mapping it is
\* ACTIVE, in handle_map_cache_miss it is not.
NewEntry(s, e, status, k, locator) ==
    mcache_add_entry([s EXCEPT !.status[e] = status, !.eid[e] = k, !.locator[e] = locator], k, e)

mc_entry_start_expiration_timer(s, e, t) ==
    lmtimer_start(NewTimer(s, t, "EXPIRE_MAP_CACHE", e), t)

program_rloc_probing(s, e, t) ==
    lmtimer_start(NewTimer(s, t, "RLOC_PROBING", e), t)

program_mce_rloc_probing(s, e, t) ==
    LET stopped == stop_timers_of_type_from_obj(s, e, "RLOC_PROBING")
    IN  IF probe_interval = 0 THEN s
        ELSE IF s.locator[e] = "none" THEN stopped
        ELSE program_rloc_probing(stopped, e, t)

tr_mcache_add_mapping(s, rec, e, te, tp) ==
    LET added == NewEntry(s, e, "ACTIVE", rec.eid, rec.locator)
    IN  program_mce_rloc_probing(mc_entry_start_expiration_timer(added, e, te), e, tp)

\* The locators of the entry are replaced.  Its expiration timer is not
\* stopped: the entry gets another one.
update_mcache_entry(s, rec, te, tp) ==
    LET e == s.db[rec.eid]
    IN  IF e = NULL
        THEN s
        ELSE program_mce_rloc_probing(
                mc_entry_start_expiration_timer([s EXCEPT !.locator[e] = rec.locator], e, te),
                e, tp)

-----------------------------------------------------------------------------
(* Map-Requests.                                                           *)

Request(n, k, probe) == [nonce |-> n, eid |-> k, probe |-> probe]

\* A request of timer t is sent with nonce n and t is started again.
SendAndRestart(s, t, n) ==
    lmtimer_start([s EXCEPT !.nonces[n] = t], t)

Retries(s, t) == Cardinality(NoncesOf(s, t))

\* The callback of a MAP_REQUEST_RETRY or SMR_INV_RETRY timer that is not
\* linked in the wheel.  When the request cannot be built or sent the timer
\* is not started again; after the last retry the entry is removed.
RetryOrRemove(s, t, max) ==
    \/ /\ Retries(s, t) - 1 < max
       /\ online
       /\ \E n \in FreshNonces(s) :
            /\ xtr' = SendAndRestart(s, t, n)
            /\ net' = net \cup {Request(n, s.eid[s.mce[t]], FALSE)}
    \/ /\ Retries(s, t) - 1 < max
       /\ ~online
       /\ xtr' = s
       /\ UNCHANGED net
    \/ /\ Retries(s, t) - 1 >= max
       /\ xtr' = tr_mcache_remove_entry(s, s.mce[t])
       /\ UNCHANGED net

\* A packet to host h: tr_get_fwd_entry and, on a miss, handle_map_cache_miss.
handle_map_cache_miss(h) ==
    /\ mcache_lookup(xtr, h) = NULL
    /\ \E e \in FreeMces(xtr), t \in FreeTimers(xtr) :
        LET added == NewEntry(xtr, e, "NOT_ACTIVE", h, "none")
        IN  RetryOrRemove(NewTimer(added, t, "MAP_REQUEST_RETRY", e), t, map_request_retries)
    /\ UNCHANGED online

\* The wheel has unlinked the timer before it calls its callback.
Fired(t, type) ==
    /\ t \in xtr.armed
    /\ xtr.type[t] = type

Unlink(t) == [xtr EXCEPT !.armed = @ \ {t}]

\* A retransmission after which nobody waits.
send_map_request_retry_cbNoRestart(t) ==
    /\ Fired(t, "MAP_REQUEST_RETRY")
    /\ xtr' = Unlink(t)
    /\ UNCHANGED <<net, online>>

\* Retransmissions that are not counted.
send_map_request_retry_cbForever(t) ==
    /\ Fired(t, "MAP_REQUEST_RETRY")
    /\ RetryOrRemove(htable_nonces_reset_nonces_lst(Unlink(t), {t}), t, map_request_retries)
    /\ UNCHANGED online

send_map_request_retry_cb(t) ==
    /\ Fired(t, "MAP_REQUEST_RETRY")
    /\ RetryOrRemove(Unlink(t), t, map_request_retries)
    /\ UNCHANGED online

smr_invoked_map_request_cb(t) ==
    /\ Fired(t, "SMR_INV_RETRY")
    /\ RetryOrRemove(Unlink(t), t, LISPD_MAX_SMR_RETRANSMIT)
    /\ UNCHANGED online

\* A remote site solicits a Map-Request for k: every SMR creates a timer.
tr_reply_to_smr(k) ==
    /\ mcache_lookup(xtr, k) # NULL
    /\ \E t \in FreeTimers(xtr) :
        RetryOrRemove(NewTimer(xtr, t, "SMR_INV_RETRY", mcache_lookup(xtr, k)), t,
                      LISPD_MAX_SMR_RETRANSMIT)
    /\ UNCHANGED online

mc_entry_expiration_timer_cb(t) ==
    /\ Fired(t, "EXPIRE_MAP_CACHE")
    /\ xtr' = tr_mcache_remove_entry(Unlink(t), xtr.mce[t])
    /\ UNCHANGED <<net, online>>

\* The callback of a probing timer.  A locator that does not answer goes
\* DOWN, unless the database has no entry for the EID any more.
rloc_probing_cb(t) ==
    /\ Fired(t, "RLOC_PROBING")
    /\ LET s == Unlink(t)
           e == s.mce[t]
           again == lmtimer_start(htable_nonces_reset_nonces_lst(s, {t}), t)
       IN  \/ /\ Retries(s, t) - 1 < probe_retries
              /\ online
              /\ \E n \in FreshNonces(s) :
                    /\ xtr' = SendAndRestart(s, t, n)
                    /\ net' = net \cup {Request(n, s.eid[e], TRUE)}
           \/ /\ Retries(s, t) - 1 < probe_retries
              /\ ~online
              /\ xtr' = s
              /\ UNCHANGED net
           \/ /\ Retries(s, t) - 1 >= probe_retries
              /\ s.locator[e] = "UP"
              /\ xtr' = [(IF s.db[s.eid[e]] = NULL THEN s ELSE again) EXCEPT !.locator[e] = "DOWN"]
              /\ UNCHANGED net
           \/ /\ Retries(s, t) - 1 >= probe_retries
              /\ s.locator[e] # "UP"
              /\ xtr' = again
              /\ UNCHANGED net
    /\ UNCHANGED online

-----------------------------------------------------------------------------
(* Map-Replies.                                                            *)

\* The answers to a request for k: the mapping of k or of its site.
Answers(k) ==
    {rec \in Records : rec.eid = k \/ (k \in Hosts /\ rec.eid = SiteOf[k])}

\* The site of a locator answers a probe with the mapping it has announced.
ProbeAnswers(k) == {rec \in Records : rec.eid = k}

\* A reply that is not a probe, for the entry that waits for nonce m.nonce.
tr_recv_map_reply(m, rec) ==
    LET t == xtr.nonces[m.nonce]
        e == xtr.mce[t]
    IN  /\ ~m.probe
        /\ t # NULL
        /\ \/ \* the placeholder goes away, whatever the record holds
              /\ xtr.status[e] = "NOT_ACTIVE"
              /\ LET s == tr_mcache_remove_entry(xtr, e)
                 IN  \/ /\ rec.refused
                        /\ xtr' = s
                     \/ /\ ~rec.refused
                        /\ \E f \in FreeMces(s), te \in FreeTimers(s) :
                            \E tp \in FreeTimers(s) \ {te} :
                                xtr' = tr_mcache_add_mapping(s, rec, f, te, tp)
           \/ \* an answer to an SMR-invoked request
              /\ xtr.status[e] = "ACTIVE"
              /\ \/ /\ rec.refused
                    /\ xtr' = xtr
                 \/ /\ ~rec.refused
                    /\ \E te \in FreeTimers(xtr) : \E tp \in FreeTimers(xtr) \ {te} :
                        xtr' = StopTimers(update_mcache_entry(xtr, rec, te, tp), {t})
        /\ UNCHANGED <<net, online>>

\* A probe that was answered stays pending.
tr_recv_map_reply_probeNoStop(m, rec) ==
    LET t == xtr.nonces[m.nonce]
        e == xtr.db[rec.eid]
    IN  /\ m.probe
        /\ t # NULL
        /\ ~rec.refused /\ e # NULL
        /\ xtr' = [xtr EXCEPT !.locator[e] = IF @ = "none" THEN "none" ELSE "UP"]
        /\ UNCHANGED <<net, online>>

\* A reply to a probe.  The entry is looked up by the EID of the record, and
\* it is the entry found that is probed next; the timer that had sent the
\* probe is stopped.
tr_recv_map_reply_probe(m, rec) ==
    LET t == xtr.nonces[m.nonce]
        e == xtr.db[rec.eid]
    IN  /\ m.probe
        /\ t # NULL
        /\ \/ /\ rec.refused \/ e = NULL
              /\ xtr' = xtr
           \/ /\ ~rec.refused /\ e # NULL
              /\ xtr.locator[e] = "none"
              /\ xtr' = StopTimers(xtr, {t})
           \/ /\ ~rec.refused /\ e # NULL
              /\ xtr.locator[e] # "none"
              /\ \E tp \in FreeTimers(xtr) :
                    xtr' = StopTimers(program_rloc_probing([xtr EXCEPT !.locator[e] = "UP"], e, tp),
                                      {t})
        /\ UNCHANGED <<net, online>>

-----------------------------------------------------------------------------
(* The environment.                                                        *)

Lose(m) ==
    /\ net' = net \ {m}
    /\ UNCHANGED <<xtr, online>>

LoseRlocs ==
    /\ Outages /\ online
    /\ online' = FALSE
    /\ UNCHANGED <<xtr, net>>

RecoverRlocs ==
    /\ ~online
    /\ online' = TRUE
    /\ UNCHANGED <<xtr, net>>

Init ==
    /\ xtr = [db      |-> [k \in Eids |-> NULL],
              status  |-> [e \in Mces |-> "free"],
              eid     |-> [e \in Mces |-> NULL],
              locator |-> [e \in Mces |-> "none"],
              type    |-> [t \in Timers |-> "free"],
              mce     |-> [t \in Timers |-> NULL],
              armed   |-> {},
              nonces  |-> [n \in Nonces |-> NULL]]
    /\ net = {}
    /\ online = TRUE

TimerFires(t) ==
    \/ send_map_request_retry_cb(t)
    \/ smr_invoked_map_request_cb(t)
    \/ mc_entry_expiration_timer_cb(t)
    \/ rloc_probing_cb(t)

Next ==
    \/ \E h \in Hosts : handle_map_cache_miss(h)
    \/ \E k \in Eids : tr_reply_to_smr(k)
    \/ \E t \in Timers : TimerFires(t)
    \/ \E m \in net : \E rec \in Answers(m.eid) : tr_recv_map_reply(m, rec)
    \/ \E m \in net : \E rec \in ProbeAnswers(m.eid) : tr_recv_map_reply_probe(m, rec)
    \/ \E m \in net : Lose(m)
    \/ LoseRlocs
    \/ RecoverRlocs

Spec == Init /\ [][Next]_vars

\* The wheel fires every running timer, and no message stays in the network
\* for ever.  The retry timers need strong fairness for a modelling reason:
\* they wait for a nonce, of which the program has 2^64 and the model few.
FairSpec ==
    /\ Spec
    /\ \A t \in Timers : /\ SF_vars(send_map_request_retry_cb(t))
                         /\ SF_vars(smr_invoked_map_request_cb(t))
    /\ \A m \in Requests : WF_vars(m \in net /\ Lose(m))

-----------------------------------------------------------------------------
(* Properties.                                                             *)

Cached(e) == xtr.eid[e] # NULL /\ xtr.db[xtr.eid[e]] = e

HasArmed(e, type) == \E t \in TimersOf(xtr, e) : xtr.type[t] = type /\ t \in xtr.armed

\* The pointers of a state of the router lead to allocated objects.
PointersValid(s) ==
    /\ \A t \in Timers : s.type[t] # "free" => s.mce[t] \in Mces /\ s.status[s.mce[t]] # "free"
    /\ \A n \in Nonces : s.nonces[n] # NULL =>
            s.type[s.nonces[n]] \in TimerTypes \ {"EXPIRE_MAP_CACHE"}
    /\ \A t \in s.armed : s.type[t] # "free"
    /\ \A e \in Mces : s.status[e] # "free" => s.eid[e] \in Eids
    /\ \A k \in Eids : s.db[k] # NULL => s.status[s.db[k]] # "free" /\ s.eid[s.db[k]] = k

\* No callback and no reply reaches freed memory: the entry of a timer is
\* allocated, a pending nonce leads to an allocated timer that sends, only
\* allocated timers are linked, and the cache holds allocated entries under
\* their own EID.
NoDanglingPointers == PointersValid(xtr)

PlaceholdersCached(s) ==
    \A e \in Mces : s.status[e] = "NOT_ACTIVE" => s.db[s.eid[e]] = e

\* The placeholder that tr_recv_map_reply and the last retry remove by EID is
\* the placeholder itself: no ACTIVE entry is ever deleted in its place.
PlaceholdersAreCached == PlaceholdersCached(xtr)

\* Every placeholder has a running retry timer, which either gets the EID
\* resolved or removes the placeholder (send_map_request_retry_cb).
PlaceholdersAreRetried ==
    \A e \in Mces : xtr.status[e] = "NOT_ACTIVE" => HasArmed(e, "MAP_REQUEST_RETRY")

\* Every locator in the cache is being probed, so that its failure is noticed
\* (rloc_probing_cb, handle_locator_probe_reply, program_mce_rloc_probing).
LocatorsAreProbed ==
    \A e \in Mces : Cached(e) /\ xtr.locator[e] # "none" => HasArmed(e, "RLOC_PROBING")

\* Every ACTIVE entry in the cache will expire.
EntriesExpire ==
    \A e \in Mces : Cached(e) /\ xtr.status[e] = "ACTIVE" => HasArmed(e, "EXPIRE_MAP_CACHE")

\* Nothing in the cache is forgotten by its timers, through misses, replies,
\* SMRs and probes that stop, free and create them: placeholders are retried,
\* locators probed and ACTIVE entries expire.
EntriesAreTended == PlaceholdersAreRetried /\ LocatorsAreProbed /\ EntriesExpire

\* "Reprogramming timers" of update_mcache_entry: a refreshed entry has one
\* expiration timer, the new one.
OneExpirationTimer ==
    \A e \in Mces : \A t, u \in TimersOf(xtr, e) :
        xtr.type[t] = "EXPIRE_MAP_CACHE" /\ xtr.type[u] = "EXPIRE_MAP_CACHE" => t = u

\* A Map-Reply that has an effect is consumed: its nonce, and those of the
\* other retransmissions of the same timer, are forgotten, so that neither a
\* copy of the reply nor the answer to a retransmission is accepted later.
AcceptedOnce ==
    [][\A m \in net : \A rec \in Answers(m.eid) :
        xtr' # xtr /\ (tr_recv_map_reply(m, rec) \/ tr_recv_map_reply_probe(m, rec)) =>
            \A n \in Nonces : xtr.nonces[n] = xtr.nonces[m.nonce] => xtr'.nonces[n] = NULL]_vars

\* Every placeholder is eventually replaced by an entry or removed.
PlaceholdersAreResolved ==
    \A e \in Mces : xtr.status[e] = "NOT_ACTIVE" ~> xtr.status[e] # "NOT_ACTIVE"

=============================================================================
