--------------------------- MODULE MapCacheProofs ---------------------------
(***************************************************************************)
(* TLAPS proofs about MapCache.  The invariant is a predicate of a state   *)
(* of the router, and every function of lisp_xtr.c that changes the router *)
(* is an operator on such states: there is one lemma for each of them, and *)
(* the proof for an action puts together those of the functions it calls.  *)
(***************************************************************************)
EXTENDS MapCache, TLAPS

\* The inductive invariant, as a predicate of a state of the router.
Valid(s) ==
    /\ s \in XtrType
    /\ PointersValid(s)
    /\ PlaceholdersCached(s)

\* The fields of a state, element by element.
LEMMA XtrFields ==
    ASSUME NEW s \in XtrType
    PROVE  /\ \A k \in Eids : s.db[k] \in Mces \cup {NULL}
           /\ \A n \in Nonces : s.nonces[n] \in Timers \cup {NULL}
           /\ \A e \in Mces : s.eid[e] \in Eids \cup {NULL}
           /\ s.armed \subseteq Timers
           /\ DOMAIN s.db = Eids /\ DOMAIN s.nonces = Nonces
           /\ DOMAIN s.status = Mces /\ DOMAIN s.eid = Mces /\ DOMAIN s.locator = Mces
           /\ DOMAIN s.type = Timers /\ DOMAIN s.mce = Timers
  BY DEF XtrType

\* A pending nonce leads to an allocated timer that sends.
LEMMA NonceTimer ==
    ASSUME NEW s, Valid(s), NEW n \in Nonces, s.nonces[n] # NULL
    PROVE  /\ s.nonces[n] \in Timers
           /\ s.type[s.nonces[n]] \in TimerTypes \ {"EXPIRE_MAP_CACHE"}
           /\ s.type[s.nonces[n]] # "free"
  <1>1. s \in XtrType /\ PointersValid(s)
    BY DEF Valid
  <1>2. s.nonces[n] \in Timers
    BY <1>1, XtrFields
  <1>3. s.type[s.nonces[n]] \in TimerTypes \ {"EXPIRE_MAP_CACHE"}
    BY <1>1 DEF PointersValid
  <1> QED
    BY <1>2, <1>3 DEF TimerTypes

\* An allocated timer belongs to an allocated entry.
LEMMA TimerEntry ==
    ASSUME NEW s, Valid(s), NEW t \in Timers, s.type[t] # "free"
    PROVE  s.mce[t] \in Mces /\ s.status[s.mce[t]] # "free"
  BY Zenon DEF Valid, PointersValid

\* The cache holds allocated entries under their own EID.
LEMMA CachedEntry ==
    ASSUME NEW s, Valid(s), NEW k \in Eids, s.db[k] # NULL
    PROVE  s.db[k] \in Mces /\ s.status[s.db[k]] # "free" /\ s.eid[s.db[k]] = k
  <1>1. s \in XtrType /\ PointersValid(s)
    BY DEF Valid
  <1>2. s.db[k] \in Mces
    BY <1>1, XtrFields
  <1> QED
    BY <1>1, <1>2, Zenon DEF PointersValid

\* So does what is found there.
LEMMA FoundEntry ==
    ASSUME NEW s, Valid(s), NEW k \in Eids, mcache_lookup(s, k) # NULL
    PROVE  mcache_lookup(s, k) \in Mces /\ s.status[mcache_lookup(s, k)] # "free"
  <1>1. PICK j \in Eids : mcache_lookup(s, k) = s.db[j]
    BY MapCacheAssumption DEF mcache_lookup, Eids
  <1>2. s.db[j] # NULL
    BY <1>1, Zenon
  <1>3. s.db[j] \in Mces /\ s.status[s.db[j]] # "free"
    BY <1>2, CachedEntry, Zenon
  <1> QED
    BY <1>1, <1>3, Zenon

\* Forgetting the nonces of some timers keeps a state valid.
LEMMA ResetNoncesValid ==
    ASSUME NEW s, Valid(s), NEW T \in SUBSET Timers
    PROVE  Valid(htable_nonces_reset_nonces_lst(s, T))
  BY MapCacheAssumption DEF Valid, XtrType, PointersValid, PlaceholdersCached,
                            htable_nonces_reset_nonces_lst, TimerTypes

\* What StopTimers does to each field of the router.
LEMMA StopTimersFields ==
    ASSUME NEW s \in XtrType, NEW T \in SUBSET Timers
    PROVE  LET r == StopTimers(s, T)
           IN  /\ r \in XtrType
               /\ r.db = s.db /\ r.status = s.status /\ r.eid = s.eid /\ r.locator = s.locator
               /\ r.type = [t \in Timers |-> IF t \in T THEN "free" ELSE s.type[t]]
               /\ r.mce = [t \in Timers |-> IF t \in T THEN NULL ELSE s.mce[t]]
               /\ r.armed = s.armed \ T
               /\ r.nonces = [n \in Nonces |-> IF s.nonces[n] \in T THEN NULL ELSE s.nonces[n]]
  BY Zenon DEF XtrType, StopTimers, htable_nonces_reset_nonces_lst

\* From s to r the timers of T are stopped.
Stopped(s, r, T) ==
    /\ r.db = s.db /\ r.status = s.status /\ r.eid = s.eid /\ r.locator = s.locator
    /\ r.armed = s.armed \ T
    /\ \A t \in Timers \ T : r.type[t] = s.type[t] /\ r.mce[t] = s.mce[t]
    /\ \A n \in Nonces : r.nonces[n] = IF s.nonces[n] \in T THEN NULL ELSE s.nonces[n]

LEMMA StopTimersStops ==
    ASSUME NEW s \in XtrType, NEW T \in SUBSET Timers, NEW r, r = StopTimers(s, T)
    PROVE  Stopped(s, r, T)
  <1>1. /\ r.db = s.db /\ r.status = s.status /\ r.eid = s.eid /\ r.locator = s.locator
        /\ r.type = [t \in Timers |-> IF t \in T THEN "free" ELSE s.type[t]]
        /\ r.mce = [t \in Timers |-> IF t \in T THEN NULL ELSE s.mce[t]]
        /\ r.armed = s.armed \ T
        /\ r.nonces = [n \in Nonces |-> IF s.nonces[n] \in T THEN NULL ELSE s.nonces[n]]
    BY StopTimersFields, Zenon
  <1>2. \A t \in Timers : /\ r.type[t] = IF t \in T THEN "free" ELSE s.type[t]
                          /\ r.mce[t] = IF t \in T THEN NULL ELSE s.mce[t]
    BY <1>1, Zenon
  <1>3. \A n \in Nonces : r.nonces[n] = IF s.nonces[n] \in T THEN NULL ELSE s.nonces[n]
    BY <1>1, Zenon
  <1> QED
    BY <1>1, <1>2, <1>3, Zenon DEF Stopped

\* Stopping timers keeps a state valid.
LEMMA StopTimersValid ==
    ASSUME NEW s, Valid(s), NEW T \in SUBSET Timers
    PROVE  Valid(StopTimers(s, T))
  <1> DEFINE r == StopTimers(s, T)
  <1>1. s \in XtrType
    BY DEF Valid
  <1>2. /\ r \in XtrType
        /\ r.db = s.db /\ r.status = s.status /\ r.eid = s.eid /\ r.locator = s.locator
        /\ r.type = [t \in Timers |-> IF t \in T THEN "free" ELSE s.type[t]]
        /\ r.mce = [t \in Timers |-> IF t \in T THEN NULL ELSE s.mce[t]]
        /\ r.armed = s.armed \ T
        /\ r.nonces = [n \in Nonces |-> IF s.nonces[n] \in T THEN NULL ELSE s.nonces[n]]
    BY <1>1, StopTimersFields
  <1> HIDE DEF r
  <1>3. PointersValid(r)
    BY <1>1, <1>2, MapCacheAssumption DEF Valid, PointersValid, XtrType, TimerTypes
  <1>4. PlaceholdersCached(r)
    BY <1>2 DEF Valid, PlaceholdersCached
  <1> QED
    BY <1>2, <1>3, <1>4 DEF Valid, r

\* A new timer for an allocated entry, started or not.
LEMMA NewTimerValid ==
    ASSUME NEW s, Valid(s), NEW t \in FreeTimers(s), NEW type \in TimerTypes,
           NEW e \in Mces, s.status[e] # "free"
    PROVE  /\ Valid(NewTimer(s, t, type, e))
           /\ Valid(lmtimer_start(NewTimer(s, t, type, e), t))
  <1> DEFINE r == NewTimer(s, t, type, e)
             q == lmtimer_start(r, t)
  <1>1. s \in XtrType /\ t \in Timers
    BY DEF Valid, FreeTimers
  <1>2. /\ r \in XtrType
        /\ r.db = s.db /\ r.status = s.status /\ r.eid = s.eid /\ r.locator = s.locator
        /\ r.type = [s.type EXCEPT ![t] = type]
        /\ r.mce = [s.mce EXCEPT ![t] = e]
        /\ r.armed = s.armed
        /\ r.nonces = s.nonces
    BY <1>1, Zenon DEF XtrType, NewTimer
  <1>3. /\ q \in XtrType
        /\ q.db = r.db /\ q.status = r.status /\ q.eid = r.eid /\ q.locator = r.locator
        /\ q.type = r.type
        /\ q.mce = r.mce
        /\ q.armed = r.armed \cup {t}
        /\ q.nonces = r.nonces
    <2> HIDE DEF r
    <2> QED
      BY <1>1, <1>2 DEF XtrType, lmtimer_start
  <1> HIDE DEF r, q
  <1>4. PointersValid(r)
    BY <1>1, <1>2, MapCacheAssumption DEF Valid, PointersValid, XtrType, TimerTypes, FreeTimers
  <1>5. PlaceholdersCached(r)
    BY <1>2 DEF Valid, PlaceholdersCached
  <1>6. PointersValid(q)
    BY <1>1, <1>2, <1>3, <1>4 DEF PointersValid, XtrType, TimerTypes
  <1>7. PlaceholdersCached(q)
    BY <1>3, <1>5 DEF PlaceholdersCached
  <1> QED
    BY <1>2, <1>3, <1>4, <1>5, <1>6, <1>7 DEF Valid, r, q

\* From s to r entry d, found in the cache under EID k, is freed together with
\* its timers, T.
Removed(s, r, k, d, T) ==
    /\ \A t \in Timers : t \in T <=> s.type[t] # "free" /\ s.mce[t] = d
    /\ r \in XtrType
    /\ r.db = [s.db EXCEPT ![k] = NULL]
    /\ r.status = [s.status EXCEPT ![d] = "free"]
    /\ r.eid = [s.eid EXCEPT ![d] = NULL]
    /\ r.locator = [s.locator EXCEPT ![d] = "none"]
    /\ r.type = [t \in Timers |-> IF t \in T THEN "free" ELSE s.type[t]]
    /\ r.mce = [t \in Timers |-> IF t \in T THEN NULL ELSE s.mce[t]]
    /\ r.armed = s.armed \ T
    /\ r.nonces = [n \in Nonces |-> IF s.nonces[n] \in T THEN NULL ELSE s.nonces[n]]

\* The same, element by element.
Gone(s, r, k, d, T) ==
    /\ \A t \in Timers : t \in T <=> s.type[t] # "free" /\ s.mce[t] = d
    /\ r.db[k] = NULL /\ \A j \in Eids \ {k} : r.db[j] = s.db[j]
    /\ r.status[d] = "free" /\ r.eid[d] = NULL /\ r.locator[d] = "none"
    /\ \A x \in Mces \ {d} : /\ r.status[x] = s.status[x] /\ r.eid[x] = s.eid[x]
                            /\ r.locator[x] = s.locator[x]
    /\ r.armed = s.armed \ T
    /\ \A t \in Timers \ T : r.type[t] = s.type[t] /\ r.mce[t] = s.mce[t]
    /\ \A n \in Nonces : r.nonces[n] = IF s.nonces[n] \in T THEN NULL ELSE s.nonces[n]

LEMMA RemovedGone ==
    ASSUME NEW s \in XtrType, NEW r, NEW k \in Eids, NEW d \in Mces, NEW T \in SUBSET Timers,
           Removed(s, r, k, d, T)
    PROVE  Gone(s, r, k, d, T)
  <1>1. /\ DOMAIN s.db = Eids
        /\ DOMAIN s.status = Mces /\ DOMAIN s.eid = Mces /\ DOMAIN s.locator = Mces
    BY XtrFields, Zenon
  <1>2. \A t \in Timers : t \in T <=> s.type[t] # "free" /\ s.mce[t] = d
    BY Zenon DEF Removed
  <1>3. r.db[k] = NULL /\ \A j \in Eids \ {k} : r.db[j] = s.db[j]
    BY <1>1, Zenon DEF Removed
  <1>4. r.status[d] = "free" /\ \A x \in Mces \ {d} : r.status[x] = s.status[x]
    BY <1>1, Zenon DEF Removed
  <1>5. r.eid[d] = NULL /\ \A x \in Mces \ {d} : r.eid[x] = s.eid[x]
    BY <1>1, Zenon DEF Removed
  <1>6. r.locator[d] = "none" /\ \A x \in Mces \ {d} : r.locator[x] = s.locator[x]
    BY <1>1, Zenon DEF Removed
  <1>7. /\ r.armed = s.armed \ T
        /\ \A t \in Timers \ T : r.type[t] = s.type[t] /\ r.mce[t] = s.mce[t]
    BY Zenon DEF Removed
  <1>8. \A n \in Nonces : r.nonces[n] = IF s.nonces[n] \in T THEN NULL ELSE s.nonces[n]
    BY Zenon DEF Removed
  <1> QED
    BY <1>2, <1>3, <1>4, <1>5, <1>6, <1>7, <1>8, Zenon DEF Gone

\* tr_mcache_remove_entry deletes what the cache holds under the EID of an
\* allocated entry, with all its timers and their nonces.
LEMMA RemoveEntryFields ==
    ASSUME NEW s, Valid(s), NEW e \in Mces, s.status[e] # "free"
    PROVE  LET k == s.eid[e]
               d == s.db[k]
               r == tr_mcache_remove_entry(s, e)
           IN  /\ k \in Eids /\ d \in Mces \cup {NULL}
               /\ d = NULL => r = s
               /\ d # NULL => \E T \in SUBSET Timers : Removed(s, r, k, d, T)
  <1> DEFINE k == s.eid[e]
             d == s.db[k]
             u == [s EXCEPT !.db[k] = NULL]
             r == tr_mcache_remove_entry(s, e)
  <1>1. s \in XtrType /\ k \in Eids /\ d \in Mces \cup {NULL}
    BY DEF Valid, PointersValid, XtrType
  <1>2. /\ u \in XtrType
        /\ u.db = [s.db EXCEPT ![k] = NULL]
        /\ u.status = s.status /\ u.eid = s.eid /\ u.locator = s.locator /\ u.type = s.type
        /\ u.mce = s.mce /\ u.armed = s.armed /\ u.nonces = s.nonces
    BY <1>1 DEF XtrType
  <1> HIDE DEF u
  <1>3. CASE d = NULL
    <2>1. u = s
      BY <1>1, <1>2, <1>3 DEF XtrType
    <2>2. r = s
      BY <1>3, <2>1 DEF tr_mcache_remove_entry, mcache_entry_del, u
    <2> QED
      BY <1>1, <1>3, <2>2
  <1>4. CASE d # NULL
    <2> DEFINE T == TimersOf(u, d)
               w == StopTimers(u, T)
    <2>1. T \in SUBSET Timers
      BY DEF TimersOf
    <2>2. /\ w \in XtrType
          /\ w.db = u.db /\ w.status = u.status /\ w.eid = u.eid /\ w.locator = u.locator
          /\ w.type = [t \in Timers |-> IF t \in T THEN "free" ELSE u.type[t]]
          /\ w.mce = [t \in Timers |-> IF t \in T THEN NULL ELSE u.mce[t]]
          /\ w.armed = u.armed \ T
          /\ w.nonces = [n \in Nonces |-> IF u.nonces[n] \in T THEN NULL ELSE u.nonces[n]]
      BY <1>2, <2>1, StopTimersFields
    <2>3. r = [w EXCEPT !.status[d] = "free", !.eid[d] = NULL, !.locator[d] = "none"]
      BY <1>4 DEF tr_mcache_remove_entry, mcache_entry_del, stop_timers_from_obj, u
    <2> HIDE DEF w, r
    <2>4. d \in Mces
      BY <1>1, <1>4
    <2>5. /\ r \in XtrType
          /\ r.db = w.db
          /\ r.status = [w.status EXCEPT ![d] = "free"]
          /\ r.eid = [w.eid EXCEPT ![d] = NULL]
          /\ r.locator = [w.locator EXCEPT ![d] = "none"]
          /\ r.type = w.type /\ r.mce = w.mce /\ r.armed = w.armed /\ r.nonces = w.nonces
      <3> HIDE DEF d, T
      <3>1. w \in XtrType
        BY <2>2
      <3> QED
        BY <3>1, <2>3, <2>4, Zenon DEF XtrType
    <2>6. \A t \in Timers : t \in T <=> s.type[t] # "free" /\ s.mce[t] = d
      BY <1>2 DEF TimersOf
    <2> HIDE DEF T, d, k
    <2>7. Removed(s, r, k, d, T)
      BY <1>2, <2>2, <2>5, <2>6 DEF Removed
    <2> QED
      BY <1>1, <1>4, <2>1, <2>7 DEF r, d, k
  <1> QED
    BY <1>3, <1>4

\* The removal of an allocated entry keeps a state valid.
LEMMA RemoveEntryValid ==
    ASSUME NEW s, Valid(s), NEW e \in Mces, s.status[e] # "free"
    PROVE  Valid(tr_mcache_remove_entry(s, e))
  <1>1. PICK k, d, r : k = s.eid[e] /\ d = s.db[k] /\ r = tr_mcache_remove_entry(s, e)
    OBVIOUS
  <1>2. CASE d = NULL
    BY <1>1, <1>2, RemoveEntryFields, Zenon
  <1>3. CASE d # NULL
    <2>1. k \in Eids /\ d \in Mces /\ s \in XtrType
      BY <1>1, <1>3, RemoveEntryFields DEF Valid
    <2>2. PICK T \in SUBSET Timers : Removed(s, r, k, d, T)
      BY <1>1, <1>3, RemoveEntryFields
    <2>3. \A j \in Eids : r.db[j] # NULL => j # k /\ r.db[j] = s.db[j] /\ s.db[j] # d
      BY <1>1, <1>3, <2>1, <2>2 DEF Removed, Valid, PointersValid, XtrType
    <2>4. PointersValid(r)
      <3>1. /\ \A x \in Mces : r.status[x] = (IF x = d THEN "free" ELSE s.status[x])
            /\ \A x \in Mces : r.eid[x] = (IF x = d THEN NULL ELSE s.eid[x])
            /\ \A u \in Timers : r.type[u] = (IF u \in T THEN "free" ELSE s.type[u])
            /\ \A u \in Timers : r.mce[u] = (IF u \in T THEN NULL ELSE s.mce[u])
            /\ \A n \in Nonces : r.nonces[n] = (IF s.nonces[n] \in T THEN NULL ELSE s.nonces[n])
            /\ r.armed = s.armed \ T
        BY <2>1, <2>2 DEF Removed, XtrType
      <3>2. PointersValid(s) /\ s \in XtrType
        BY DEF Valid
      <3>3. \A u \in Timers : r.type[u] # "free" => r.mce[u] \in Mces /\ r.status[r.mce[u]] # "free"
        BY <2>2, <3>1, <3>2 DEF Removed, PointersValid
      <3>4. \A n \in Nonces : r.nonces[n] # NULL =>
                r.type[r.nonces[n]] \in TimerTypes \ {"EXPIRE_MAP_CACHE"}
        <4>1. \A n \in Nonces : s.nonces[n] # NULL => s.nonces[n] \in Timers
          BY <3>2 DEF XtrType
        <4> QED
          BY <3>1, <3>2, <4>1 DEF PointersValid
      <3>5. \A u \in r.armed : r.type[u] # "free"
        <4>1. s.armed \subseteq Timers
          BY <3>2 DEF XtrType
        <4> QED
          BY <3>1, <3>2, <4>1 DEF PointersValid
      <3>6. \A x \in Mces : r.status[x] # "free" => r.eid[x] \in Eids
        BY <3>1, <3>2, Zenon DEF PointersValid
      <3>7. \A j \in Eids : r.db[j] # NULL => r.status[r.db[j]] # "free" /\ r.eid[r.db[j]] = j
        <4> SUFFICES ASSUME NEW j \in Eids, r.db[j] # NULL
                     PROVE  r.status[r.db[j]] # "free" /\ r.eid[r.db[j]] = j
          BY Zenon
        <4>1. r.db[j] = s.db[j] /\ s.db[j] # d /\ s.db[j] # NULL
          BY <2>3, Zenon
        <4>2. s.db[j] \in Mces /\ s.status[s.db[j]] # "free" /\ s.eid[s.db[j]] = j
          BY <4>1, CachedEntry, Zenon
        <4>3. PICK x \in Mces : x = s.db[j]
          BY <4>2, Zenon
        <4>4. r.status[x] = s.status[x] /\ r.eid[x] = s.eid[x]
          BY <3>1, <4>1, <4>3, Zenon
        <4> QED
          BY <4>1, <4>2, <4>3, <4>4, Zenon
      <3> QED
        BY <3>3, <3>4, <3>5, <3>6, <3>7, Zenon DEF PointersValid
    <2>5. PlaceholdersCached(r)
      <3>1. \A x \in Mces : r.status[x] = "NOT_ACTIVE" =>
                x # d /\ s.status[x] = "NOT_ACTIVE" /\ r.eid[x] = s.eid[x]
        BY <1>1, <2>1, <2>2 DEF Removed, Valid, XtrType
      <3>2. \A x \in Mces : s.status[x] = "NOT_ACTIVE" => s.eid[x] \in Eids /\ s.db[s.eid[x]] = x
        BY DEF Valid, PointersValid, PlaceholdersCached
      <3>3. \A j \in Eids : r.db[j] = s.db[j] \/ s.db[j] = d
        BY <1>1, <2>1, <2>2 DEF Removed, Valid, XtrType
      <3> QED
        BY <3>1, <3>2, <3>3, Zenon DEF PlaceholdersCached
    <2> QED
      BY <1>1, <2>2, <2>4, <2>5 DEF Removed, Valid
  <1> QED
    BY <1>2, <1>3

\* A request of an allocated timer that sends: its nonce is recorded and the
\* timer started again.
LEMMA SendAndRestartValid ==
    ASSUME NEW s, Valid(s), NEW t \in Timers, NEW n \in Nonces,
           s.type[t] \in TimerTypes \ {"EXPIRE_MAP_CACHE"}
    PROVE  Valid(SendAndRestart(s, t, n))
  <1> DEFINE r == SendAndRestart(s, t, n)
  <1>1. s \in XtrType
    BY DEF Valid
  <1>2. /\ r \in XtrType
        /\ r.db = s.db /\ r.status = s.status /\ r.eid = s.eid /\ r.locator = s.locator
        /\ r.type = s.type /\ r.mce = s.mce
        /\ r.armed = s.armed \cup {t}
        /\ r.nonces = [s.nonces EXCEPT ![n] = t]
    BY <1>1, Zenon DEF XtrType, SendAndRestart, lmtimer_start
  <1> HIDE DEF r
  <1>3. PointersValid(r)
    BY <1>1, <1>2 DEF Valid, PointersValid, XtrType, TimerTypes
  <1>4. PlaceholdersCached(r)
    BY <1>2 DEF Valid, PlaceholdersCached
  <1> QED
    BY <1>2, <1>3, <1>4 DEF Valid, r

\* Arming or disarming an allocated timer.
LEMMA ArmValid ==
    ASSUME NEW s, Valid(s), NEW A \in SUBSET Timers, \A t \in A : s.type[t] # "free"
    PROVE  Valid([s EXCEPT !.armed = A])
  BY DEF Valid, XtrType, PointersValid, PlaceholdersCached

\* The state of a locator is no pointer.
LEMMA LocatorValid ==
    ASSUME NEW s, Valid(s), NEW e \in Mces, NEW l \in {"none", "UP", "DOWN"}
    PROVE  /\ Valid([s EXCEPT !.locator[e] = l])
           /\ [s EXCEPT !.locator[e] = l].status = s.status
           /\ [s EXCEPT !.locator[e] = l].type = s.type
  <1> DEFINE r == [s EXCEPT !.locator[e] = l]
  <1>1. s \in XtrType /\ PointersValid(s) /\ PlaceholdersCached(s)
    BY DEF Valid
  <1>2. /\ r \in XtrType
        /\ r.db = s.db /\ r.status = s.status /\ r.eid = s.eid /\ r.type = s.type
        /\ r.mce = s.mce /\ r.armed = s.armed /\ r.nonces = s.nonces
    BY <1>1 DEF XtrType
  <1> HIDE DEF r
  <1>3. PointersValid(r)
    BY <1>1, <1>2, ZenonT(40) DEF PointersValid
  <1>4. PlaceholdersCached(r)
    BY <1>1, <1>2, Zenon DEF PlaceholdersCached
  <1>5. Valid(r)
    BY <1>2, <1>3, <1>4 DEF Valid
  <1> QED
    BY <1>2, <1>5 DEF r

\* program_rloc_probing and program_mce_rloc_probing for an allocated entry.
LEMMA ProbingValid ==
    ASSUME NEW s, Valid(s), NEW e \in Mces, s.status[e] # "free", NEW t \in FreeTimers(s)
    PROVE  /\ Valid(program_rloc_probing(s, e, t))
           /\ Valid(program_mce_rloc_probing(s, e, t))
  <1> DEFINE T == {v \in TimersOf(s, e) : s.type[v] = "RLOC_PROBING"}
             w == StopTimers(s, T)
  <1>1. Valid(program_rloc_probing(s, e, t))
    BY NewTimerValid DEF program_rloc_probing, TimerTypes
  <1>2. T \in SUBSET Timers
    BY DEF TimersOf
  <1>3. Valid(w)
    BY <1>2, StopTimersValid
  <1>4. w.status = s.status /\ w.type = [v \in Timers |-> IF v \in T THEN "free" ELSE s.type[v]]
    BY <1>2, StopTimersFields, Zenon DEF Valid
  <1>5. t \in FreeTimers(w)
    BY <1>4 DEF FreeTimers
  <1>6. Valid(program_rloc_probing(w, e, t))
    <2> HIDE DEF w
    <2> QED
      BY <1>3, <1>4, <1>5, NewTimerValid DEF program_rloc_probing, TimerTypes
  <1> QED
    BY <1>1, <1>3, <1>6 DEF program_mce_rloc_probing, stop_timers_of_type_from_obj

\* The timers of a new or refreshed entry.
LEMMA EntryTimersValid ==
    ASSUME NEW s, Valid(s), NEW e \in Mces, s.status[e] # "free",
           NEW te \in FreeTimers(s), NEW tp \in FreeTimers(s) \ {te}
    PROVE  Valid(program_mce_rloc_probing(mc_entry_start_expiration_timer(s, e, te), e, tp))
  <1> DEFINE r == mc_entry_start_expiration_timer(s, e, te)
  <1>1. Valid(r)
    BY NewTimerValid DEF mc_entry_start_expiration_timer, TimerTypes
  <1>2. r.status = s.status /\ tp \in FreeTimers(r)
    BY DEF Valid, XtrType, mc_entry_start_expiration_timer, lmtimer_start, NewTimer, FreeTimers
  <1> HIDE DEF r
  <1>3. Valid(program_mce_rloc_probing(r, e, tp))
    BY <1>1, <1>2, ProbingValid
  <1> QED
    BY <1>3 DEF r

\* A new entry for EID k is installed under k, or left out of the cache when
\* there is one already.  A placeholder needs a free place.
LEMMA NewEntryValid ==
    ASSUME NEW s, Valid(s), NEW e \in FreeMces(s), NEW k \in Eids,
           NEW st \in {"ACTIVE", "NOT_ACTIVE"}, NEW l \in {"none", "UP"},
           st = "NOT_ACTIVE" => s.db[k] = NULL
    PROVE  /\ Valid(NewEntry(s, e, st, k, l))
           /\ NewEntry(s, e, st, k, l).status[e] = st
           /\ NewEntry(s, e, st, k, l).type = s.type
  <1> DEFINE new == [s EXCEPT !.status[e] = st, !.eid[e] = k, !.locator[e] = l]
             r == NewEntry(s, e, st, k, l)
  <1>1. s \in XtrType /\ e \in Mces /\ s.status[e] = "free"
    BY DEF Valid, FreeMces
  <1>2. /\ new \in XtrType
        /\ new.db = s.db
        /\ new.status = [s.status EXCEPT ![e] = st]
        /\ new.eid = [s.eid EXCEPT ![e] = k]
        /\ new.type = s.type /\ new.mce = s.mce /\ new.armed = s.armed /\ new.nonces = s.nonces
    BY <1>1, Zenon DEF XtrType
  <1> HIDE DEF new
  <1>3. r = mcache_add_entry(new, k, e)
    BY DEF NewEntry, new
  <1> HIDE DEF r
  <1>4. /\ r \in XtrType
        /\ r.db = IF s.db[k] = NULL THEN [s.db EXCEPT ![k] = e] ELSE s.db
        /\ r.status = [s.status EXCEPT ![e] = st]
        /\ r.eid = [s.eid EXCEPT ![e] = k]
        /\ r.type = s.type /\ r.mce = s.mce /\ r.armed = s.armed /\ r.nonces = s.nonces
    BY <1>1, <1>2, <1>3, Zenon DEF XtrType, mcache_add_entry
  <1>5. \A j \in Eids : s.db[j] # e
    BY <1>1, MapCacheAssumption DEF Valid, PointersValid
  <1>6. PointersValid(r)
    <2>1. PointersValid(s)
      BY DEF Valid
    <2>2. \A x \in Mces : /\ r.status[x] = IF x = e THEN st ELSE s.status[x]
                          /\ r.eid[x] = IF x = e THEN k ELSE s.eid[x]
      BY <1>1, <1>4, XtrFields, Zenon
    <2>3. \A j \in Eids : r.db[j] # NULL =>
              \/ r.db[j] = s.db[j] /\ s.db[j] # NULL
              \/ j = k /\ r.db[j] = e
      BY <1>1, <1>4, XtrFields, Zenon
    <2>4. st # "free"
      OBVIOUS
    <2>5. \A v \in Timers : r.type[v] # "free" => r.mce[v] \in Mces /\ r.status[r.mce[v]] # "free"
      <3> SUFFICES ASSUME NEW v \in Timers, r.type[v] # "free"
                   PROVE  r.mce[v] \in Mces /\ r.status[r.mce[v]] # "free"
        BY Zenon
      <3>1. r.type[v] = s.type[v] /\ r.mce[v] = s.mce[v]
        BY <1>4, Zenon
      <3>2. s.mce[v] \in Mces /\ s.status[s.mce[v]] # "free"
        BY <3>1, TimerEntry, Zenon
      <3> QED
        BY <2>2, <2>4, <3>1, <3>2, Zenon
    <2>6. \A n \in Nonces : r.nonces[n] # NULL =>
              r.type[r.nonces[n]] \in TimerTypes \ {"EXPIRE_MAP_CACHE"}
      BY <1>4, <2>1, Zenon DEF PointersValid
    <2>7. \A v \in r.armed : r.type[v] # "free"
      BY <1>4, <2>1, Zenon DEF PointersValid
    <2>8. \A x \in Mces : r.status[x] # "free" => r.eid[x] \in Eids
      BY <2>1, <2>2, Zenon DEF PointersValid
    <2>9. ASSUME NEW j \in Eids, r.db[j] # NULL
          PROVE  r.status[r.db[j]] # "free" /\ r.eid[r.db[j]] = j
      <3>1. CASE j = k /\ r.db[j] = e
        BY <1>1, <2>2, <2>4, <3>1, Zenon
      <3>2. CASE r.db[j] = s.db[j] /\ s.db[j] # NULL
        <4>1. s.db[j] \in Mces /\ s.status[s.db[j]] # "free" /\ s.eid[s.db[j]] = j
          BY <3>2, CachedEntry, Zenon
        <4>2. s.db[j] # e
          BY <1>5, Zenon
        <4> QED
          BY <2>2, <3>2, <4>1, <4>2, Zenon
      <3> QED
        BY <2>3, <2>9, <3>1, <3>2, Zenon
    <2> QED
      BY <2>5, <2>6, <2>7, <2>8, <2>9, Zenon DEF PointersValid
  <1>7. PlaceholdersCached(r)
    BY <1>1, <1>4, <1>5, MapCacheAssumption DEF Valid, PointersValid, PlaceholdersCached, XtrType
  <1>8. r.status[e] = st
    BY <1>1, <1>4 DEF XtrType
  <1>9. Valid(r)
    BY <1>4, <1>6, <1>7 DEF Valid
  <1> QED
    BY <1>4, <1>8, <1>9 DEF r

\* tr_mcache_add_mapping.
\* The entry of a mapping, and the placeholder of a miss.
Added(s, r, e, st) == Valid(r) /\ r.status[e] = st /\ r.type = s.type

LEMMA NewActive ==
    ASSUME NEW s, Valid(s), NEW e \in FreeMces(s), NEW k \in Eids, NEW l \in {"none", "UP"}
    PROVE  Added(s, NewEntry(s, e, "ACTIVE", k, l), e, "ACTIVE")
  BY NewEntryValid DEF Added

LEMMA NewPlaceholder ==
    ASSUME NEW s, Valid(s), NEW e \in FreeMces(s), NEW k \in Eids, s.db[k] = NULL
    PROVE  Added(s, NewEntry(s, e, "NOT_ACTIVE", k, "none"), e, "NOT_ACTIVE")
  BY NewEntryValid DEF Added

LEMMA AddMappingValid ==
    ASSUME NEW s, Valid(s), NEW rec \in Records, NEW e \in FreeMces(s),
           NEW te \in FreeTimers(s), NEW tp \in FreeTimers(s) \ {te}
    PROVE  Valid(tr_mcache_add_mapping(s, rec, e, te, tp))
  <1> DEFINE r == NewEntry(s, e, "ACTIVE", rec.eid, rec.locator)
  <1>1. rec.eid \in Eids /\ rec.locator \in {"none", "UP"} /\ e \in Mces
    BY DEF Records, FreeMces
  <1>2. Valid(r) /\ r.status[e] = "ACTIVE" /\ r.type = s.type
    BY <1>1, NewActive, Zenon DEF Added
  <1>3. te \in FreeTimers(r) /\ tp \in FreeTimers(r) \ {te}
    BY <1>2 DEF FreeTimers
  <1> HIDE DEF r
  <1>4. Valid(program_mce_rloc_probing(mc_entry_start_expiration_timer(r, e, te), e, tp))
    BY <1>1, <1>2, <1>3, EntryTimersValid
  <1> QED
    BY <1>4 DEF tr_mcache_add_mapping, r

\* update_mcache_entry.
LEMMA UpdateEntryValid ==
    ASSUME NEW s, Valid(s), NEW rec \in Records,
           NEW te \in FreeTimers(s), NEW tp \in FreeTimers(s) \ {te}
    PROVE  Valid(update_mcache_entry(s, rec, te, tp))
  <1> DEFINE e == s.db[rec.eid]
             r == [s EXCEPT !.locator[e] = rec.locator]
  <1>1. rec.eid \in Eids /\ rec.locator \in {"none", "UP", "DOWN"}
    BY DEF Records
  <1>2. CASE e = NULL
    BY <1>2 DEF update_mcache_entry
  <1>3. CASE e # NULL
    <2>1. e \in Mces /\ s.status[e] # "free"
      BY <1>1, <1>3 DEF Valid, PointersValid, XtrType
    <2>2. Valid(r) /\ r.status = s.status /\ r.type = s.type
      BY <1>1, <2>1, LocatorValid, Zenon
    <2>3. te \in FreeTimers(r) /\ tp \in FreeTimers(r) \ {te}
      BY <2>2 DEF FreeTimers
    <2> HIDE DEF r
    <2>4. Valid(program_mce_rloc_probing(mc_entry_start_expiration_timer(r, e, te), e, tp))
      BY <2>1, <2>2, <2>3, EntryTimersValid
    <2> QED
      BY <1>3, <2>4 DEF update_mcache_entry, r
  <1> QED
    BY <1>2, <1>3

\* The callback of a retry timer that the wheel has unlinked.
LEMMA RetryOrRemoveValid ==
    ASSUME NEW s, Valid(s), NEW t \in Timers, NEW max,
           s.type[t] \in {"MAP_REQUEST_RETRY", "SMR_INV_RETRY"},
           TypeOK, RetryOrRemove(s, t, max)
    PROVE  Valid(xtr') /\ net' \subseteq Requests
  <1>1. s.mce[t] \in Mces /\ s.status[s.mce[t]] # "free" /\ s.eid[s.mce[t]] \in Eids
    BY DEF Valid, PointersValid, XtrType
  <1>2. ASSUME NEW n \in FreshNonces(s), xtr' = SendAndRestart(s, t, n),
               net' = net \cup {Request(n, s.eid[s.mce[t]], FALSE)}
        PROVE  Valid(xtr') /\ net' \subseteq Requests
    <2>1. n \in Nonces
      BY DEF FreshNonces
    <2>2. Valid(xtr')
      BY <1>2, <2>1, SendAndRestartValid DEF TimerTypes
    <2>3. Request(n, s.eid[s.mce[t]], FALSE) \in Requests
      BY <1>1, <2>1 DEF Request, Requests
    <2>4. net' \subseteq Requests
      BY <1>2, <2>3, Zenon DEF TypeOK
    <2> QED
      BY <2>2, <2>4
  <1>3. CASE xtr' = s /\ net' = net
    BY <1>3 DEF TypeOK
  <1>4. CASE xtr' = tr_mcache_remove_entry(s, s.mce[t]) /\ net' = net
    BY <1>1, <1>4, RemoveEntryValid DEF TypeOK
  <1> QED
    BY <1>2, <1>3, <1>4, Zenon DEF RetryOrRemove

-----------------------------------------------------------------------------

\* The invariant of the specification.
Inv == TypeOK /\ Valid(xtr)

\* The router starts with an empty cache.
LEMMA InvInit == Init => Inv
  BY MapCacheAssumption
     DEF Init, Inv, Valid, TypeOK, XtrType, PointersValid, PlaceholdersCached

\* A timer that fires is allocated, and unlinking it keeps the state valid.
LEMMA UnlinkValid ==
    ASSUME Inv, NEW t \in Timers, NEW type \in TimerTypes, Fired(t, type)
    PROVE  /\ Valid(Unlink(t))
           /\ Unlink(t).type[t] = type
           /\ Unlink(t).type = xtr.type /\ Unlink(t).mce = xtr.mce
           /\ Unlink(t).status = xtr.status
  <1>1. xtr.armed \ {t} \in SUBSET Timers /\ \A v \in xtr.armed \ {t} : xtr.type[v] # "free"
    BY DEF Inv, Valid, PointersValid, XtrType
  <1>2. Unlink(t) = [xtr EXCEPT !.armed = xtr.armed \ {t}]
    BY DEF Unlink
  <1>3. Valid(Unlink(t))
    <2>1. Valid(xtr)
      BY DEF Inv
    <2>2. PICK A \in SUBSET Timers : A = xtr.armed \ {t}
      BY <1>1, Zenon
    <2>3. \A v \in A : xtr.type[v] # "free"
      BY <1>1, <2>2
    <2>4. Valid([xtr EXCEPT !.armed = A])
      BY <2>1, <2>3, ArmValid
    <2> QED
      BY <1>2, <2>2, <2>4
  <1> QED
    BY <1>2, <1>3 DEF Inv, Valid, XtrType, Fired

\* Every step keeps the invariant.
LEMMA InvStep == Inv /\ [Next]_vars => Inv'
  <1> SUFFICES ASSUME Inv, [Next]_vars PROVE Inv'
    OBVIOUS
  <1> USE MapCacheAssumption
  <1>a. ASSUME Valid(xtr'), net' \subseteq Requests, online' \in BOOLEAN PROVE Inv'
    BY <1>a DEF Inv, Valid, TypeOK
  <1>b. Valid(xtr) /\ TypeOK /\ net \subseteq Requests /\ online \in BOOLEAN
    BY DEF Inv, TypeOK
  <1>1. ASSUME NEW h \in Hosts, handle_map_cache_miss(h) PROVE Inv'
    <2>1. xtr.db[h] = NULL /\ h \in Eids
      BY <1>1 DEF handle_map_cache_miss, mcache_lookup, Eids
    <2>2. PICK e \in FreeMces(xtr), t \in FreeTimers(xtr) :
            RetryOrRemove(NewTimer(NewEntry(xtr, e, "NOT_ACTIVE", h, "none"), t,
                                   "MAP_REQUEST_RETRY", e),
                          t, map_request_retries)
      BY <1>1 DEF handle_map_cache_miss
    <2>3. PICK s : s = NewEntry(xtr, e, "NOT_ACTIVE", h, "none")
      OBVIOUS
    <2>4. Valid(s) /\ s.status[e] = "NOT_ACTIVE" /\ s.type = xtr.type
      BY <1>b, <2>1, <2>3, NewPlaceholder, Zenon DEF Added
    <2>5. e \in Mces /\ t \in Timers /\ t \in FreeTimers(s)
      BY <2>4 DEF FreeMces, FreeTimers
    <2>6. PICK r : r = NewTimer(s, t, "MAP_REQUEST_RETRY", e)
      OBVIOUS
    <2>7. Valid(r)
      BY <2>4, <2>5, <2>6, NewTimerValid DEF TimerTypes
    <2>8. r.type[t] = "MAP_REQUEST_RETRY"
      BY <2>4, <2>5, <2>6 DEF NewTimer, Valid, XtrType
    <2>9. RetryOrRemove(r, t, map_request_retries)
      BY <2>2, <2>3, <2>6
    <2>10. Valid(xtr') /\ net' \subseteq Requests
      BY <1>b, <2>5, <2>7, <2>8, <2>9, RetryOrRemoveValid
    <2> QED
      BY <1>1, <1>a, <1>b, <2>10 DEF handle_map_cache_miss
  <1>2. ASSUME NEW k \in Eids, tr_reply_to_smr(k) PROVE Inv'
    <2>1. PICK e : e = mcache_lookup(xtr, k)
      OBVIOUS
    <2>2. e \in Mces /\ xtr.status[e] # "free"
      <3>1. mcache_lookup(xtr, k) # NULL
        BY <1>2, Zenon DEF tr_reply_to_smr
      <3> QED
        BY <1>b, <2>1, <3>1, FoundEntry, Zenon
    <2>3. PICK t \in FreeTimers(xtr) :
            RetryOrRemove(NewTimer(xtr, t, "SMR_INV_RETRY", e), t, LISPD_MAX_SMR_RETRANSMIT)
      BY <1>2, <2>1 DEF tr_reply_to_smr
    <2>4. PICK r : r = NewTimer(xtr, t, "SMR_INV_RETRY", e)
      OBVIOUS
    <2>5. Valid(r) /\ t \in Timers
      BY <1>b, <2>2, <2>4, NewTimerValid DEF TimerTypes, FreeTimers
    <2>6. r.type[t] = "SMR_INV_RETRY"
      BY <1>b, <2>4, <2>5 DEF NewTimer, Valid, XtrType
    <2>7. RetryOrRemove(r, t, LISPD_MAX_SMR_RETRANSMIT)
      BY <2>3, <2>4
    <2>8. Valid(xtr') /\ net' \subseteq Requests
      BY <1>b, <2>5, <2>6, <2>7, RetryOrRemoveValid
    <2> QED
      BY <1>2, <1>a, <1>b, <2>8 DEF tr_reply_to_smr
  <1>3. ASSUME NEW t \in Timers, send_map_request_retry_cb(t) PROVE Inv'
    <2>1. Valid(Unlink(t)) /\ Unlink(t).type[t] = "MAP_REQUEST_RETRY"
      BY <1>3, UnlinkValid DEF send_map_request_retry_cb, TimerTypes
    <2>2. PICK s : s = Unlink(t)
      OBVIOUS
    <2>3. RetryOrRemove(s, t, map_request_retries)
      BY <1>3, <2>2 DEF send_map_request_retry_cb
    <2>4. Valid(xtr') /\ net' \subseteq Requests
      BY <1>b, <2>1, <2>2, <2>3, RetryOrRemoveValid
    <2> QED
      BY <1>3, <1>a, <1>b, <2>4 DEF send_map_request_retry_cb
  <1>4. ASSUME NEW t \in Timers, smr_invoked_map_request_cb(t) PROVE Inv'
    <2>1. Valid(Unlink(t)) /\ Unlink(t).type[t] = "SMR_INV_RETRY"
      BY <1>4, UnlinkValid DEF smr_invoked_map_request_cb, TimerTypes
    <2>2. PICK s : s = Unlink(t)
      OBVIOUS
    <2>3. RetryOrRemove(s, t, LISPD_MAX_SMR_RETRANSMIT)
      BY <1>4, <2>2 DEF smr_invoked_map_request_cb
    <2>4. Valid(xtr') /\ net' \subseteq Requests
      BY <1>b, <2>1, <2>2, <2>3, RetryOrRemoveValid
    <2> QED
      BY <1>4, <1>a, <1>b, <2>4 DEF smr_invoked_map_request_cb
  <1>5. ASSUME NEW t \in Timers, mc_entry_expiration_timer_cb(t) PROVE Inv'
    <2>1. Valid(Unlink(t)) /\ Unlink(t).status = xtr.status
      BY <1>5, UnlinkValid DEF mc_entry_expiration_timer_cb, TimerTypes
    <2>2. xtr.mce[t] \in Mces /\ xtr.status[xtr.mce[t]] # "free"
      BY <1>5, <1>b DEF mc_entry_expiration_timer_cb, Fired, Valid, PointersValid
    <2>3. Valid(tr_mcache_remove_entry(Unlink(t), xtr.mce[t]))
      BY <2>1, <2>2, RemoveEntryValid
    <2> QED
      BY <1>5, <1>a, <1>b, <2>3 DEF mc_entry_expiration_timer_cb
  <1>6. ASSUME NEW t \in Timers, rloc_probing_cb(t) PROVE Inv'
    <2>1. PICK s : s = Unlink(t)
      OBVIOUS
    <2>2. Valid(s) /\ s.type[t] = "RLOC_PROBING"
      BY <1>6, <2>1, UnlinkValid, Zenon DEF rloc_probing_cb, TimerTypes
    <2>3. PICK e : e = s.mce[t]
      OBVIOUS
    <2>4. e \in Mces /\ s.status[e] # "free" /\ s.eid[e] \in Eids
      BY <2>2, <2>3 DEF Valid, PointersValid
    <2>5. PICK q : q = htable_nonces_reset_nonces_lst(s, {t})
      OBVIOUS
    <2>6. Valid(q) /\ q.type = s.type
      <3>1. Valid(q)
        BY <2>2, <2>5, ResetNoncesValid
      <3>2. q.type = s.type
        BY <2>2, <2>5 DEF htable_nonces_reset_nonces_lst, Valid, XtrType
      <3> QED
        BY <3>1, <3>2
    <2>7. PICK r : r = lmtimer_start(q, t)
      OBVIOUS
    <2>8. Valid(r)
      <3>1. q.armed \cup {t} \in SUBSET Timers /\ \A v \in q.armed \cup {t} : q.type[v] # "free"
        BY <2>2, <2>6 DEF Valid, PointersValid, XtrType
      <3>2. r = [q EXCEPT !.armed = q.armed \cup {t}]
        BY <2>7 DEF lmtimer_start
      <3> QED
        BY <2>6, <3>1, <3>2, ArmValid
    <2>9. \/ \E n \in FreshNonces(s) : /\ xtr' = SendAndRestart(s, t, n)
                                       /\ net' = net \cup {Request(n, s.eid[e], TRUE)}
          \/ xtr' = s /\ net' = net
          \/ xtr' = [s EXCEPT !.locator[e] = "DOWN"] /\ net' = net
          \/ xtr' = [r EXCEPT !.locator[e] = "DOWN"] /\ net' = net
          \/ xtr' = r /\ net' = net
      BY <1>6, <2>1, <2>3, <2>5, <2>7, Zenon DEF rloc_probing_cb
    <2>10. ASSUME NEW n \in FreshNonces(s), xtr' = SendAndRestart(s, t, n),
                  net' = net \cup {Request(n, s.eid[e], TRUE)}
           PROVE  Valid(xtr') /\ net' \subseteq Requests
      <3>1. n \in Nonces
        BY DEF FreshNonces
      <3>2. Valid(xtr')
        BY <2>2, <2>10, <3>1, SendAndRestartValid DEF TimerTypes
      <3>3. Request(n, s.eid[e], TRUE) \in Requests
        BY <2>4, <3>1 DEF Request, Requests
      <3>4. net' \subseteq Requests
        BY <1>b, <2>10, <3>3, Zenon
      <3> QED
        BY <3>2, <3>4
    <2>11. Valid([s EXCEPT !.locator[e] = "DOWN"]) /\ Valid([r EXCEPT !.locator[e] = "DOWN"])
      BY <2>2, <2>4, <2>8, LocatorValid, Zenon
    <2>12. Valid(xtr') /\ net' \subseteq Requests
      BY <1>b, <2>2, <2>8, <2>9, <2>10, <2>11, Zenon
    <2> QED
      BY <1>6, <1>a, <1>b, <2>12, Zenon DEF rloc_probing_cb
  <1>7. ASSUME NEW m \in net, NEW rec \in Answers(m.eid), tr_recv_map_reply(m, rec) PROVE Inv'
    <2>1. PICK t : t = xtr.nonces[m.nonce]
      OBVIOUS
    <2>2. PICK e : e = xtr.mce[t]
      OBVIOUS
    <2>3. m.nonce \in Nonces /\ rec \in Records
      BY <1>b DEF Requests, Answers
    <2>4. t \in Timers /\ xtr.type[t] # "free"
      <3>1. t # NULL
        BY <1>7, <2>1, Zenon DEF tr_recv_map_reply
      <3> QED
        BY <1>b, <2>1, <2>3, <3>1, NonceTimer, Zenon
    <2>5. e \in Mces /\ xtr.status[e] # "free"
      BY <1>b, <2>2, <2>4 DEF Valid, PointersValid
    <2>6. PICK s : s = tr_mcache_remove_entry(xtr, e)
      OBVIOUS
    <2>7. Valid(s)
      BY <1>b, <2>5, <2>6, RemoveEntryValid
    <2>8. \/ xtr' = s
          \/ \E f \in FreeMces(s), te \in FreeTimers(s) : \E tp \in FreeTimers(s) \ {te} :
                xtr' = tr_mcache_add_mapping(s, rec, f, te, tp)
          \/ xtr' = xtr
          \/ \E te \in FreeTimers(xtr) : \E tp \in FreeTimers(xtr) \ {te} :
                xtr' = StopTimers(update_mcache_entry(xtr, rec, te, tp), {t})
      BY <1>7, <2>1, <2>2, <2>6, Zenon DEF tr_recv_map_reply
    <2>9. ASSUME NEW f \in FreeMces(s), NEW te \in FreeTimers(s), NEW tp \in FreeTimers(s) \ {te}
          PROVE  Valid(tr_mcache_add_mapping(s, rec, f, te, tp))
      BY <2>3, <2>7, AddMappingValid
    <2>10. ASSUME NEW te \in FreeTimers(xtr), NEW tp \in FreeTimers(xtr) \ {te}
           PROVE  Valid(StopTimers(update_mcache_entry(xtr, rec, te, tp), {t}))
      <3>1. PICK u : u = update_mcache_entry(xtr, rec, te, tp)
        OBVIOUS
      <3>2. Valid(u)
        BY <1>b, <2>3, <3>1, UpdateEntryValid
      <3>3. Valid(StopTimers(u, {t}))
        BY <2>4, <3>2, StopTimersValid
      <3> QED
        BY <3>1, <3>3
    <2>11. Valid(xtr')
      <3>1. CASE \E f \in FreeMces(s), te \in FreeTimers(s) : \E tp \in FreeTimers(s) \ {te} :
                    xtr' = tr_mcache_add_mapping(s, rec, f, te, tp)
        <4>1. PICK f \in FreeMces(s), te \in FreeTimers(s) : \E tp \in FreeTimers(s) \ {te} :
                    xtr' = tr_mcache_add_mapping(s, rec, f, te, tp)
          BY <3>1, Zenon
        <4>2. PICK tp \in FreeTimers(s) \ {te} : xtr' = tr_mcache_add_mapping(s, rec, f, te, tp)
          BY <4>1, Zenon
        <4>3. Valid(tr_mcache_add_mapping(s, rec, f, te, tp))
          BY <2>9, Zenon
        <4> QED
          BY <4>2, <4>3, Zenon
      <3>2. CASE \E te \in FreeTimers(xtr) : \E tp \in FreeTimers(xtr) \ {te} :
                    xtr' = StopTimers(update_mcache_entry(xtr, rec, te, tp), {t})
        <4>1. PICK te \in FreeTimers(xtr) : \E tp \in FreeTimers(xtr) \ {te} :
                    xtr' = StopTimers(update_mcache_entry(xtr, rec, te, tp), {t})
          BY <3>2, Zenon
        <4>2. PICK tp \in FreeTimers(xtr) \ {te} :
                    xtr' = StopTimers(update_mcache_entry(xtr, rec, te, tp), {t})
          BY <4>1, Zenon
        <4>3. Valid(StopTimers(update_mcache_entry(xtr, rec, te, tp), {t}))
          BY <2>10, Zenon
        <4> QED
          BY <4>2, <4>3, Zenon
      <3>3. CASE xtr' = s \/ xtr' = xtr
        BY <1>b, <2>7, <3>3, Zenon
      <3> QED
        BY <2>8, <3>1, <3>2, <3>3, Zenon
    <2> QED
      BY <1>7, <1>a, <1>b, <2>11, Zenon DEF tr_recv_map_reply
  <1>8. ASSUME NEW m \in net, NEW rec \in ProbeAnswers(m.eid), tr_recv_map_reply_probe(m, rec)
        PROVE  Inv'
    <2>1. PICK t : t = xtr.nonces[m.nonce]
      OBVIOUS
    <2>2. PICK e : e = xtr.db[rec.eid]
      OBVIOUS
    <2>3. m.nonce \in Nonces /\ rec.eid \in Eids
      BY <1>b DEF Requests, ProbeAnswers, Records
    <2>4. t \in Timers
      BY <1>8, <1>b, <2>1, <2>3 DEF tr_recv_map_reply_probe, Valid, XtrType
    <2>5. e # NULL => e \in Mces /\ xtr.status[e] # "free"
      BY <1>b, <2>2, <2>3, CachedEntry, Zenon
    <2>6. \/ xtr' = xtr
          \/ xtr' = StopTimers(xtr, {t})
          \/ /\ e # NULL
             /\ \E tp \in FreeTimers(xtr) :
                  xtr' = StopTimers(program_rloc_probing([xtr EXCEPT !.locator[e] = "UP"], e, tp),
                                    {t})
      BY <1>8, <2>1, <2>2, Zenon DEF tr_recv_map_reply_probe
    <2>7. Valid(StopTimers(xtr, {t}))
      BY <1>b, <2>4, StopTimersValid
    <2>8. ASSUME e # NULL, NEW tp \in FreeTimers(xtr)
          PROVE  Valid(StopTimers(program_rloc_probing([xtr EXCEPT !.locator[e] = "UP"], e, tp), {t}))
      <3>1. PICK u : u = [xtr EXCEPT !.locator[e] = "UP"]
        BY Zenon
      <3>2. Valid(u) /\ u.status = xtr.status /\ u.type = xtr.type
        BY <1>b, <2>5, <2>8, <3>1, LocatorValid, Zenon
      <3>3. tp \in FreeTimers(u)
        BY <2>8, <3>2 DEF FreeTimers
      <3>4. PICK v : v = program_rloc_probing(u, e, tp)
        OBVIOUS
      <3>5. Valid(v)
        BY <2>5, <2>8, <3>2, <3>3, <3>4, ProbingValid
      <3>6. Valid(StopTimers(v, {t}))
        BY <2>4, <3>5, StopTimersValid
      <3> QED
        BY <3>1, <3>4, <3>6
    <2>9. Valid(xtr')
      BY <1>b, <2>6, <2>7, <2>8, Zenon
    <2> QED
      BY <1>8, <1>a, <1>b, <2>9 DEF tr_recv_map_reply_probe
  <1>9. ASSUME NEW m \in net, Lose(m) PROVE Inv'
    BY <1>9 DEF Lose, Inv, TypeOK
  <1>10. CASE LoseRlocs \/ RecoverRlocs
    BY <1>10, Zenon DEF LoseRlocs, RecoverRlocs, Inv, TypeOK
  <1>11. CASE UNCHANGED vars
    BY <1>11 DEF vars, Inv, TypeOK
  <1> QED
    BY <1>1, <1>2, <1>3, <1>4, <1>5, <1>6, <1>7, <1>8, <1>9, <1>10, <1>11
       DEF Next, TimerFires

\* The router, the network and the availability of RLOCs keep their types,
\* for any number of hosts, entries, timers, nonces and retries.
THEOREM TypeCorrect == Spec => []TypeOK
  <1>1. Inv => TypeOK
    BY DEF Inv
  <1> QED
    BY <1>1, InvInit, InvStep, PTL DEF Spec

\* No callback of a timer and no reply ever follows a pointer to a freed
\* entry or timer, in any interleaving of misses, SMRs, replies, losses,
\* expirations and outages.
THEOREM PointersStayValid == Spec => []NoDanglingPointers
  <1>1. Inv => NoDanglingPointers
    BY DEF Inv, Valid, NoDanglingPointers
  <1> QED
    BY <1>1, InvInit, InvStep, PTL DEF Spec

\* Removing a placeholder by its EID removes that placeholder.
THEOREM PlaceholdersStayCached == Spec => []PlaceholdersAreCached
  <1>1. Inv => PlaceholdersAreCached
    BY DEF Inv, Valid, PlaceholdersAreCached
  <1> QED
    BY <1>1, InvInit, InvStep, PTL DEF Spec

-----------------------------------------------------------------------------
(* Replies are accepted once.                                              *)

\* From s to r no nonce is recorded or moved to another timer.
OnlyForgets(s, r) == \A n \in Nonces : r.nonces[n] \in {s.nonces[n], NULL}

\* Creating timers records no nonce (program_rloc_probing,
\* mc_entry_start_expiration_timer), and stopping them only forgets some.
LEMMA TimersOnlyForget ==
    ASSUME NEW s, Valid(s), NEW e, NEW t
    PROVE  /\ program_rloc_probing(s, e, t).nonces = s.nonces
           /\ mc_entry_start_expiration_timer(s, e, t).nonces = s.nonces
           /\ OnlyForgets(s, program_mce_rloc_probing(s, e, t))
  <1> DEFINE T == {v \in TimersOf(s, e) : s.type[v] = "RLOC_PROBING"}
             w == StopTimers(s, T)
  <1>1. ASSUME NEW r \in XtrType
        PROVE  /\ program_rloc_probing(r, e, t).nonces = r.nonces
               /\ mc_entry_start_expiration_timer(r, e, t).nonces = r.nonces
    BY DEF XtrType, program_rloc_probing, mc_entry_start_expiration_timer, lmtimer_start, NewTimer
  <1>2. s \in XtrType /\ T \in SUBSET Timers
    BY DEF Valid, TimersOf
  <1>3. w \in XtrType /\ w.nonces = [n \in Nonces |-> IF s.nonces[n] \in T THEN NULL ELSE s.nonces[n]]
    BY <1>2, StopTimersFields, Zenon
  <1>4. program_mce_rloc_probing(s, e, t) \in {s, w, program_rloc_probing(w, e, t)}
    BY DEF program_mce_rloc_probing, stop_timers_of_type_from_obj
  <1> HIDE DEF w, T
  <1>5. program_rloc_probing(w, e, t).nonces = w.nonces
    BY <1>1, <1>3
  <1> QED
    BY <1>1, <1>2, <1>3, <1>4, <1>5 DEF OnlyForgets

\* The timers of a new or refreshed entry.
LEMMA EntryTimersOnlyForget ==
    ASSUME NEW s, Valid(s), NEW e \in Mces, s.status[e] # "free",
           NEW te \in FreeTimers(s), NEW tp
    PROVE  OnlyForgets(s, program_mce_rloc_probing(mc_entry_start_expiration_timer(s, e, te), e, tp))
  <1> DEFINE r == mc_entry_start_expiration_timer(s, e, te)
  <1>1. Valid(r)
    BY NewTimerValid DEF mc_entry_start_expiration_timer, TimerTypes
  <1>2. r.nonces = s.nonces
    BY TimersOnlyForget
  <1> HIDE DEF r
  <1>3. OnlyForgets(r, program_mce_rloc_probing(r, e, tp))
    BY <1>1, TimersOnlyForget
  <1>4. OnlyForgets(s, program_mce_rloc_probing(r, e, tp))
    BY <1>2, <1>3 DEF OnlyForgets
  <1> QED
    BY <1>4 DEF r

\* tr_mcache_add_mapping records no nonce.
LEMMA AddMappingOnlyForgets ==
    ASSUME NEW s, Valid(s), NEW rec \in Records, NEW e \in FreeMces(s),
           NEW te \in FreeTimers(s), NEW tp
    PROVE  OnlyForgets(s, tr_mcache_add_mapping(s, rec, e, te, tp))
  <1> DEFINE r == NewEntry(s, e, "ACTIVE", rec.eid, rec.locator)
  <1>1. rec.eid \in Eids /\ rec.locator \in {"none", "UP"} /\ e \in Mces
    BY DEF Records, FreeMces
  <1>2. Valid(r) /\ r.status[e] = "ACTIVE" /\ r.type = s.type
    BY <1>1, NewActive, Zenon DEF Added
  <1>3. r.nonces = s.nonces
    BY DEF NewEntry, mcache_add_entry, Valid, XtrType
  <1>4. te \in FreeTimers(r)
    BY <1>2 DEF FreeTimers
  <1> HIDE DEF r
  <1>5. OnlyForgets(r, program_mce_rloc_probing(mc_entry_start_expiration_timer(r, e, te), e, tp))
    BY <1>1, <1>2, <1>4, EntryTimersOnlyForget
  <1>6. OnlyForgets(s, program_mce_rloc_probing(mc_entry_start_expiration_timer(r, e, te), e, tp))
    BY <1>3, <1>5 DEF OnlyForgets
  <1> QED
    BY <1>6 DEF tr_mcache_add_mapping, r

\* update_mcache_entry records no nonce.
LEMMA UpdateEntryOnlyForgets ==
    ASSUME NEW s, Valid(s), NEW rec \in Records, NEW te \in FreeTimers(s), NEW tp
    PROVE  OnlyForgets(s, update_mcache_entry(s, rec, te, tp))
  <1> DEFINE e == s.db[rec.eid]
             r == [s EXCEPT !.locator[e] = rec.locator]
  <1>1. rec.eid \in Eids /\ rec.locator \in {"none", "UP", "DOWN"}
    BY DEF Records
  <1>2. CASE e = NULL
    BY <1>2 DEF update_mcache_entry, OnlyForgets
  <1>3. CASE e # NULL
    <2>1. e \in Mces /\ s.status[e] # "free"
      BY <1>1, <1>3 DEF Valid, PointersValid, XtrType
    <2>2. Valid(r) /\ r.status = s.status /\ r.type = s.type
      BY <1>1, <2>1, LocatorValid, Zenon
    <2>3. te \in FreeTimers(r)
      BY <2>2 DEF FreeTimers
    <2>4. r.nonces = s.nonces
      BY DEF Valid, XtrType
    <2> HIDE DEF r
    <2>5. OnlyForgets(r, program_mce_rloc_probing(mc_entry_start_expiration_timer(r, e, te), e, tp))
      BY <2>1, <2>2, <2>3, EntryTimersOnlyForget
    <2>6. OnlyForgets(s, program_mce_rloc_probing(mc_entry_start_expiration_timer(r, e, te), e, tp))
      BY <2>4, <2>5 DEF OnlyForgets
    <2> QED
      BY <1>3, <2>6 DEF update_mcache_entry, r
  <1> QED
    BY <1>2, <1>3

\* A timer that is stopped loses its nonces.
LEMMA StoppedHasNoNonce ==
    ASSUME NEW s, NEW u \in XtrType, s.nonces \in [Nonces -> Timers \cup {NULL}],
           OnlyForgets(s, u), NEW t \in Timers
    PROVE  \A n \in Nonces : s.nonces[n] = t => StopTimers(u, {t}).nonces[n] = NULL
  <1>1. PICK T : T = {t}
    BY Zenon
  <1>2. T \in SUBSET Timers
    BY <1>1
  <1>3. StopTimers(u, T).nonces = [n \in Nonces |-> IF u.nonces[n] \in T THEN NULL ELSE u.nonces[n]]
    BY <1>2, StopTimersFields, Zenon
  <1> QED
    BY <1>1, <1>3 DEF OnlyForgets

\* The removal of a placeholder stops its timers, and forgets their nonces: it
\* is the placeholder itself that is found under its EID.
LEMMA RemovedHasNoNonce ==
    ASSUME NEW s, Valid(s), NEW t \in Timers, s.type[t] # "free",
           s.status[s.mce[t]] = "NOT_ACTIVE"
    PROVE  \A n \in Nonces : s.nonces[n] = t =>
                tr_mcache_remove_entry(s, s.mce[t]).nonces[n] = NULL
  <1>1. PICK e : e = s.mce[t]
    OBVIOUS
  <1>2. s \in XtrType /\ e \in Mces /\ s.status[e] # "free" /\ s.db[s.eid[e]] = e /\ e # NULL
    BY <1>1, MapCacheAssumption DEF Valid, PointersValid, PlaceholdersCached
  <1>3. PICK T \in SUBSET Timers : Removed(s, tr_mcache_remove_entry(s, e), s.eid[e], e, T)
    BY <1>2, RemoveEntryFields
  <1>4. T \in SUBSET Timers /\ s.eid[e] \in Eids
    BY <1>2, Zenon DEF Valid, PointersValid
  <1>a. s \in XtrType
    BY DEF Valid
  <1>b. Gone(s, tr_mcache_remove_entry(s, e), s.eid[e], e, T)
    BY <1>2, <1>3, <1>4, <1>a, RemovedGone, Zenon
  <1>5. \A v \in Timers : v \in T <=> s.type[v] # "free" /\ s.mce[v] = e
    BY <1>b, Zenon DEF Gone
  <1>6. \A n \in Nonces : tr_mcache_remove_entry(s, e).nonces[n] =
                            IF s.nonces[n] \in T THEN NULL ELSE s.nonces[n]
    BY <1>b, Zenon DEF Gone
  <1>7. t \in T
    BY <1>1, <1>5, Zenon
  <1> QED
    BY <1>1, <1>6, <1>7, Zenon

\* A Map-Reply, solicited or to a probe, that changes anything uses up all the
\* nonces of the timer that it answers.
LEMMA ReplyUsesNonces ==
    ASSUME Inv, NEW m \in net, NEW rec \in Answers(m.eid), xtr' # xtr,
           tr_recv_map_reply(m, rec) \/ tr_recv_map_reply_probe(m, rec)
    PROVE  \A n \in Nonces : xtr.nonces[n] = xtr.nonces[m.nonce] => xtr'.nonces[n] = NULL
  <1>1. PICK t : t = xtr.nonces[m.nonce]
    OBVIOUS
  <1>2. Valid(xtr) /\ m.nonce \in Nonces /\ rec \in Records /\ rec.eid \in Eids
    BY DEF Inv, TypeOK, Requests, Answers, Records
  <1>3. t \in Timers /\ xtr.type[t] # "free"
    <2>1. t # NULL
      BY <1>1, Zenon DEF tr_recv_map_reply, tr_recv_map_reply_probe
    <2> QED
      BY <1>1, <1>2, <2>1 DEF Valid, PointersValid, XtrType, TimerTypes
  <1>4. SUFFICES \A n \in Nonces : xtr.nonces[n] = t => xtr'.nonces[n] = NULL
    BY <1>1
  <1>5. xtr \in XtrType /\ xtr.nonces \in [Nonces -> Timers \cup {NULL}]
    BY <1>2 DEF Valid, XtrType
  <1>6. CASE tr_recv_map_reply(m, rec)
    <2>1. PICK e : e = xtr.mce[t]
      OBVIOUS
    <2>2. e \in Mces /\ xtr.status[e] # "free"
      BY <1>2, <1>3, <2>1 DEF Valid, PointersValid
    <2>3. PICK s : s = tr_mcache_remove_entry(xtr, e)
      OBVIOUS
    <2>4. Valid(s)
      BY <1>2, <2>2, <2>3, RemoveEntryValid
    <2>5. \/ xtr.status[e] = "NOT_ACTIVE" /\ xtr' = s
          \/ /\ xtr.status[e] = "NOT_ACTIVE"
             /\ \E f \in FreeMces(s), te \in FreeTimers(s) : \E tp \in FreeTimers(s) \ {te} :
                  xtr' = tr_mcache_add_mapping(s, rec, f, te, tp)
          \/ \E te \in FreeTimers(xtr) : \E tp \in FreeTimers(xtr) \ {te} :
                xtr' = StopTimers(update_mcache_entry(xtr, rec, te, tp), {t})
      BY <1>1, <1>6, <2>1, <2>3, Zenon DEF tr_recv_map_reply
    <2>6. ASSUME xtr.status[e] = "NOT_ACTIVE"
          PROVE  \A n \in Nonces : xtr.nonces[n] = t => s.nonces[n] = NULL
      BY <1>2, <1>3, <2>1, <2>3, <2>6, RemovedHasNoNonce, Zenon
    <2>7. ASSUME NEW f \in FreeMces(s), NEW te \in FreeTimers(s), NEW tp
          PROVE  OnlyForgets(s, tr_mcache_add_mapping(s, rec, f, te, tp))
      BY <1>2, <2>4, AddMappingOnlyForgets
    <2>8. ASSUME NEW te \in FreeTimers(xtr), NEW tp \in FreeTimers(xtr) \ {te},
                 xtr' = StopTimers(update_mcache_entry(xtr, rec, te, tp), {t})
          PROVE  \A n \in Nonces : xtr.nonces[n] = t => xtr'.nonces[n] = NULL
      <3>1. PICK u : u = update_mcache_entry(xtr, rec, te, tp)
        OBVIOUS
      <3>2. u \in XtrType
        BY <1>2, <3>1, UpdateEntryValid DEF Valid
      <3>3. OnlyForgets(xtr, u)
        BY <1>2, <3>1, UpdateEntryOnlyForgets
      <3>4. \A n \in Nonces : xtr.nonces[n] = t => StopTimers(u, {t}).nonces[n] = NULL
        BY <1>3, <1>5, <3>2, <3>3, StoppedHasNoNonce, Zenon
      <3> QED
        BY <2>8, <3>1, <3>4, Zenon
    <2>9. ASSUME xtr.status[e] = "NOT_ACTIVE", OnlyForgets(s, xtr')
          PROVE  \A n \in Nonces : xtr.nonces[n] = t => xtr'.nonces[n] = NULL
      <3>1. \A n \in Nonces : xtr'.nonces[n] = s.nonces[n] \/ xtr'.nonces[n] = NULL
        BY <2>9, Zenon DEF OnlyForgets
      <3> QED
        BY <2>6, <2>9, <3>1, Zenon
    <2>10. OnlyForgets(s, s)
      BY Zenon DEF OnlyForgets
    <2>11. CASE xtr.status[e] = "NOT_ACTIVE" /\ xtr' = s
      BY <2>6, <2>11, Zenon
    <2>12. CASE /\ xtr.status[e] = "NOT_ACTIVE"
                /\ \E f \in FreeMces(s), te \in FreeTimers(s) : \E tp \in FreeTimers(s) \ {te} :
                     xtr' = tr_mcache_add_mapping(s, rec, f, te, tp)
      BY <2>7, <2>9, <2>12, Zenon
    <2> QED
      BY <2>5, <2>8, <2>11, <2>12, Zenon
  <1>7. CASE tr_recv_map_reply_probe(m, rec)
    <2>1. PICK e : e = xtr.db[rec.eid]
      OBVIOUS
    <2>2. e # NULL => e \in Mces /\ xtr.status[e] # "free"
      BY <1>2, <2>1 DEF Valid, PointersValid, XtrType
    <2>3. \/ xtr' = StopTimers(xtr, {t})
          \/ /\ e # NULL
             /\ \E tp \in FreeTimers(xtr) :
                  xtr' = StopTimers(program_rloc_probing([xtr EXCEPT !.locator[e] = "UP"], e, tp),
                                    {t})
      BY <1>1, <1>7, <2>1 DEF tr_recv_map_reply_probe
    <2>4. CASE xtr' = StopTimers(xtr, {t})
      <3>1. OnlyForgets(xtr, xtr)
        BY DEF OnlyForgets
      <3> QED
        BY <1>3, <1>5, <2>4, <3>1, StoppedHasNoNonce
    <2>5. ASSUME e # NULL, NEW tp \in FreeTimers(xtr),
                 xtr' = StopTimers(program_rloc_probing([xtr EXCEPT !.locator[e] = "UP"], e, tp),
                                   {t})
          PROVE  \A n \in Nonces : xtr.nonces[n] = t => xtr'.nonces[n] = NULL
      <3>1. PICK u : u = [xtr EXCEPT !.locator[e] = "UP"]
        BY Zenon
      <3>2. Valid(u) /\ u.status = xtr.status /\ u.type = xtr.type
        BY <1>2, <2>2, <2>5, <3>1, LocatorValid, Zenon
      <3>3. u.nonces = xtr.nonces
        BY <1>5, <3>1 DEF XtrType
      <3>4. PICK v : v = program_rloc_probing(u, e, tp)
        OBVIOUS
      <3>5. v \in XtrType
        <4>1. tp \in FreeTimers(u)
          BY <2>5, <3>2 DEF FreeTimers
        <4> QED
          BY <2>2, <2>5, <3>2, <3>4, <4>1, ProbingValid DEF Valid
      <3>6. OnlyForgets(xtr, v)
        <4>1. v.nonces = u.nonces
          BY <3>2, <3>4, TimersOnlyForget, Zenon
        <4> QED
          BY <3>3, <4>1, Zenon DEF OnlyForgets
      <3> QED
        BY <1>3, <1>5, <2>5, <3>1, <3>4, <3>5, <3>6, StoppedHasNoNonce
    <2> QED
      BY <2>3, <2>4, <2>5, Zenon
  <1> QED
    BY <1>6, <1>7

\* A Map-Reply is accepted once: neither its copies nor the answers to other
\* transmissions of the same request find a nonce any more, for any number of
\* retries, entries and replies (tr_recv_map_reply).
THEOREM RepliesAcceptedOnce == Spec => AcceptedOnce
  <1> DEFINE A == \A m \in net : \A rec \in Answers(m.eid) :
                    xtr' # xtr /\ (tr_recv_map_reply(m, rec) \/ tr_recv_map_reply_probe(m, rec)) =>
                      \A n \in Nonces : xtr.nonces[n] = xtr.nonces[m.nonce] => xtr'.nonces[n] = NULL
  <1>1. Inv => A
    BY ReplyUsesNonces
  <1>2. Spec => []Inv
    BY InvInit, InvStep, PTL DEF Spec
  <1>3. Spec => [][A]_vars
    BY <1>1, <1>2, PTL
  <1> QED
    BY <1>3 DEF AcceptedOnce

-----------------------------------------------------------------------------
(* The entries of the cache are tended, while control RLOCs are available. *)

InCache(s, e) == s.eid[e] # NULL /\ s.db[s.eid[e]] = e

Armed(s, e, type) == \E t \in s.armed : s.type[t] = type /\ s.mce[t] = e

TendedEntry(s, e) ==
    /\ s.status[e] = "NOT_ACTIVE" => Armed(s, e, "MAP_REQUEST_RETRY")
    /\ InCache(s, e) /\ s.locator[e] # "none" => Armed(s, e, "RLOC_PROBING")
    /\ InCache(s, e) /\ s.status[e] = "ACTIVE" => Armed(s, e, "EXPIRE_MAP_CACHE")

Tended(s) == \A e \in Mces : TendedEntry(s, e)

\* The timers that tend an entry: the others only refresh it.
Tending == {"MAP_REQUEST_RETRY", "RLOC_PROBING", "EXPIRE_MAP_CACHE"}

\* From s to r entry e keeps its status and EID, whether it has a locator, and
\* the timers that tend it.
Same(s, r, e) ==
    /\ r.status[e] = s.status[e] /\ r.eid[e] = s.eid[e]
    /\ r.locator[e] = "none" <=> s.locator[e] = "none"
    /\ InCache(r, e) => InCache(s, e)
    /\ \A t \in s.armed : s.type[t] \in Tending /\ s.mce[t] = e =>
            t \in r.armed /\ r.type[t] = s.type[t] /\ r.mce[t] = e

\* From s to r the nonces that are left belong to the same timers, and these
\* to entries for the same EID.
Keeps(s, r) ==
    \A n \in Nonces : r.nonces[n] # NULL =>
        /\ r.nonces[n] = s.nonces[n]
        /\ r.type[r.nonces[n]] = s.type[s.nonces[n]]
        /\ r.mce[r.nonces[n]] = s.mce[s.nonces[n]]
        /\ r.eid[r.mce[r.nonces[n]]] = s.eid[s.mce[s.nonces[n]]]

\* The answer to a probe finds the probing timer of an entry for its EID, and
\* the answer to any other request finds a timer that does not probe.
Matches(s, N) ==
    \A m \in N : s.nonces[m.nonce] # NULL =>
        /\ m.probe <=> s.type[s.nonces[m.nonce]] = "RLOC_PROBING"
        /\ m.probe => s.eid[s.mce[s.nonces[m.nonce]]] = m.eid

\* The invariant.
TendInv == Inv /\ online = TRUE /\ Tended(xtr) /\ Matches(xtr, net)

\* An entry that keeps its timers is tended if it was.
LEMMA SameTended ==
    ASSUME NEW s, NEW r, NEW e, TendedEntry(s, e), Same(s, r, e)
    PROVE  TendedEntry(r, e)
  <1>1. ASSUME NEW type \in Tending, Armed(s, e, type)
        PROVE  Armed(r, e, type)
    BY <1>1 DEF Armed, Same
  <1> QED
    BY <1>1 DEF TendedEntry, Same, Tending

LEMMA SameTrans ==
    ASSUME NEW s, NEW u, NEW r, NEW e, Same(s, u, e), Same(u, r, e)
    PROVE  Same(s, r, e)
  <1>1. ASSUME NEW t \in s.armed, s.type[t] \in Tending, s.mce[t] = e
        PROVE  t \in r.armed /\ r.type[t] = s.type[t] /\ r.mce[t] = e
    <2>1. t \in u.armed /\ u.type[t] = s.type[t] /\ u.mce[t] = e
      BY <1>1 DEF Same
    <2> QED
      BY <1>1, <2>1 DEF Same
  <1> QED
    BY <1>1 DEF Same

\* The armed timers and the entries are all that Tended looks at.
LEMMA TendedFields ==
    ASSUME NEW s, NEW r, Tended(s),
           r.db = s.db, r.status = s.status, r.eid = s.eid, r.locator = s.locator,
           r.type = s.type, r.mce = s.mce, r.armed = s.armed
    PROVE  Tended(r)
  <1> SUFFICES ASSUME NEW e \in Mces PROVE TendedEntry(r, e)
    BY DEF Tended
  <1>1. TendedEntry(s, e)
    BY DEF Tended
  <1>2. InCache(r, e) => InCache(s, e)
    BY DEF InCache
  <1>3. Same(s, r, e)
    BY <1>2 DEF Same
  <1> QED
    BY <1>1, <1>3, SameTended

LEMMA KeepsTrans ==
    ASSUME NEW s, NEW u, NEW r, Keeps(s, u), Keeps(u, r)
    PROVE  Keeps(s, r)
  <1> SUFFICES ASSUME NEW n \in Nonces, r.nonces[n] # NULL
               PROVE  /\ r.nonces[n] = s.nonces[n]
                      /\ r.type[r.nonces[n]] = s.type[s.nonces[n]]
                      /\ r.mce[r.nonces[n]] = s.mce[s.nonces[n]]
                      /\ r.eid[r.mce[r.nonces[n]]] = s.eid[s.mce[s.nonces[n]]]
    BY Zenon DEF Keeps
  <1>1. /\ r.nonces[n] = u.nonces[n]
        /\ r.type[r.nonces[n]] = u.type[u.nonces[n]]
        /\ r.mce[r.nonces[n]] = u.mce[u.nonces[n]]
        /\ r.eid[r.mce[r.nonces[n]]] = u.eid[u.mce[u.nonces[n]]]
    BY Zenon DEF Keeps
  <1>2. u.nonces[n] # NULL
    BY <1>1, Zenon
  <1>3. /\ u.nonces[n] = s.nonces[n]
        /\ u.type[u.nonces[n]] = s.type[s.nonces[n]]
        /\ u.mce[u.nonces[n]] = s.mce[s.nonces[n]]
        /\ u.eid[u.mce[u.nonces[n]]] = s.eid[s.mce[s.nonces[n]]]
    BY <1>2, Zenon DEF Keeps
  <1> QED
    BY <1>1, <1>3, Zenon

LEMMA KeepsMatches ==
    ASSUME NEW s, NEW r, NEW N, \A m \in N : m.nonce \in Nonces, Matches(s, N), Keeps(s, r)
    PROVE  Matches(r, N)
  <1> SUFFICES ASSUME NEW m \in N, r.nonces[m.nonce] # NULL
               PROVE  /\ m.probe <=> r.type[r.nonces[m.nonce]] = "RLOC_PROBING"
                      /\ m.probe => r.eid[r.mce[r.nonces[m.nonce]]] = m.eid
    BY Zenon DEF Matches
  <1>1. m.nonce \in Nonces
    BY Zenon
  <1>2. /\ r.nonces[m.nonce] = s.nonces[m.nonce]
        /\ r.type[r.nonces[m.nonce]] = s.type[s.nonces[m.nonce]]
        /\ r.eid[r.mce[r.nonces[m.nonce]]] = s.eid[s.mce[s.nonces[m.nonce]]]
    BY <1>1, Zenon DEF Keeps
  <1>3. /\ m.probe <=> s.type[s.nonces[m.nonce]] = "RLOC_PROBING"
        /\ m.probe => s.eid[s.mce[s.nonces[m.nonce]]] = m.eid
    BY <1>2, Zenon DEF Matches
  <1> QED
    BY <1>2, <1>3, Zenon

\* Stopping timers that do not tend entry e.
LEMMA StopTimersKeeps ==
    ASSUME NEW s, Valid(s), NEW T \in SUBSET Timers
    PROVE  /\ Keeps(s, StopTimers(s, T))
           /\ \A e \in Mces : (\A t \in T : s.type[t] \notin Tending \/ s.mce[t] # e) =>
                Same(s, StopTimers(s, T), e)
  <1>0. PICK r : r = StopTimers(s, T)
    BY Zenon
  <1>1. s \in XtrType /\ s.armed \subseteq Timers
    BY XtrFields, Zenon DEF Valid
  <1>2. /\ r.db = s.db /\ r.status = s.status /\ r.eid = s.eid /\ r.locator = s.locator
        /\ r.armed = s.armed \ T
        /\ \A t \in Timers \ T : r.type[t] = s.type[t] /\ r.mce[t] = s.mce[t]
        /\ \A n \in Nonces : r.nonces[n] = IF s.nonces[n] \in T THEN NULL ELSE s.nonces[n]
    <2>1. Stopped(s, r, T)
      BY <1>0, <1>1, StopTimersStops, Zenon
    <2> QED
      BY <2>1, Zenon DEF Stopped
  <1>3. Keeps(s, r)
    <2> SUFFICES ASSUME NEW n \in Nonces, r.nonces[n] # NULL
                 PROVE  /\ r.nonces[n] = s.nonces[n]
                        /\ r.type[r.nonces[n]] = s.type[s.nonces[n]]
                        /\ r.mce[r.nonces[n]] = s.mce[s.nonces[n]]
                        /\ r.eid[r.mce[r.nonces[n]]] = s.eid[s.mce[s.nonces[n]]]
      BY Zenon DEF Keeps
    <2>1. r.nonces[n] = s.nonces[n] /\ s.nonces[n] \notin T /\ s.nonces[n] # NULL
      BY <1>2, Zenon
    <2>2. s.nonces[n] \in Timers \ T
      BY <2>1, NonceTimer, Zenon
    <2> QED
      BY <1>2, <2>1, <2>2, Zenon
  <1>4. ASSUME NEW e \in Mces, \A t \in T : s.type[t] \notin Tending \/ s.mce[t] # e
        PROVE  Same(s, r, e)
    <2>1. InCache(r, e) => InCache(s, e)
      BY <1>2, Zenon DEF InCache
    <2>2. \A t \in s.armed : s.type[t] \in Tending /\ s.mce[t] = e =>
              t \in r.armed /\ r.type[t] = s.type[t] /\ r.mce[t] = e
      BY <1>1, <1>2, <1>4, Zenon
    <2> QED
      BY <1>2, <2>1, <2>2, Zenon DEF Same
  <1> QED
    BY <1>0, <1>3, <1>4, Zenon

\* From s to r timer t of entry e is created, and armed or not.
Created(s, r, t, type, e, armed) ==
    /\ Keeps(s, r)
    /\ \A x \in Mces : Same(s, r, x)
    /\ r.db = s.db /\ r.status = s.status /\ r.eid = s.eid /\ r.locator = s.locator
    /\ r.type = [s.type EXCEPT ![t] = type]
    /\ r.mce = [s.mce EXCEPT ![t] = e]
    /\ r.armed = s.armed \cup armed
    /\ r.nonces = s.nonces

LEMMA CreatedFields ==
    ASSUME NEW s \in XtrType, NEW r, NEW t \in Timers, NEW type, NEW e, NEW armed,
           Created(s, r, t, type, e, armed)
    PROVE  /\ r.type[t] = type /\ r.mce[t] = e
           /\ \A v \in Timers \ {t} : r.type[v] = s.type[v] /\ r.mce[v] = s.mce[v]
           /\ \A v \in s.armed : v \in r.armed
  <1>1. /\ r.type = [s.type EXCEPT ![t] = type] /\ r.mce = [s.mce EXCEPT ![t] = e]
        /\ r.armed = s.armed \cup armed
    BY Zenon DEF Created
  <1>2. DOMAIN s.type = Timers /\ DOMAIN s.mce = Timers
    BY XtrFields, Zenon
  <1> QED
    BY <1>1, <1>2, Zenon

LEMMA CreatedTimer ==
    ASSUME NEW s \in XtrType, NEW r, NEW t \in Timers, NEW type, NEW e, NEW armed,
           Created(s, r, t, type, e, armed)
    PROVE  r.type[t] = type /\ r.mce[t] = e
  <1>1. r.type = [s.type EXCEPT ![t] = type] /\ r.mce = [s.mce EXCEPT ![t] = e]
    BY Zenon DEF Created
  <1>2. DOMAIN s.type = Timers /\ DOMAIN s.mce = Timers
    BY XtrFields, Zenon
  <1> QED
    BY <1>1, <1>2, Zenon

LEMMA OtherTimer ==
    ASSUME NEW s \in XtrType, NEW r, NEW t \in Timers, NEW type, NEW e, NEW armed,
           Created(s, r, t, type, e, armed), NEW v \in Timers, v # t
    PROVE  r.type[v] = s.type[v] /\ r.mce[v] = s.mce[v] /\ (v \in s.armed => v \in r.armed)
  <1>1. /\ r.type = [s.type EXCEPT ![t] = type] /\ r.mce = [s.mce EXCEPT ![t] = e]
        /\ r.armed = s.armed \cup armed
    BY Zenon DEF Created
  <1>2. DOMAIN s.type = Timers /\ DOMAIN s.mce = Timers
    BY XtrFields, Zenon
  <1> QED
    BY <1>1, <1>2, Zenon

\* A new timer, started or not, disturbs nothing, and when it is started it
\* tends its entry.
LEMMA NewTimerKeeps ==
    ASSUME NEW s, Valid(s), NEW t \in FreeTimers(s), NEW type \in TimerTypes, NEW e \in Mces
    PROVE  LET r == NewTimer(s, t, type, e)
               q == lmtimer_start(r, t)
           IN  /\ Created(s, r, t, type, e, {})
               /\ Created(s, q, t, type, e, {t})
               /\ Armed(q, e, type)
  <1> DEFINE r == NewTimer(s, t, type, e)
             q == lmtimer_start(r, t)
  <1>1. s \in XtrType /\ t \in Timers /\ s.type[t] = "free" /\ t \notin s.armed
    BY DEF Valid, FreeTimers, PointersValid
  <1>2. /\ r.db = s.db /\ r.status = s.status /\ r.eid = s.eid /\ r.locator = s.locator
        /\ r.type = [s.type EXCEPT ![t] = type]
        /\ r.mce = [s.mce EXCEPT ![t] = e]
        /\ r.armed = s.armed
        /\ r.nonces = s.nonces
        /\ r \in XtrType
    BY <1>1, Zenon DEF XtrType, NewTimer
  <1>3. /\ q.db = r.db /\ q.status = r.status /\ q.eid = r.eid /\ q.locator = r.locator
        /\ q.type = r.type /\ q.mce = r.mce
        /\ q.armed = r.armed \cup {t}
        /\ q.nonces = r.nonces
    <2> HIDE DEF r
    <2> QED
      BY <1>1, <1>2 DEF XtrType, lmtimer_start
  <1> HIDE DEF r, q
  <1>4. \A n \in Nonces : s.nonces[n] # NULL => s.nonces[n] # t /\ s.nonces[n] \in Timers
    BY <1>1, NonceTimer, Zenon
  <1>5. \A v \in Timers \ {t} : r.type[v] = s.type[v] /\ r.mce[v] = s.mce[v]
    BY <1>1, <1>2, XtrFields, Zenon
  <1>6. r.type[t] = type /\ r.mce[t] = e
    BY <1>1, <1>2, XtrFields, Zenon
  <1>7. \A v \in s.armed : v \in Timers \ {t}
    BY <1>1, XtrFields, Zenon
  <1>8. Keeps(s, r) /\ Keeps(s, q)
    <2>1. \A n \in Nonces : r.nonces[n] # NULL => r.nonces[n] = s.nonces[n] /\ s.nonces[n] \in Timers \ {t}
      BY <1>2, <1>4, Zenon
    <2>2. ASSUME NEW n \in Nonces, r.nonces[n] # NULL
          PROVE  /\ r.nonces[n] = s.nonces[n]
                 /\ r.type[r.nonces[n]] = s.type[s.nonces[n]]
                 /\ r.mce[r.nonces[n]] = s.mce[s.nonces[n]]
                 /\ r.eid[r.mce[r.nonces[n]]] = s.eid[s.mce[s.nonces[n]]]
      <3>1. PICK v \in Timers \ {t} : v = s.nonces[n] /\ v = r.nonces[n]
        BY <2>1, <2>2, Zenon
      <3>2. r.type[v] = s.type[v] /\ r.mce[v] = s.mce[v] /\ r.eid = s.eid
        BY <1>2, <1>5, Zenon
      <3> QED
        BY <3>1, <3>2, Zenon
    <2>3. Keeps(s, r)
      BY <2>2, Zenon DEF Keeps
    <2> QED
      BY <1>3, <2>3, Zenon DEF Keeps
  <1>9. ASSUME NEW x \in Mces PROVE Same(s, r, x) /\ Same(s, q, x)
    <2>1. (InCache(r, x) => InCache(s, x)) /\ (InCache(q, x) => InCache(s, x))
      BY <1>2, <1>3, Zenon DEF InCache
    <2>2. \A v \in s.armed : r.type[v] = s.type[v] /\ r.mce[v] = s.mce[v] /\ v \in r.armed
      BY <1>2, <1>5, <1>7, Zenon
    <2>3. Same(s, r, x)
      BY <1>2, <2>1, <2>2, Zenon DEF Same
    <2>4. \A v \in s.armed : q.type[v] = s.type[v] /\ q.mce[v] = s.mce[v] /\ v \in q.armed
      BY <1>3, <2>2, Zenon
    <2>5. Same(s, q, x)
      BY <1>2, <1>3, <2>1, <2>4, Zenon DEF Same
    <2> QED
      BY <2>3, <2>5, Zenon
  <1>10. Armed(q, e, type)
    BY <1>3, <1>6, Zenon DEF Armed
  <1>11. Created(s, r, t, type, e, {})
    <2>1. r.armed = s.armed \cup {}
      BY <1>2, Zenon
    <2> QED
      BY <1>2, <1>8, <1>9, <2>1, Zenon DEF Created
  <1>12. Created(s, q, t, type, e, {t})
    BY <1>2, <1>3, <1>8, <1>9, Zenon DEF Created
  <1> QED
    BY <1>10, <1>11, <1>12, Zenon DEF r, q

\* A removal leaves the other entries alone.
LEMMA RemoveEntryKeeps ==
    ASSUME NEW s, Valid(s), NEW e \in Mces, s.status[e] # "free"
    PROVE  /\ Keeps(s, tr_mcache_remove_entry(s, e))
           /\ (\A x \in Mces \ {e} : TendedEntry(s, x)) => Tended(tr_mcache_remove_entry(s, e))
  <1>1. PICK k, d, r : k = s.eid[e] /\ d = s.db[k] /\ r = tr_mcache_remove_entry(s, e)
    OBVIOUS
  <1>2. k \in Eids /\ d \in Mces \cup {NULL} /\ s \in XtrType
    BY <1>1, RemoveEntryFields DEF Valid
  <1>3. d # e => TendedEntry(s, e)
    BY <1>1 DEF TendedEntry, InCache, Valid, PlaceholdersCached
  <1>4. CASE d = NULL
    <2>1. r = s
      BY <1>1, <1>4, RemoveEntryFields, Zenon
    <2>2. d # e
      BY <1>4, MapCacheAssumption
    <2> QED
      BY <1>1, <1>3, <2>1, <2>2 DEF Keeps, Tended
  <1>5. CASE d # NULL
    <2>1. PICK T \in SUBSET Timers : Removed(s, r, k, d, T)
      BY <1>1, <1>5, RemoveEntryFields
    <2>2. d \in Mces
      BY <1>2, <1>5
    <2>a. /\ \A t \in Timers : t \in T <=> s.type[t] # "free" /\ s.mce[t] = d
          /\ r.db[k] = NULL /\ \A j \in Eids \ {k} : r.db[j] = s.db[j]
          /\ r.status[d] = "free" /\ r.eid[d] = NULL /\ r.locator[d] = "none"
          /\ \A x \in Mces \ {d} : /\ r.status[x] = s.status[x] /\ r.eid[x] = s.eid[x]
                                  /\ r.locator[x] = s.locator[x]
          /\ r.armed = s.armed \ T
          /\ \A t \in Timers \ T : r.type[t] = s.type[t] /\ r.mce[t] = s.mce[t]
          /\ \A n \in Nonces : r.nonces[n] = IF s.nonces[n] \in T THEN NULL ELSE s.nonces[n]
      <3>1. Gone(s, r, k, d, T)
        BY <1>2, <2>1, <2>2, RemovedGone, Zenon
      <3> QED
        BY <3>1, Zenon DEF Gone
    <2>3. ASSUME NEW n \in Nonces, r.nonces[n] # NULL
          PROVE  /\ r.nonces[n] = s.nonces[n]
                 /\ s.nonces[n] \in Timers /\ s.nonces[n] \notin T
                 /\ s.mce[s.nonces[n]] \in Mces \ {d}
      <3>1. r.nonces[n] = s.nonces[n] /\ s.nonces[n] \notin T /\ s.nonces[n] # NULL
        BY <2>a, <2>3, Zenon
      <3>2. s.nonces[n] \in Timers /\ s.type[s.nonces[n]] # "free"
        BY <3>1, NonceTimer, Zenon
      <3>3. s.mce[s.nonces[n]] \in Mces
        BY <3>2, TimerEntry, Zenon
      <3> QED
        BY <2>a, <3>1, <3>2, <3>3, Zenon
    <2>4. Keeps(s, r)
      <3> SUFFICES ASSUME NEW n \in Nonces, r.nonces[n] # NULL
                   PROVE  /\ r.nonces[n] = s.nonces[n]
                          /\ r.type[r.nonces[n]] = s.type[s.nonces[n]]
                          /\ r.mce[r.nonces[n]] = s.mce[s.nonces[n]]
                          /\ r.eid[r.mce[r.nonces[n]]] = s.eid[s.mce[s.nonces[n]]]
        BY DEF Keeps
      <3>1. PICK v \in Timers, x \in Mces :
              v = s.nonces[n] /\ x = s.mce[v] /\ r.nonces[n] = v /\ v \notin T /\ x # d
        BY <2>3
      <3>2. r.type[v] = s.type[v] /\ r.mce[v] = x /\ r.eid[x] = s.eid[x]
        BY <2>a, <3>1, Zenon
      <3> QED
        BY <3>1, <3>2, Zenon
    <2>5. ASSUME NEW x \in Mces, x # d PROVE Same(s, r, x)
      <3>1. r.status[x] = s.status[x] /\ r.eid[x] = s.eid[x] /\ r.locator[x] = s.locator[x]
        BY <2>a, <2>5, Zenon
      <3>2. InCache(r, x) => InCache(s, x)
        <4>1. x # NULL
          BY MapCacheAssumption
        <4>2. \A j \in Eids : r.db[j] = x => s.db[j] = x
          BY <2>a, <4>1, Zenon
        <4>3. s.eid[x] \in Eids \cup {NULL}
          BY <1>2, XtrFields, Zenon
        <4> QED
          BY <3>1, <4>2, <4>3, Zenon DEF InCache
      <3>3. \A t \in s.armed : s.type[t] \in Tending /\ s.mce[t] = x =>
                t \in r.armed /\ r.type[t] = s.type[t] /\ r.mce[t] = x
        <4>1. s.armed \subseteq Timers
          BY <1>2, XtrFields, Zenon
        <4> QED
          BY <2>a, <2>5, <4>1, Zenon
      <3> QED
        BY <3>1, <3>2, <3>3, Zenon DEF Same
    <2>6. TendedEntry(r, d)
      <3>1. ~ InCache(r, d)
        <4>1. \A j \in Eids : j # NULL
          BY MapCacheAssumption
        <4> QED
          BY <2>a, <4>1, Zenon DEF InCache
      <3>2. r.status[d] # "NOT_ACTIVE"
        BY <2>a
      <3> QED
        BY <3>1, <3>2, Zenon DEF TendedEntry
    <2>7. ASSUME \A x \in Mces \ {e} : TendedEntry(s, x) PROVE Tended(r)
      <3> SUFFICES ASSUME NEW x \in Mces, x # d PROVE TendedEntry(r, x)
        BY <2>6 DEF Tended
      <3>1. TendedEntry(s, x)
        BY <1>3, <2>7
      <3> QED
        BY <2>5, <3>1, SameTended
    <2> QED
      BY <1>1, <2>4, <2>7
  <1> QED
    BY <1>4, <1>5

\* A new entry leaves the others alone.
Entered(s, r, e, st, l) ==
    /\ Keeps(s, r)
    /\ \A x \in Mces \ {e} : Same(s, r, x)
    /\ r.status[e] = st /\ r.locator[e] = l

LEMMA NewEntryKeeps ==
    ASSUME NEW s, Valid(s), NEW e \in FreeMces(s), NEW k \in Eids,
           NEW st \in {"ACTIVE", "NOT_ACTIVE"}, NEW l \in {"none", "UP"}
    PROVE  Entered(s, NewEntry(s, e, st, k, l), e, st, l)
  <1> DEFINE new == [s EXCEPT !.status[e] = st, !.eid[e] = k, !.locator[e] = l]
             r == NewEntry(s, e, st, k, l)
  <1>1. s \in XtrType /\ e \in Mces /\ s.status[e] = "free"
    BY DEF Valid, FreeMces
  <1>2. /\ new \in XtrType
        /\ new.db = s.db
        /\ new.status = [s.status EXCEPT ![e] = st]
        /\ new.eid = [s.eid EXCEPT ![e] = k]
        /\ new.locator = [s.locator EXCEPT ![e] = l]
        /\ new.type = s.type /\ new.mce = s.mce /\ new.armed = s.armed /\ new.nonces = s.nonces
    BY <1>1, Zenon DEF XtrType
  <1> HIDE DEF new
  <1>3. r = mcache_add_entry(new, k, e)
    BY DEF NewEntry, new
  <1> HIDE DEF r
  <1>4. /\ r.db = IF s.db[k] = NULL THEN [s.db EXCEPT ![k] = e] ELSE s.db
        /\ r.status = [s.status EXCEPT ![e] = st]
        /\ r.eid = [s.eid EXCEPT ![e] = k]
        /\ r.locator = [s.locator EXCEPT ![e] = l]
        /\ r.type = s.type /\ r.mce = s.mce /\ r.armed = s.armed /\ r.nonces = s.nonces
    BY <1>1, <1>2, <1>3 DEF XtrType, mcache_add_entry
  <1>a. /\ r.status[e] = st /\ \A x \in Mces \ {e} : r.status[x] = s.status[x]
        /\ r.locator[e] = l /\ \A x \in Mces \ {e} : r.locator[x] = s.locator[x]
        /\ \A x \in Mces \ {e} : r.eid[x] = s.eid[x]
    <2>1. DOMAIN s.status = Mces /\ DOMAIN s.eid = Mces /\ DOMAIN s.locator = Mces
      BY <1>1, XtrFields, Zenon
    <2>2. r.status[e] = st /\ \A x \in Mces \ {e} : r.status[x] = s.status[x]
      BY <1>1, <1>4, <2>1
    <2>3. r.locator[e] = l /\ \A x \in Mces \ {e} : r.locator[x] = s.locator[x]
      BY <1>1, <1>4, <2>1
    <2>4. \A x \in Mces \ {e} : r.eid[x] = s.eid[x]
      BY <1>4, <2>1
    <2> QED
      BY <2>2, <2>3, <2>4, Zenon
  <1>b. \A j \in Eids : r.db[j] = s.db[j] \/ r.db[j] = e
    <2>1. DOMAIN s.db = Eids
      BY <1>1, XtrFields, Zenon
    <2> QED
      BY <1>4, <2>1
  <1>5. Keeps(s, r)
    <2> SUFFICES ASSUME NEW n \in Nonces, s.nonces[n] # NULL
                 PROVE  r.eid[s.mce[s.nonces[n]]] = s.eid[s.mce[s.nonces[n]]]
      BY <1>4, Zenon DEF Keeps
    <2>1. s.nonces[n] \in Timers /\ s.type[s.nonces[n]] # "free"
      BY NonceTimer, Zenon
    <2>2. s.mce[s.nonces[n]] \in Mces \ {e}
      BY <1>1, <2>1, TimerEntry, Zenon
    <2> QED
      BY <1>a, <2>2, Zenon
  <1>6. ASSUME NEW x \in Mces, x # e PROVE Same(s, r, x)
    <2>1. r.status[x] = s.status[x] /\ r.eid[x] = s.eid[x] /\ r.locator[x] = s.locator[x]
      BY <1>a, <1>6, Zenon
    <2>2. InCache(r, x) => InCache(s, x)
      <3>1. \A j \in Eids : r.db[j] = x => s.db[j] = x
        BY <1>b, <1>6, Zenon
      <3>2. s.eid[x] \in Eids \cup {NULL}
        BY <1>1, XtrFields, Zenon
      <3> QED
        BY <2>1, <3>1, <3>2, Zenon DEF InCache
    <2>3. r.type = s.type /\ r.mce = s.mce /\ r.armed = s.armed
      BY <1>4, Zenon
    <2> QED
      BY <2>1, <2>2, <2>3, Zenon DEF Same
  <1>7. r.status[e] = st /\ r.locator[e] = l
    BY <1>a, Zenon
  <1>8. Entered(s, r, e, st, l)
    BY <1>5, <1>6, <1>7, Zenon DEF Entered
  <1> QED
    BY <1>8, Zenon DEF r

\* program_mce_rloc_probing replaces the probing timer of an entry.
LEMMA ProbingKeeps ==
    ASSUME NEW s, Valid(s), NEW e \in Mces, s.status[e] # "free", NEW t \in FreeTimers(s),
           probe_interval # 0
    PROVE  LET r == program_mce_rloc_probing(s, e, t)
           IN  /\ Keeps(s, r)
               /\ \A x \in Mces \ {e} : Same(s, r, x)
               /\ r.status = s.status /\ r.eid = s.eid /\ r.locator = s.locator
               /\ s.locator[e] # "none" => Armed(r, e, "RLOC_PROBING")
               /\ \A v \in Timers : s.type[v] \notin {"free", "RLOC_PROBING"} =>
                    /\ r.type[v] = s.type[v] /\ r.mce[v] = s.mce[v]
                    /\ v \in s.armed => v \in r.armed
  <1> DEFINE T == {v \in TimersOf(s, e) : s.type[v] = "RLOC_PROBING"}
             w == StopTimers(s, T)
             q == program_rloc_probing(w, e, t)
             r == program_mce_rloc_probing(s, e, t)
  <1>1. s \in XtrType /\ T \in SUBSET Timers /\ t \in Timers /\ s.type[t] = "free"
    BY DEF Valid, TimersOf, FreeTimers
  <1>2. Valid(w)
    BY <1>1, StopTimersValid
  <1>3. /\ w.db = s.db /\ w.status = s.status /\ w.eid = s.eid /\ w.locator = s.locator
        /\ w.type = [v \in Timers |-> IF v \in T THEN "free" ELSE s.type[v]]
        /\ w.mce = [v \in Timers |-> IF v \in T THEN NULL ELSE s.mce[v]]
        /\ w.armed = s.armed \ T
    <2>1. s \in XtrType /\ T \in SUBSET Timers
      BY <1>1
    <2> HIDE DEF T
    <2> QED
      BY <2>1, StopTimersFields, ZenonT(40)
  <1>4. \A v \in T : s.mce[v] = e /\ s.type[v] = "RLOC_PROBING"
    BY DEF TimersOf
  <1>5. Keeps(s, w) /\ \A x \in Mces \ {e} : Same(s, w, x)
    BY <1>1, <1>4, StopTimersKeeps
  <1>6. r = IF s.locator[e] = "none" THEN w ELSE q
    BY DEF program_mce_rloc_probing, stop_timers_of_type_from_obj
  <1> HIDE DEF T, w, r
  <1>7. t \in FreeTimers(w)
    BY <1>1, <1>3 DEF FreeTimers
  <1>8. Created(w, q, t, "RLOC_PROBING", e, {t}) /\ Armed(q, e, "RLOC_PROBING")
    BY <1>2, <1>7, NewTimerKeeps, Zenon DEF program_rloc_probing, TimerTypes
  <1> HIDE DEF q
  <1>9. Keeps(s, q)
    BY <1>5, <1>8, KeepsTrans DEF Created
  <1>10. \A x \in Mces \ {e} : Same(s, q, x)
    BY <1>5, <1>8, SameTrans DEF Created
  <1>11. ASSUME NEW v \in Timers, s.type[v] \notin {"free", "RLOC_PROBING"}
         PROVE  /\ w.type[v] = s.type[v] /\ w.mce[v] = s.mce[v] /\ (v \in s.armed => v \in w.armed)
                /\ q.type[v] = s.type[v] /\ q.mce[v] = s.mce[v] /\ (v \in s.armed => v \in q.armed)
    <2>1. v \notin T /\ v # t
      BY <1>1, <1>4, <1>11
    <2>2. w.type[v] = s.type[v] /\ w.mce[v] = s.mce[v] /\ (v \in s.armed => v \in w.armed)
      BY <1>3, <2>1, Zenon
    <2>3. w \in XtrType
      BY <1>2 DEF Valid
    <2>4. q.type[v] = w.type[v] /\ q.mce[v] = w.mce[v] /\ (v \in w.armed => v \in q.armed)
      BY <1>1, <1>8, <2>1, <2>3, OtherTimer, Zenon
    <2> QED
      BY <2>2, <2>4
  <1>12. CASE s.locator[e] = "none"
    BY <1>3, <1>5, <1>6, <1>11, <1>12 DEF r
  <1>13. CASE s.locator[e] # "none"
    <2>1. q = program_mce_rloc_probing(s, e, t)
      BY <1>6, <1>13, Zenon DEF r
    <2>2. q.status = s.status /\ q.eid = s.eid /\ q.locator = s.locator
      BY <1>3, <1>8, Zenon DEF Created
    <2>3. \A v \in Timers : s.type[v] \notin {"free", "RLOC_PROBING"} =>
                    /\ q.type[v] = s.type[v] /\ q.mce[v] = s.mce[v]
                    /\ v \in s.armed => v \in q.armed
      BY <1>11, Zenon
    <2> QED
      BY <1>8, <1>9, <1>10, <2>1, <2>2, <2>3, Zenon
  <1> QED
    BY <1>12, <1>13, Zenon

\* The timers of a new or refreshed entry tend it, but for its retries.
Timed(s, v, e) ==
    /\ Keeps(s, v)
    /\ \A x \in Mces \ {e} : Same(s, v, x)
    /\ v.status = s.status /\ v.eid = s.eid
    /\ (s.status[e] = "NOT_ACTIVE" => Armed(s, e, "MAP_REQUEST_RETRY")) => TendedEntry(v, e)
    /\ \A t \in Timers : s.type[t] \notin {"free", "RLOC_PROBING"} =>
         v.type[t] = s.type[t] /\ v.mce[t] = s.mce[t]

LEMMA EntryTimersKeep ==
    ASSUME NEW s, Valid(s), NEW e \in Mces, s.status[e] # "free",
           NEW te \in FreeTimers(s), NEW tp \in FreeTimers(s) \ {te}, probe_interval # 0
    PROVE  Timed(s, program_mce_rloc_probing(mc_entry_start_expiration_timer(s, e, te), e, tp), e)
  <1> DEFINE r == mc_entry_start_expiration_timer(s, e, te)
             v == program_mce_rloc_probing(r, e, tp)
  <1>1. s \in XtrType /\ te \in Timers /\ s.type[te] = "free"
    BY DEF Valid, FreeTimers
  <1>2. Valid(r)
    BY NewTimerValid DEF mc_entry_start_expiration_timer, TimerTypes
  <1>3. Created(s, r, te, "EXPIRE_MAP_CACHE", e, {te}) /\ Armed(r, e, "EXPIRE_MAP_CACHE")
    BY NewTimerKeeps, Zenon DEF mc_entry_start_expiration_timer, TimerTypes
  <1> HIDE DEF r
  <1>4. tp \in FreeTimers(r) /\ r.status[e] # "free"
    BY <1>1, <1>3 DEF Created, FreeTimers, XtrType
  <1>5. /\ Keeps(r, v)
        /\ \A x \in Mces \ {e} : Same(r, v, x)
        /\ v.status = r.status /\ v.eid = r.eid /\ v.locator = r.locator
        /\ r.locator[e] # "none" => Armed(v, e, "RLOC_PROBING")
        /\ \A t \in Timers : r.type[t] \notin {"free", "RLOC_PROBING"} =>
             /\ v.type[t] = r.type[t] /\ v.mce[t] = r.mce[t]
             /\ t \in r.armed => t \in v.armed
    BY <1>2, <1>4, ProbingKeeps, Zenon
  <1> HIDE DEF v
  <1>6. Keeps(s, v)
    BY <1>3, <1>5, KeepsTrans DEF Created
  <1>7. \A x \in Mces \ {e} : Same(s, v, x)
    BY <1>3, <1>5, SameTrans DEF Created
  <1>8. ASSUME NEW t \in Timers, s.type[t] \notin {"free", "RLOC_PROBING"}
        PROVE  v.type[t] = s.type[t] /\ v.mce[t] = s.mce[t]
    <2>1. t # te
      BY <1>1, <1>8
    <2>2. r.type[t] = s.type[t] /\ r.mce[t] = s.mce[t]
      <3>1. s \in XtrType /\ te \in Timers /\ Created(s, r, te, "EXPIRE_MAP_CACHE", e, {te})
        BY <1>1, <1>3, Zenon
      <3> QED
        BY <2>1, <3>1, OtherTimer
    <2>3. r.type[t] \notin {"free", "RLOC_PROBING"} => v.type[t] = r.type[t] /\ v.mce[t] = r.mce[t]
      BY <1>5, Zenon
    <2> QED
      BY <1>8, <2>2, <2>3, Zenon
  <1>9. ASSUME NEW type \in {"MAP_REQUEST_RETRY", "EXPIRE_MAP_CACHE"}, Armed(r, e, type)
        PROVE  Armed(v, e, type)
    <2>1. PICK t \in r.armed : r.type[t] = type /\ r.mce[t] = e
      BY <1>9 DEF Armed
    <2>2. t \in Timers
      BY <1>2 DEF Valid, XtrType
    <2>3. v.type[t] = type /\ v.mce[t] = e /\ t \in v.armed
      BY <1>5, <2>1, <2>2
    <2> QED
      BY <2>3 DEF Armed
  <1>10. Armed(s, e, "MAP_REQUEST_RETRY") => Armed(r, e, "MAP_REQUEST_RETRY")
    <2> SUFFICES ASSUME NEW t \in s.armed, s.type[t] = "MAP_REQUEST_RETRY", s.mce[t] = e
                 PROVE  Armed(r, e, "MAP_REQUEST_RETRY")
      BY Zenon DEF Armed
    <2>1. s.type[t] \in Tending /\ Same(s, r, e)
      BY <1>3, Zenon DEF Created, Tending
    <2>2. t \in r.armed /\ r.type[t] = s.type[t] /\ r.mce[t] = e
      BY <2>1, Zenon DEF Same
    <2> QED
      BY <2>2, Zenon DEF Armed
  <1>11. ASSUME s.status[e] = "NOT_ACTIVE" => Armed(s, e, "MAP_REQUEST_RETRY")
         PROVE  TendedEntry(v, e)
    <2>1. v.status[e] = "NOT_ACTIVE" => Armed(v, e, "MAP_REQUEST_RETRY")
      BY <1>3, <1>5, <1>9, <1>10, <1>11 DEF Created
    <2>2. Armed(v, e, "EXPIRE_MAP_CACHE")
      BY <1>3, <1>9
    <2>3. v.locator[e] # "none" => Armed(v, e, "RLOC_PROBING")
      BY <1>5
    <2> QED
      BY <2>1, <2>2, <2>3 DEF TendedEntry
  <1>12. v.status = s.status /\ v.eid = s.eid
    BY <1>3, <1>5, Zenon DEF Created
  <1>13. Timed(s, v, e)
    BY <1>6, <1>7, <1>8, <1>11, <1>12, Zenon DEF Timed
  <1> QED
    BY <1>13, Zenon DEF r, v

\* The state of a locator is about its entry alone.
Located(s, r, e, l) ==
    /\ Keeps(s, r)
    /\ \A x \in Mces \ {e} : Same(s, r, x)
    /\ s.locator[e] # "none" /\ l # "none" => Same(s, r, e)
    /\ r.db = s.db /\ r.status = s.status /\ r.eid = s.eid /\ r.type = s.type
    /\ r.mce = s.mce /\ r.armed = s.armed /\ r.nonces = s.nonces

LEMMA LocatorKeeps ==
    ASSUME NEW s, Valid(s), NEW e \in Mces, NEW l \in {"none", "UP", "DOWN"}
    PROVE  Located(s, [s EXCEPT !.locator[e] = l], e, l)
  <1>1. PICK r : r = [s EXCEPT !.locator[e] = l]
    BY Zenon
  <1>2. /\ r.db = s.db /\ r.status = s.status /\ r.eid = s.eid /\ r.type = s.type
        /\ r.mce = s.mce /\ r.armed = s.armed /\ r.nonces = s.nonces
        /\ r.locator[e] = l /\ \A x \in Mces \ {e} : r.locator[x] = s.locator[x]
    BY <1>1 DEF Valid, XtrType
  <1>3. Keeps(s, r)
    BY <1>2 DEF Keeps
  <1>4. ASSUME NEW x \in Mces, x # e \/ (s.locator[e] # "none" /\ l # "none") PROVE Same(s, r, x)
    BY <1>2, <1>4 DEF Same, InCache
  <1>5. Located(s, r, e, l)
    BY <1>2, <1>3, <1>4, Zenon DEF Located
  <1> QED
    BY <1>1, <1>5, Zenon

\* tr_mcache_add_mapping.
LEMMA AddMappingTends ==
    ASSUME NEW s, Valid(s), NEW rec \in Records, NEW e \in FreeMces(s),
           NEW te \in FreeTimers(s), NEW tp \in FreeTimers(s) \ {te}, probe_interval # 0
    PROVE  /\ Keeps(s, tr_mcache_add_mapping(s, rec, e, te, tp))
           /\ Tended(s) => Tended(tr_mcache_add_mapping(s, rec, e, te, tp))
  <1> DEFINE r == NewEntry(s, e, "ACTIVE", rec.eid, rec.locator)
             v == program_mce_rloc_probing(mc_entry_start_expiration_timer(r, e, te), e, tp)
  <1>1. rec.eid \in Eids /\ rec.locator \in {"none", "UP"} /\ e \in Mces
    BY DEF Records, FreeMces
  <1>2. Valid(r) /\ r.status[e] = "ACTIVE" /\ r.type = s.type
    BY <1>1, NewActive, Zenon DEF Added
  <1>3. Keeps(s, r) /\ \A x \in Mces \ {e} : Same(s, r, x)
    <2>1. Entered(s, NewEntry(s, e, "ACTIVE", rec.eid, rec.locator), e, "ACTIVE", rec.locator)
      BY <1>1, NewEntryKeeps, Zenon
    <2> QED
      BY <2>1, Zenon DEF Entered
  <1>4. te \in FreeTimers(r) /\ tp \in FreeTimers(r) \ {te}
    BY <1>2 DEF FreeTimers
  <1> HIDE DEF r
  <1>5. Keeps(r, v) /\ TendedEntry(v, e) /\ \A x \in Mces \ {e} : Same(r, v, x)
    <2>1. r.status[e] # "free" /\ r.status[e] # "NOT_ACTIVE"
      BY <1>2
    <2>2. Timed(r, v, e)
      BY <1>1, <1>2, <1>4, <2>1, EntryTimersKeep, Zenon
    <2> HIDE DEF v
    <2> QED
      BY <2>1, <2>2, Zenon DEF Timed
  <1> HIDE DEF v
  <1>6. Keeps(s, v)
    BY <1>3, <1>5, KeepsTrans
  <1>7. ASSUME Tended(s) PROVE Tended(v)
    <2> SUFFICES ASSUME NEW x \in Mces, x # e PROVE TendedEntry(v, x)
      BY <1>5 DEF Tended
    <2>1. TendedEntry(r, x)
      BY <1>3, <1>7, SameTended DEF Tended
    <2> QED
      BY <1>5, <2>1, SameTended
  <1> QED
    BY <1>6, <1>7 DEF tr_mcache_add_mapping, r, v

\* update_mcache_entry.
LEMMA UpdateEntryTends ==
    ASSUME NEW s, Valid(s), NEW rec \in Records,
           NEW te \in FreeTimers(s), NEW tp \in FreeTimers(s) \ {te}, probe_interval # 0
    PROVE  LET v == update_mcache_entry(s, rec, te, tp)
           IN  /\ Keeps(s, v)
               /\ Tended(s) => Tended(v)
               /\ v.status = s.status
               /\ \A t \in Timers : s.type[t] \notin {"free", "RLOC_PROBING"} =>
                    v.type[t] = s.type[t] /\ v.mce[t] = s.mce[t]
  <1> DEFINE e == s.db[rec.eid]
             r == [s EXCEPT !.locator[e] = rec.locator]
             v == program_mce_rloc_probing(mc_entry_start_expiration_timer(r, e, te), e, tp)
  <1>1. rec.eid \in Eids /\ rec.locator \in {"none", "UP", "DOWN"}
    BY DEF Records
  <1>2. CASE e = NULL
    BY <1>2 DEF update_mcache_entry, Keeps
  <1>3. CASE e # NULL
    <2>1. e \in Mces /\ s.status[e] # "free"
      BY <1>1, <1>3, CachedEntry, Zenon
    <2>2. Valid(r)
      BY <1>1, <2>1, LocatorValid, Zenon
    <2>3. /\ Keeps(s, r) /\ \A x \in Mces \ {e} : Same(s, r, x)
          /\ r.status = s.status /\ r.type = s.type /\ r.mce = s.mce /\ r.armed = s.armed
      <3>1. PICK f, l : f = e /\ l = rec.locator
        BY Zenon
      <3>2. f \in Mces /\ l \in {"none", "UP", "DOWN"}
        BY <1>1, <2>1, <3>1
      <3>3. PICK q : q = [s EXCEPT !.locator[f] = l]
        BY Zenon
      <3>4. /\ Keeps(s, q) /\ \A x \in Mces \ {f} : Same(s, q, x)
            /\ q.status = s.status /\ q.type = s.type /\ q.mce = s.mce /\ q.armed = s.armed
        <4>1. Located(s, [s EXCEPT !.locator[f] = l], f, l)
          BY <3>2, LocatorKeeps, Zenon
        <4>2. Located(s, q, f, l)
          BY <3>3, <4>1, Zenon
        <4> QED
          BY <4>2, Zenon DEF Located
      <3> QED
        BY <3>1, <3>3, <3>4
    <2> HIDE DEF r, e
    <2>4. te \in FreeTimers(r) /\ tp \in FreeTimers(r) \ {te} /\ r.status[e] # "free"
      BY <2>1, <2>3 DEF FreeTimers
    <2>5. /\ Keeps(r, v)
          /\ \A x \in Mces \ {e} : Same(r, v, x)
          /\ v.status = r.status
          /\ (r.status[e] = "NOT_ACTIVE" => Armed(r, e, "MAP_REQUEST_RETRY")) => TendedEntry(v, e)
          /\ \A t \in Timers : r.type[t] \notin {"free", "RLOC_PROBING"} =>
               v.type[t] = r.type[t] /\ v.mce[t] = r.mce[t]
      <3> HIDE DEF v
      <3>1. e \in Mces /\ r.status[e] # "free" /\ te \in FreeTimers(r) /\ tp \in FreeTimers(r) \ {te}
        BY <2>1, <2>4, Zenon
      <3>2. v = program_mce_rloc_probing(mc_entry_start_expiration_timer(r, e, te), e, tp)
        BY Zenon DEF v
      <3>3. Timed(r, v, e)
        BY <2>2, <3>1, <3>2, EntryTimersKeep, Zenon
      <3> QED
        BY <3>3, Zenon DEF Timed
    <2> HIDE DEF v
    <2>6. Keeps(s, v)
      BY <2>3, <2>5, KeepsTrans
    <2>7. ASSUME Tended(s) PROVE Tended(v)
      <3>1. s.status[e] = "NOT_ACTIVE" => Armed(s, e, "MAP_REQUEST_RETRY")
        BY <2>1, <2>7 DEF Tended, TendedEntry
      <3>2. r.status[e] = "NOT_ACTIVE" => Armed(r, e, "MAP_REQUEST_RETRY")
        BY <2>3, <3>1 DEF Armed
      <3>3. TendedEntry(v, e)
        BY <2>5, <3>2
      <3> SUFFICES ASSUME NEW x \in Mces, x # e PROVE TendedEntry(v, x)
        BY <3>3 DEF Tended
      <3>4. TendedEntry(r, x)
        BY <2>3, <2>7, SameTended DEF Tended
      <3> QED
        BY <2>5, <3>4, SameTended
    <2>8. v = update_mcache_entry(s, rec, te, tp)
      BY <1>3 DEF update_mcache_entry, v, r, e
    <2> QED
      BY <2>3, <2>5, <2>6, <2>7, <2>8, Zenon
  <1> QED
    BY <1>2, <1>3, Zenon

\* A timer that answered may be stopped when the entry is ACTIVE, or when the
\* entry has another probing timer.
LEMMA StopOneTends ==
    ASSUME NEW s, Valid(s), Tended(s), NEW t \in Timers,
           s.type[t] \in {"MAP_REQUEST_RETRY", "SMR_INV_RETRY", "RLOC_PROBING"},
           s.type[t] = "MAP_REQUEST_RETRY" => s.status[s.mce[t]] # "NOT_ACTIVE",
           s.type[t] = "RLOC_PROBING" /\ InCache(s, s.mce[t]) /\ s.locator[s.mce[t]] # "none" =>
               \E u \in s.armed \ {t} : s.type[u] = "RLOC_PROBING" /\ s.mce[u] = s.mce[t]
    PROVE  Keeps(s, StopTimers(s, {t})) /\ Tended(StopTimers(s, {t}))
  <1>1. PICK T : T = {t}
    BY Zenon
  <1>2. s \in XtrType /\ T \in SUBSET Timers
    BY <1>1 DEF Valid
  <1>3. PICK r : r = StopTimers(s, T)
    OBVIOUS
  <1>4. /\ r.db = s.db /\ r.status = s.status /\ r.eid = s.eid /\ r.locator = s.locator
        /\ r.type = [v \in Timers |-> IF v \in T THEN "free" ELSE s.type[v]]
        /\ r.mce = [v \in Timers |-> IF v \in T THEN NULL ELSE s.mce[v]]
        /\ r.armed = s.armed \ T
    BY <1>2, <1>3, StopTimersFields, Zenon
  <1>5. Keeps(s, r)
    BY <1>2, <1>3, StopTimersKeeps
  <1>6. ASSUME NEW v \in s.armed, v # t
        PROVE  v \in r.armed /\ r.type[v] = s.type[v] /\ r.mce[v] = s.mce[v]
    BY <1>1, <1>2, <1>4, <1>6 DEF XtrType
  <1>7. ASSUME NEW x \in Mces PROVE TendedEntry(r, x)
    <2>1. TendedEntry(s, x) /\ (InCache(r, x) <=> InCache(s, x))
      BY <1>4 DEF Tended, InCache
    <2>2. ASSUME NEW type, Armed(s, x, type), s.type[t] # type \/ s.mce[t] # x
          PROVE  Armed(r, x, type)
      BY <1>6, <2>2 DEF Armed
    <2>3. r.status[x] = "NOT_ACTIVE" => Armed(r, x, "MAP_REQUEST_RETRY")
      BY <1>4, <2>1, <2>2 DEF TendedEntry
    <2>4. InCache(r, x) /\ r.status[x] = "ACTIVE" => Armed(r, x, "EXPIRE_MAP_CACHE")
      BY <1>4, <2>1, <2>2 DEF TendedEntry
    <2>5. ASSUME InCache(r, x), r.locator[x] # "none" PROVE Armed(r, x, "RLOC_PROBING")
      <3>1. CASE s.type[t] = "RLOC_PROBING" /\ s.mce[t] = x
        <4>1. PICK u \in s.armed \ {t} : s.type[u] = "RLOC_PROBING" /\ s.mce[u] = x
          BY <1>4, <2>1, <2>5, <3>1
        <4> QED
          BY <1>6, <4>1 DEF Armed
      <3>2. CASE s.type[t] # "RLOC_PROBING" \/ s.mce[t] # x
        BY <1>4, <2>1, <2>2, <2>5, <3>2 DEF TendedEntry
      <3> QED
        BY <3>1, <3>2
    <2> QED
      BY <2>3, <2>4, <2>5 DEF TendedEntry
  <1> QED
    BY <1>1, <1>3, <1>5, <1>7 DEF Tended

\* A request of timer t, with a nonce that nothing else uses.
LEMMA SendTends ==
    ASSUME NEW s, Valid(s), NEW t \in Timers, NEW n \in FreshNonces(s), NEW probe \in BOOLEAN,
           s.type[t] # "free", probe <=> s.type[t] = "RLOC_PROBING",
           Tended(lmtimer_start(s, t)), Matches(s, net), net \subseteq Requests
    PROVE  /\ Tended(SendAndRestart(s, t, n))
           /\ Matches(SendAndRestart(s, t, n), net \cup {Request(n, s.eid[s.mce[t]], probe)})
  <1>1. PICK r, q : r = SendAndRestart(s, t, n) /\ q = lmtimer_start(s, t)
    OBVIOUS
  <1>2. s \in XtrType /\ n \in Nonces /\ \A m \in net : m.nonce # n
    BY DEF Valid, FreshNonces
  <1>3. /\ q.db = s.db /\ q.status = s.status /\ q.eid = s.eid /\ q.locator = s.locator
        /\ q.type = s.type /\ q.mce = s.mce /\ q.armed = s.armed \cup {t}
    BY <1>1, <1>2 DEF XtrType, lmtimer_start
  <1>4. /\ r.db = s.db /\ r.status = s.status /\ r.eid = s.eid /\ r.locator = s.locator
        /\ r.type = s.type /\ r.mce = s.mce /\ r.armed = s.armed \cup {t}
        /\ r.nonces = [s.nonces EXCEPT ![n] = t]
    BY <1>1, <1>2 DEF XtrType, SendAndRestart, lmtimer_start
  <1>5. Tended(r)
    <2>1. Tended(q)
      BY <1>1
    <2> QED
      BY <1>3, <1>4, <2>1, TendedFields
  <1>6. ASSUME NEW m \in net, r.nonces[m.nonce] # NULL
        PROVE  /\ m.probe <=> r.type[r.nonces[m.nonce]] = "RLOC_PROBING"
               /\ m.probe => r.eid[r.mce[r.nonces[m.nonce]]] = m.eid
    <2>1. DOMAIN s.nonces = Nonces
      BY <1>2 DEF XtrType
    <2>2. m.nonce # n /\ m.nonce \in Nonces
      BY <1>2 DEF Requests
    <2>3. r.nonces[m.nonce] = s.nonces[m.nonce]
      BY <1>4, <2>1, <2>2
    <2>4. /\ m.probe <=> s.type[s.nonces[m.nonce]] = "RLOC_PROBING"
          /\ m.probe => s.eid[s.mce[s.nonces[m.nonce]]] = m.eid
      BY <1>6, <2>3, Zenon DEF Matches
    <2> QED
      BY <1>4, <2>3, <2>4, Zenon
  <1>7. PICK m : m = Request(n, s.eid[s.mce[t]], probe)
    OBVIOUS
  <1>8. m.nonce = n /\ m.eid = s.eid[s.mce[t]] /\ m.probe = probe
    BY <1>7 DEF Request
  <1>9. r.nonces[m.nonce] = t
    BY <1>2, <1>4, <1>8 DEF XtrType
  <1>10. Matches(r, net \cup {m})
    BY <1>4, <1>6, <1>8, <1>9, Zenon DEF Matches
  <1> QED
    BY <1>1, <1>5, <1>7, <1>10

\* The entries that timer t does not tend need no timer t.
LEMMA UnarmedTended ==
    ASSUME NEW s, Valid(s), NEW t \in Timers, Tended(lmtimer_start(s, t)),
           NEW x \in Mces, x # s.mce[t] \/ s.type[t] \notin Tending
    PROVE  TendedEntry(s, x)
  <1>1. PICK q : q = lmtimer_start(s, t)
    OBVIOUS
  <1>2. /\ q.db = s.db /\ q.status = s.status /\ q.eid = s.eid /\ q.locator = s.locator
        /\ q.type = s.type /\ q.mce = s.mce /\ q.armed = s.armed \cup {t}
    BY <1>1 DEF Valid, XtrType, lmtimer_start
  <1>3. TendedEntry(q, x)
    BY <1>1 DEF Tended
  <1>4. Same(q, s, x)
    BY <1>2 DEF Same, InCache
  <1> QED
    BY <1>3, <1>4, SameTended

\* The state s in which the callback of the retry timer t runs: t is unlinked,
\* and with it linked every entry is tended.
Retrying(s, t) ==
    /\ Valid(s)
    /\ s.type[t] \in {"MAP_REQUEST_RETRY", "SMR_INV_RETRY"}
    /\ Tended(lmtimer_start(s, t))
    /\ Matches(s, net) /\ net \subseteq Requests
    /\ online = TRUE

\* The callback of a retry timer, that of a placeholder or another one.
LEMMA RetryOrRemoveTends ==
    ASSUME NEW s, NEW t \in Timers, NEW max, Retrying(s, t), RetryOrRemove(s, t, max)
    PROVE  Tended(xtr') /\ Matches(xtr', net')
  <1>1. /\ Valid(s) /\ Tended(lmtimer_start(s, t)) /\ Matches(s, net)
        /\ s.type[t] \in {"MAP_REQUEST_RETRY", "SMR_INV_RETRY"}
        /\ net \subseteq Requests /\ online = TRUE
    BY DEF Retrying
  <1>2. s.mce[t] \in Mces /\ s.status[s.mce[t]] # "free"
    BY <1>1 DEF Valid, PointersValid
  <1>3. ASSUME NEW n \in FreshNonces(s), xtr' = SendAndRestart(s, t, n),
               net' = net \cup {Request(n, s.eid[s.mce[t]], FALSE)}
        PROVE  Tended(xtr') /\ Matches(xtr', net')
    BY <1>1, <1>3, SendTends, Zenon
  <1>4. CASE xtr' = tr_mcache_remove_entry(s, s.mce[t]) /\ net' = net
    <2>1. \A x \in Mces \ {s.mce[t]} : TendedEntry(s, x)
      BY <1>1, UnarmedTended
    <2>2. Tended(xtr') /\ Keeps(s, xtr')
      BY <1>1, <1>2, <1>4, <2>1, RemoveEntryKeeps
    <2>3. \A m \in net : m.nonce \in Nonces
      BY <1>1 DEF Requests
    <2> QED
      BY <1>1, <1>4, <2>2, <2>3, KeepsMatches, Zenon
  <1> QED
    BY <1>1, <1>3, <1>4, Zenon DEF RetryOrRemove

\* An unlinked timer that fires: with it the state is as before.
LEMMA UnlinkTended ==
    ASSUME Inv, NEW t \in Timers, NEW type \in TimerTypes, Fired(t, type),
           Tended(xtr), Matches(xtr, net)
    PROVE  /\ Tended(lmtimer_start(Unlink(t), t))
           /\ Matches(Unlink(t), net)
           /\ Keeps(xtr, Unlink(t))
  <1>1. xtr \in XtrType /\ t \in xtr.armed
    BY DEF Inv, Valid, Fired
  <1>2. PICK s, q : s = Unlink(t) /\ q = lmtimer_start(s, t)
    OBVIOUS
  <1>3. /\ s.db = xtr.db /\ s.status = xtr.status /\ s.eid = xtr.eid /\ s.locator = xtr.locator
        /\ s.type = xtr.type /\ s.mce = xtr.mce /\ s.armed = xtr.armed \ {t}
        /\ s.nonces = xtr.nonces /\ s \in XtrType
    BY <1>1, <1>2 DEF XtrType, Unlink
  <1>4. /\ q.db = s.db /\ q.status = s.status /\ q.eid = s.eid /\ q.locator = s.locator
        /\ q.type = s.type /\ q.mce = s.mce /\ q.armed = s.armed \cup {t}
    BY <1>1, <1>2, <1>3 DEF XtrType, lmtimer_start
  <1>5. q.armed = xtr.armed
    BY <1>1, <1>3, <1>4
  <1>6. Tended(q)
    BY <1>3, <1>4, <1>5, TendedFields
  <1>7. Matches(s, net) /\ Keeps(xtr, s)
    BY <1>3, Zenon DEF Matches, Keeps
  <1> QED
    BY <1>2, <1>6, <1>7

\* A placeholder and its timer, about to send the first request.
LEMMA MissTends ==
    ASSUME Inv, Tended(xtr), Matches(xtr, net), online = TRUE,
           NEW h \in Hosts, handle_map_cache_miss(h)
    PROVE  Tended(xtr') /\ Matches(xtr', net')
  <1>1. xtr.db[h] = NULL /\ h \in Eids /\ Valid(xtr) /\ net \subseteq Requests
    BY MapCacheAssumption, Zenon DEF handle_map_cache_miss, mcache_lookup, Eids, Inv, TypeOK
  <1>2. PICK e \in FreeMces(xtr), t \in FreeTimers(xtr) :
          RetryOrRemove(NewTimer(NewEntry(xtr, e, "NOT_ACTIVE", h, "none"), t,
                                 "MAP_REQUEST_RETRY", e),
                        t, map_request_retries)
    BY DEF handle_map_cache_miss
  <1>3. PICK s : s = NewEntry(xtr, e, "NOT_ACTIVE", h, "none")
    OBVIOUS
  <1>4. Valid(s) /\ s.status[e] = "NOT_ACTIVE" /\ s.type = xtr.type
    BY <1>1, <1>3, NewPlaceholder, Zenon DEF Added
  <1>5. Keeps(xtr, s) /\ s.locator[e] = "none" /\ \A x \in Mces \ {e} : Same(xtr, s, x)
    <2>1. Valid(xtr) /\ h \in Eids /\ "NOT_ACTIVE" \in {"ACTIVE", "NOT_ACTIVE"}
          /\ "none" \in {"none", "UP"}
      BY <1>1
    <2>2. Entered(xtr, NewEntry(xtr, e, "NOT_ACTIVE", h, "none"), e, "NOT_ACTIVE", "none")
      BY <2>1, NewEntryKeeps, Zenon
    <2> QED
      BY <1>3, <2>2, Zenon DEF Entered
  <1>6. e \in Mces /\ t \in Timers /\ t \in FreeTimers(s)
    BY <1>4 DEF FreeMces, FreeTimers
  <1>7. PICK r, q : r = NewTimer(s, t, "MAP_REQUEST_RETRY", e) /\ q = lmtimer_start(r, t)
    OBVIOUS
  <1>8. Valid(r)
    BY <1>4, <1>6, <1>7, NewTimerValid DEF TimerTypes
  <1>9. /\ Created(s, r, t, "MAP_REQUEST_RETRY", e, {})
        /\ Created(s, q, t, "MAP_REQUEST_RETRY", e, {t})
        /\ Armed(q, e, "MAP_REQUEST_RETRY")
    BY <1>4, <1>6, <1>7, NewTimerKeeps, Zenon DEF TimerTypes
  <1>10. Tended(q)
    <2>1. TendedEntry(q, e)
      BY <1>4, <1>5, <1>9, Zenon DEF Created, TendedEntry
    <2> SUFFICES ASSUME NEW x \in Mces, x # e PROVE TendedEntry(q, x)
      BY <2>1 DEF Tended
    <2>2. TendedEntry(s, x)
      BY <1>5, SameTended DEF Tended
    <2> QED
      BY <1>9, <2>2, SameTended, Zenon DEF Created
  <1>11. Matches(r, net)
    <2>1. Keeps(xtr, r)
      BY <1>5, <1>9, KeepsTrans, Zenon DEF Created
    <2>2. \A m \in net : m.nonce \in Nonces
      BY <1>1 DEF Requests
    <2> QED
      BY <2>1, <2>2, KeepsMatches
  <1>12. r.type[t] \in {"MAP_REQUEST_RETRY", "SMR_INV_RETRY"}
    <2>1. s \in XtrType
      BY <1>4 DEF Valid
    <2> QED
      BY <1>6, <1>9, <2>1, CreatedTimer, Zenon
  <1>13. RetryOrRemove(r, t, map_request_retries)
    BY <1>2, <1>3, <1>7
  <1>14. Retrying(r, t)
    BY <1>1, <1>7, <1>8, <1>10, <1>11, <1>12 DEF Retrying
  <1> QED
    BY <1>6, <1>13, <1>14, RetryOrRemoveTends

\* An SMR: its timer tends nothing.
LEMMA SmrTends ==
    ASSUME Inv, Tended(xtr), Matches(xtr, net), online = TRUE,
           NEW k \in Eids, tr_reply_to_smr(k)
    PROVE  Tended(xtr') /\ Matches(xtr', net')
  <1>1. Valid(xtr) /\ net \subseteq Requests
    BY DEF Inv, TypeOK
  <1>2. PICK e : e = mcache_lookup(xtr, k)
    OBVIOUS
  <1>3. e \in Mces /\ xtr.status[e] # "free"
    <2>1. mcache_lookup(xtr, k) # NULL
      BY Zenon DEF tr_reply_to_smr
    <2> QED
      BY <1>1, <1>2, <2>1, FoundEntry, Zenon
  <1>4. PICK t \in FreeTimers(xtr) :
          RetryOrRemove(NewTimer(xtr, t, "SMR_INV_RETRY", e), t, LISPD_MAX_SMR_RETRANSMIT)
    BY <1>2 DEF tr_reply_to_smr
  <1>5. PICK r, q : r = NewTimer(xtr, t, "SMR_INV_RETRY", e) /\ q = lmtimer_start(r, t)
    OBVIOUS
  <1>6. Valid(r) /\ t \in Timers
    BY <1>1, <1>3, <1>5, NewTimerValid, Zenon DEF TimerTypes, FreeTimers
  <1>7. Created(xtr, r, t, "SMR_INV_RETRY", e, {}) /\ Created(xtr, q, t, "SMR_INV_RETRY", e, {t})
    BY <1>1, <1>3, <1>5, NewTimerKeeps, Zenon DEF TimerTypes
  <1>8. Tended(q)
    BY <1>7, SameTended DEF Created, Tended
  <1>9. Matches(r, net)
    <2>1. \A m \in net : m.nonce \in Nonces
      BY <1>1 DEF Requests
    <2> QED
      BY <1>7, <2>1, KeepsMatches DEF Created
  <1>10. r.type[t] \in {"MAP_REQUEST_RETRY", "SMR_INV_RETRY"}
    <2>1. xtr \in XtrType
      BY <1>1 DEF Valid
    <2> QED
      BY <1>6, <1>7, <2>1, CreatedTimer, Zenon
  <1>11. RetryOrRemove(r, t, LISPD_MAX_SMR_RETRANSMIT)
    BY <1>4, <1>5
  <1>12. Retrying(r, t)
    BY <1>1, <1>5, <1>6, <1>8, <1>9, <1>10 DEF Retrying
  <1> QED
    BY <1>6, <1>11, <1>12, RetryOrRemoveTends

\* The callbacks of the retry timers and of the expiration timer.
LEMMA RetryTimersTend ==
    ASSUME Inv, Tended(xtr), Matches(xtr, net), online = TRUE, NEW t \in Timers,
           \/ send_map_request_retry_cb(t)
           \/ smr_invoked_map_request_cb(t)
           \/ mc_entry_expiration_timer_cb(t)
    PROVE  Tended(xtr') /\ Matches(xtr', net')
  <1>1. Valid(xtr) /\ net \subseteq Requests /\ \A m \in net : m.nonce \in Nonces
    BY DEF Inv, TypeOK, Requests
  <1>2. PICK s : s = Unlink(t)
    OBVIOUS
  <1>3. ASSUME NEW type \in TimerTypes, Fired(t, type)
        PROVE  /\ Valid(s) /\ s.type[t] = type /\ s.mce = xtr.mce /\ s.status = xtr.status
               /\ Tended(lmtimer_start(s, t)) /\ Matches(s, net) /\ Keeps(xtr, s)
    BY <1>2, <1>3, UnlinkValid, UnlinkTended
  <1>4. CASE send_map_request_retry_cb(t)
    <2>1. Fired(t, "MAP_REQUEST_RETRY") /\ RetryOrRemove(s, t, map_request_retries)
      BY <1>2, <1>4 DEF send_map_request_retry_cb
    <2>2. Retrying(s, t)
      BY <1>1, <1>3, <2>1 DEF TimerTypes, Retrying
    <2> QED
      BY <1>1, <2>1, <2>2, RetryOrRemoveTends
  <1>5. CASE smr_invoked_map_request_cb(t)
    <2>1. Fired(t, "SMR_INV_RETRY") /\ RetryOrRemove(s, t, LISPD_MAX_SMR_RETRANSMIT)
      BY <1>2, <1>5 DEF smr_invoked_map_request_cb
    <2>2. Retrying(s, t)
      BY <1>1, <1>3, <2>1 DEF TimerTypes, Retrying
    <2> QED
      BY <1>1, <2>1, <2>2, RetryOrRemoveTends
  <1>6. CASE mc_entry_expiration_timer_cb(t)
    <2>1. /\ Fired(t, "EXPIRE_MAP_CACHE")
          /\ xtr' = tr_mcache_remove_entry(s, xtr.mce[t]) /\ net' = net
      BY <1>2, <1>6 DEF mc_entry_expiration_timer_cb
    <2>2. /\ Valid(s) /\ s.mce = xtr.mce /\ s.status = xtr.status /\ s.type[t] = "EXPIRE_MAP_CACHE"
          /\ Tended(lmtimer_start(s, t)) /\ Matches(s, net)
      BY <1>3, <2>1, Zenon DEF TimerTypes
    <2>3. s.mce[t] \in Mces /\ s.status[s.mce[t]] # "free"
      BY <2>2, Zenon DEF Valid, PointersValid
    <2>4. \A x \in Mces \ {s.mce[t]} : TendedEntry(s, x)
      BY <2>2, UnarmedTended
    <2>5. Tended(xtr') /\ Keeps(s, xtr')
      BY <2>1, <2>2, <2>3, <2>4, RemoveEntryKeeps, Zenon
    <2> QED
      BY <1>1, <2>1, <2>2, <2>5, KeepsMatches, Zenon
  <1> QED
    BY <1>4, <1>5, <1>6

\* The callback of a probing timer: it is started again unless its entry is
\* not in the cache.
LEMMA ProbeTimersTend ==
    ASSUME Inv, Tended(xtr), Matches(xtr, net), online = TRUE, NEW t \in Timers,
           rloc_probing_cb(t)
    PROVE  Tended(xtr') /\ Matches(xtr', net')
  <1>1. Valid(xtr) /\ net \subseteq Requests /\ \A m \in net : m.nonce \in Nonces
    BY DEF Inv, TypeOK, Requests
  <1>2. PICK s : s = Unlink(t)
    OBVIOUS
  <1>3. /\ Valid(s) /\ s.type[t] = "RLOC_PROBING"
        /\ Tended(lmtimer_start(s, t)) /\ Matches(s, net)
    BY <1>2, UnlinkValid, UnlinkTended, Zenon DEF rloc_probing_cb, TimerTypes
  <1>4. PICK e : e = s.mce[t]
    OBVIOUS
  <1>5. e \in Mces /\ s.status[e] # "free" /\ s.eid[e] \in Eids /\ s \in XtrType
    BY <1>3, <1>4 DEF Valid, PointersValid
  <1>6. PICK q, r : q = htable_nonces_reset_nonces_lst(s, {t}) /\ r = lmtimer_start(q, t)
    OBVIOUS
  <1>7. \/ \E n \in FreshNonces(s) : /\ xtr' = SendAndRestart(s, t, n)
                                     /\ net' = net \cup {Request(n, s.eid[e], TRUE)}
        \/ s.db[s.eid[e]] = NULL /\ xtr' = [s EXCEPT !.locator[e] = "DOWN"] /\ net' = net
        \/ s.locator[e] = "UP" /\ xtr' = [r EXCEPT !.locator[e] = "DOWN"] /\ net' = net
        \/ xtr' = r /\ net' = net
    BY <1>2, <1>4, <1>6, Zenon DEF rloc_probing_cb
  <1>8. ASSUME NEW n \in FreshNonces(s), xtr' = SendAndRestart(s, t, n),
               net' = net \cup {Request(n, s.eid[e], TRUE)}
        PROVE  Tended(xtr') /\ Matches(xtr', net')
    BY <1>1, <1>3, <1>4, <1>8, SendTends, Zenon
  <1>9. Valid(r) /\ r.locator = s.locator /\ Tended(r) /\ Keeps(s, r)
    <2>1. PICK p : p = lmtimer_start(s, t)
      OBVIOUS
    <2>2. /\ p.db = s.db /\ p.status = s.status /\ p.eid = s.eid /\ p.locator = s.locator
          /\ p.type = s.type /\ p.mce = s.mce /\ p.armed = s.armed \cup {t}
      BY <1>5, <2>1 DEF XtrType, lmtimer_start
    <2>3. /\ q \in XtrType
          /\ q.db = s.db /\ q.status = s.status /\ q.eid = s.eid /\ q.locator = s.locator
          /\ q.type = s.type /\ q.mce = s.mce /\ q.armed = s.armed
          /\ q.nonces = [n \in Nonces |-> IF s.nonces[n] \in {t} THEN NULL ELSE s.nonces[n]]
      BY <1>5, <1>6 DEF XtrType, htable_nonces_reset_nonces_lst
    <2>4. /\ r.db = q.db /\ r.status = q.status /\ r.eid = q.eid /\ r.locator = q.locator
          /\ r.type = q.type /\ r.mce = q.mce /\ r.armed = q.armed \cup {t}
          /\ r.nonces = q.nonces
      BY <1>6, <2>3 DEF XtrType, lmtimer_start
    <2>5. Tended(p)
      BY <1>3, <2>1
    <2>6. Tended(r)
      BY <2>2, <2>3, <2>4, <2>5, TendedFields, Zenon
    <2>7. Keeps(s, r)
      <3> SUFFICES ASSUME NEW n \in Nonces, r.nonces[n] # NULL
                   PROVE  r.nonces[n] = s.nonces[n]
        BY <2>3, <2>4, Zenon DEF Keeps
      <3>1. r.nonces[n] = IF s.nonces[n] \in {t} THEN NULL ELSE s.nonces[n]
        BY <2>3, <2>4, Zenon
      <3> QED
        BY <3>1, Zenon
    <2>8. Valid(q)
      BY <1>3, <1>6, ResetNoncesValid
    <2>9. q.armed \cup {t} \in SUBSET Timers /\ \A v \in q.armed \cup {t} : q.type[v] # "free"
      <3>1. q.armed \subseteq Timers
        BY <2>3 DEF XtrType
      <3>2. \A v \in q.armed : q.type[v] # "free"
        BY <2>8, <3>1 DEF Valid, PointersValid
      <3> QED
        BY <1>3, <2>3, <3>1, <3>2, Zenon
    <2>10. r = [q EXCEPT !.armed = q.armed \cup {t}]
      BY <1>6 DEF lmtimer_start
    <2>11. Valid(r)
      BY <2>8, <2>9, <2>10, ArmValid
    <2> QED
      BY <2>3, <2>4, <2>6, <2>7, <2>11, Zenon
  <1>10. CASE s.db[s.eid[e]] = NULL /\ xtr' = [s EXCEPT !.locator[e] = "DOWN"] /\ net' = net
    <2>1. PICK u : u = [s EXCEPT !.locator[e] = "DOWN"]
      BY Zenon
    <2>a. Located(s, u, e, "DOWN")
      <3>1. Valid(s) /\ e \in Mces /\ "DOWN" \in {"none", "UP", "DOWN"}
        BY <1>3, <1>5
      <3> QED
        BY <2>1, <3>1, LocatorKeeps, Zenon
    <2>2. Keeps(s, u) /\ u.db = s.db /\ u.status = s.status /\ u.eid = s.eid
      BY <2>a, Zenon DEF Located
    <2>3. \A x \in Mces \ {e} : Same(s, u, x)
      BY <2>a, Zenon DEF Located
    <2>4. TendedEntry(u, e)
      <3>1. e # NULL
        BY <1>5, MapCacheAssumption
      <3> QED
        BY <1>3, <1>5, <1>10, <2>2, <3>1 DEF TendedEntry, InCache, Valid, PlaceholdersCached
    <2>5. ASSUME NEW x \in Mces, x # e PROVE TendedEntry(u, x)
      <3>1. TendedEntry(s, x)
        BY <1>3, <1>4, <2>5, UnarmedTended
      <3> QED
        BY <2>3, <2>5, <3>1, SameTended
    <2>6. Tended(u)
      BY <2>4, <2>5 DEF Tended
    <2>7. Matches(u, net)
      BY <1>1, <1>3, <2>2, KeepsMatches
    <2> QED
      BY <1>10, <2>1, <2>6, <2>7
  <1>11. Matches(r, net)
    BY <1>1, <1>3, <1>9, KeepsMatches
  <1>12. CASE s.locator[e] = "UP" /\ xtr' = [r EXCEPT !.locator[e] = "DOWN"] /\ net' = net
    <2>1. PICK u : u = [r EXCEPT !.locator[e] = "DOWN"]
      BY Zenon
    <2>2. Keeps(r, u) /\ \A x \in Mces : Same(r, u, x)
      <3>1. Valid(r) /\ e \in Mces /\ "DOWN" \in {"none", "UP", "DOWN"}
        BY <1>5, <1>9
      <3>2. Located(r, u, e, "DOWN")
        BY <2>1, <3>1, LocatorKeeps, Zenon
      <3>3. r.locator[e] # "none" /\ "DOWN" # "none"
        BY <1>9, <1>12
      <3> QED
        BY <3>2, <3>3, Zenon DEF Located
    <2>3. Tended(u)
      BY <1>9, <2>2, SameTended DEF Tended
    <2>4. Matches(u, net)
      BY <1>1, <1>11, <2>2, KeepsMatches
    <2> QED
      BY <1>12, <2>1, <2>3, <2>4
  <1> QED
    BY <1>7, <1>8, <1>9, <1>10, <1>11, <1>12, Zenon

\* A Map-Reply that is not for a probe.
LEMMA ReplyTends ==
    ASSUME Inv, Tended(xtr), Matches(xtr, net), probe_interval # 0,
           NEW m \in net, NEW rec \in Answers(m.eid), tr_recv_map_reply(m, rec)
    PROVE  Tended(xtr') /\ Matches(xtr', net')
  <1>1. Valid(xtr) /\ m.nonce \in Nonces /\ rec \in Records /\ \A v \in net : v.nonce \in Nonces
    BY Zenon DEF Inv, TypeOK, Requests, Answers
  <1>2. PICK t : t = xtr.nonces[m.nonce]
    OBVIOUS
  <1>3. t # NULL /\ ~m.probe /\ net' = net
    BY <1>2, Zenon DEF tr_recv_map_reply
  <1>4. t \in Timers /\ xtr.type[t] \in {"MAP_REQUEST_RETRY", "SMR_INV_RETRY"}
    <2>1. t \in Timers /\ xtr.type[t] \in TimerTypes \ {"EXPIRE_MAP_CACHE"}
      BY <1>1, <1>2, <1>3, NonceTimer, Zenon
    <2>2. xtr.type[t] # "RLOC_PROBING"
      BY <1>2, <1>3, Zenon DEF Matches
    <2> QED
      BY <2>1, <2>2 DEF TimerTypes
  <1>5. PICK e : e = xtr.mce[t]
    OBVIOUS
  <1>6. e \in Mces /\ xtr.status[e] # "free"
    BY <1>1, <1>4, <1>5, Zenon DEF Valid, PointersValid
  <1>7. PICK s : s = tr_mcache_remove_entry(xtr, e)
    OBVIOUS
  <1>8. Valid(s) /\ Keeps(xtr, s) /\ Tended(s)
    BY <1>1, <1>6, <1>7, RemoveEntryValid, RemoveEntryKeeps, Zenon DEF Tended
  <1>9. \/ xtr' = s
        \/ \E f \in FreeMces(s), te \in FreeTimers(s) : \E tp \in FreeTimers(s) \ {te} :
              xtr' = tr_mcache_add_mapping(s, rec, f, te, tp)
        \/ xtr' = xtr
        \/ /\ xtr.status[e] = "ACTIVE"
           /\ \E te \in FreeTimers(xtr) : \E tp \in FreeTimers(xtr) \ {te} :
                xtr' = StopTimers(update_mcache_entry(xtr, rec, te, tp), {t})
    BY <1>2, <1>5, <1>7, ZenonT(40) DEF tr_recv_map_reply
  <1>10. SUFFICES Tended(xtr') /\ Keeps(xtr, xtr')
    BY <1>1, <1>3, KeepsMatches
  <1>11. ASSUME NEW f \in FreeMces(s), NEW te \in FreeTimers(s), NEW tp \in FreeTimers(s) \ {te},
                xtr' = tr_mcache_add_mapping(s, rec, f, te, tp)
         PROVE  Tended(xtr') /\ Keeps(xtr, xtr')
    <2>1. Tended(xtr') /\ Keeps(s, xtr')
      BY <1>1, <1>8, <1>11, AddMappingTends
    <2> QED
      BY <1>8, <2>1, KeepsTrans
  <1>12. ASSUME xtr.status[e] = "ACTIVE",
                NEW te \in FreeTimers(xtr), NEW tp \in FreeTimers(xtr) \ {te},
                xtr' = StopTimers(update_mcache_entry(xtr, rec, te, tp), {t})
         PROVE  Tended(xtr') /\ Keeps(xtr, xtr')
    <2>1. PICK v : v = update_mcache_entry(xtr, rec, te, tp)
      OBVIOUS
    <2>2. Valid(v)
      BY <1>1, <2>1, UpdateEntryValid
    <2>3. /\ Keeps(xtr, v) /\ Tended(v) /\ v.status = xtr.status
          /\ \A u \in Timers : xtr.type[u] \notin {"free", "RLOC_PROBING"} =>
               v.type[u] = xtr.type[u] /\ v.mce[u] = xtr.mce[u]
      <3>1. LET w == update_mcache_entry(xtr, rec, te, tp)
            IN  /\ Keeps(xtr, w)
                /\ Tended(xtr) => Tended(w)
                /\ w.status = xtr.status
                /\ \A u \in Timers : xtr.type[u] \notin {"free", "RLOC_PROBING"} =>
                     w.type[u] = xtr.type[u] /\ w.mce[u] = xtr.mce[u]
        BY <1>1, UpdateEntryTends, Zenon
      <3> QED
        BY <1>1, <2>1, <3>1, Zenon
    <2>4. v.type[t] = xtr.type[t] /\ v.mce[t] = e
      BY <1>4, <1>5, <2>3, Zenon
    <2>5. v.status[v.mce[t]] # "NOT_ACTIVE"
      BY <1>12, <2>3, <2>4, Zenon
    <2>6. Keeps(v, StopTimers(v, {t})) /\ Tended(StopTimers(v, {t}))
      BY <1>4, <2>2, <2>3, <2>4, <2>5, StopOneTends, Zenon
    <2> QED
      BY <1>12, <2>1, <2>3, <2>6, KeepsTrans, Zenon
  <1>13. Keeps(xtr, xtr)
    BY Zenon DEF Keeps
  <1> QED
    BY <1>8, <1>9, <1>11, <1>12, <1>13, Zenon

\* The answer to a probe: the timer that is stopped probes the entry that gets
\* another one, or an entry out of the cache.
LEMMA ProbeReplyTends ==
    ASSUME Inv, Tended(xtr), Matches(xtr, net),
           NEW m \in net, NEW rec \in ProbeAnswers(m.eid), tr_recv_map_reply_probe(m, rec)
    PROVE  Tended(xtr') /\ Matches(xtr', net')
  <1>1. /\ Valid(xtr) /\ m.nonce \in Nonces /\ rec.eid = m.eid /\ m.eid \in Eids
        /\ \A v \in net : v.nonce \in Nonces
    BY Zenon DEF Inv, TypeOK, Requests, ProbeAnswers
  <1>2. PICK t, e : t = xtr.nonces[m.nonce] /\ e = xtr.db[rec.eid]
    BY Zenon
  <1>3. t # NULL /\ m.probe /\ net' = net
    BY <1>2 DEF tr_recv_map_reply_probe
  <1>4. t \in Timers
    BY <1>1, <1>2, <1>3, Zenon DEF Valid, XtrType
  <1>5. PICK d : d = xtr.mce[t]
    OBVIOUS
  <1>6. xtr.type[t] = "RLOC_PROBING" /\ xtr.eid[d] = rec.eid
    BY <1>1, <1>2, <1>3, <1>5 DEF Matches
  <1>7. d \in Mces /\ (InCache(xtr, d) => d = e)
    BY <1>2, <1>4, <1>5, <1>6, Zenon DEF InCache, Inv, Valid, PointersValid
  <1>8. e # NULL => e \in Mces /\ xtr.status[e] # "free"
    <2>1. rec.eid \in Eids
      BY <1>1, Zenon
    <2> QED
      <3>1. xtr.db[rec.eid] \in Mces \cup {NULL}
        BY <1>1, <2>1 DEF Valid, XtrType
      <3>2. xtr.db[rec.eid] # NULL => xtr.status[xtr.db[rec.eid]] # "free"
        BY <1>1, <2>1 DEF Valid, PointersValid
      <3> QED
        BY <1>2, <3>1, <3>2
  <1>9. \/ xtr' = xtr
        \/ xtr.locator[e] = "none" /\ xtr' = StopTimers(xtr, {t})
        \/ /\ e # NULL /\ xtr.locator[e] # "none"
           /\ \E tp \in FreeTimers(xtr) :
                xtr' = StopTimers(program_rloc_probing([xtr EXCEPT !.locator[e] = "UP"], e, tp),
                                  {t})
    BY <1>2 DEF tr_recv_map_reply_probe
  <1>10. SUFFICES Tended(xtr') /\ Keeps(xtr, xtr')
    BY <1>1, <1>3, KeepsMatches
  <1>11. CASE xtr' = xtr
    BY <1>11, Zenon DEF Keeps
  <1>12. CASE xtr.locator[e] = "none" /\ xtr' = StopTimers(xtr, {t})
    BY <1>1, <1>4, <1>5, <1>6, <1>7, <1>12, StopOneTends, Zenon
  <1>13. ASSUME e # NULL, xtr.locator[e] # "none", NEW tp \in FreeTimers(xtr),
                xtr' = StopTimers(program_rloc_probing([xtr EXCEPT !.locator[e] = "UP"], e, tp),
                                  {t})
         PROVE  Tended(xtr') /\ Keeps(xtr, xtr')
    <2>1. PICK u : u = [xtr EXCEPT !.locator[e] = "UP"]
      BY Zenon
    <2>2. /\ Valid(u) /\ Keeps(xtr, u) /\ \A x \in Mces : Same(xtr, u, x)
          /\ u.db = xtr.db /\ u.eid = xtr.eid /\ u.status = xtr.status /\ u.type = xtr.type
          /\ u.mce = xtr.mce
      <3>1. e \in Mces /\ "UP" \in {"none", "UP", "DOWN"}
        BY <1>8, <1>13
      <3>2. Valid([xtr EXCEPT !.locator[e] = "UP"])
        BY <1>1, <3>1, LocatorValid, Zenon
      <3>3. Located(xtr, [xtr EXCEPT !.locator[e] = "UP"], e, "UP")
        BY <1>1, <3>1, LocatorKeeps, Zenon
      <3>4. Valid(u) /\ Located(xtr, u, e, "UP")
        BY <2>1, <3>2, <3>3, Zenon
      <3>5. "UP" # "none"
        OBVIOUS
      <3> QED
        BY <1>13, <3>4, <3>5, Zenon DEF Located
    <2>3. tp \in FreeTimers(u) /\ tp \in Timers /\ tp # t
      BY <1>6, <2>2, Zenon DEF FreeTimers
    <2>4. PICK v : v = program_rloc_probing(u, e, tp)
      OBVIOUS
    <2>5. Valid(v)
      BY <1>8, <1>13, <2>2, <2>3, <2>4, ProbingValid
    <2>6. Created(u, v, tp, "RLOC_PROBING", e, {tp})
      BY <1>8, <1>13, <2>2, <2>3, <2>4, NewTimerKeeps, Zenon DEF program_rloc_probing, TimerTypes
    <2>7. Tended(v)
      <3>1. Tended(u)
        BY <2>2, SameTended DEF Tended
      <3> QED
        BY <2>6, <3>1, SameTended, Zenon DEF Created, Tended
    <2>a. u \in XtrType
      BY <2>2, Zenon DEF Valid
    <2>8. v.type[t] = "RLOC_PROBING" /\ v.mce[t] = d
      <3>1. v.type[t] = u.type[t] /\ v.mce[t] = u.mce[t]
        BY <1>4, <2>a, <2>3, <2>6, OtherTimer
      <3> QED
        BY <1>5, <1>6, <2>2, <3>1, Zenon
    <2>9. tp \in v.armed \ {t} /\ v.type[tp] = "RLOC_PROBING" /\ v.mce[tp] = e
      <3>1. v.type[tp] = "RLOC_PROBING" /\ v.mce[tp] = e
        BY <2>a, <2>3, <2>6, CreatedTimer, Zenon
      <3>2. tp \in v.armed
        BY <2>6, Zenon DEF Created
      <3> QED
        BY <2>3, <3>1, <3>2, Zenon
    <2>10. InCache(v, d) => d = e
      BY <1>7, <2>2, <2>6, Zenon DEF Created, InCache
    <2>11. Keeps(v, StopTimers(v, {t})) /\ Tended(StopTimers(v, {t}))
      BY <1>4, <2>5, <2>7, <2>8, <2>9, <2>10, StopOneTends, Zenon
    <2>12. Keeps(xtr, v)
      BY <2>2, <2>6, KeepsTrans, Zenon DEF Created
    <2> QED
      BY <1>13, <2>1, <2>4, <2>11, <2>12, KeepsTrans
  <1> QED
    BY <1>9, <1>11, <1>12, <1>13

\* The invariant is inductive while the control RLOCs do not go away.
LEMMA TendStep ==
    ASSUME ~Outages, probe_interval # 0
    PROVE  TendInv /\ [Next]_vars => TendInv'
  <1> SUFFICES ASSUME TendInv, [Next]_vars PROVE TendInv'
    OBVIOUS
  <1>1. Inv /\ Tended(xtr) /\ Matches(xtr, net) /\ online = TRUE
    BY DEF TendInv
  <1>2. Inv'
    BY <1>1, InvStep
  <1>3. online' = TRUE
    BY <1>1, Zenon DEF Next, vars, handle_map_cache_miss, tr_reply_to_smr, TimerFires,
                send_map_request_retry_cb, smr_invoked_map_request_cb,
                mc_entry_expiration_timer_cb, rloc_probing_cb, tr_recv_map_reply,
                tr_recv_map_reply_probe, Lose, LoseRlocs, RecoverRlocs
  <1>4. ASSUME NEW m \in net, Lose(m) PROVE Tended(xtr') /\ Matches(xtr', net')
    <2>1. xtr' = xtr /\ net' \subseteq net
      BY <1>4 DEF Lose
    <2> QED
      BY <1>1, <2>1 DEF Matches
  <1>5. xtr' = xtr /\ net' = net => Tended(xtr') /\ Matches(xtr', net')
    BY <1>1
  <1>6. Tended(xtr') /\ Matches(xtr', net')
    BY <1>1, <1>4, <1>5, MissTends, SmrTends, RetryTimersTend, ProbeTimersTend, ReplyTends,
       ProbeReplyTends, Zenon DEF Next, TimerFires, LoseRlocs, RecoverRlocs, vars
  <1>7. Tended(xtr)' /\ Matches(xtr, net)'
    BY <1>6, Zenon DEF Tended, TendedEntry, InCache, Armed, Matches
  <1> QED
    BY <1>2, <1>3, <1>7 DEF TendInv

\* Nothing in the cache is forgotten by its timers as long as requests can be
\* sent and probing is configured: placeholders are retried, locators probed
\* and ACTIVE entries expire, for any number of entries, timers and retries.
\* (With outages of the control RLOCs it is false: the callbacks of lisp_xtr.c
\* that fail to send a request do not start their timer again.)
THEOREM EntriesStayTended ==
    ASSUME ~Outages, probe_interval # 0
    PROVE  Spec => []EntriesAreTended
  <1>1. Init => TendInv
    <2> SUFFICES ASSUME Init PROVE TendInv
      OBVIOUS
    <2>1. Tended(xtr)
      BY DEF Init, Tended, TendedEntry, InCache
    <2>2. online = TRUE /\ Matches(xtr, net)
      BY DEF Init, Matches
    <2> QED
      BY <2>1, <2>2, InvInit DEF TendInv
  <1>2. TendInv /\ [Next]_vars => TendInv'
    BY TendStep
  <1>3. TendInv => EntriesAreTended
    <2> SUFFICES ASSUME TendInv, NEW e \in Mces
                 PROVE  /\ xtr.status[e] = "NOT_ACTIVE" => HasArmed(e, "MAP_REQUEST_RETRY")
                        /\ Cached(e) /\ xtr.locator[e] # "none" => HasArmed(e, "RLOC_PROBING")
                        /\ Cached(e) /\ xtr.status[e] = "ACTIVE" => HasArmed(e, "EXPIRE_MAP_CACHE")
      BY DEF EntriesAreTended, PlaceholdersAreRetried, LocatorsAreProbed, EntriesExpire
    <2>1. xtr \in XtrType /\ TendedEntry(xtr, e)
      BY DEF TendInv, Inv, Valid, Tended
    <2>2. ASSUME NEW type \in TimerTypes, Armed(xtr, e, type) PROVE HasArmed(e, type)
      BY <2>1, <2>2 DEF Armed, HasArmed, TimersOf, XtrType, TimerTypes
    <2> QED
      BY <2>1, <2>2 DEF TendedEntry, InCache, Cached, TimerTypes
  <1> QED
    BY <1>1, <1>2, <1>3, PTL DEF Spec

=============================================================================
