-------------------------- MODULE MapServerProofs --------------------------
(***************************************************************************)
(* Proofs about the Map-Server for any set of sites, prefixes, keys and    *)
(* messages.                                                               *)
(***************************************************************************)
EXTENDS MapServer, WellFoundedInduction, TLAPS

\* The invariant.  Static entries are never removed, because only entries
\* with a timer expire; the confirmed records of the call being processed are
\* registered, and its key is the key of the message.
Inv ==
    /\ TypeOK
    /\ Static \subseteq Registered
    /\ DynamicEntriesExpire
    /\ call # NULL => /\ answer = NULL
                      /\ call.valid \subseteq Registered
                      /\ call.key # NULL => call.key = call.msg.key
    /\ NotifiedIsRegistered

\* No key is an initial segment of another key.
DistinctKeys == \A k, l \in Keys : <<k, l>> \in KeyPrefix => k = l

\* The longest match is an entry of the database.
LEMMA LookupType ==
    ASSUME NEW db \in SUBSET Prefixes, NEW p, mdb_lookup_entry(db, p) # NULL
    PROVE  mdb_lookup_entry(db, p) \in db
  <1> DEFINE covering == {c \in db : PartOf(p, c)}
             T == {WIDTH - c.plen : c \in covering}
  <1>1. covering # {}
    BY DEF mdb_lookup_entry
  <1>2. \A c \in covering : c.plen \in 0 .. WIDTH
    BY MapServerAssumption
  <1>3. T \subseteq Nat /\ T # {} /\ WIDTH \in Nat
    BY <1>1, <1>2, MapServerAssumption
  <1>4. \E x \in T : \A y \in T : ~(<<y, x>> \in OpToRel(<, Nat))
    <2> HIDE DEF T
    <2> QED
      BY <1>3, WFMin, NatLessThanWellFounded
  <1>5. PICK x \in T : \A y \in T : ~(y < x)
    <2>1. \A x, y \in Nat : y < x => <<y, x>> \in OpToRel(<, Nat)
      BY DEF OpToRel
    <2> HIDE DEF T
    <2> QED
      BY <1>3, <1>4, <2>1
  <1>6. PICK c \in covering : x = WIDTH - c.plen
    OBVIOUS
  <1>7. \A d \in covering : d.plen <= c.plen
    <2> TAKE d \in covering
    <2>1. ~(WIDTH - d.plen < WIDTH - c.plen)
      BY <1>5, <1>6
    <2> QED
      BY <1>2, <1>3, <2>1
  <1> HIDE DEF covering
  <1>8. (CHOOSE e \in covering : \A d \in covering : d.plen <= e.plen) \in covering
    BY <1>6, <1>7
  <1> QED
    BY <1>1, <1>8 DEF mdb_lookup_entry, covering

-----------------------------------------------------------------------------

\* The record that is being processed has its type.
LEMMA RecordType ==
    ASSUME TypeOK, Processing
    PROVE  /\ call \in Calls /\ call.msg \in Messages
           /\ Record.eid \in Prefixes /\ Record.mapping \in Mappings
           /\ call.msg.key \in Keys /\ call.msg.proxy \in BOOLEAN
           /\ call.i + 1 \in Nat \ {0}
  <1>1. call \in Calls
    BY DEF TypeOK, Processing
  <1>2. call.msg \in Messages /\ call.i \in Nat \ {0}
    BY <1>1 DEF Calls
  <1>3. /\ call.msg.records \in Seq([eid : Prefixes, mapping : Mappings, parses : BOOLEAN])
        /\ call.msg.key \in Keys /\ call.msg.proxy \in BOOLEAN
    BY <1>2, MapServerAssumption, Zenon
  <1>4. call.i \in 1 .. Len(call.msg.records)
    BY <1>2, <1>3 DEF Processing
  <1>5. Record \in [eid : Prefixes, mapping : Mappings, parses : BOOLEAN]
    <2>1. \A S : \A s \in Seq(S) : \A i \in 1 .. Len(s) : s[i] \in S
      OBVIOUS
    <2> QED
      BY <1>3, <1>4, <2>1, Zenon DEF Record
  <1> QED
    BY <1>1, <1>2, <1>3, <1>5

\* The server starts with the static registrations, which have no timers.
LEMMA InvInit == Init => Inv
  <1> SUFFICES ASSUME Init PROVE Inv
    OBVIOUS
  <1>1. TypeOK
    <2>1. reg \in [Prefixes -> Mappings \cup {NULL}]
      BY DEF Init
    <2>2. origin \in [Prefixes -> Keys \cup {NULL}]
      BY DEF Init
    <2> QED
      BY <2>1, <2>2, Zenon DEF Init, TypeOK
  <1>2. Registered = Static
    BY MapServerAssumption DEF Init, Registered
  <1> QED
    BY <1>1, <1>2 DEF Init, Inv, DynamicEntriesExpire, NotifiedIsRegistered

\* Accepting a record keeps the invariant: a new prefix gets a timer, and
\* the prefix it confirms is registered.
LEMMA AcceptStep ==
    ASSUME Inv, register_accept
    PROVE  Inv'
  <1> DEFINE p == Record.eid
             c == mdb_lookup_entry(Configured, p)
             m == NewMapping(c, p, Record.mapping)
  <1>1. /\ call \in Calls /\ call.msg \in Messages
        /\ p \in Prefixes /\ Record.mapping \in Mappings
        /\ call.msg.key \in Keys /\ call.msg.proxy \in BOOLEAN
        /\ call.i + 1 \in Nat \ {0}
    BY RecordType DEF Inv, register_accept
  <1>2. c \in Configured
    BY LookupType, MapServerAssumption DEF register_accept
  <1>3. Key[c] \in Keys /\ NULL \notin Mappings
    BY <1>2, MapServerAssumption
  <1>4. m \in Mappings
    BY <1>1 DEF NewMapping, Inv, TypeOK
  <1>5. /\ reg' = [reg EXCEPT ![p] = m]
        /\ proxy_reply' = [proxy_reply EXCEPT
                             ![c] = IF reg[p] = Record.mapping THEN @ ELSE call.msg.proxy]
        /\ call' = [call EXCEPT !.i = @ + 1,
                                !.key = IF @ = NULL THEN Key[c] ELSE @,
                                !.valid = @ \cup {p}]
        /\ origin' = [origin EXCEPT ![p] = call.msg.key]
        /\ answer' = answer
        /\ KeyAgrees(c)
    BY DEF register_accept
  <1>6. \/ reg[p] = NULL /\ timers' = timers \cup {p} /\ crashed' = crashed
        \/ reg[p] # NULL /\ p \in timers /\ timers' = timers /\ crashed' = crashed
        \/ reg[p] # NULL /\ p \notin timers /\ timers' = timers /\ crashed' = TRUE
    BY DEF register_accept, lsite_entry_start_expiration_timer
  <1> HIDE DEF p, c, m
  <1>7. call # NULL /\ answer = NULL
    BY DEF register_accept, Processing, Inv
  <1>8. call' \in Calls /\ call'.valid = call.valid \cup {p} /\ call'.msg = call.msg
        /\ call'.key = IF call.key = NULL THEN Key[c] ELSE call.key
    BY <1>1, <1>3, <1>5, Zenon DEF Calls
  <1>9. TypeOK'
    <2>1. reg' \in [Prefixes -> Mappings \cup {NULL}]
      BY <1>1, <1>4, <1>5 DEF Inv, TypeOK
    <2>2. timers' \subseteq Prefixes /\ crashed' \in BOOLEAN
      BY <1>1, <1>6, Zenon DEF Inv, TypeOK
    <2>3. proxy_reply' \in [Configured -> BOOLEAN]
      BY <1>1, <1>2, <1>5 DEF Inv, TypeOK
    <2>4. origin' \in [Prefixes -> Keys \cup {NULL}]
      BY <1>1, <1>5 DEF Inv, TypeOK
    <2> QED
      BY <1>5, <1>8, <2>1, <2>2, <2>3, <2>4 DEF Inv, TypeOK
  <1>10. Registered' = Registered \cup {p}
    BY <1>1, <1>3, <1>4, <1>5 DEF Registered, Inv, TypeOK
  <1>11. Static \subseteq Registered' /\ DynamicEntriesExpire'
    BY <1>1, <1>6, <1>10 DEF Inv, DynamicEntriesExpire, Registered
  <1>12. call'.valid \subseteq Registered' /\ (call'.key # NULL => call'.key = call'.msg.key)
    BY <1>5, <1>7, <1>8, <1>10 DEF Inv, KeyAgrees
  <1>13. NotifiedIsRegistered'
    BY <1>5, <1>7 DEF NotifiedIsRegistered
  <1> QED
    BY <1>5, <1>7, <1>9, <1>11, <1>12, <1>13 DEF Inv

\* Every step keeps the invariant.
LEMMA InvStep == Inv /\ [Next]_vars => Inv'
  <1> SUFFICES ASSUME Inv, [Next]_vars PROVE Inv'
    OBVIOUS
  <1>1. ASSUME NEW m \in Messages, ms_recv_map_register(m) PROVE Inv'
    <2>1. call' \in Calls /\ call'.valid = {} /\ call'.key = NULL
      BY <1>1 DEF ms_recv_map_register, Calls
    <2> QED
      BY <1>1, <2>1 DEF ms_recv_map_register, Inv, TypeOK, DynamicEntriesExpire, Registered,
                        NotifiedIsRegistered
  <1>2. CASE register_stop
    BY <1>2 DEF register_stop, Inv, TypeOK, DynamicEntriesExpire, Registered, NotifiedIsRegistered
  <1>3. CASE register_skip
    <2>1. /\ call \in Calls /\ call.msg.key \in Keys /\ call.i + 1 \in Nat \ {0}
          /\ call # NULL /\ answer = NULL
      BY <1>3, RecordType DEF register_skip, Processing, Inv
    <2>2. PICK c : c = mdb_lookup_entry(Configured, Record.eid)
      OBVIOUS
    <2>3. c # NULL => c \in Configured
      BY <2>2, LookupType, MapServerAssumption
    <2>4. \/ call' = [call EXCEPT !.i = @ + 1]
          \/ /\ c # NULL /\ KeyAgrees(c)
             /\ call' = [call EXCEPT !.i = @ + 1, !.key = IF @ = NULL THEN Key[c] ELSE @]
      BY <1>3, <2>2 DEF register_skip
    <2>5. c # NULL => Key[c] \in Keys
      BY <2>3, MapServerAssumption
    <2>6. call' \in Calls /\ call'.valid = call.valid /\ call'.msg = call.msg
      BY <2>1, <2>4, <2>5, Zenon DEF Calls
    <2>7. call'.key # NULL => call'.key = call.msg.key
      BY <2>1, <2>4, <2>5, Zenon DEF Calls, KeyAgrees, Inv
    <2> QED
      BY <1>3, <2>1, <2>6, <2>7 DEF register_skip, Inv, TypeOK, DynamicEntriesExpire, Registered,
                                    NotifiedIsRegistered
  <1>4. CASE register_accept
    BY <1>4, AcceptStep
  <1>5. CASE register_end
    <2>1. call \in Calls /\ call.valid \subseteq Registered
      BY <1>5 DEF register_end, Inv, TypeOK
    <2>2. \/ answer' = NULL
          \/ answer' = [kind |-> "notify", eids |-> call.valid] /\ call.valid # {}
      BY <1>5 DEF register_end
    <2>3. answer' \in Answers \cup {NULL}
      <3>1. call.valid \in SUBSET Prefixes
        BY <2>1 DEF Calls
      <3>2. [kind |-> "notify", eids |-> call.valid] \in Answers
        BY <3>1, Zenon DEF Answers
      <3> QED
        BY <2>2, <3>2
    <2>4. TypeOK'
      BY <1>5, <2>3 DEF register_end, Inv, TypeOK
    <2>5. NotifiedIsRegistered'
      BY <1>5, <2>1, <2>2 DEF register_end, NotifiedIsRegistered, Registered
    <2> QED
      BY <1>5, <2>4, <2>5 DEF register_end, Inv, DynamicEntriesExpire, Registered
  <1>6. ASSUME NEW p \in Prefixes, lsite_entry_expiration_timer_cb(p) PROVE Inv'
    <2>1. Registered' = Registered \ {p}
      BY <1>6 DEF lsite_entry_expiration_timer_cb, Registered, Inv, TypeOK
    <2>2. p \notin Static
      BY <1>6 DEF lsite_entry_expiration_timer_cb, Inv, DynamicEntriesExpire
    <2> QED
      BY <1>6, <2>1, <2>2 DEF lsite_entry_expiration_timer_cb, Idle, Inv, TypeOK,
                              DynamicEntriesExpire, NotifiedIsRegistered
  <1>7. ASSUME NEW deid \in Prefixes, ms_recv_map_request(deid) PROVE Inv'
    <2>1. PICK rsite : rsite = mdb_lookup_entry(Registered, deid)
      OBVIOUS
    <2>2. rsite # NULL => rsite \in Prefixes
      BY <2>1, LookupType DEF Registered
    <2>3. \/ answer' = [kind |-> "negative 15 min", eid |-> deid]
          \/ answer' = [kind |-> "negative 1 min", eid |-> deid]
          \/ rsite # NULL /\ answer' = [kind |-> "forward", site |-> rsite]
          \/ rsite # NULL /\ answer' = [kind |-> "discard", site |-> rsite]
          \/ rsite # NULL /\ answer' = [kind |-> "proxy", site |-> rsite]
      BY <1>7, <2>1 DEF ms_recv_map_request
    <2>4. answer'.kind # "notify"
      <3>1. CASE answer'.kind = "negative 15 min" \/ answer'.kind = "negative 1 min"
        BY <3>1
      <3>2. CASE answer'.kind = "forward" \/ answer'.kind = "discard" \/ answer'.kind = "proxy"
        BY <3>2
      <3>3. \A k, x : [kind |-> k, eid |-> x].kind = k /\ [kind |-> k, site |-> x].kind = k
        OBVIOUS
      <3> QED
        BY <2>3, <3>1, <3>2, <3>3, Zenon
    <2>5. answer' \in Answers
      <3>1. ASSUME NEW k \in {"negative 15 min", "negative 1 min"}
            PROVE  [kind |-> k, eid |-> deid] \in Answers
        BY <1>7, Zenon DEF Answers
      <3>2. ASSUME NEW k \in {"forward", "discard", "proxy"}, rsite # NULL
            PROVE  [kind |-> k, site |-> rsite] \in Answers
        BY <2>2, <3>2, Zenon DEF Answers
      <3> QED
        BY <2>3, <3>1, <3>2
    <2> QED
      BY <1>7, <2>4, <2>5 DEF ms_recv_map_request, Idle, Inv, TypeOK, DynamicEntriesExpire, Registered,
                        NotifiedIsRegistered
  <1>8. CASE UNCHANGED vars
    BY <1>8 DEF vars, Inv, TypeOK, DynamicEntriesExpire, Registered, NotifiedIsRegistered
  <1> QED
    BY <1>1, <1>2, <1>3, <1>4, <1>5, <1>6, <1>7, <1>8 DEF Next

\* The Map-Server keeps its types, for any configuration.
THEOREM TypeCorrect == Spec => []TypeOK
  <1>1. Inv => TypeOK
    BY DEF Inv
  <1> QED
    BY <1>1, InvInit, InvStep, PTL DEF Spec

\* A registration has an expiration timer if and only if it is not static.
THEOREM RegistrationsExpire == Spec => []DynamicEntriesExpire
  <1>1. Inv => DynamicEntriesExpire
    BY DEF Inv
  <1> QED
    BY <1>1, InvInit, InvStep, PTL DEF Spec

\* A Map-Notify confirms registered prefixes only.
THEOREM NotifiesAreTrue == Spec => []NotifiedIsRegistered
  <1>1. Inv => NotifiedIsRegistered
    BY DEF Inv
  <1> QED
    BY <1>1, InvInit, InvStep, PTL DEF Spec

\* When no configured key is an initial segment of another, every
\* registration was accepted from a message with the key of its site.
THEOREM RegistrationsAuthenticated ==
    ASSUME DistinctKeys
    PROVE  Spec => []RegisteredWithSiteKey
  <1>1. Init => RegisteredWithSiteKey
    BY DEF Init, RegisteredWithSiteKey
  <1>2. Inv /\ RegisteredWithSiteKey /\ [Next]_vars => RegisteredWithSiteKey'
    <2> SUFFICES ASSUME Inv, RegisteredWithSiteKey, [Next]_vars
                 PROVE  RegisteredWithSiteKey'
      OBVIOUS
    <2>1. CASE register_accept
      <3> DEFINE p == Record.eid
                 c == mdb_lookup_entry(Configured, p)
      <3>1. call \in Calls /\ p \in Prefixes /\ call.msg.key \in Keys
        BY <2>1, RecordType DEF Inv, register_accept
      <3>2. c \in Configured /\ KeyAgrees(c)
        BY <2>1, LookupType, MapServerAssumption DEF register_accept
      <3>3. Key[c] \in Keys /\ c # NULL
        BY <3>2, MapServerAssumption
      <3>4. /\ origin' = [origin EXCEPT ![p] = call.msg.key]
            /\ timers' \subseteq timers \cup {p}
            /\ call # NULL
        BY <2>1 DEF register_accept, lsite_entry_start_expiration_timer, Processing
      <3>5. call.key \in Keys \cup {NULL} /\ (call.key # NULL => call.key = call.msg.key)
        BY <3>1, <3>4 DEF Inv, Calls
      <3>6. call.msg.key = Key[c]
        BY <3>1, <3>2, <3>3, <3>5 DEF KeyAgrees, DistinctKeys
      <3>7. origin'[p] = Key[c] /\ \A q \in Prefixes \ {p} : origin'[q] = origin[q]
        BY <3>1, <3>4, <3>6 DEF Inv, TypeOK
      <3> HIDE DEF p
      <3>8. ASSUME NEW q \in timers'
            PROVE  mdb_lookup_entry(Configured, q) # NULL
                     /\ origin'[q] = Key[mdb_lookup_entry(Configured, q)]
        <4>1. CASE q = p
          BY <3>3, <3>7, <4>1
        <4>2. CASE q # p
          <5>1. q \in timers /\ q \in Prefixes
            BY <3>4, <4>2 DEF Inv, TypeOK
          <5> QED
            BY <3>7, <4>2, <5>1 DEF RegisteredWithSiteKey
        <4> QED
          BY <4>1, <4>2
      <3> QED
        BY <3>8 DEF RegisteredWithSiteKey
    <2>2. CASE UNCHANGED origin /\ timers' \subseteq timers
      BY <2>2 DEF RegisteredWithSiteKey
    <2>3. CASE UNCHANGED vars
      BY <2>2, <2>3 DEF vars
    <2>4. ASSUME NEW q \in Prefixes, lsite_entry_expiration_timer_cb(q)
          PROVE  UNCHANGED origin /\ timers' \subseteq timers
      BY <2>4 DEF lsite_entry_expiration_timer_cb
    <2> QED
      BY <2>1, <2>2, <2>3, <2>4 DEF Next, ms_recv_map_register, register_stop, register_skip,
                                    register_end, ms_recv_map_request
  <1> QED
    BY <1>1, <1>2, InvInit, InvStep, PTL DEF Spec

=============================================================================
