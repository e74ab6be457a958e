------------------------------ MODULE Mobility ------------------------------
(***************************************************************************)
(* How an xTR or a mobile node follows its interfaces: the locators of its *)
(* local mappings (lib/iface_locators.c, liblisp/lisp_mapping.c), the      *)
(* notifications of the changes to its peers (Solicit-Map-Requests) and to *)
(* its Map-Servers (Map-Registers), and the balancing vectors, all in      *)
(* control/lisp_xtr.c.                                                     *)
(*                                                                         *)
(* One thread serves netlink messages, control messages and timers, so     *)
(* that each handler is one action.  An event of an interface changes its  *)
(* locators at once and starts the SMR timer; the flags of iface_locators  *)
(* remember what changed until the timer expires.  Map-Registers are also  *)
(* sent periodically, with whatever the mapping holds at that time.        *)
(*                                                                         *)
(* A locator is named by its mapping, interface and family.  The content   *)
(* of a message is abstracted to the addresses of the locators that it     *)
(* lists.                                                                  *)
(***************************************************************************)
EXTENDS Interfaces

CONSTANTS Mappings,        \* the entries of the local mapping database
          Locators,        \* <<m, i, afi>>: the locators of m
          MapServers,
          MapServerAfi,    \* the family of the address of the Map-Server
          probe_retries

ASSUME MobilityAssumption ==
    /\ \A l \in Locators :
        \E m \in Mappings, i \in Ifaces, afi \in Afis :
            l = <<m, i, afi>> /\ <<i, afi>> \in Configured
    /\ MapServerAfi \in [MapServers -> Afis]
    /\ probe_retries \in Nat

VARIABLES laddr,           \* the address of the locator
          lstate,          \* the locator is UP
          attached,        \* the locators that are in their mapping and in iface_locators
          status_changed,  \* of the iface_locators of i
          prev_addr,       \* ipv4_prev_addr and ipv6_prev_addr of the iface_locators
          vectors,         \* the locators that the balancing vectors of m distribute
          smr_timer,       \* the SMR timer is running
          solicited,       \* what m held at its last round of SMRs, NULL before the first
          registered,      \* what the last Map-Register of m that left to s listed
          nonces,          \* nonces_lst of the register timer: did the message leave?
          crashed          \* the process has ended

mobilityVars == <<laddr, lstate, attached, status_changed, prev_addr, vectors,
                  smr_timer, solicited, registered, nonces, crashed>>

vars == <<ifaceVars, mobilityVars>>

Contents == SUBSET (Locators \X Addrs)

TypeOK ==
    /\ IfaceTypeOK
    /\ laddr \in [Locators -> Addrs \cup {NO_ADDR}]
    /\ lstate \in [Locators -> BOOLEAN]
    /\ attached \subseteq Locators
    /\ status_changed \in [Ifaces -> BOOLEAN]
    /\ prev_addr \in [Configured -> Addrs \cup {NO_ADDR, NULL}]
    /\ vectors \in [Mappings -> SUBSET Locators]
    /\ smr_timer \in BOOLEAN
    /\ solicited \in [Mappings -> Contents \cup {NULL}]
    /\ registered \in [Mappings -> [MapServers -> Contents]]
    /\ nonces \in [Mappings -> [MapServers -> Seq(BOOLEAN)]]
    /\ crashed \in BOOLEAN

-----------------------------------------------------------------------------
MappingOf(l) == l[1]
IfaceOf(l) == l[2]
PortOf(l) == <<l[2], l[3]>>   \* the interface and the family

\* The locators of the mapping that packets are balanced over: its locators
\* that have an address and are UP.
balancing_vectors_calculate(m, addr, up, att) ==
    {l \in att : MappingOf(l) = m /\ addr[l] # NO_ADDR /\ up[l]}

\* The vectors are not calculated again.
updated_map_loc_infNot(ms, addr, up, att) == vectors

\* The vectors of the mappings ms are calculated again.
updated_map_loc_inf(ms, addr, up, att) ==
    [m \in Mappings |-> IF m \in ms THEN balancing_vectors_calculate(m, addr, up, att)
                        ELSE vectors[m]]

\* What lisp_msg_put_mapping writes in a Map-Register or a Map-Reply.
lisp_msg_put_mapping(m) ==
    {<<l, laddr[l]>> : l \in {k \in attached : MappingOf(k) = m /\ laddr[k] # NO_ADDR /\ lstate[k]}}

\* A message without a local address leaves by the default control interface.
CanSend(s) == default_ctrl[MapServerAfi[s]] # NULL

\* build_and_send_map_reg does not look at the result of send_msg.
build_and_send_map_reg(m, s) ==
    IF CanSend(s) THEN lisp_msg_put_mapping(m) ELSE registered[m][s]

-----------------------------------------------------------------------------
\* A locator takes the status that its interface has when it is configured:
\* when the family has no address, another family of the interface may be
\* configured later, and turn the interface up.  xtr_run sends the first
\* Map-Registers and starts the SMR timer.
Init ==
    /\ IfaceInit
    /\ laddr = [l \in Locators |-> address[PortOf(l)]]
    /\ lstate \in [Locators -> BOOLEAN]
    /\ \A l \in Locators :
        lstate[l] \in {status[IfaceOf(l)], status[IfaceOf(l)] /\ laddr[l] # NO_ADDR}
    /\ attached = Locators
    /\ status_changed = [i \in Ifaces |-> TRUE]
    /\ prev_addr = [p \in Configured |-> NULL]
    /\ vectors = [m \in Mappings |-> balancing_vectors_calculate(m, laddr, lstate, attached)]
    /\ smr_timer = TRUE
    /\ solicited = [m \in Mappings |-> NULL]
    /\ registered = [m \in Mappings |-> [s \in MapServers |->
                        IF CanSend(s) THEN lisp_msg_put_mapping(m) ELSE {}]]
    /\ nonces = [m \in Mappings |-> [s \in MapServers |-> <<CanSend(s)>>]]
    /\ crashed = FALSE

-----------------------------------------------------------------------------
\* The locators of the interface and family that the event is about.
LocatorsAt(i, afi) == {l \in attached : PortOf(l) = <<i, afi>>}

\* A locator without address whose mapping already has the new address.
Duplicated(l, new) ==
    laddr[l] = NO_ADDR /\ \E k \in attached : MappingOf(k) = MappingOf(l) /\ laddr[k] = new

\* A round is suppressed when the previous address is back.
prev_addr_afterLast(i, afi, old, new) ==
    [prev_addr EXCEPT ![<<i, afi>>] = IF @ = NULL THEN old ELSE NULL]

\* The address at the last round of SMRs is kept, and forgotten when it is
\* back (A->B->A).
prev_addr_after(i, afi, old, new) ==
    [prev_addr EXCEPT ![<<i, afi>>] = IF @ = NULL THEN old
                                      ELSE IF @ = new THEN NULL
                                      ELSE @]

\* The process ends when the locators without address of a mapping were all
\* duplicated: their empty list stays in the mapping, and the next search
\* among its lists (mapping_sort_locators) reads the first locator of it.
leaves_empty_list(removed) ==
    \E l \in removed :
        ~\E k \in attached \ removed : MappingOf(k) = MappingOf(l) /\ laddr[k] = NO_ADDR

\* The branch of xtr_if_event for a change of address.
if_event_address(i, afi, old, new) ==
    LET removed == {l \in LocatorsAt(i, afi) : Duplicated(l, new)}
        updated == LocatorsAt(i, afi) \ removed
        activated == {MappingOf(l) : l \in {k \in updated : laddr[k] = NO_ADDR}}
    IN  /\ attached' = attached \ removed
        /\ laddr' = [l \in Locators |-> IF l \in updated THEN new ELSE laddr[l]]
        /\ vectors' = updated_map_loc_inf(activated, laddr', lstate, attached')
        /\ prev_addr' = prev_addr_after(i, afi, old, new)
        /\ crashed' = leaves_empty_list(removed)
        /\ smr_timer' = TRUE
        /\ UNCHANGED <<lstate, status_changed>>

\* A new address of the interface, through the data plane, the control data
\* plane and the device, for which a repeated address is no event.
process_address_change(i, afi, new) ==
    /\ ~crashed
    /\ address_changed(i, afi, new)
    /\ IF address[<<i, afi>>] = new
       THEN UNCHANGED <<laddr, lstate, attached, status_changed, prev_addr, vectors,
                        smr_timer, crashed>>
       ELSE if_event_address(i, afi, address[<<i, afi>>], new)
    /\ UNCHANGED <<solicited, registered, nonces>>

\* Only the IPv4 locators of the interface are told.
set_locators_statusV4(i, up) ==
    [l \in Locators |-> IF l \in attached /\ PortOf(l) = <<i, "v4">> THEN up ELSE lstate[l]]

set_locators_status(i, up) ==
    [l \in Locators |-> IF l \in attached /\ IfaceOf(l) = i THEN up ELSE lstate[l]]

\* The branch of xtr_if_event for a change of status.
if_event_link(i, up) ==
    LET map_loc_entries == {MappingOf(l) : l \in {k \in Locators : IfaceOf(k) = i}}
    IN  /\ lstate' = set_locators_status(i, up)
        /\ status_changed' = [status_changed EXCEPT ![i] = ~@]
        /\ vectors' = updated_map_loc_inf(map_loc_entries, laddr, lstate', attached)
        /\ smr_timer' = TRUE
        /\ UNCHANGED <<laddr, attached, prev_addr, crashed>>

\* The link of the interface goes up or down.
process_nl_new_link(i) ==
    /\ ~crashed
    /\ link_changed(i)
    /\ if_event_link(i, status'[i])
    /\ UNCHANGED <<solicited, registered, nonces>>

\* The mappings with a locator of an interface that changed since the last
\* round.
get_map_local_entry_to_smr ==
    {MappingOf(l) : l \in {k \in attached : \/ status_changed[IfaceOf(k)]
                                            \/ prev_addr[PortOf(k)] # NULL}}

\* The SMR timer expires: every mapping that changed is registered again with
\* every Map-Server, by a new timer, and its peers are solicited.
send_all_smr_cb ==
    LET changed == get_map_local_entry_to_smr
    IN  /\ ~crashed
        /\ smr_timer
        /\ smr_timer' = FALSE
        /\ status_changed' = [i \in Ifaces |-> FALSE]
        /\ prev_addr' = [p \in Configured |-> NULL]
        /\ registered' = [m \in Mappings |-> [s \in MapServers |->
                             IF m \in changed THEN build_and_send_map_reg(m, s)
                             ELSE registered[m][s]]]
        /\ nonces' = [m \in Mappings |-> [s \in MapServers |->
                         IF m \in changed THEN <<CanSend(s)>> ELSE nonces[m][s]]]
        /\ solicited' = [m \in Mappings |->
                            IF m \in changed THEN lisp_msg_put_mapping(m) ELSE solicited[m]]
        /\ UNCHANGED <<ifaceVars, laddr, lstate, attached, vectors, crashed>>

\* Once the retries are used up nothing is sent any more.
map_register_cbOnce(m, s) ==
    /\ ~crashed
    /\ Len(nonces[m][s]) - 1 < probe_retries
    /\ registered' = [registered EXCEPT ![m][s] = build_and_send_map_reg(m, s)]
    /\ nonces' = [nonces EXCEPT ![m][s] = Append(@, CanSend(s))]
    /\ UNCHANGED <<ifaceVars, laddr, lstate, attached, status_changed, prev_addr, vectors,
                   smr_timer, solicited, crashed>>

\* The register timer of m and s expires.  It is always running: it was
\* started for the next retry or for the next interval.
map_register_cb(m, s) ==
    /\ ~crashed
    /\ IF Len(nonces[m][s]) - 1 < probe_retries
       THEN /\ registered' = [registered EXCEPT ![m][s] = build_and_send_map_reg(m, s)]
            /\ nonces' = [nonces EXCEPT ![m][s] = Append(@, CanSend(s))]
       ELSE /\ nonces' = [nonces EXCEPT ![m][s] = <<>>]
            /\ UNCHANGED registered
    /\ UNCHANGED <<ifaceVars, laddr, lstate, attached, status_changed, prev_addr, vectors,
                   smr_timer, solicited, crashed>>

\* A Map-Notify with the nonce of a Map-Register that left.
tr_recv_map_notify(m, s) ==
    /\ ~crashed
    /\ \E k \in 1 .. Len(nonces[m][s]) : nonces[m][s][k]
    /\ nonces' = [nonces EXCEPT ![m][s] = <<>>]
    /\ UNCHANGED <<ifaceVars, laddr, lstate, attached, status_changed, prev_addr, vectors,
                   smr_timer, solicited, registered, crashed>>

Next ==
    \/ \E i \in Ifaces, afi \in Afis, new \in Addrs : process_address_change(i, afi, new)
    \/ \E i \in Ifaces : process_nl_new_link(i)
    \/ send_all_smr_cb
    \/ \E m \in Mappings, s \in MapServers :
        map_register_cb(m, s) \/ tr_recv_map_notify(m, s)

Spec == Init /\ [][Next]_vars

\* The timer thread runs: a register timer that is running expires.
FairSpec == Spec /\ \A m \in Mappings, s \in MapServers : WF_vars(map_register_cb(m, s))

-----------------------------------------------------------------------------
(* Properties.                                                             *)

\* The families of an interface start all with an address or all without.
Uniform ==
    \A ad \in InitialAddresses : \A p, q \in Configured :
        p[1] = q[1] /\ ad[p] = NO_ADDR => ad[q] = NO_ADDR

\* Every change of the locators of a mapping is told to its peers: when the
\* SMR timer is idle, what the mapping holds is what it held at its last
\* round of SMRs.  The flags of iface_locators suppress a round after A->B->A
\* (xtr_if_event), and must never suppress one that is due.
ChangesAreSolicited ==
    ~crashed /\ ~smr_timer =>
        \A m \in Mappings : solicited[m] # NULL => solicited[m] = lisp_msg_put_mapping(m)

\* The packets of a mapping are balanced over exactly its locators that have
\* an address and are UP, after any sequence of events: a locator that was
\* removed or went DOWN is in no vector (xtr_if_event calculates them in some
\* of its branches).
VectorsFollowLocators ==
    ~crashed => \A m \in Mappings :
        vectors[m] = balancing_vectors_calculate(m, laddr, lstate, attached)

\* Registration alone is enough: as long as Map-Registers can leave, each
\* Map-Server is again and again told what the mapping holds (map_register_cb
\* starts its timer again in both branches).
ServersCatchUp ==
    \A m \in Mappings, s \in MapServers :
        []<>(crashed \/ ~CanSend(s) \/ registered[m][s] = lisp_msg_put_mapping(m))

\* A locator of an interface that is up and has an address is in use ("If
\* locator was not active, activate it", xtr_if_event).
ReachableLocatorsInUse ==
    ~crashed => \A l \in attached :
        LET i == IfaceOf(l) IN
        status[i] /\ address[PortOf(l)] # NO_ADDR => l \in vectors[MappingOf(l)]

=============================================================================
