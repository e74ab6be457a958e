--------------------------- MODULE MobilityProofs ---------------------------
(* Proofs about Mobility and Interfaces.                                   *)
EXTENDS Mobility, TLAPS, NaturalsInduction, WellFoundedInduction

USE DEF Afis

-----------------------------------------------------------------------------
(* Interfaces.                                                             *)

\* A non-empty set of positions of the list has a first one
\* (get_any_output_iface).
LEMMA FirstPosition ==
    ASSUME NEW S, S \subseteq 1 .. Len(interface_list), S # {}
    PROVE  \E k \in S : \A j \in S : k <= j
<1>1. Len(interface_list) \in Nat
    BY InterfacesAssumption
<1>2. S \subseteq Nat
    BY <1>1
<1>3. PICK k \in S : \A j \in S : ~(<<j, k>> \in OpToRel(<, Nat))
    BY <1>2, NatLessThanWellFounded, WFMin
<1>4. \A j \in S : ~(j < k)
    BY <1>2, <1>3, Zenon DEF OpToRel
<1> QED BY <1>2, <1>4

\* get_any_output_iface returns a usable interface, and NULL only when there
\* is none.
LEMMA AnyOutputIface ==
    ASSUME NEW afi \in Afis, NEW up, NEW addr,
           NEW r, r = get_any_output_iface(afi, up, addr)
    PROVE  /\ r \in Ifaces \cup {NULL}
           /\ r = NULL => \A i \in Ifaces : ~Usable(i, afi, up, addr)
           /\ r # NULL => Usable(r, afi, up, addr)
<1> DEFINE usable == {k \in 1 .. Len(interface_list) : Usable(interface_list[k], afi, up, addr)}
<1>1. CASE usable = {}
    <2>1. r = NULL
        BY <1>1 DEF get_any_output_iface
    <2>2. \A i \in Ifaces : ~Usable(i, afi, up, addr)
        BY <1>1 DEF Ifaces
    <2> QED BY <2>1, <2>2
<1>2. CASE usable # {}
    <2>1. PICK k : k = CHOOSE n \in usable : \A j \in usable : n <= j
        OBVIOUS
    <2>2. k \in usable
        BY <1>2, <2>1, FirstPosition, Zenon
    <2>3. r = interface_list[k]
        BY <1>2, <2>1 DEF get_any_output_iface
    <2>4. r \in Ifaces /\ Usable(r, afi, up, addr)
        BY <2>2, <2>3 DEF Ifaces
    <2> QED BY <2>4, InterfacesAssumption
<1> QED BY <1>1, <1>2

\* The default interfaces chosen for up and addr.
LEMMA DefaultIfaces ==
    ASSUME NEW up, NEW addr, NEW d, d = set_default_ifaces(up, addr)
    PROVE  /\ d \in [Afis -> Ifaces \cup {NULL}]
           /\ \A afi \in Afis :
                IF d[afi] = NULL THEN \A i \in Ifaces : ~Usable(i, afi, up, addr)
                ELSE Usable(d[afi], afi, up, addr)
<1>1. \A afi \in Afis : d[afi] = get_any_output_iface(afi, up, addr)
    BY DEF set_default_ifaces
<1>2. d = [afi \in Afis |-> d[afi]]
    BY DEF set_default_ifaces
<1>3. \A afi \in Afis : /\ d[afi] \in Ifaces \cup {NULL}
                        /\ d[afi] = NULL => \A i \in Ifaces : ~Usable(i, afi, up, addr)
                        /\ d[afi] # NULL => Usable(d[afi], afi, up, addr)
    BY <1>1, AnyOutputIface
<1> HIDE DEF Afis
<1> QED BY <1>2, <1>3

\* The initial interfaces are of their types, and the control interface is
\* usable.
LEMMA IfaceInitCorrect ==
    ASSUME IfaceInit
    PROVE  IfaceTypeOK /\ ControlIfaceUsable
<1>1. status \in [Ifaces -> BOOLEAN] /\ address \in [Configured -> Addrs \cup {NO_ADDR}]
    BY InterfacesAssumption DEF IfaceInit
<1>2. default_out = set_default_ifaces(status, address)
      /\ default_ctrl = set_default_ifaces(status, address)
    BY DEF IfaceInit
<1> QED BY <1>1, <1>2, DefaultIfaces DEF IfaceTypeOK, ControlIfaceUsable, DefaultUsable

\* A new address keeps the types, and a usable control interface.
LEMMA AddressChangedCorrect ==
    ASSUME IfaceTypeOK, ControlIfaceUsable,
           NEW i, NEW afi \in Afis, NEW new, address_changed(i, afi, new)
    PROVE  IfaceTypeOK' /\ ControlIfaceUsable'
<1>1. /\ <<i, afi>> \in Configured /\ i \in Ifaces /\ new \in Addrs /\ new # NO_ADDR
      /\ status' = status
      /\ address' = [address EXCEPT ![<<i, afi>>] = new]
    BY InterfacesAssumption DEF address_changed, tun_updated_addr, Addrs
<1>2. address' \in [Configured -> Addrs \cup {NO_ADDR}]
    BY <1>1 DEF IfaceTypeOK
<1>3. default_out' \in [Afis -> Ifaces \cup {NULL}]
    BY DefaultIfaces DEF IfaceTypeOK, address_changed, tun_updated_addr
<1>4. CASE status[i] /\ default_ctrl[afi] = NULL
    <2>1. default_ctrl' = set_default_ifaces(status', address')
        BY <1>1, <1>4 DEF address_changed, tun_control_dp_updated_addr
    <2>2. default_ctrl' \in [Afis -> Ifaces \cup {NULL}]
        BY <2>1, DefaultIfaces
    <2>3. \A f \in Afis :
            IF default_ctrl'[f] = NULL THEN \A j \in Ifaces : ~Usable(j, f, status', address')
            ELSE Usable(default_ctrl'[f], f, status', address')
        BY <2>1, DefaultIfaces
    <2>4. ControlIfaceUsable'
        BY <2>3 DEF ControlIfaceUsable, DefaultUsable
    <2> QED BY <1>1, <1>2, <1>3, <2>2, <2>4 DEF IfaceTypeOK
<1>5. CASE ~(status[i] /\ default_ctrl[afi] = NULL)
    <2>1. default_ctrl' = default_ctrl
        BY <1>5 DEF address_changed, tun_control_dp_updated_addr
    <2>2. \A j, f : Usable(j, f, status, address) => Usable(j, f, status', address')
        BY <1>1 DEF Usable, IfaceTypeOK
    <2>3. \A j, f : /\ Usable(j, f, status', address')
                    /\ ~Usable(j, f, status, address)
                    => j = i /\ f = afi /\ status[i]
        BY <1>1 DEF Usable, IfaceTypeOK
    <2>4. ControlIfaceUsable'
        BY <1>5, <2>1, <2>2, <2>3 DEF ControlIfaceUsable, DefaultUsable
    <2> QED BY <1>1, <1>2, <1>3, <2>1, <2>4 DEF IfaceTypeOK
<1> QED BY <1>4, <1>5

\* A change of link keeps the types, and a usable control interface.
LEMMA LinkChangedCorrect ==
    ASSUME IfaceTypeOK, ControlIfaceUsable, NEW i, link_changed(i)
    PROVE  IfaceTypeOK' /\ ControlIfaceUsable'
<1>1. /\ i \in Ifaces /\ address' = address
      /\ status' = [status EXCEPT ![i] = ~status[i]]
    BY DEF link_changed
<1>2. status' \in [Ifaces -> BOOLEAN]
    BY <1>1 DEF IfaceTypeOK
<1>3. default_out' \in [Afis -> Ifaces \cup {NULL}]
    BY DefaultIfaces DEF IfaceTypeOK, link_changed, default_after_link
<1>4. CASE \E afi \in Afis : default_ctrl[afi] \in {i, NULL}
    <2>1. default_ctrl' = set_default_ifaces(status', address')
        BY <1>1, <1>4 DEF link_changed, default_after_link
    <2>2. default_ctrl' \in [Afis -> Ifaces \cup {NULL}]
        BY <2>1, DefaultIfaces
    <2>3. \A f \in Afis :
            IF default_ctrl'[f] = NULL THEN \A j \in Ifaces : ~Usable(j, f, status', address')
            ELSE Usable(default_ctrl'[f], f, status', address')
        BY <2>1, DefaultIfaces
    <2>4. ControlIfaceUsable'
        BY <2>3 DEF ControlIfaceUsable, DefaultUsable
    <2> QED BY <1>1, <1>2, <1>3, <2>2, <2>4 DEF IfaceTypeOK
<1>5. CASE ~\E afi \in Afis : default_ctrl[afi] \in {i, NULL}
    <2>1. default_ctrl' = default_ctrl
        BY <1>5 DEF link_changed, default_after_link
    <2>2. \A j \in Ifaces, f \in Afis : j # i /\ Usable(j, f, status, address)
                                => Usable(j, f, status', address')
        BY <1>1 DEF Usable, IfaceTypeOK
    <2>3. \A afi \in Afis : default_ctrl[afi] \in Ifaces /\ default_ctrl[afi] # i
        BY <1>5 DEF IfaceTypeOK
    <2>4. ControlIfaceUsable'
        BY <1>5, <2>1, <2>2, <2>3 DEF ControlIfaceUsable, DefaultUsable
    <2> QED BY <1>1, <1>2, <1>3, <2>1, <2>4 DEF IfaceTypeOK
<1> QED BY <1>4, <1>5

-----------------------------------------------------------------------------
(* Types.                                                                  *)

\* The mapping, the interface and the family of a locator.
LEMMA LocatorFields ==
    ASSUME NEW l \in Locators
    PROVE  MappingOf(l) \in Mappings /\ IfaceOf(l) \in Ifaces /\ PortOf(l) \in Configured
           /\ PortOf(l)[1] = IfaceOf(l)
<1>1. PICK m \in Mappings, i \in Ifaces, afi \in Afis : l = <<m, i, afi>> /\ <<i, afi>> \in Configured
    BY MobilityAssumption, Zenon
<1> QED BY <1>1 DEF MappingOf, IfaceOf, PortOf

\* A message lists locators with their addresses (lisp_msg_put_mapping).
LEMMA ContentTyped ==
    ASSUME TypeOK, NEW m
    PROVE  lisp_msg_put_mapping(m) \in Contents
<1>1. \A l \in attached : l \in Locators /\ (laddr[l] # NO_ADDR => laddr[l] \in Addrs)
    BY DEF TypeOK
<1> QED BY <1>1 DEF lisp_msg_put_mapping, Contents

\* The vectors hold locators.
LEMMA VectorsTyped ==
    ASSUME NEW ms, NEW addr, NEW up, NEW att, att \subseteq Locators,
           vectors \in [Mappings -> SUBSET Locators]
    PROVE  updated_map_loc_inf(ms, addr, up, att) \in [Mappings -> SUBSET Locators]
BY DEF updated_map_loc_inf, balancing_vectors_calculate

\* The initial state is of its types.
LEMMA InitTyped ==
    ASSUME Init
    PROVE  TypeOK
<1>1. IfaceTypeOK
    BY IfaceInitCorrect DEF Init
<1>2. laddr \in [Locators -> Addrs \cup {NO_ADDR}]
    BY <1>1, LocatorFields DEF Init, IfaceTypeOK
<1>3. lstate \in [Locators -> BOOLEAN] /\ attached \subseteq Locators
      /\ status_changed \in [Ifaces -> BOOLEAN]
      /\ prev_addr \in [Configured -> Addrs \cup {NO_ADDR, NULL}]
      /\ smr_timer \in BOOLEAN /\ crashed \in BOOLEAN
      /\ solicited \in [Mappings -> Contents \cup {NULL}]
    BY Zenon DEF Init
<1>4. vectors \in [Mappings -> SUBSET Locators]
    BY <1>3 DEF Init, balancing_vectors_calculate
<1>5. \A m : lisp_msg_put_mapping(m) \in Contents
    BY <1>2, <1>3 DEF lisp_msg_put_mapping, Contents
<1>6. {} \in Contents
    BY DEF Contents
<1>7. registered \in [Mappings -> [MapServers -> Contents]]
    BY <1>5, <1>6 DEF Init
<1>8. \A s : CanSend(s) \in BOOLEAN
    BY DEF CanSend
<1>9. \A s : <<CanSend(s)>> \in Seq(BOOLEAN)
    BY <1>8
<1>10. nonces \in [Mappings -> [MapServers -> Seq(BOOLEAN)]]
    BY <1>9 DEF Init
<1> QED BY <1>1, <1>2, <1>3, <1>4, <1>7, <1>10 DEF TypeOK

\* A change of address keeps the types.
LEMMA AddressTyped ==
    ASSUME TypeOK, ControlIfaceUsable,
           NEW i \in Ifaces, NEW afi \in Afis, NEW new \in Addrs,
           process_address_change(i, afi, new)
    PROVE  TypeOK'
<1> DEFINE p == <<i, afi>>
<1>1. IfaceTypeOK'
    BY AddressChangedCorrect, Zenon DEF TypeOK, process_address_change
<1>2. p \in Configured /\ address[p] \in Addrs \cup {NO_ADDR}
    BY DEF process_address_change, address_changed, TypeOK, IfaceTypeOK
<1>3. UNCHANGED <<solicited, registered, nonces>>
    BY DEF process_address_change
<1>4. CASE address[p] = new
    <2>1. UNCHANGED <<laddr, lstate, attached, status_changed, prev_addr, vectors, smr_timer, crashed>>
        BY <1>4 DEF process_address_change
    <2> QED BY <1>1, <1>3, <2>1 DEF TypeOK
<1>5. CASE address[p] # new
    <2>1. if_event_address(i, afi, address[p], new)
        BY <1>5 DEF process_address_change
    <2>2. /\ attached' \subseteq Locators
          /\ laddr' \in [Locators -> Addrs \cup {NO_ADDR}]
          /\ lstate' = lstate /\ status_changed' = status_changed
          /\ smr_timer' \in BOOLEAN /\ crashed' \in BOOLEAN
        BY <2>1 DEF if_event_address, TypeOK, leaves_empty_list
    <2>3. prev_addr' \in [Configured -> Addrs \cup {NO_ADDR, NULL}]
        BY <1>2, <2>1 DEF if_event_address, TypeOK, prev_addr_after
    <2>4. vectors' \in [Mappings -> SUBSET Locators]
        BY <2>1, <2>2, VectorsTyped, Zenon DEF if_event_address, TypeOK
    <2> QED BY <1>1, <1>3, <2>2, <2>3, <2>4 DEF TypeOK
<1> QED BY <1>4, <1>5

\* A change of link keeps the types.
LEMMA LinkTyped ==
    ASSUME TypeOK, ControlIfaceUsable, NEW i \in Ifaces, process_nl_new_link(i)
    PROVE  TypeOK'
<1>1. IfaceTypeOK'
    BY LinkChangedCorrect DEF TypeOK, process_nl_new_link
<1>2. if_event_link(i, status'[i]) /\ UNCHANGED <<solicited, registered, nonces>>
    BY DEF process_nl_new_link
<1>3. status'[i] \in BOOLEAN
    BY <1>1 DEF IfaceTypeOK
<1>4. lstate' \in [Locators -> BOOLEAN]
    BY <1>2, <1>3 DEF if_event_link, set_locators_status, TypeOK
<1>5. /\ status_changed' \in [Ifaces -> BOOLEAN] /\ smr_timer' \in BOOLEAN
      /\ UNCHANGED <<laddr, attached, prev_addr, crashed>>
    BY <1>2 DEF if_event_link, TypeOK
<1>6. vectors' \in [Mappings -> SUBSET Locators]
    BY <1>2, VectorsTyped, Zenon DEF if_event_link, TypeOK
<1> QED BY <1>1, <1>2, <1>4, <1>5, <1>6 DEF TypeOK

\* A round of SMRs keeps the types.
LEMMA SmrTyped ==
    ASSUME TypeOK, send_all_smr_cb
    PROVE  TypeOK'
<1>1. UNCHANGED <<ifaceVars, laddr, lstate, attached, vectors, crashed>>
    BY DEF send_all_smr_cb
<1>2. /\ smr_timer' \in BOOLEAN /\ status_changed' \in [Ifaces -> BOOLEAN]
      /\ prev_addr' \in [Configured -> Addrs \cup {NO_ADDR, NULL}]
    BY Zenon DEF send_all_smr_cb
<1>3. \A m \in Mappings, s \in MapServers : registered[m][s] \in Contents
    BY DEF TypeOK
<1>4. \A m \in Mappings, s \in MapServers : build_and_send_map_reg(m, s) \in Contents
    BY <1>3, ContentTyped DEF build_and_send_map_reg
<1>5. registered' \in [Mappings -> [MapServers -> Contents]]
    BY <1>3, <1>4 DEF send_all_smr_cb
<1>6. \A m \in Mappings, s \in MapServers : nonces[m][s] \in Seq(BOOLEAN)
    BY DEF TypeOK
<1>7. \A s : CanSend(s) \in BOOLEAN
    BY DEF CanSend
<1>8. \A s : <<CanSend(s)>> \in Seq(BOOLEAN)
    BY <1>7
<1>9. nonces' \in [Mappings -> [MapServers -> Seq(BOOLEAN)]]
    BY <1>6, <1>8, Zenon DEF send_all_smr_cb
<1>10. \A m \in Mappings : solicited[m] \in Contents \cup {NULL} /\ lisp_msg_put_mapping(m) \in Contents
    BY ContentTyped DEF TypeOK
<1>11. solicited' \in [Mappings -> Contents \cup {NULL}]
    BY <1>10 DEF send_all_smr_cb
<1> QED BY <1>1, <1>2, <1>5, <1>9, <1>11 DEF TypeOK, IfaceTypeOK, ifaceVars

\* The update of one element of a table.
LEMMA TableUpdate ==
    ASSUME NEW A, NEW B, NEW C, NEW f \in [A -> [B -> C]], NEW a \in A, NEW b \in B, NEW c \in C
    PROVE  [f EXCEPT ![a][b] = c] \in [A -> [B -> C]]
<1>1. [f[a] EXCEPT ![b] = c] \in [B -> C]
    OBVIOUS
<1> QED BY <1>1

\* The register timers and Map-Notifies keep the types.
LEMMA RegisterTyped ==
    ASSUME TypeOK, NEW m \in Mappings, NEW s \in MapServers,
           map_register_cb(m, s) \/ tr_recv_map_notify(m, s)
    PROVE  TypeOK'
<1>1. UNCHANGED <<ifaceVars, laddr, lstate, attached, status_changed, prev_addr, vectors,
                  smr_timer, solicited, crashed>>
    BY DEF map_register_cb, tr_recv_map_notify
<1>2. registered[m][s] \in Contents /\ nonces[m][s] \in Seq(BOOLEAN)
    BY DEF TypeOK
<1>3. build_and_send_map_reg(m, s) \in Contents
    BY <1>2, ContentTyped DEF build_and_send_map_reg
<1>4. CanSend(s) \in BOOLEAN
    BY DEF CanSend
<1>5. Append(nonces[m][s], CanSend(s)) \in Seq(BOOLEAN) /\ <<>> \in Seq(BOOLEAN)
    BY <1>2, <1>4
<1>6. \/ registered' = registered
      \/ registered' = [registered EXCEPT ![m][s] = build_and_send_map_reg(m, s)]
    BY DEF map_register_cb, tr_recv_map_notify
<1>7. registered' \in [Mappings -> [MapServers -> Contents]]
    <2>1. registered \in [Mappings -> [MapServers -> Contents]]
        BY DEF TypeOK
    <2>2. [registered EXCEPT ![m][s] = build_and_send_map_reg(m, s)]
            \in [Mappings -> [MapServers -> Contents]]
        BY <1>3, <2>1, TableUpdate, Zenon
    <2> QED BY <1>6, <2>1, <2>2
<1>8. \/ nonces' = [nonces EXCEPT ![m][s] = Append(nonces[m][s], CanSend(s))]
      \/ nonces' = [nonces EXCEPT ![m][s] = <<>>]
    BY DEF map_register_cb, tr_recv_map_notify
<1>9. nonces' \in [Mappings -> [MapServers -> Seq(BOOLEAN)]]
    <2>1. nonces \in [Mappings -> [MapServers -> Seq(BOOLEAN)]]
        BY DEF TypeOK
    <2>2. [nonces EXCEPT ![m][s] = Append(nonces[m][s], CanSend(s))]
            \in [Mappings -> [MapServers -> Seq(BOOLEAN)]]
        BY <1>5, <2>1, TableUpdate, Zenon
    <2>3. [nonces EXCEPT ![m][s] = <<>>] \in [Mappings -> [MapServers -> Seq(BOOLEAN)]]
        BY <1>5, <2>1, TableUpdate, Zenon
    <2> QED BY <1>8, <2>2, <2>3, Zenon
<1> QED BY <1>1, <1>7, <1>9 DEF TypeOK, IfaceTypeOK, ifaceVars

\* The variables of every reachable state are of their types, and control
\* messages leave by a usable interface whenever there is one.
LEMMA TypesAndControl == Spec => [](TypeOK /\ ControlIfaceUsable)
<1>1. Init => TypeOK /\ ControlIfaceUsable
    BY InitTyped, IfaceInitCorrect, Zenon DEF Init
<1>2. TypeOK /\ ControlIfaceUsable /\ [Next]_vars => (TypeOK /\ ControlIfaceUsable)'
    <2> SUFFICES ASSUME TypeOK, ControlIfaceUsable, [Next]_vars
                 PROVE  (TypeOK /\ ControlIfaceUsable)'
        OBVIOUS
    <2>1. ASSUME NEW i \in Ifaces, NEW afi \in Afis, NEW new \in Addrs,
                 process_address_change(i, afi, new)
          PROVE  (TypeOK /\ ControlIfaceUsable)'
        BY <2>1, AddressTyped, AddressChangedCorrect, Zenon DEF process_address_change, TypeOK
    <2>2. ASSUME NEW i \in Ifaces, process_nl_new_link(i)
          PROVE  (TypeOK /\ ControlIfaceUsable)'
        BY <2>2, LinkTyped, LinkChangedCorrect DEF process_nl_new_link, TypeOK
    <2>3. CASE send_all_smr_cb
        <3>1. UNCHANGED ifaceVars
            BY <2>3 DEF send_all_smr_cb
        <3>2. ControlIfaceUsable'
            BY <3>1 DEF ifaceVars, ControlIfaceUsable, DefaultUsable
        <3> QED BY <2>3, <3>2, SmrTyped
    <2>4. ASSUME NEW m \in Mappings, NEW s \in MapServers,
                 map_register_cb(m, s) \/ tr_recv_map_notify(m, s)
          PROVE  (TypeOK /\ ControlIfaceUsable)'
        <3>1. UNCHANGED ifaceVars
            BY <2>4 DEF map_register_cb, tr_recv_map_notify
        <3>2. ControlIfaceUsable'
            BY <3>1 DEF ifaceVars, ControlIfaceUsable, DefaultUsable
        <3> QED BY <2>4, <3>2, RegisterTyped
    <2>5. CASE UNCHANGED vars
        BY <2>5 DEF vars, mobilityVars, ifaceVars, TypeOK, IfaceTypeOK, ControlIfaceUsable,
                    DefaultUsable
    <2> QED BY <2>1, <2>2, <2>3, <2>4, <2>5 DEF Next
<1> QED BY <1>1, <1>2, PTL DEF Spec

\* Type correctness.
THEOREM TypeCorrect == Spec => []TypeOK
BY TypesAndControl, PTL

\* Control messages leave by an interface that is up and has an address,
\* whatever the sequence of events of the interfaces (cdp_tun.c).
THEOREM ControlStaysUsable == Spec => []ControlIfaceUsable
BY TypesAndControl, PTL

\* An interface stays usable when an address arrives; default interfaces are
\* chosen among the usable ones (get_any_output_iface).
LEMMA OutputAfterAddress ==
    ASSUME IfaceTypeOK, OutputIfaceNotStale,
           NEW i, NEW afi \in Afis, NEW new, address_changed(i, afi, new)
    PROVE  OutputIfaceNotStale'
<1>1. /\ <<i, afi>> \in Configured /\ new # NO_ADDR /\ status' = status
      /\ address' = [address EXCEPT ![<<i, afi>>] = new]
    BY InterfacesAssumption DEF address_changed, tun_updated_addr, Addrs
<1>2. \A j, f : Usable(j, f, status, address) => Usable(j, f, status', address')
    BY <1>1 DEF Usable, IfaceTypeOK
<1>3. \A f \in Afis : default_out'[f] # NULL => Usable(default_out'[f], f, status, address)
    BY DefaultIfaces DEF address_changed, tun_updated_addr, OutputIfaceNotStale
<1> QED BY <1>2, <1>3 DEF OutputIfaceNotStale

\* A default output interface whose link changes is looked for again.
LEMMA OutputAfterLink ==
    ASSUME IfaceTypeOK, OutputIfaceNotStale, NEW i, link_changed(i)
    PROVE  OutputIfaceNotStale'
<1>1. /\ i \in Ifaces /\ address' = address
      /\ status' = [status EXCEPT ![i] = ~status[i]]
    BY DEF link_changed
<1>2. CASE \E f \in Afis : default_out[f] \in {i, NULL}
    <2>1. default_out' = set_default_ifaces(status', address')
        BY <1>1, <1>2 DEF link_changed, default_after_link
    <2> QED BY <2>1, DefaultIfaces DEF OutputIfaceNotStale
<1>3. CASE ~(\E f \in Afis : default_out[f] \in {i, NULL})
    <2>1. default_out' = default_out
        BY <1>3 DEF link_changed, default_after_link
    <2>2. \A j \in Ifaces, f \in Afis : j # i /\ Usable(j, f, status, address)
                                          => Usable(j, f, status', address')
        BY <1>1 DEF Usable, IfaceTypeOK
    <2>3. \A f \in Afis : default_out[f] \in Ifaces \cup {NULL}
        BY DEF IfaceTypeOK
    <2> QED BY <1>3, <2>1, <2>2, <2>3 DEF OutputIfaceNotStale
<1> QED BY <1>2, <1>3

\* Encapsulated packets never leave by an interface that has gone down or has
\* no address, whatever the sequence of events (tun.c).
THEOREM OutputNeverStale == Spec => []OutputIfaceNotStale
<1>1. Init => OutputIfaceNotStale
    <2> SUFFICES ASSUME IfaceInit
                 PROVE  OutputIfaceNotStale
        BY DEF Init
    <2>1. default_out = set_default_ifaces(status, address)
        BY DEF IfaceInit
    <2> QED BY <2>1, DefaultIfaces DEF OutputIfaceNotStale
<1>2. TypeOK /\ OutputIfaceNotStale /\ [Next]_vars => OutputIfaceNotStale'
    <2> SUFFICES ASSUME TypeOK, OutputIfaceNotStale, [Next]_vars
                 PROVE  OutputIfaceNotStale'
        OBVIOUS
    <2>1. ASSUME NEW i \in Ifaces, NEW afi \in Afis, NEW new \in Addrs,
                 process_address_change(i, afi, new)
          PROVE  OutputIfaceNotStale'
        BY <2>1, OutputAfterAddress, Zenon DEF process_address_change, TypeOK
    <2>2. ASSUME NEW i \in Ifaces, process_nl_new_link(i)
          PROVE  OutputIfaceNotStale'
        BY <2>2, OutputAfterLink DEF process_nl_new_link, TypeOK
    <2>3. CASE UNCHANGED ifaceVars
        BY <2>3 DEF ifaceVars, OutputIfaceNotStale
    <2>4. ASSUME NEW m \in Mappings, NEW s \in MapServers,
                 map_register_cb(m, s) \/ tr_recv_map_notify(m, s)
          PROVE  UNCHANGED ifaceVars
        BY <2>4 DEF map_register_cb, tr_recv_map_notify
    <2>5. send_all_smr_cb \/ UNCHANGED vars => UNCHANGED ifaceVars
        BY DEF send_all_smr_cb, vars, ifaceVars
    <2> QED BY <2>1, <2>2, <2>3, <2>4, <2>5 DEF Next
<1> QED BY <1>1, <1>2, TypeCorrect, PTL DEF Spec

\* Control messages and encapsulated packets always find the interfaces that
\* their defaults stand for: the default control interface is usable whenever
\* there is a usable one, and the default output interface is never stale
\* (cdp_tun.c, tun.c).
THEOREM DefaultsStayUsable == Spec => []DefaultIfacesUsable
<1>1. ControlIfaceUsable /\ OutputIfaceNotStale => DefaultIfacesUsable
    BY DEF DefaultIfacesUsable
<1> QED BY <1>1, ControlStaysUsable, OutputNeverStale, PTL

-----------------------------------------------------------------------------
(* Vectors.                                                                *)

\* What an event of an address does to each locator (xtr_if_event).
LEMMA AddressEffect ==
    ASSUME TypeOK, NEW i \in Ifaces, NEW afi \in Afis, NEW old, NEW new \in Addrs,
           if_event_address(i, afi, old, new)
    PROVE  /\ attached' \subseteq attached
           /\ \A l \in attached \ attached' : laddr[l] = NO_ADDR
           /\ \A l \in attached : PortOf(l) # <<i, afi>> => l \in attached' /\ laddr'[l] = laddr[l]
           /\ \A l \in attached' : PortOf(l) = <<i, afi>> => laddr'[l] = new
           /\ \A l \in attached' : PortOf(l) = <<i, afi>> /\ laddr[l] = NO_ADDR =>
                vectors'[MappingOf(l)]
                    = balancing_vectors_calculate(MappingOf(l), laddr', lstate, attached')
           /\ \A m \in Mappings :
                \/ vectors'[m] = balancing_vectors_calculate(m, laddr', lstate, attached')
                \/ vectors'[m] = vectors[m]
           /\ lstate' = lstate
<1> DEFINE removed == {l \in LocatorsAt(i, afi) : Duplicated(l, new)}
           updated == LocatorsAt(i, afi) \ removed
           activated == {MappingOf(l) : l \in {k \in updated : laddr[k] = NO_ADDR}}
<1>1. /\ attached' = attached \ removed
      /\ laddr' = [l \in Locators |-> IF l \in updated THEN new ELSE laddr[l]]
      /\ vectors' = updated_map_loc_inf(activated, laddr', lstate, attached')
      /\ lstate' = lstate
    BY DEF if_event_address
<1>2. attached \subseteq Locators
    BY DEF TypeOK
<1>3. \A l \in removed : l \in attached /\ PortOf(l) = <<i, afi>> /\ laddr[l] = NO_ADDR
    BY DEF LocatorsAt, Duplicated
<1>4. \A l \in attached' : l \in updated <=> PortOf(l) = <<i, afi>>
    BY <1>1 DEF LocatorsAt
<1>5. \A l \in attached : PortOf(l) # <<i, afi>> => l \notin updated /\ l \in attached'
    BY <1>1, <1>3 DEF LocatorsAt
<1>6. \A m \in Mappings : vectors'[m] =
        IF m \in activated THEN balancing_vectors_calculate(m, laddr', lstate, attached')
        ELSE vectors[m]
    BY <1>1 DEF updated_map_loc_inf
<1>7. \A l \in attached' : PortOf(l) = <<i, afi>> /\ laddr[l] = NO_ADDR => MappingOf(l) \in activated
    BY <1>4
<1>8. \A l \in attached' : l \in Locators /\ MappingOf(l) \in Mappings
    BY <1>1, <1>2, LocatorFields
<1>9. \A l \in attached : laddr'[l] = IF l \in updated THEN new ELSE laddr[l]
    BY <1>1, <1>2
<1>10. attached' \subseteq attached
    BY <1>1
<1>11. \A l \in attached \ attached' : laddr[l] = NO_ADDR
    BY <1>1, <1>3
<1> HIDE DEF removed, updated, activated
<1>12. \A l \in attached : PortOf(l) # <<i, afi>> => l \in attached' /\ laddr'[l] = laddr[l]
    BY <1>5, <1>9
<1>13. \A l \in attached' : PortOf(l) = <<i, afi>> => laddr'[l] = new
    BY <1>4, <1>9, <1>10
<1>14. \A l \in attached' : PortOf(l) = <<i, afi>> /\ laddr[l] = NO_ADDR =>
            vectors'[MappingOf(l)]
                = balancing_vectors_calculate(MappingOf(l), laddr', lstate, attached')
    BY <1>6, <1>7, <1>8
<1> QED BY <1>1, <1>6, <1>10, <1>11, <1>12, <1>13, <1>14

\* Vectors that are not calculated again are those of the new locators.
LEMMA AddressVectors ==
    ASSUME TypeOK, VectorsFollowLocators,
           NEW i \in Ifaces, NEW afi \in Afis, NEW new \in Addrs,
           process_address_change(i, afi, new)
    PROVE  VectorsFollowLocators'
<1>1. ~crashed
    BY DEF process_address_change
<1>2. CASE address[<<i, afi>>] = new
    BY <1>2 DEF process_address_change, VectorsFollowLocators, balancing_vectors_calculate
<1>3. CASE address[<<i, afi>>] # new
    <2> DEFINE p == <<i, afi>>
    <2>1. if_event_address(i, afi, address[p], new)
        BY <1>3 DEF process_address_change
    <2>2. /\ attached' \subseteq attached
          /\ \A l \in attached \ attached' : laddr[l] = NO_ADDR
          /\ \A l \in attached : PortOf(l) # p => l \in attached' /\ laddr'[l] = laddr[l]
          /\ \A l \in attached' : PortOf(l) = p => laddr'[l] = new
          /\ lstate' = lstate
        BY <2>1, AddressEffect
    <2>3. new # NO_ADDR
        BY InterfacesAssumption
    <2>4. ASSUME NEW m \in Mappings
          PROVE  vectors'[m] = balancing_vectors_calculate(m, laddr', lstate', attached')
        <3>1. CASE vectors'[m] = balancing_vectors_calculate(m, laddr', lstate, attached')
            BY <2>2, <3>1
        <3>2. CASE vectors'[m] # balancing_vectors_calculate(m, laddr', lstate, attached')
            <4>1. vectors'[m] = vectors[m]
                BY <2>1, <3>2, AddressEffect
            <4>2. \A l \in attached' : PortOf(l) = p /\ MappingOf(l) = m => laddr[l] # NO_ADDR
                BY <2>1, <3>2, AddressEffect
            <4>3. \A l : l \in attached /\ MappingOf(l) = m /\ laddr[l] # NO_ADDR
                         <=> l \in attached' /\ MappingOf(l) = m /\ laddr'[l] # NO_ADDR
                BY <2>2, <2>3, <4>2
            <4>4. vectors[m] = balancing_vectors_calculate(m, laddr, lstate, attached)
                BY <1>1 DEF VectorsFollowLocators
            <4>5. balancing_vectors_calculate(m, laddr, lstate, attached)
                    = balancing_vectors_calculate(m, laddr', lstate', attached')
                BY <2>2, <4>3 DEF balancing_vectors_calculate
            <4> QED BY <4>1, <4>4, <4>5
        <3> QED BY <3>1, <3>2
    <2> QED BY <2>4 DEF VectorsFollowLocators
<1> QED BY <1>2, <1>3

\* A change of link calculates the vectors of every mapping that it concerns.
LEMMA LinkVectors ==
    ASSUME TypeOK, VectorsFollowLocators, NEW i \in Ifaces, process_nl_new_link(i)
    PROVE  VectorsFollowLocators'
<1> DEFINE entries == {MappingOf(l) : l \in {k \in Locators : IfaceOf(k) = i}}
<1>1. /\ ~crashed
      /\ lstate' = set_locators_status(i, status'[i])
      /\ vectors' = updated_map_loc_inf(entries, laddr, lstate', attached)
      /\ UNCHANGED <<laddr, attached>>
    BY DEF process_nl_new_link, if_event_link
<1>2. ASSUME NEW m \in Mappings
      PROVE  vectors'[m] = balancing_vectors_calculate(m, laddr', lstate', attached')
    <2>1. CASE m \in entries
        BY <1>1, <2>1 DEF updated_map_loc_inf
    <2>2. CASE m \notin entries
        <3>1. vectors'[m] = vectors[m]
            BY <1>1, <2>2 DEF updated_map_loc_inf
        <3>2. vectors[m] = balancing_vectors_calculate(m, laddr, lstate, attached)
            BY <1>1 DEF VectorsFollowLocators
        <3>3. \A l \in attached : MappingOf(l) = m => lstate'[l] = lstate[l]
            BY <1>1, <2>2 DEF set_locators_status, TypeOK
        <3>4. balancing_vectors_calculate(m, laddr, lstate, attached)
                = balancing_vectors_calculate(m, laddr, lstate', attached)
            BY <3>3 DEF balancing_vectors_calculate
        <3> QED BY <1>1, <3>1, <3>2, <3>4
    <2> QED BY <2>1, <2>2
<1> QED BY <1>2 DEF VectorsFollowLocators

\* Packets are balanced over exactly the locators that have an address and
\* are UP, although xtr_if_event calculates the vectors again only for the
\* mappings with an activated locator or a locator of the interface whose
\* link changed.
THEOREM VectorsStayCurrent == Spec => []VectorsFollowLocators
<1>1. Init => VectorsFollowLocators
    BY DEF Init, VectorsFollowLocators
<1>2. TypeOK /\ VectorsFollowLocators /\ [Next]_vars => VectorsFollowLocators'
    <2> SUFFICES ASSUME TypeOK, VectorsFollowLocators, [Next]_vars
                 PROVE  VectorsFollowLocators'
        OBVIOUS
    <2>1. CASE send_all_smr_cb
        BY <2>1 DEF send_all_smr_cb, VectorsFollowLocators, balancing_vectors_calculate
    <2>2. ASSUME NEW m \in Mappings, NEW s \in MapServers,
                 map_register_cb(m, s) \/ tr_recv_map_notify(m, s)
          PROVE  VectorsFollowLocators'
        BY <2>2 DEF map_register_cb, tr_recv_map_notify, VectorsFollowLocators,
                    balancing_vectors_calculate
    <2>3. CASE UNCHANGED vars
        BY <2>3 DEF vars, mobilityVars, VectorsFollowLocators, balancing_vectors_calculate
    <2> QED BY <2>1, <2>2, <2>3, AddressVectors, LinkVectors DEF Next
<1> QED BY <1>1, <1>2, TypeCorrect, PTL DEF Spec

-----------------------------------------------------------------------------
(* The rounds of SMRs.                                                     *)

\* The address and the status that the flags of iface_locators say that the
\* interface had at the last round.
AddrAtRound(p) == IF prev_addr[p] = NULL THEN address[p] ELSE prev_addr[p]
UpAtRound(i) == status[i] # status_changed[i]

\* What the flags say that the mapping held at the last round.
HeldAtRound(m) ==
    {<<l, AddrAtRound(PortOf(l))>> :
        l \in {k \in attached : /\ MappingOf(k) = m
                                /\ AddrAtRound(PortOf(k)) # NO_ADDR
                                /\ UpAtRound(IfaceOf(k))}}

\* A locator has the address and the status of its interface.
Follows ==
    \A l \in attached : laddr[l] = address[PortOf(l)] /\ lstate[l] = status[IfaceOf(l)]

\* A flag that is set will be served.
FlagsServed ==
    ~smr_timer => /\ \A i \in Ifaces : ~status_changed[i]
                  /\ \A p \in Configured : prev_addr[p] = NULL

\* A family without address has not changed.
NeverAddressed == \A p \in Configured : address[p] = NO_ADDR => prev_addr[p] = NULL

SolicitedAtRound ==
    \A m \in Mappings : solicited[m] # NULL => solicited[m] = HeldAtRound(m)

RoundInv == ~crashed => Follows /\ FlagsServed /\ NeverAddressed /\ SolicitedAtRound

\* What the invariant looks at.
LEMMA RoundUnchanged ==
    ASSUME RoundInv,
           UNCHANGED <<status, address, laddr, lstate, attached, status_changed, prev_addr,
                       smr_timer, solicited, crashed>>
    PROVE  RoundInv'
<1>1. (\A p : AddrAtRound(p)' = AddrAtRound(p)) /\ (\A i : UpAtRound(i)' = UpAtRound(i))
    BY Zenon DEF AddrAtRound, UpAtRound
<1>2. \A m : HeldAtRound(m)' = HeldAtRound(m)
    BY DEF HeldAtRound, AddrAtRound, UpAtRound
<1>3. Follows => Follows'
    BY Zenon DEF Follows
<1>4. FlagsServed => FlagsServed'
    BY Zenon DEF FlagsServed
<1>5. NeverAddressed => NeverAddressed'
    BY Zenon DEF NeverAddressed
<1>6. SolicitedAtRound => SolicitedAtRound'
    BY <1>2, Zenon DEF SolicitedAtRound
<1> QED BY <1>3, <1>4, <1>5, <1>6, Zenon DEF RoundInv

\* When no flag of a mapping is set it holds what it held at the last round.
LEMMA HeldUnflagged ==
    ASSUME TypeOK, Follows, NEW m,
           \A l \in attached : MappingOf(l) = m =>
                ~status_changed[IfaceOf(l)] /\ prev_addr[PortOf(l)] = NULL
    PROVE  HeldAtRound(m) = lisp_msg_put_mapping(m)
<1>1. \A l \in attached : l \in Locators /\ IfaceOf(l) \in Ifaces /\ status[IfaceOf(l)] \in BOOLEAN
                          /\ status_changed[IfaceOf(l)] \in BOOLEAN
    BY LocatorFields DEF TypeOK, IfaceTypeOK
<1>2. \A l \in attached : MappingOf(l) = m =>
            AddrAtRound(PortOf(l)) = laddr[l] /\ (UpAtRound(IfaceOf(l)) <=> lstate[l])
    BY <1>1 DEF Follows, AddrAtRound, UpAtRound
<1> QED BY <1>2 DEF HeldAtRound, lisp_msg_put_mapping

\* The initial locators follow their interfaces when the interfaces are
\* uniform.
LEMMA RoundInit ==
    ASSUME Uniform, Init
    PROVE  RoundInv
<1>1. TypeOK
    BY InitTyped
<1>2. ASSUME NEW l \in Locators
      PROVE  lstate[l] = status[IfaceOf(l)] /\ laddr[l] = address[PortOf(l)]
    <2>1. laddr[l] = address[PortOf(l)] /\ address \in InitialAddresses
          /\ lstate[l] \in {status[IfaceOf(l)], status[IfaceOf(l)] /\ laddr[l] # NO_ADDR}
        BY Zenon DEF Init, IfaceInit
    <2>2. PortOf(l) \in Configured /\ PortOf(l)[1] = IfaceOf(l) /\ IfaceOf(l) \in Ifaces
        BY LocatorFields
    <2>3. status[IfaceOf(l)] = \E afi \in Afis : /\ <<IfaceOf(l), afi>> \in Configured
                                                 /\ address[<<IfaceOf(l), afi>>] # NO_ADDR
        BY <2>2 DEF Init, IfaceInit
    <2>4. laddr[l] = NO_ADDR => \A afi \in Afis : <<IfaceOf(l), afi>> \in Configured
                                    => address[<<IfaceOf(l), afi>>] = NO_ADDR
        BY <2>1, <2>2, Zenon DEF Uniform
    <2>5. laddr[l] = NO_ADDR => ~status[IfaceOf(l)]
        BY <2>3, <2>4
    <2>6. status[IfaceOf(l)] \in BOOLEAN
        BY <1>1, <2>2 DEF TypeOK, IfaceTypeOK
    <2> QED BY <2>1, <2>5, <2>6
<1>3. Follows
    BY <1>2 DEF Init, Follows
<1>4. FlagsServed /\ NeverAddressed /\ SolicitedAtRound
    BY DEF Init, FlagsServed, NeverAddressed, SolicitedAtRound
<1> QED BY <1>3, <1>4 DEF RoundInv

\* A change of address keeps what the flags say of the last round.
LEMMA RoundAddress ==
    ASSUME TypeOK, RoundInv, NEW i \in Ifaces, NEW afi \in Afis, NEW new \in Addrs,
           process_address_change(i, afi, new)
    PROVE  RoundInv'
<1> DEFINE p == <<i, afi>>
<1>1. /\ ~crashed /\ p \in Configured /\ new # NO_ADDR /\ new # NULL
      /\ status' = status /\ address' = [address EXCEPT ![p] = new]
      /\ solicited' = solicited
    BY InterfacesAssumption DEF process_address_change, address_changed, tun_updated_addr
<1>2. Follows /\ FlagsServed /\ NeverAddressed /\ SolicitedAtRound
    BY <1>1 DEF RoundInv
<1>3. \A l \in attached : l \in Locators /\ PortOf(l) \in Configured
    BY LocatorFields DEF TypeOK
<1>4. \A q \in Configured : address'[q] = IF q = p THEN new ELSE address[q]
    BY <1>1 DEF TypeOK, IfaceTypeOK
<1>5. CASE address[p] = new
    <2>1. UNCHANGED <<laddr, lstate, attached, status_changed, prev_addr, smr_timer, crashed>>
        BY <1>5 DEF process_address_change
    <2>2. address' = address
        BY <1>1, <1>5 DEF TypeOK, IfaceTypeOK
    <2> QED BY <1>1, <2>1, <2>2, RoundUnchanged, Zenon
<1>6. CASE address[p] # new
    <2>1. if_event_address(i, afi, address[p], new)
        BY <1>6 DEF process_address_change
    <2>2. /\ attached' \subseteq attached
          /\ \A l \in attached \ attached' : laddr[l] = NO_ADDR
          /\ \A l \in attached : PortOf(l) # p => l \in attached' /\ laddr'[l] = laddr[l]
          /\ \A l \in attached' : PortOf(l) = p => laddr'[l] = new
          /\ lstate' = lstate
        BY <2>1, AddressEffect
    <2>3. status_changed' = status_changed /\ smr_timer' = TRUE
          /\ prev_addr' = prev_addr_after(i, afi, address[p], new)
        BY <2>1 DEF if_event_address
    <2>4. prev_addr \in [Configured -> Addrs \cup {NO_ADDR, NULL}]
        BY DEF TypeOK
    <2>5. \A q \in Configured : prev_addr'[q] =
            IF q = p THEN IF prev_addr[p] = NULL THEN address[p]
                          ELSE IF prev_addr[p] = new THEN NULL
                          ELSE prev_addr[p]
            ELSE prev_addr[q]
        BY <1>1, <2>3, <2>4 DEF prev_addr_after
    <2>6. address[p] # NULL
        <3>1. address[p] \in Addrs \cup {NO_ADDR}
            BY <1>1, Zenon DEF TypeOK, IfaceTypeOK
        <3>2. NULL \notin Addrs /\ NULL # NO_ADDR
            BY InterfacesAssumption
        <3> QED BY <3>1, <3>2, Zenon
    <2>7. \A q \in Configured : AddrAtRound(q)' = AddrAtRound(q)
        BY <1>1, <1>4, <2>5, <2>6 DEF AddrAtRound
    <2>8. \A j \in Ifaces : UpAtRound(j)' = UpAtRound(j)
        BY <1>1, <2>3 DEF UpAtRound
    <2>9. Follows'
        BY <1>1, <1>2, <1>3, <1>4, <2>2 DEF Follows
    <2>10. FlagsServed'
        BY <2>3 DEF FlagsServed
    <2>11. NeverAddressed'
        BY <1>1, <1>2, <1>4, <2>5 DEF NeverAddressed
    <2>12. \A l \in attached \ attached' : AddrAtRound(PortOf(l)) = NO_ADDR
        BY <1>2, <1>3, <2>2 DEF Follows, NeverAddressed, AddrAtRound
    <2>13. \A l \in attached : PortOf(l) \in Configured /\ IfaceOf(l) \in Ifaces
        BY <1>3, LocatorFields
    <2>14. \A m \in Mappings : HeldAtRound(m)' = HeldAtRound(m)
        <3> SUFFICES ASSUME NEW m \in Mappings
                     PROVE  HeldAtRound(m)' = HeldAtRound(m)
            OBVIOUS
        <3> DEFINE S == {k \in attached : /\ MappingOf(k) = m
                                          /\ AddrAtRound(PortOf(k)) # NO_ADDR
                                          /\ UpAtRound(IfaceOf(k))}
                   T == {k \in attached' : /\ MappingOf(k) = m
                                           /\ AddrAtRound(PortOf(k))' # NO_ADDR
                                           /\ UpAtRound(IfaceOf(k))'}
        <3>1. S = T
            BY <2>2, <2>7, <2>8, <2>12, <2>13
        <3>2. \A l \in S : AddrAtRound(PortOf(l))' = AddrAtRound(PortOf(l))
            BY <2>7, <2>13
        <3>3. HeldAtRound(m) = {<<l, AddrAtRound(PortOf(l))>> : l \in S}
            BY DEF HeldAtRound
        <3>4. HeldAtRound(m)' = {<<l, AddrAtRound(PortOf(l))'>> : l \in T}
            BY DEF HeldAtRound, MappingOf, PortOf, IfaceOf
        <3> HIDE DEF S, T
        <3> QED BY <3>1, <3>2, <3>3, <3>4
    <2>15. SolicitedAtRound'
        BY <1>1, <1>2, <2>14 DEF SolicitedAtRound
    <2> QED BY <2>9, <2>10, <2>11, <2>15 DEF RoundInv
<1> QED BY <1>5, <1>6

\* A change of link keeps what the flags say of the last round.
LEMMA RoundLink ==
    ASSUME TypeOK, RoundInv, NEW i \in Ifaces, process_nl_new_link(i)
    PROVE  RoundInv'
<1>1. /\ ~crashed /\ address' = address
      /\ status' = [status EXCEPT ![i] = ~status[i]]
      /\ status_changed' = [status_changed EXCEPT ![i] = ~status_changed[i]]
      /\ lstate' = set_locators_status(i, status'[i])
      /\ smr_timer' = TRUE
      /\ UNCHANGED <<laddr, attached, prev_addr, crashed, solicited>>
    BY DEF process_nl_new_link, link_changed, if_event_link
<1>2. Follows /\ FlagsServed /\ NeverAddressed /\ SolicitedAtRound
    BY <1>1 DEF RoundInv
<1>3. \A l \in attached : l \in Locators /\ IfaceOf(l) \in Ifaces
    BY LocatorFields DEF TypeOK
<1>4. status \in [Ifaces -> BOOLEAN] /\ status_changed \in [Ifaces -> BOOLEAN]
    BY DEF TypeOK, IfaceTypeOK
<1>5. \A j \in Ifaces : /\ status'[j] = IF j = i THEN ~status[i] ELSE status[j]
                        /\ status_changed'[j] = IF j = i THEN ~status_changed[i]
                                                ELSE status_changed[j]
    BY <1>1, <1>4
<1>6. \A j \in Ifaces : UpAtRound(j)' <=> UpAtRound(j)
    BY <1>4, <1>5 DEF UpAtRound
<1>7. \A l \in attached : lstate'[l] = IF IfaceOf(l) = i THEN status'[i] ELSE lstate[l]
    BY <1>1, <1>3 DEF set_locators_status
<1>8. Follows'
    <2> SUFFICES ASSUME NEW l \in attached'
                 PROVE  laddr'[l] = address'[PortOf(l)] /\ lstate'[l] = status'[IfaceOf(l)]
        BY Zenon DEF Follows
    <2>1. l \in attached /\ laddr'[l] = laddr[l] /\ address' = address
        BY <1>1, Zenon
    <2>2. laddr[l] = address[PortOf(l)] /\ lstate[l] = status[IfaceOf(l)]
        BY <1>2, <2>1, Zenon DEF Follows
    <2>3. IfaceOf(l) \in Ifaces
        BY <1>3, <2>1, Zenon
    <2>4. lstate'[l] = status'[IfaceOf(l)]
        BY <1>5, <1>7, <2>1, <2>2, <2>3, Zenon
    <2> QED BY <2>1, <2>2, <2>4, Zenon
<1>9. FlagsServed' /\ NeverAddressed'
    BY <1>1, <1>2 DEF FlagsServed, NeverAddressed
<1>10. \A m \in Mappings : HeldAtRound(m)' = HeldAtRound(m)
    BY <1>1, <1>3, <1>6 DEF HeldAtRound, AddrAtRound
<1>11. SolicitedAtRound'
    BY <1>1, <1>2, <1>10 DEF SolicitedAtRound
<1> QED BY <1>8, <1>9, <1>11 DEF RoundInv

\* A round tells of every mapping that holds something else than at the last.
LEMMA RoundSmr ==
    ASSUME TypeOK, TypeOK', RoundInv, send_all_smr_cb
    PROVE  RoundInv'
<1>1. /\ ~crashed
      /\ status_changed' = [i \in Ifaces |-> FALSE]
      /\ prev_addr' = [p \in Configured |-> NULL]
      /\ solicited' = [m \in Mappings |-> IF m \in get_map_local_entry_to_smr
                                          THEN lisp_msg_put_mapping(m) ELSE solicited[m]]
      /\ UNCHANGED <<status, address, laddr, lstate, attached, crashed>>
    BY DEF send_all_smr_cb, ifaceVars
<1>2. Follows /\ SolicitedAtRound
    BY <1>1 DEF RoundInv
<1>3. Follows'
    BY <1>1, <1>2 DEF Follows
<1>4. FlagsServed' /\ NeverAddressed'
    BY <1>1 DEF FlagsServed, NeverAddressed
<1>5. \A l \in attached : IfaceOf(l) \in Ifaces /\ PortOf(l) \in Configured
    BY LocatorFields DEF TypeOK
<1>6. \A m \in Mappings : lisp_msg_put_mapping(m)' = lisp_msg_put_mapping(m)
    BY <1>1 DEF lisp_msg_put_mapping
<1>7. \A m \in Mappings : HeldAtRound(m)' = lisp_msg_put_mapping(m)'
    <2> SUFFICES ASSUME NEW m \in Mappings
                 PROVE  (HeldAtRound(m) = lisp_msg_put_mapping(m))'
        OBVIOUS
    <2>1. (\A l \in attached : MappingOf(l) = m =>
                ~status_changed[IfaceOf(l)] /\ prev_addr[PortOf(l)] = NULL)'
        BY <1>1, <1>5
    <2> QED BY <1>3, <2>1, HeldUnflagged, PTL
<1>8. ASSUME NEW m \in Mappings, m \notin get_map_local_entry_to_smr
      PROVE  HeldAtRound(m) = lisp_msg_put_mapping(m)
    <2>1. \A l \in attached : MappingOf(l) = m =>
            ~status_changed[IfaceOf(l)] /\ prev_addr[PortOf(l)] = NULL
        BY <1>8 DEF get_map_local_entry_to_smr
    <2> QED BY <1>2, <2>1, HeldUnflagged
<1>9. SolicitedAtRound'
    BY <1>1, <1>2, <1>6, <1>7, <1>8 DEF SolicitedAtRound
<1> QED BY <1>3, <1>4, <1>9 DEF RoundInv

\* What RoundInv says of the peers and of the locators of a mapping.
LEMMA RoundsServeLocators ==
    ASSUME Uniform
    PROVE  Spec => [](ChangesAreSolicited /\ ReachableLocatorsInUse)
<1>1. Init => RoundInv
    BY RoundInit
<1>2. TypeOK /\ TypeOK' /\ RoundInv /\ [Next]_vars => RoundInv'
    <2> SUFFICES ASSUME TypeOK, TypeOK', RoundInv, [Next]_vars
                 PROVE  RoundInv'
        OBVIOUS
    <2>1. ASSUME NEW m \in Mappings, NEW s \in MapServers,
                 map_register_cb(m, s) \/ tr_recv_map_notify(m, s)
          PROVE  RoundInv'
        <3>1. UNCHANGED <<status, address, laddr, lstate, attached, status_changed, prev_addr,
                          smr_timer, solicited, crashed>>
            BY <2>1 DEF map_register_cb, tr_recv_map_notify, ifaceVars
        <3> QED BY <3>1, RoundUnchanged, Zenon
    <2>2. CASE UNCHANGED vars
        <3>1. UNCHANGED <<status, address, laddr, lstate, attached, status_changed, prev_addr,
                          smr_timer, solicited, crashed>>
            BY <2>2, Zenon DEF vars, mobilityVars, ifaceVars
        <3> QED BY <3>1, RoundUnchanged, Zenon
    <2> QED BY <2>1, <2>2, RoundAddress, RoundLink, RoundSmr DEF Next
<1>3. TypeOK /\ RoundInv /\ VectorsFollowLocators => ChangesAreSolicited /\ ReachableLocatorsInUse
    <2> SUFFICES ASSUME TypeOK, RoundInv, VectorsFollowLocators, ~crashed
                 PROVE  ChangesAreSolicited /\ ReachableLocatorsInUse
        BY DEF ChangesAreSolicited, ReachableLocatorsInUse
    <2>1. Follows /\ FlagsServed /\ SolicitedAtRound
        BY DEF RoundInv
    <2>2. \A l \in attached : MappingOf(l) \in Mappings /\ IfaceOf(l) \in Ifaces /\ PortOf(l) \in Configured
        BY LocatorFields DEF TypeOK
    <2>3. ASSUME ~smr_timer, NEW m \in Mappings
          PROVE  HeldAtRound(m) = lisp_msg_put_mapping(m)
        <3>1. \A l \in attached : MappingOf(l) = m =>
                ~status_changed[IfaceOf(l)] /\ prev_addr[PortOf(l)] = NULL
            BY <2>1, <2>2, <2>3 DEF FlagsServed
        <3> QED BY <2>1, <3>1, HeldUnflagged
    <2>4. ChangesAreSolicited
        BY <2>1, <2>3 DEF ChangesAreSolicited, SolicitedAtRound
    <2>5. ReachableLocatorsInUse
        BY <2>1, <2>2 DEF ReachableLocatorsInUse, VectorsFollowLocators, Follows,
                          balancing_vectors_calculate
    <2> QED BY <2>4, <2>5
<1> QED BY <1>1, <1>2, <1>3, TypeCorrect, VectorsStayCurrent, PTL DEF Spec

\* Each change is told to the peers of the mapping, after any sequence of
\* events, although a round is suppressed when the changes cancel out.
THEOREM ChangesStaySolicited ==
    ASSUME Uniform
    PROVE  Spec => []ChangesAreSolicited
BY RoundsServeLocators, PTL

\* A locator whose interface is up and has an address of its family is one of
\* the balancing vectors of its mapping, after any sequence of events
\* (xtr_if_event).
THEOREM ReachableLocatorsStayInUse ==
    ASSUME Uniform
    PROVE  Spec => []ReachableLocatorsInUse
BY RoundsServeLocators, PTL

=============================================================================
