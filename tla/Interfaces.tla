----------------------------- MODULE Interfaces -----------------------------
(***************************************************************************)
(* The interfaces whose addresses are RLOCs (iface_list.c, iface_mgmt.c)   *)
(* and the default interfaces that the data plane (data-plane/tun/tun.c)   *)
(* and the control plane (cdp_tun.c) choose among them.                    *)
(*                                                                         *)
(* The kernel reports a new address or a change of the link of an          *)
(* interface by a netlink message, served by one handler.  A removed       *)
(* address is reported too, and process_nl_del_address only logs it: an    *)
(* interface keeps its last address.  Messages about other interfaces,     *)
(* families that are not configured and link-local addresses are           *)
(* discarded, and change nothing.                                          *)
(***************************************************************************)
EXTENDS Integers, Sequences

CONSTANTS interface_list,    \* the interfaces, a sequence without repetitions
          Configured,        \* <<i, afi>>: the families that i is configured for
          AddrsOf,           \* AddrsOf[afi]: the addresses of the family
          InitialAddresses,  \* the addresses that the interfaces may start with
          NO_ADDR, NULL

Afis == {"v4", "v6"}

Ifaces == {interface_list[k] : k \in 1 .. Len(interface_list)}

Addrs == AddrsOf["v4"] \cup AddrsOf["v6"]

ASSUME InterfacesAssumption ==
    /\ interface_list \in Seq(Ifaces)
    /\ Configured \subseteq Ifaces \X Afis
    /\ DOMAIN AddrsOf = Afis
    /\ InitialAddresses \subseteq [Configured -> Addrs \cup {NO_ADDR}]
    /\ NO_ADDR \notin Addrs
    /\ NULL \notin Addrs \cup {NO_ADDR} /\ NULL \notin Ifaces

VARIABLES status,        \* status[i]: the link of i is up
          address,       \* ipv4_address and ipv6_address of the configured families
          default_out,   \* default_out_iface_v4 and _v6 of the data plane
          default_ctrl   \* default_ctrl_iface_v4 and _v6 of the control plane

ifaceVars == <<status, address, default_out, default_ctrl>>

IfaceTypeOK ==
    /\ status \in [Ifaces -> BOOLEAN]
    /\ address \in [Configured -> Addrs \cup {NO_ADDR}]
    /\ default_out \in [Afis -> Ifaces \cup {NULL}]
    /\ default_ctrl \in [Afis -> Ifaces \cup {NULL}]

-----------------------------------------------------------------------------
\* Interface i is up and has an address of family afi.
Usable(i, afi, up, addr) ==
    <<i, afi>> \in Configured /\ addr[<<i, afi>>] # NO_ADDR /\ up[i]

\* The first interface of the list that is usable for the family.
get_any_output_iface(afi, up, addr) ==
    LET usable == {k \in 1 .. Len(interface_list) : Usable(interface_list[k], afi, up, addr)}
    IN  IF usable = {} THEN NULL
        ELSE interface_list[CHOOSE k \in usable : \A j \in usable : k <= j]

\* tun_set_default_output_ifaces, tun_control_dp_set_default_ctrl_ifaces
set_default_ifaces(up, addr) == [afi \in Afis |-> get_any_output_iface(afi, up, addr)]

\* iface_setup_addr: an interface with an address starts as up.
IfaceInit ==
    /\ address \in InitialAddresses
    /\ status = [i \in Ifaces |->
                    \E afi \in Afis : <<i, afi>> \in Configured /\ address[<<i, afi>>] # NO_ADDR]
    /\ default_out = set_default_ifaces(status, address)
    /\ default_ctrl = set_default_ifaces(status, address)

\* An interface that had no address may become the default output interface.
\* It is looked for before the address is stored.
tun_updated_addr(i, afi, new) ==
    /\ address' = [address EXCEPT ![<<i, afi>>] = new]
    /\ default_out' = IF address[<<i, afi>>] = NO_ADDR /\ status[i] /\ default_out[afi] = NULL
                      THEN set_default_ifaces(status, address)
                      ELSE default_out

\* The control plane looks for its default when the address is stored.
tun_control_dp_updated_addr(i, afi, new) ==
    default_ctrl' = IF status[i] /\ default_ctrl[afi] = NULL
                    THEN set_default_ifaces(status, [address EXCEPT ![<<i, afi>>] = new])
                    ELSE default_ctrl

\* What process_address_change does before and after it tells the device.
\* An address that is repeated changes nothing.
address_changed(i, afi, new) ==
    /\ <<i, afi>> \in Configured
    /\ new \in AddrsOf[afi]
    /\ tun_updated_addr(i, afi, new)
    /\ tun_control_dp_updated_addr(i, afi, new)
    /\ UNCHANGED status

\* Only a missing default is looked for.
default_after_linkMissing(i, default, up) ==
    IF \E afi \in Afis : default[afi] = NULL
    THEN set_default_ifaces(up, address)
    ELSE default

\* tun_updated_link and tun_control_dp_update_link
default_after_link(i, default, up) ==
    IF \E afi \in Afis : default[afi] \in {i, NULL}
    THEN set_default_ifaces(up, address)
    ELSE default

\* What process_nl_new_link does: only a change of the status is served.
link_changed(i) ==
    /\ i \in Ifaces
    /\ status' = [status EXCEPT ![i] = ~@]
    /\ default_out' = default_after_link(i, default_out, status')
    /\ default_ctrl' = default_after_link(i, default_ctrl, status')
    /\ UNCHANGED address

IfaceNext ==
    \/ \E i \in Ifaces, afi \in Afis, new \in Addrs : address_changed(i, afi, new)
    \/ \E i \in Ifaces : link_changed(i)

IfaceSpec == IfaceInit /\ [][IfaceNext]_ifaceVars

-----------------------------------------------------------------------------
(* Properties.                                                             *)

\* A default interface is usable, or there is none because none is.
DefaultUsable(default) ==
    \A afi \in Afis :
        IF default[afi] = NULL THEN \A i \in Ifaces : ~Usable(i, afi, status, address)
        ELSE Usable(default[afi], afi, status, address)

\* Control messages leave by an interface that is up and has an address as
\* long as there is one (tun_control_dp_updated_addr, "If no default control,
\* recalculate it").
ControlIfaceUsable == DefaultUsable(default_ctrl)

\* The data plane never holds a default output interface that has gone down
\* or has no address, although it is looked for again only when a link of the
\* default changes and when there is none, for both families at once
\* (tun_updated_link, tun_updated_addr).
OutputIfaceNotStale ==
    \A afi \in Afis : default_out[afi] # NULL => Usable(default_out[afi], afi, status, address)

\* Both of them: the defaults of the two planes are recalculated by different
\* code after the same event.
DefaultIfacesUsable == ControlIfaceUsable /\ OutputIfaceNotStale

\* There is also a default output interface as long as one is usable
\* (tun_updated_addr, "No default output
\* interface. Recalculate new output interface").
OutputIfaceUsable == DefaultUsable(default_out)

=============================================================================
