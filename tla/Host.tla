-------------------------------- MODULE Host --------------------------------
(***************************************************************************)
(* The daemon and the kernel it configures (lispd.c, iface_mgmt.c,         *)
(* iface_list.c, data-plane/tun/tun.c, lib/routing_tables_lib.c,           *)
(* control/lisp_control.c), over the interfaces of module Interfaces.      *)
(*                                                                         *)
(* lispd keeps in the kernel a policy rule for every address of its        *)
(* interfaces, that leads to a table of the interface with its default     *)
(* gateway, and what diverts the traffic of the local EID prefixes to the  *)
(* tun device.  It learns of changes by netlink notifications, which it    *)
(* serves in order but later than the change: the kernel may have changed  *)
(* again, and requests that it refuses (a route over a link that is down,  *)
(* a socket bound to an address that is gone) go unnoticed.                *)
(*                                                                         *)
(* kern is the kernel (external), modelled from how the code uses it.      *)
(* Rules are a bag: modify_rule asks for NLM_F_CREATE without NLM_F_EXCL   *)
(* and the kernel keeps both copies of a rule that is added twice.         *)
(***************************************************************************)
EXTENDS Interfaces

CONSTANTS Modes,         \* the kinds of device: "xTR", "MN", "RTR", "MS"
          KernelAddrs,   \* KernelAddrs[<<i, afi>>]: the addresses that i may be given
          Gateways,      \* Gateways[afi]: the routers that may be a default gateway
          InitialLinks,  \* the states of the links that the kernel may start with
          InitialGateways, \* the default routes that the kernel may start with
          Eids, EidAfi,  \* the EID prefixes that the database may hold, their family
          FirstIndex,    \* FirstIndex[i]: the index that the kernel first gave to i
          NextIndex,     \* the index of the next interface that is created
          ConfiguredEids,  \* the prefixes of the configuration file, for each kind of device
          MaxInputs      \* bound: starts, changes of the interfaces and of the database

LISP_TABLE == 100
RT_TABLE_MAIN == 254
RULE_AVOID_LISP_TABLE_PRIORITY == 99
RULE_TO_LISP_TABLE_PRIORITY == 100
TUN == -1                \* the index of the tun device
ANY == NO_ADDR           \* no prefix in a rule, no gateway in a route

Pairs == Ifaces \X Afis

ASSUME HostAssumption ==
    /\ Modes \subseteq {"xTR", "MN", "RTR", "MS"}
    /\ DOMAIN KernelAddrs = Pairs /\ \A p \in Pairs : KernelAddrs[p] \subseteq AddrsOf[p[2]]
    /\ InitialLinks \subseteq [Ifaces -> BOOLEAN]
    /\ InitialGateways \subseteq [Pairs -> Gateways["v4"] \cup Gateways["v6"] \cup {NO_ADDR}]
    /\ DOMAIN Gateways = Afis /\ DOMAIN EidAfi = Eids
    /\ FirstIndex \in [Ifaces -> Nat \ {0}]
    /\ \A i, j \in Ifaces : i # j => FirstIndex[i] # FirstIndex[j]
    /\ \A i \in Ifaces : FirstIndex[i] < NextIndex
    /\ NextIndex \in Nat
    /\ MaxInputs \in Nat /\ DOMAIN ConfiguredEids = Modes
    /\ \A m \in Modes : ConfiguredEids[m] \subseteq Eids
    /\ AddrsOf["v4"] \cap AddrsOf["v6"] = {}
    /\ \A a \in InitialAddresses : \A p \in Configured : a[p] \in AddrsOf[p[2]] \cup {NO_ADDR}
    /\ Eids \cap (Addrs \cup {NO_ADDR}) = {}    \* a prefix is not an interface address
    /\ \A afi \in Afis : NO_ADDR \notin Gateways[afi]

VARIABLES
    kern,         \* the kernel: its interfaces, its rules, its routes, the tun device
    queue,        \* the notifications of the netlink socket
    stage,        \* how far main() is: "off", "setup", "configured", "ready", "running"
    mode,         \* the kind of the device
    pid_file,     \* /var/run/lispd.pid: "none", "mine", "other" (another pid)
    iface_index,  \* iface_index of the iface_t
    gateway,      \* ipv4_gateway and ipv6_gateway
    out_socket,   \* the address that out_socket_v4 and _v6 are bound to
    rlocs,        \* the interfaces and families in ctrl->rlocs
    eids,         \* the EID prefixes of the local database that are registered
    unseen,       \* the interfaces that changed between their setup and the opening
                  \* of the netlink socket, or were not read in full (history)
    died,         \* "no", "killed" or "crashed": the last process did not clean up
    inputs

hostVars == <<kern, queue, stage, mode, pid_file, iface_index, gateway, out_socket,
              rlocs, eids, unseen, died, inputs>>

allVars == <<ifaceVars, hostVars>>

-----------------------------------------------------------------------------
(* Requests to the kernel.                                                 *)

\* The table of a rule is a uint8_t; 0 stands for the main table.
RuleTable(table) == IF table % 256 = 0 THEN RT_TABLE_MAIN ELSE table % 256

Rule(table, priority, src, dst) ==
    [table |-> RuleTable(table), priority |-> priority, src |-> src, dst |-> dst]

\* The rule of an address of an interface: table and priority are its index.
SourceRule(index, a) == Rule(index, index, a, ANY)

\* The rules of the kernel: how many copies it has of each that it has.
RuleBag(B) == B \in [DOMAIN B -> Nat \ {0}]

Once(S) == [r \in S |-> 1]
NoRules == Once({})

WithRules(B, S) ==
    [r \in DOMAIN B \cup S |-> CASE r \notin S -> B[r]
                                 [] r \in S \ DOMAIN B -> 1
                                 [] OTHER -> B[r] + 1]

\* Each deletion takes one copy.
WithoutRules(B, S) ==
    [r \in {q \in DOMAIN B : q \in S => B[q] > 1} |-> IF r \in S THEN B[r] - 1 ELSE B[r]]

add_rule(k, rules) == [k EXCEPT !.rules = WithRules(@, rules)]
del_rule(k, rules) == [k EXCEPT !.rules = WithoutRules(@, rules)]

Route(afi, table, dst, oif, gw) ==
    [afi |-> afi, table |-> table, dst |-> dst, oif |-> oif, gw |-> gw]

\* The kernel takes a route over a device that is up.  NLM_F_REPLACE: it takes
\* the place of the route to the same destination in the table.
LinkIsUp(k, oif) == IF oif = TUN THEN k.tun ELSE \E i \in Ifaces : k.index[i] = oif /\ k.up[i]

add_route(k, r) ==
    IF ~LinkIsUp(k, r.oif) THEN k
    ELSE [k EXCEPT !.routes = {r} \cup {s \in @ : s.afi # r.afi \/ s.table # r.table \/ s.dst # r.dst}]

del_route(k, r) == [k EXCEPT !.routes = @ \ {r}]

\* The default route of the table of an interface.
GatewayRoute(afi, index, gw) == Route(afi, index, "default", index, gw)

\* A socket can be bound to an address that the kernel has; else it stays as it was.
bind_socket(k, p, a, sock) == IF k.addr[p] = a THEN a ELSE sock

-----------------------------------------------------------------------------
(* The EID prefixes: rules of an xTR, addresses and routes of a mobile node. *)

xtr_rules(e) == {Rule(LISP_TABLE, RULE_TO_LISP_TABLE_PRIORITY, e, ANY),
                 Rule(RT_TABLE_MAIN, RULE_AVOID_LISP_TABLE_PRIORITY, ANY, e)}

\* set_tun_default_route_v4 and _v6: two halves of the address space
mn_routes(e) == {Route(EidAfi[e], RT_TABLE_MAIN, half, TUN, ANY) : half \in {"0/1", "128/1"}}

\* The EID addresses of the tun device.
tun_add_eid_to_iface(k, E) == [k EXCEPT !.tunaddr = @ \cup E]
tun_del_eid_from_iface(k, E) == [k EXCEPT !.tunaddr = @ \ E]

configure_routing_to_tun_mn(k, E) ==
    IF ~k.tun THEN k
    ELSE [tun_add_eid_to_iface(k, E) EXCEPT !.routes = @ \cup UNION {mn_routes(e) : e \in E}]

remove_routing_to_tun_mn(k, E) ==
    [tun_del_eid_from_iface(k, E) EXCEPT !.routes = @ \ UNION {mn_routes(e) : e \in E}]

\* For every prefix of the set, as ctrl_register_eid_prefix.
tun_add_eid_prefix(k, m, E) ==
    CASE m = "xTR" -> add_rule(k, UNION {xtr_rules(e) : e \in E})
      [] m = "MN"  -> configure_routing_to_tun_mn(k, E)
      [] OTHER     -> k

tun_remove_eid_prefix(k, m, E) ==
    CASE m = "xTR" -> del_rule(k, UNION {xtr_rules(e) : e \in E})
      [] m = "MN"  -> remove_routing_to_tun_mn(k, E)
      [] OTHER     -> k

\* A mobile node has at most one EID of a family.
ValidEids(m, E) ==
    CASE m = "MN" -> \A e, f \in E : EidAfi[e] = EidAfi[f] => e = f
      [] m = "xTR" -> TRUE
      [] OTHER -> E = {}

-----------------------------------------------------------------------------
(* The kernel's own changes (external).  A change is notified once the     *)
(* netlink socket is open.                                                 *)

Message(type, index, afi, a, up) ==
    [type |-> type, index |-> index, afi |-> afi, addr |-> a, up |-> up]

\* A change to interface i with notifications ms, once the interfaces were read.
Notify(i, ms) ==
    /\ stage \notin {"off", "setup"} /\ inputs < MaxInputs
    /\ inputs' = inputs + 1
    /\ queue' = IF stage = "running" THEN queue \o ms ELSE queue
    /\ unseen' = IF stage \in {"configured", "ready"} THEN unseen \cup {i} ELSE unseen
    /\ UNCHANGED <<ifaceVars, stage, mode, pid_file, iface_index, gateway, out_socket,
                   rlocs, eids, died>>

NewAddress(i, afi, a) ==
    /\ kern.up[i]
    /\ kern' = [kern EXCEPT !.addr[<<i, afi>>] = a]
    /\ Notify(i, <<Message("NEWADDR", kern.index[i], afi, a, TRUE)>>)

\* The routes over a device go with its link.
Flushed(k, i) ==
    [k EXCEPT !.up[i] = FALSE,
              !.routes = {r \in @ : r.oif # k.index[i]},
              !.gw = [p \in Pairs |-> IF p[1] = i THEN NO_ADDR ELSE @[p]]]

LinkDown(i) ==
    /\ kern.up[i]
    /\ kern' = Flushed(kern, i)
    /\ Notify(i, <<Message("NEWLINK", kern.index[i], "v4", NO_ADDR, FALSE)>>)

LinkUp(i) ==
    /\ kern.index[i] # 0 /\ ~kern.up[i]
    /\ kern' = [kern EXCEPT !.up[i] = TRUE]
    /\ Notify(i, <<Message("NEWLINK", kern.index[i], "v4", NO_ADDR, TRUE)>>)

\* A virtual interface is removed, with its addresses.
Removed(i) ==
    /\ kern.index[i] # 0
    /\ kern' = [Flushed(kern, i) EXCEPT
                   !.index[i] = 0,
                   !.addr = [p \in Pairs |-> IF p[1] = i THEN NO_ADDR ELSE @[p]]]
    /\ Notify(i, IF kern.up[i] THEN <<Message("NEWLINK", kern.index[i], "v4", NO_ADDR, FALSE)>>
                 ELSE << >>)

\* It comes back with another index, down.
CreatedAgain(i) ==
    /\ kern.index[i] = 0
    /\ kern' = [kern EXCEPT !.index[i] = kern.next, !.next = @ + 1]
    /\ Notify(i, <<Message("NEWLINK", kern.next, "v4", NO_ADDR, FALSE)>>)

\* A default route by i in the main table.
NewDefaultRoute(i, afi, g) ==
    /\ kern.up[i] /\ kern.gw[<<i, afi>>] # g
    /\ kern' = [kern EXCEPT !.gw[<<i, afi>>] = g]
    /\ Notify(i, <<Message("NEWROUTE", kern.index[i], afi, g, TRUE)>>)

KernelNext ==
    \E i \in Ifaces :
        \/ \E afi \in Afis : \E a \in KernelAddrs[<<i, afi>>] : NewAddress(i, afi, a)
        \/ \E afi \in Afis : \E g \in Gateways[afi] : NewDefaultRoute(i, afi, g)
        \/ LinkDown(i)
        \/ LinkUp(i)
        \/ Removed(i)
        \/ CreatedAgain(i)

-----------------------------------------------------------------------------
(* The start of the daemon, in the order of main().                        *)

NoIndex == [i \in Ifaces |-> 0]
NoAddresses == [p \in Configured |-> NO_ADDR]
NoGateways == [p \in Pairs |-> NO_ADDR]
NoDefault == [afi \in Afis |-> NULL]

Init ==
    /\ \E up \in InitialLinks : \E a \in InitialAddresses : \E g \in InitialGateways :
          kern = [index   |-> FirstIndex,
                  next    |-> NextIndex,
                  up      |-> up,
                  addr    |-> [p \in Pairs |-> IF p \in Configured THEN a[p] ELSE NO_ADDR],
                  gw      |-> [p \in Pairs |-> IF up[p[1]] THEN g[p] ELSE NO_ADDR],
                  rules   |-> NoRules,
                  routes  |-> {},
                  tun     |-> FALSE,
                  tunaddr |-> {}]
    /\ queue = << >> /\ stage = "off" /\ mode \in Modes /\ pid_file = "none"
    /\ iface_index = NoIndex /\ gateway = NoGateways /\ out_socket = NoAddresses
    /\ rlocs = {} /\ eids = {} /\ unseen = {} /\ died = "no" /\ inputs = 0
    /\ status = [i \in Ifaces |-> FALSE] /\ address = NoAddresses
    /\ default_out = NoDefault /\ default_ctrl = NoDefault

\* initial_setup, handle_lispd_command_line and demonize_start: the PID file is
\* written before the fork, so that of a daemon names its parent.
initial_setup(daemonize) ==
    /\ stage = "off" /\ pid_file = "none" /\ inputs < MaxInputs
    /\ stage' = "setup" /\ inputs' = inputs + 1
    /\ pid_file' = IF daemonize THEN "other" ELSE "mine"
    /\ UNCHANGED <<ifaceVars, kern, queue, mode, iface_index, gateway, out_socket,
                   rlocs, eids, unseen, died>>

\* get_iface_address: the address of an interface that is up
get_iface_address(k, p) == IF k.up[p[1]] THEN k.addr[p] ELSE NO_ADDR

\* tun_add_datap_iface_addr, for the addresses of A: a socket and a rule
tun_add_datap_iface_addr(k, A) ==
    add_rule(k, {SourceRule(k.index[p[1]], A[p]) : p \in {q \in Configured : A[q] # NO_ADDR}})

\* parse_config_file: add_interface, iface_setup_addr and datap_add_iface_addr
\* of every interface and family of the configuration.  An interface that is
\* up without an address is taken as down, the address of one that is down is
\* not read.
parse_config_file ==
    /\ stage = "setup"
    /\ \A i \in Ifaces : kern.index[i] # 0
    /\ stage' = "configured"
    /\ iface_index' = kern.index
    /\ address' = [p \in Configured |-> get_iface_address(kern, p)]
    /\ status' = [i \in Ifaces |-> \E p \in Configured : p[1] = i /\ address'[p] # NO_ADDR]
    /\ kern' = tun_add_datap_iface_addr(kern, address')
    /\ out_socket' = address'
    /\ unseen' = {i \in Ifaces : \/ kern.up[i] # status'[i]
                                \/ \E p \in Configured : p[1] = i /\ kern.addr[p] # address'[p]}
    /\ UNCHANGED <<default_out, default_ctrl, queue, mode, pid_file, gateway, rlocs, eids,
                   died, inputs>>

\* The rlocs of the control plane: the interfaces with an address.
set_rlocs(addr) == {p \in Configured : addr[p] # NO_ADDR}

\* create_tun: the device, brought up
create_tun(k) == [k EXCEPT !.tun = TRUE]

\* configure_routing_to_tun_router, for both families
configure_routing_to_tun_router(k) ==
    [k EXCEPT !.routes = @ \cup {Route(afi, LISP_TABLE, "default", TUN, ANY) : afi \in Afis}]

tun_configure_data_plane(k, m) ==
    IF m = "xTR" THEN configure_routing_to_tun_router(create_tun(k)) ELSE create_tun(k)

\* datap_init (not of a Map Server) and ctrl_init
datap_init ==
    /\ stage = "configured"
    /\ stage' = "ready"
    /\ IF mode = "MS" THEN UNCHANGED <<kern, default_out>>
       ELSE /\ kern' = tun_configure_data_plane(kern, mode)
            /\ default_out' = set_default_ifaces(status, address)
    /\ default_ctrl' = set_default_ifaces(status, address)
    /\ rlocs' = set_rlocs(address)
    /\ UNCHANGED <<status, address, queue, mode, pid_file, iface_index, gateway, out_socket,
                   eids, unseen, died, inputs>>

\* init_netlink, where the dump of the main table gives the gateways, and
\* ctrl_dev_run, where an xTR or a mobile node registers its EID prefixes.
init_netlink ==
    /\ stage = "ready"
    /\ stage' = "running"
    /\ LET known == {p \in Pairs : kern.gw[p] # NO_ADDR /\ iface_index[p[1]] = kern.index[p[1]]}
           routes == {GatewayRoute(p[2], iface_index[p[1]], kern.gw[p]) : p \in known}
           stale(r) == \E s \in routes : s.afi = r.afi /\ s.table = r.table /\ s.dst = r.dst
       IN  /\ gateway' = [p \in Pairs |-> IF p \in known THEN kern.gw[p] ELSE NO_ADDR]
           /\ kern' = tun_add_eid_prefix(
                         [kern EXCEPT !.routes = {r \in @ : ~stale(r)} \cup routes], mode, ConfiguredEids[mode])
    /\ eids' = ConfiguredEids[mode]
    /\ UNCHANGED <<ifaceVars, queue, mode, pid_file, iface_index, out_socket, rlocs, unseen,
                   died, inputs>>

-----------------------------------------------------------------------------
(* The end of the daemon.                                                  *)

\* What a process leaves when it ends, whatever way: its descriptors are
\* closed, and the tun device goes with its own.
Ended(k) ==
    /\ kern' = [k EXCEPT !.tun = FALSE, !.tunaddr = {}, !.routes = {r \in @ : r.oif # TUN}]
    /\ stage' = "off" /\ queue' = << >>
    /\ iface_index' = NoIndex /\ gateway' = NoGateways /\ out_socket' = NoAddresses
    /\ rlocs' = {} /\ eids' = {} /\ unseen' = {}
    /\ status' = [i \in Ifaces |-> FALSE] /\ address' = NoAddresses
    /\ default_out' = NoDefault /\ default_ctrl' = NoDefault
    /\ UNCHANGED <<mode, inputs>>

\* Only what concerns the interfaces that are up is removed.
iface_remove_routing_rulesUp(k) ==
    LET known == {p \in Configured : address[p] # NO_ADDR /\ status[p[1]]}
        rules == {SourceRule(iface_index[p[1]], address[p]) : p \in known}
        routes == {GatewayRoute(p[2], iface_index[p[1]], gateway[p]) :
                     p \in {q \in known : gateway[q] # NO_ADDR}}
    IN  [del_rule(k, rules) EXCEPT !.routes = @ \ routes]

\* iface_destroy of every interface: what concerns the families with an address
iface_remove_routing_rules(k) ==
    LET known == {p \in Configured : address[p] # NO_ADDR}
        rules == {SourceRule(iface_index[p[1]], address[p]) : p \in known}
        routes == {GatewayRoute(p[2], iface_index[p[1]], gateway[p]) :
                     p \in {q \in known : gateway[q] # NO_ADDR}}
    IN  [del_rule(k, rules) EXCEPT !.routes = @ \ routes]

\* pid_file_remove: only the file that names this process
pid_file_remove == pid_file' = IF pid_file = "mine" THEN "none" ELSE pid_file

\* SIGTERM or SIGINT, or an error of the start.  ctrl_destroy unregisters the
\* EID prefixes, ifaces_destroy removes the rules.
exit_cleanup ==
    /\ stage # "off"
    /\ pid_file_remove
    /\ Ended(iface_remove_routing_rules(tun_remove_eid_prefix(kern, mode, eids)))
    /\ UNCHANGED died

\* The process is killed, or it fails, with the kernel in state k.
Dies(k, how) ==
    /\ Ended(k)
    /\ died' = how
    /\ UNCHANGED pid_file

kill == stage # "off" /\ Dies(kern, "killed")

\* "If no instance is running, remove /var/run/lispd.pid"
RemovePidFile ==
    /\ stage = "off" /\ pid_file # "none"
    /\ pid_file' = "none"
    /\ UNCHANGED <<ifaceVars, kern, queue, stage, mode, iface_index, gateway, out_socket,
                   rlocs, eids, unseen, died, inputs>>

-----------------------------------------------------------------------------
(* The notifications.                                                      *)

\* get_interface_from_index, and by the name that the kernel now gives it
KnownByIndex(index) == {i \in Ifaces : iface_index[i] = index}
KnownByName(index) == {i \in Ifaces : kern.index[i] = index}

\* The notification is not for an interface that is known by its index.
Discarded == UNCHANGED <<ifaceVars, kern, iface_index, gateway, out_socket, rlocs, unseen>>

\* The rule of the old address is kept.
tun_updated_addr_rulesKept(k, index, old, new) ==
    IF old = new THEN k ELSE add_rule(k, {SourceRule(index, new)})

\* What tun_updated_addr asks of the kernel: the rule moves to the new address.
tun_updated_addr_rules(k, index, old, new) ==
    IF old = new THEN k
    ELSE LET k1 == IF old = NO_ADDR THEN k ELSE del_rule(k, {SourceRule(index, old)})
         IN  add_rule(k1, {SourceRule(index, new)})

\* ctrl_if_addr_update and ctrl_if_link_update end with set_rlocs.
ctrl_if_addr_update(addr) == rlocs' = set_rlocs(addr)

\* process_address_change: the family may not be configured.  (A Map Server
\* does not get to the end: map_server_fails.)
process_nl_add_address(m) ==
    IF KnownByIndex(m.index) = {} THEN Discarded
    ELSE \E i \in KnownByIndex(m.index) :
           LET p == <<i, m.afi>>
               moved == tun_updated_addr_rules(kern, iface_index[i], address[p], m.addr)
           IN  IF p \notin Configured
               THEN UNCHANGED <<ifaceVars, kern, iface_index, gateway, out_socket, rlocs,
                                unseen>>
               ELSE /\ mode # "MS"
                    /\ address_changed(i, m.afi, m.addr)
                    /\ kern' = moved
                    /\ out_socket' = [out_socket EXCEPT ![p] = bind_socket(kern, p, m.addr, @)]
                    /\ ctrl_if_addr_update(address')
                    /\ UNCHANGED <<iface_index, gateway, unseen>>

\* tun_updated_link with another index: the rules move, the sockets are opened
\* again.  The routes of the old table are not added to the new one.
tun_updated_link_rules(k, i, index) ==
    LET rules(x) == {SourceRule(x, address[p]) : p \in {q \in Configured : q[1] = i /\ address[q] # NO_ADDR}}
    IN  add_rule(del_rule(k, rules(iface_index[i])), rules(index))

tun_updated_link_sockets(i, index) ==
    [p \in Configured |-> IF p[1] = i /\ address[p] # NO_ADDR /\ index # iface_index[i]
                          THEN bind_socket(kern, p, address[p], NO_ADDR)
                          ELSE out_socket[p]]

\* The interface of a link notification, by its index or else by its name.
LinkIfaces(index) == IF KnownByIndex(index) # {} THEN KnownByIndex(index) ELSE KnownByName(index)

process_nl_new_link(m) ==
    IF \A i \in LinkIfaces(m.index) : status[i] = m.up
    THEN UNCHANGED <<ifaceVars, kern, iface_index, gateway, out_socket, rlocs, unseen>>
    ELSE \E i \in LinkIfaces(m.index) :
            /\ mode # "MS"
            /\ kern' = tun_updated_link_rules(kern, i, m.index)
            /\ iface_index' = [iface_index EXCEPT ![i] = m.index]
            /\ out_socket' = tun_updated_link_sockets(i, m.index)
            /\ link_changed(i)
            /\ ctrl_if_addr_update(address)
            /\ UNCHANGED <<gateway, unseen>>

\* Only the first gateway of an interface is remembered.
tun_process_new_gatewayOnce(i, afi, g) ==
    /\ gateway' = [gateway EXCEPT ![<<i, afi>>] = IF @ = NO_ADDR THEN g ELSE @]
    /\ kern' = add_route(kern, GatewayRoute(afi, iface_index[i], g))

\* The gateway is a new one: it becomes the default route of the interface's
\* table.  A gateway that is remembered is discarded.
tun_process_new_gateway(i, afi, g) ==
    IF gateway[<<i, afi>>] = g THEN UNCHANGED <<kern, gateway>>
    ELSE /\ gateway' = [gateway EXCEPT ![<<i, afi>>] = g]
         /\ kern' = add_route(kern, GatewayRoute(afi, iface_index[i], g))

process_nl_new_unicast_route(m) ==
    IF KnownByIndex(m.index) = {} THEN Discarded
    ELSE \E i \in KnownByIndex(m.index) :
           /\ tun_process_new_gateway(i, m.afi, m.addr)
           /\ ctrl_if_addr_update(address)
           /\ UNCHANGED <<ifaceVars, iface_index, out_socket, unseen>>

\* The first notification of the socket.
process_netlink_msg ==
    /\ stage = "running" /\ queue # << >>
    /\ LET m == Head(queue)
       IN  \/ m.type = "NEWADDR" /\ process_nl_add_address(m)
           \/ m.type = "NEWLINK" /\ process_nl_new_link(m)
           \/ m.type = "NEWROUTE" /\ process_nl_new_unicast_route(m)
    /\ queue' = Tail(queue)
    /\ UNCHANGED <<stage, died, mode, pid_file, eids, inputs>>

\* The notification concerns a Map Server: tun_updated_link reads data that was
\* not allocated, and so does tun_updated_addr for the first address of an
\* interface that is up; else ctrl_if_event calls the handler it has not.
map_server_fails ==
    /\ stage = "running" /\ queue # << >> /\ mode = "MS"
    /\ LET m == Head(queue)
       IN  \/ \E i \in KnownByIndex(m.index) :
                 LET old == address[<<i, m.afi>>]
                 IN  /\ m.type = "NEWADDR" /\ <<i, m.afi>> \in Configured
                     /\ Dies(IF old = NO_ADDR /\ status[i] THEN kern
                             ELSE tun_updated_addr_rules(kern, iface_index[i], old, m.addr),
                             "crashed")
           \/ \E i \in LinkIfaces(m.index) :
                 /\ m.type = "NEWLINK" /\ status[i] # m.up
                 /\ Dies(tun_updated_link_rules(kern, i, m.index), "crashed")

-----------------------------------------------------------------------------
\* The management API replaces the local database: every prefix is
\* unregistered, then the new ones are registered.
replace_eids(E) ==
    /\ stage = "running" /\ mode \in {"xTR", "MN"} /\ ValidEids(mode, E) /\ E # eids
    /\ inputs < MaxInputs /\ inputs' = inputs + 1
    /\ kern' = tun_add_eid_prefix(tun_remove_eid_prefix(kern, mode, eids), mode, E)
    /\ eids' = E
    /\ UNCHANGED <<ifaceVars, queue, stage, mode, pid_file, iface_index, gateway, out_socket,
                   rlocs, unseen, died>>

Next ==
    \/ KernelNext
    \/ \E daemonize \in BOOLEAN : initial_setup(daemonize)
    \/ parse_config_file
    \/ datap_init
    \/ init_netlink
    \/ process_netlink_msg
    \/ map_server_fails
    \/ \E E \in SUBSET Eids : replace_eids(E)
    \/ exit_cleanup
    \/ kill
    \/ RemovePidFile

Spec == Init /\ [][Next]_allVars

-----------------------------------------------------------------------------
(* Properties.                                                             *)

TypeOK ==
    /\ IfaceTypeOK
    /\ kern.up \in [Ifaces -> BOOLEAN] /\ kern.index \in [Ifaces -> Nat]
    /\ kern.addr \in [Pairs -> Addrs \cup {NO_ADDR}] /\ kern.tunaddr \subseteq Eids
    /\ RuleBag(kern.rules)
    /\ stage \in {"off", "setup", "configured", "ready", "running"}
    /\ mode \in Modes /\ pid_file \in {"none", "mine", "other"}
    /\ iface_index \in [Ifaces -> Nat] /\ out_socket \in [Configured -> Addrs \cup {NO_ADDR}]
    /\ rlocs \subseteq Configured /\ eids \subseteq Eids /\ unseen \subseteq Ifaces
    /\ died \in {"no", "killed", "crashed"}

OwnRules ==
    {SourceRule(iface_index[p[1]], address[p]) : p \in {q \in Configured : address[q] # NO_ADDR}}
    \cup (IF mode = "xTR" THEN UNION {xtr_rules(e) : e \in eids} ELSE {})

\* Through every change of address, change of index and change of the database,
\* the kernel has one rule for each address of lispd and two for each EID prefix
\* of an xTR, once each, and no other; a mobile node has the routes of the
\* families of its EIDs and no other.  After a process that did not clean up
\* there may be more rules, never fewer.
KernelFollowsDaemon ==
    stage \in {"configured", "ready", "running"} =>
        /\ IF died = "no" THEN kern.rules = Once(OwnRules)
           ELSE OwnRules \subseteq DOMAIN kern.rules
        /\ {r \in kern.routes : r.oif = TUN /\ r.table = RT_TABLE_MAIN} =
              UNION {mn_routes(e) : e \in kern.tunaddr}
        /\ kern.tunaddr = IF mode = "MN" THEN eids ELSE {}

\* A process that exits cleanly (SIGTERM, SIGINT: "Exit cleanly") leaves no rule
\* in the kernel, and no route by the gateway that it knew of an interface and a
\* family for which it had an address (iface_remove_routing_rules).
ExitRestoresKernel ==
    [][stage # "off" /\ stage' = "off" /\ died = "no" /\ died' = "no" =>
         /\ kern'.rules = NoRules
         /\ \A p \in Configured : address[p] # NO_ADDR =>
               GatewayRoute(p[2], iface_index[p[1]], gateway[p]) \notin kern'.routes]_allVars

\* When every notification has been served, lispd agrees with the kernel on the
\* link, the addresses and the gateways of the interfaces, and its sockets are
\* bound to the addresses, however late the notifications were served
\* (process_netlink_msg); but for the interfaces of which it was not told.  The
\* locators of the control plane are then all its addresses (set_rlocs).
AtRestFollowsKernel ==
    stage = "running" /\ queue = << >> =>
        /\ rlocs = set_rlocs(address)
        /\ \A i \in Ifaces \ unseen :
              /\ status[i] = kern.up[i]
              /\ \A p \in Configured : p[1] = i /\ kern.addr[p] # NO_ADDR =>
                    address[p] = kern.addr[p] /\ out_socket[p] = kern.addr[p]
              /\ \A afi \in Afis : kern.gw[<<i, afi>>] # NO_ADDR =>
                    gateway[<<i, afi>>] = kern.gw[<<i, afi>>]

=============================================================================
