----------------------------- MODULE HostProofs -----------------------------
(***************************************************************************)
(* Proofs about module Host, for any interfaces, addresses, EID prefixes   *)
(* and number of changes: the type invariant, that is the records, the     *)
(* interface indexes of the kernel and of lispd and the notifications      *)
(* between them; then the rules and routes in the kernel, which are those  *)
(* of the daemon and go at a clean exit.  Each proof of a step is in terms *)
(* of the functions of the code that the step calls.                       *)
(***************************************************************************)
EXTENDS Host, TLAPS

-----------------------------------------------------------------------------
(* Bags of rules.  A set of rules is added and removed once each.          *)

LEMMA BagAdd ==
    ASSUME NEW S, NEW R, S \cap R = {}
    PROVE  WithRules(Once(S), R) = Once(S \cup R)
  BY DEF Once, WithRules

LEMMA BagRemove ==
    ASSUME NEW S, NEW R
    PROVE  WithoutRules(Once(S), R) = Once(S \ R)
  BY DEF Once, WithoutRules

LEMMA BagOps ==
    ASSUME NEW B, RuleBag(B), NEW R
    PROVE  RuleBag(WithRules(B, R)) /\ RuleBag(WithoutRules(B, R))
  BY DEF WithRules, WithoutRules, RuleBag

LEMMA BagMore ==
    ASSUME NEW B, RuleBag(B), NEW S, NEW R, S \subseteq DOMAIN B
    PROVE  S \cup R \subseteq DOMAIN WithRules(B, R)
  BY DEF Once, WithRules, RuleBag

LEMMA BagLess ==
    ASSUME NEW B, RuleBag(B), NEW S, NEW R, S \subseteq DOMAIN B
    PROVE  S \ R \subseteq DOMAIN WithoutRules(B, R)
  BY DEF Once, WithoutRules, RuleBag

-----------------------------------------------------------------------------
(* The kernel and the requests that lispd makes of it.                     *)

GatewayAddrs == Gateways["v4"] \cup Gateways["v6"]

\* The types of the kernel's fields.
Kern(k) ==
    /\ k = [index |-> k.index, next |-> k.next, up |-> k.up, addr |-> k.addr, gw |-> k.gw,
            rules |-> k.rules, routes |-> k.routes, tun |-> k.tun, tunaddr |-> k.tunaddr]
    /\ k.index \in [Ifaces -> Nat] /\ k.next \in Nat
    /\ k.up \in [Ifaces -> BOOLEAN]
    /\ k.addr \in [Pairs -> Addrs \cup {NO_ADDR}]
    /\ k.gw \in [Pairs -> GatewayAddrs \cup {NO_ADDR}]
    /\ RuleBag(k.rules)
    /\ k.tun \in BOOLEAN /\ k.tunaddr \subseteq Eids

\* What no request of lispd changes: the interfaces and the main table.
SameLinks(k, q) ==
    /\ q.index = k.index /\ q.next = k.next /\ q.up = k.up
    /\ q.addr = k.addr /\ q.gw = k.gw

XtrRules(E) == UNION {xtr_rules(e) : e \in E}
MnRoutes(E) == UNION {mn_routes(e) : e \in E}

LEMMA TunIndex == \A x \in Nat : x # TUN
  BY DEF TUN

LEMMA NoMnRoutes == MnRoutes({}) = {}
  BY DEF MnRoutes

LEMMA RuleFields ==
    /\ \A x, a : /\ SourceRule(x, a).priority = x /\ SourceRule(x, a).src = a
                 /\ SourceRule(x, a).dst = NO_ADDR
    /\ \A e : \A r \in xtr_rules(e) : r.src = e \/ (r.src = NO_ADDR /\ r.dst = e)
  <1>1. ASSUME NEW x, NEW a
        PROVE  /\ SourceRule(x, a).priority = x /\ SourceRule(x, a).src = a
               /\ SourceRule(x, a).dst = NO_ADDR
    BY DEF SourceRule, Rule, ANY
  <1>2. ASSUME NEW e, NEW r \in xtr_rules(e)
        PROVE  r.src = e \/ (r.src = NO_ADDR /\ r.dst = e)
    BY <1>2 DEF Rule, xtr_rules, ANY
  <1> QED
    BY <1>1, <1>2, Zenon

\* A route over an interface: not over the tun device, and through the gateway.
LEMMA GatewayFields ==
    \A afi, g : \A x \in Nat : /\ GatewayRoute(afi, x, g).oif # TUN
                              /\ GatewayRoute(afi, x, g).gw = g
  <1> SUFFICES ASSUME NEW afi, NEW g, NEW x \in Nat
               PROVE  GatewayRoute(afi, x, g).oif # TUN /\ GatewayRoute(afi, x, g).gw = g
    BY Zenon
  <1>1. GatewayRoute(afi, x, g).oif = x /\ GatewayRoute(afi, x, g).gw = g
    BY DEF GatewayRoute, Route
  <1>2. x # TUN
    BY TunIndex, Zenon
  <1> QED
    BY <1>1, <1>2, Zenon

LEMMA AddRule ==
    ASSUME NEW k, Kern(k), NEW R, NEW q, q = add_rule(k, R)
    PROVE  /\ Kern(q) /\ SameLinks(k, q) /\ q.rules = WithRules(k.rules, R)
           /\ q.routes = k.routes /\ q.tun = k.tun /\ q.tunaddr = k.tunaddr
  <1>1. /\ SameLinks(k, q) /\ q.rules = WithRules(k.rules, R)
        /\ q.routes = k.routes /\ q.tun = k.tun /\ q.tunaddr = k.tunaddr
        /\ q = [index |-> q.index, next |-> q.next, up |-> q.up, addr |-> q.addr, gw |-> q.gw,
                rules |-> q.rules, routes |-> q.routes, tun |-> q.tun, tunaddr |-> q.tunaddr]
    BY DEF add_rule, Kern, SameLinks
  <1>2. RuleBag(q.rules)
    BY <1>1, BagOps DEF Kern
  <1> QED
    BY <1>1, <1>2 DEF Kern, SameLinks

LEMMA DelRule ==
    ASSUME NEW k, Kern(k), NEW R, NEW q, q = del_rule(k, R)
    PROVE  /\ Kern(q) /\ SameLinks(k, q) /\ q.rules = WithoutRules(k.rules, R)
           /\ q.routes = k.routes /\ q.tun = k.tun /\ q.tunaddr = k.tunaddr
  <1>1. /\ SameLinks(k, q) /\ q.rules = WithoutRules(k.rules, R)
        /\ q.routes = k.routes /\ q.tun = k.tun /\ q.tunaddr = k.tunaddr
        /\ q = [index |-> q.index, next |-> q.next, up |-> q.up, addr |-> q.addr, gw |-> q.gw,
                rules |-> q.rules, routes |-> q.routes, tun |-> q.tun, tunaddr |-> q.tunaddr]
    BY DEF del_rule, Kern, SameLinks
  <1>2. RuleBag(q.rules)
    BY <1>1, BagOps DEF Kern
  <1> QED
    BY <1>1, <1>2 DEF Kern, SameLinks

\* q is kernel k after the EID prefixes of E were registered.
Registered(k, m, E, q) ==
    /\ Kern(q) /\ SameLinks(k, q) /\ q.tun = k.tun
    /\ q.rules = IF m = "xTR" THEN WithRules(k.rules, XtrRules(E)) ELSE k.rules
    /\ q.routes = IF m = "MN" /\ k.tun THEN k.routes \cup MnRoutes(E) ELSE k.routes
    /\ q.tunaddr = IF m = "MN" /\ k.tun THEN k.tunaddr \cup E ELSE k.tunaddr

LEMMA AddEids ==
    ASSUME NEW k, Kern(k), NEW m, NEW E \in SUBSET Eids
    PROVE  Registered(k, m, E, tun_add_eid_prefix(k, m, E))
  <1>0. PICK q : q = tun_add_eid_prefix(k, m, E)
    BY Zenon
  <1>1. CASE m = "xTR"
    <2>1. q = add_rule(k, XtrRules(E))
      BY <1>0, <1>1 DEF tun_add_eid_prefix, XtrRules
    <2> QED
      BY <1>0, <1>1, <2>1, AddRule DEF Registered
  <1>2. CASE m = "MN" /\ k.tun
    <2>1. q = [[k EXCEPT !.tunaddr = @ \cup E] EXCEPT !.routes = @ \cup MnRoutes(E)]
      BY <1>0, <1>2 DEF tun_add_eid_prefix, configure_routing_to_tun_mn, tun_add_eid_to_iface, MnRoutes
    <2>2. Registered(k, m, E, q)
      BY <1>2, <2>1, Zenon DEF Kern, SameLinks, Registered
    <2> QED
      BY <1>0, <2>2
  <1>3. CASE m # "xTR" /\ ~(m = "MN" /\ k.tun)
    BY <1>3 DEF tun_add_eid_prefix, configure_routing_to_tun_mn, Kern, SameLinks, Registered
  <1> QED
    BY <1>1, <1>2, <1>3

\* q is kernel k after they were unregistered.
Unregistered(k, m, E, q) ==
    /\ Kern(q) /\ SameLinks(k, q) /\ q.tun = k.tun
    /\ q.rules = IF m = "xTR" THEN WithoutRules(k.rules, XtrRules(E)) ELSE k.rules
    /\ q.routes = IF m = "MN" THEN k.routes \ MnRoutes(E) ELSE k.routes
    /\ q.tunaddr = IF m = "MN" THEN k.tunaddr \ E ELSE k.tunaddr

LEMMA RemoveEids ==
    ASSUME NEW k, Kern(k), NEW m, NEW E
    PROVE  Unregistered(k, m, E, tun_remove_eid_prefix(k, m, E))
  <1>0. PICK q : q = tun_remove_eid_prefix(k, m, E)
    BY Zenon
  <1>1. CASE m = "xTR"
    <2>1. q = del_rule(k, XtrRules(E))
      BY <1>0, <1>1 DEF tun_remove_eid_prefix, XtrRules
    <2> QED
      BY <1>0, <1>1, <2>1, DelRule DEF Unregistered
  <1>2. CASE m = "MN"
    <2>1. q = [[k EXCEPT !.tunaddr = @ \ E] EXCEPT !.routes = @ \ MnRoutes(E)]
      BY <1>0, <1>2 DEF tun_remove_eid_prefix, remove_routing_to_tun_mn, tun_del_eid_from_iface, MnRoutes
    <2>2. Unregistered(k, m, E, q)
      BY <1>2, <2>1, Zenon DEF Kern, SameLinks, Unregistered
    <2> QED
      BY <1>0, <2>2
  <1>3. CASE m # "xTR" /\ m # "MN"
    BY <1>3 DEF tun_remove_eid_prefix, Kern, SameLinks, Unregistered
  <1> QED
    BY <1>1, <1>2, <1>3

LEMMA OtherRoutes ==
    ASSUME NEW k, Kern(k), NEW R
    PROVE  Kern([k EXCEPT !.routes = R]) /\ SameLinks(k, [k EXCEPT !.routes = R])
  BY DEF Kern, SameLinks

\* What lispd keeps about its interfaces is added to a kernel or removed.
LEMMA DaemonRequests ==
    ASSUME NEW k, Kern(k)
    PROVE  /\ \A r : Kern(add_route(k, r)) /\ SameLinks(k, add_route(k, r))
           /\ \A A : Kern(tun_add_datap_iface_addr(k, A)) /\ SameLinks(k, tun_add_datap_iface_addr(k, A))
           /\ \A m : Kern(tun_configure_data_plane(k, m)) /\ SameLinks(k, tun_configure_data_plane(k, m))
           /\ Kern(iface_remove_routing_rules(k)) /\ SameLinks(k, iface_remove_routing_rules(k))
           /\ \A x, old, new : /\ Kern(tun_updated_addr_rules(k, x, old, new))
                               /\ SameLinks(k, tun_updated_addr_rules(k, x, old, new))
           /\ \A i, x : /\ Kern(tun_updated_link_rules(k, i, x))
                        /\ SameLinks(k, tun_updated_link_rules(k, i, x))
  <1>0. SameLinks(k, k) /\ \A q, r : SameLinks(k, q) /\ SameLinks(q, r) => SameLinks(k, r)
    BY DEF SameLinks
  <1>1. ASSUME NEW routes PROVE LET q == [k EXCEPT !.routes = routes] IN Kern(q) /\ SameLinks(k, q)
    BY OtherRoutes
  <1>2. ASSUME NEW r PROVE Kern(add_route(k, r)) /\ SameLinks(k, add_route(k, r))
    BY <1>0, <1>1 DEF add_route
  <1>3. ASSUME NEW A PROVE Kern(tun_add_datap_iface_addr(k, A)) /\ SameLinks(k, tun_add_datap_iface_addr(k, A))
    BY AddRule DEF tun_add_datap_iface_addr
  <1>4. ASSUME NEW m PROVE Kern(tun_configure_data_plane(k, m)) /\ SameLinks(k, tun_configure_data_plane(k, m))
    BY Zenon DEF tun_configure_data_plane, create_tun, configure_routing_to_tun_router, Kern, SameLinks
  <1>5. Kern(iface_remove_routing_rules(k)) /\ SameLinks(k, iface_remove_routing_rules(k))
    <2> DEFINE known == {p \in Configured : address[p] # NO_ADDR}
               rules == {SourceRule(iface_index[p[1]], address[p]) : p \in known}
               routes == {GatewayRoute(p[2], iface_index[p[1]], gateway[p]) :
                             p \in {q \in known : gateway[q] # NO_ADDR}}
    <2>1. PICK q : q = del_rule(k, rules)
      BY Zenon
    <2>2. iface_remove_routing_rules(k) = [q EXCEPT !.routes = @ \ routes]
      BY <2>1 DEF iface_remove_routing_rules
    <2> HIDE DEF routes, rules
    <2>3. Kern(q) /\ SameLinks(k, q)
      BY <2>1, DelRule
    <2>4. PICK R : R = q.routes \ routes
      BY Zenon
    <2>5. iface_remove_routing_rules(k) = [q EXCEPT !.routes = R]
      BY <2>2, <2>4, Zenon
    <2>6. /\ Kern([q EXCEPT !.routes = R])
          /\ SameLinks(q, [q EXCEPT !.routes = R])
      BY <2>3, OtherRoutes, Zenon
    <2> QED
      BY <2>3, <2>5, <2>6, Zenon DEF SameLinks
  <1>6. ASSUME NEW x, NEW old, NEW new
        PROVE  /\ Kern(tun_updated_addr_rules(k, x, old, new))
               /\ SameLinks(k, tun_updated_addr_rules(k, x, old, new))
    <2>1. PICK q : q = IF old = NO_ADDR THEN k ELSE del_rule(k, {SourceRule(x, old)})
      OBVIOUS
    <2>2. Kern(q) /\ SameLinks(k, q)
      BY <1>0, <2>1, DelRule
    <2>3. tun_updated_addr_rules(k, x, old, new) = IF old = new THEN k ELSE add_rule(q, {SourceRule(x, new)})
      BY <2>1 DEF tun_updated_addr_rules
    <2> QED
      BY <1>0, <2>2, <2>3, AddRule
  <1>7. ASSUME NEW i, NEW x
        PROVE  /\ Kern(tun_updated_link_rules(k, i, x))
               /\ SameLinks(k, tun_updated_link_rules(k, i, x))
    <2> DEFINE rules(y) == {SourceRule(y, address[p]) : p \in {q \in Configured : q[1] = i /\ address[q] # NO_ADDR}}
    <2>1. PICK q : q = del_rule(k, rules(iface_index[i]))
      BY Zenon
    <2>2. tun_updated_link_rules(k, i, x) = add_rule(q, rules(x))
      BY <2>1 DEF tun_updated_link_rules
    <2> HIDE DEF rules
    <2>3. Kern(q) /\ SameLinks(k, q)
      BY <2>1, DelRule
    <2> QED
      BY <1>0, <2>2, <2>3, AddRule
  <1> QED
    BY <1>2, <1>3, <1>4, <1>5, <1>6, <1>7

\* q differs from kernel k in the rules, or in the routes.
OnlyRules(k, q) ==
    /\ Kern(q) /\ SameLinks(k, q) /\ q.routes = k.routes /\ q.tun = k.tun /\ q.tunaddr = k.tunaddr

OnlyRoutes(k, q) ==
    /\ Kern(q) /\ SameLinks(k, q) /\ q.rules = k.rules /\ q.tun = k.tun /\ q.tunaddr = k.tunaddr

LEMMA OnlyRulesTwice ==
    ASSUME NEW k, NEW q, NEW r, OnlyRules(k, q), OnlyRules(q, r)
    PROVE  OnlyRules(k, r)
  BY DEF OnlyRules, SameLinks

LEMMA RuleRequests ==
    ASSUME NEW k, Kern(k)
    PROVE  /\ \A R : OnlyRules(k, add_rule(k, R)) /\ add_rule(k, R).rules = WithRules(k.rules, R)
           /\ \A R : OnlyRules(k, del_rule(k, R)) /\ del_rule(k, R).rules = WithoutRules(k.rules, R)
           /\ OnlyRules(k, k)
           /\ \A x, old, new : OnlyRules(k, tun_updated_addr_rules(k, x, old, new))
           /\ \A i, x : OnlyRules(k, tun_updated_link_rules(k, i, x))
           /\ \A r : OnlyRoutes(k, add_route(k, r))
  <1>1. ASSUME NEW R
        PROVE  /\ OnlyRules(k, add_rule(k, R)) /\ add_rule(k, R).rules = WithRules(k.rules, R)
               /\ OnlyRules(k, del_rule(k, R)) /\ del_rule(k, R).rules = WithoutRules(k.rules, R)
    BY AddRule, DelRule DEF OnlyRules
  <1>2. OnlyRules(k, k) /\ \A q, r : OnlyRules(k, q) /\ OnlyRules(q, r) => OnlyRules(k, r)
    BY DEF OnlyRules, SameLinks
  <1>3. ASSUME NEW x, NEW old, NEW new
        PROVE  OnlyRules(k, tun_updated_addr_rules(k, x, old, new))
    <2>1. PICK q : q = IF old = NO_ADDR THEN k ELSE del_rule(k, {SourceRule(x, old)})
      BY Zenon
    <2>2. OnlyRules(k, q)
      BY <1>1, <1>2, <2>1
    <2>3. OnlyRules(q, add_rule(q, {SourceRule(x, new)}))
      BY <2>2, AddRule DEF OnlyRules
    <2>4. tun_updated_addr_rules(k, x, old, new) = IF old = new THEN k ELSE add_rule(q, {SourceRule(x, new)})
      BY <2>1 DEF tun_updated_addr_rules
    <2> QED
      BY <1>2, <2>2, <2>3, <2>4
  <1>4. ASSUME NEW i, NEW x
        PROVE  OnlyRules(k, tun_updated_link_rules(k, i, x))
    <2> DEFINE rules(y) == {SourceRule(y, address[p]) : p \in {q \in Configured : q[1] = i /\ address[q] # NO_ADDR}}
    <2>1. PICK q : q = del_rule(k, rules(iface_index[i]))
      BY Zenon
    <2>2. tun_updated_link_rules(k, i, x) = add_rule(q, rules(x))
      BY <2>1 DEF tun_updated_link_rules
    <2> HIDE DEF rules
    <2>3. OnlyRules(k, q)
      BY <1>1, <2>1
    <2>4. OnlyRules(q, add_rule(q, rules(x)))
      BY <2>3, AddRule DEF OnlyRules
    <2> QED
      BY <1>2, <2>2, <2>3, <2>4
  <1>5. ASSUME NEW r PROVE OnlyRoutes(k, add_route(k, r))
    BY Zenon DEF add_route, OnlyRoutes, Kern, SameLinks
  <1> QED
    BY <1>1, <1>2, <1>3, <1>4, <1>5

-----------------------------------------------------------------------------
(* The types, and the indexes: an index is never given to two interfaces,   *)
(* so lispd never takes one interface for another.                          *)

Started == stage \in {"configured", "ready", "running"}

MessageOK(m, next) ==
    /\ m = Message(m.type, m.index, m.afi, m.addr, m.up)
    /\ m.index \in Nat /\ m.index # 0 /\ m.index < next
    /\ m.afi \in Afis /\ m.up \in BOOLEAN
    /\ \/ m.type = "NEWLINK" /\ m.afi = "v4" /\ m.addr = NO_ADDR
       \/ m.type = "NEWADDR" /\ m.addr \in AddrsOf[m.afi] /\ m.up = TRUE
       \/ m.type = "NEWROUTE" /\ m.addr \in Gateways[m.afi] /\ m.up = TRUE

MessageSet == [type : {"NEWLINK", "NEWADDR", "NEWROUTE"}, index : Nat, afi : Afis,
               addr : Addrs \cup GatewayAddrs \cup {NO_ADDR}, up : BOOLEAN]

DaemonTypes ==
    /\ status \in [Ifaces -> BOOLEAN]
    /\ address \in [Configured -> Addrs \cup {NO_ADDR}]
    /\ iface_index \in [Ifaces -> Nat]
    /\ gateway \in [Pairs -> GatewayAddrs \cup {NO_ADDR}]
    /\ out_socket \in [Configured -> Addrs \cup {NO_ADDR}]
    /\ eids \subseteq Eids
    /\ mode \in Modes
    /\ stage \in {"off", "setup", "configured", "ready", "running"}
    /\ queue \in Seq(MessageSet)

\* An address is of the family that it is an address of.
OfFamily ==
    /\ \A p \in Pairs : kern.addr[p] \in AddrsOf[p[2]] \cup {NO_ADDR}
    /\ \A p \in Configured : address[p] \in AddrsOf[p[2]] \cup {NO_ADDR}

KernelIndexes ==
    /\ \A i \in Ifaces : kern.index[i] < kern.next
    /\ \A i \in Ifaces : kern.up[i] => kern.index[i] # 0
    /\ \A i, j \in Ifaces : kern.index[i] = kern.index[j] /\ kern.index[i] # 0 => i = j

DaemonIndexes ==
    Started =>
        /\ \A i \in Ifaces : iface_index[i] # 0 /\ iface_index[i] < kern.next
        /\ \A i, j \in Ifaces : iface_index[i] = iface_index[j] => i = j
        /\ \A i, j \in Ifaces : iface_index[i] = kern.index[j] => i = j

\* How far the start of the process is.
Stages ==
    /\ stage # "running" => queue = << >> /\ eids = {}
    /\ ~Started => address = NoAddresses /\ unseen = {}
    /\ stage \in {"ready", "running"} /\ mode # "MS" => kern.tun = TRUE
    /\ stage \in {"ready", "running"} => rlocs = set_rlocs(address)

Messages == \A n \in 1 .. Len(queue) : MessageOK(queue[n], kern.next)

TypeInv ==
    /\ Kern(kern) /\ DaemonTypes /\ OfFamily /\ KernelIndexes /\ DaemonIndexes /\ Stages
    /\ Messages

LEMMA TypeInit == Init => TypeInv
  <1> SUFFICES ASSUME Init PROVE TypeInv
    OBVIOUS
  <1>1. PICK up \in InitialLinks, a \in InitialAddresses, g \in InitialGateways :
          kern = [index   |-> FirstIndex,
                  next    |-> NextIndex,
                  up      |-> up,
                  addr    |-> [p \in Pairs |-> IF p \in Configured THEN a[p] ELSE NO_ADDR],
                  gw      |-> [p \in Pairs |-> IF up[p[1]] THEN g[p] ELSE NO_ADDR],
                  rules   |-> NoRules,
                  routes  |-> {},
                  tun     |-> FALSE,
                  tunaddr |-> {}]
    BY Zenon DEF Init
  <1>2. a \in [Configured -> Addrs \cup {NO_ADDR}] /\ Configured \subseteq Pairs
        /\ up \in [Ifaces -> BOOLEAN] /\ g \in [Pairs -> GatewayAddrs \cup {NO_ADDR}]
    BY InterfacesAssumption, HostAssumption, Zenon DEF Pairs, GatewayAddrs
  <1>3. RuleBag(NoRules)
    BY DEF RuleBag, NoRules, Once
  <1>4. Kern(kern)
    BY <1>1, <1>2, <1>3, HostAssumption DEF Kern
  <1>5. DaemonTypes
    BY HostAssumption DEF Init, DaemonTypes, NoAddresses, NoIndex, NoGateways
  <1>6. OfFamily
    BY <1>1, <1>2, HostAssumption DEF Init, OfFamily, NoAddresses
  <1>7. KernelIndexes
    BY <1>1, HostAssumption DEF KernelIndexes
  <1>8. DaemonIndexes /\ Stages /\ Messages
    BY DEF Init, DaemonIndexes, Stages, Messages, Started
  <1> QED
    BY <1>4, <1>5, <1>6, <1>7, <1>8 DEF TypeInv

LEMMA OneMessage ==
    ASSUME NEW m \in MessageSet, NEW next, MessageOK(m, next), NEW ms, ms = <<m>>
    PROVE  ms \in Seq(MessageSet) /\ \A n \in 1 .. Len(ms) : MessageOK(ms[n], next)
  OBVIOUS

\* A change of the kernel and its notifications ms.
KernelChange(i, ms) ==
    /\ Notify(i, ms)
    /\ ms \in Seq(MessageSet)
    /\ \A n \in 1 .. Len(ms) : MessageOK(ms[n], kern'.next)
    /\ Kern(kern')
    /\ KernelIndexes'
    /\ kern.next <= kern'.next
    /\ kern'.tun = kern.tun
    /\ \A p \in Pairs : kern'.addr[p] \in AddrsOf[p[2]] \cup {NO_ADDR}
    /\ \A j, l \in Ifaces : Started /\ iface_index[j] = kern'.index[l] => j = l

LEMMA NotifyTypes ==
    ASSUME TypeInv, NEW i, NEW ms, KernelChange(i, ms)
    PROVE  TypeInv'
  <1>1. /\ status' = status /\ address' = address /\ stage' = stage /\ mode' = mode
        /\ iface_index' = iface_index /\ gateway' = gateway /\ out_socket' = out_socket
        /\ rlocs' = rlocs /\ eids' = eids
        /\ queue' = IF stage = "running" THEN queue \o ms ELSE queue
        /\ stage \notin {"off", "setup"}
    BY DEF KernelChange, Notify, ifaceVars
  <1>2. /\ queue \in Seq(MessageSet) /\ kern.next \in Nat /\ kern'.next \in Nat
        /\ \A n \in 1 .. Len(queue) : MessageOK(queue[n], kern.next)
    BY DEF TypeInv, DaemonTypes, Messages, Kern, KernelChange
  <1>3. \A n \in 1 .. Len(queue) : MessageOK(queue[n], kern'.next)
    BY <1>2 DEF MessageOK, KernelChange
  <1>4. queue' \in Seq(MessageSet) /\ Messages'
    BY <1>1, <1>2, <1>3 DEF Messages, KernelChange
  <1>5. DaemonTypes'
    BY <1>1, <1>4 DEF TypeInv, DaemonTypes
  <1>6. OfFamily'
    BY <1>1 DEF TypeInv, OfFamily, KernelChange
  <1>7. DaemonIndexes'
    <2>1. Started' = Started
      BY <1>1, Zenon DEF Started
    <2>2. ASSUME Started, NEW j \in Ifaces
          PROVE  iface_index[j] # 0 /\ iface_index[j] < kern'.next
      <3>1. iface_index[j] \in Nat
        BY Zenon DEF TypeInv, DaemonTypes
      <3>2. iface_index[j] # 0 /\ iface_index[j] < kern.next
        BY <2>2, Zenon DEF TypeInv, DaemonIndexes
      <3>3. kern.next <= kern'.next
        BY Zenon DEF KernelChange
      <3> QED
        BY <1>2, <3>1, <3>2, <3>3
    <2>3. ASSUME Started, NEW j \in Ifaces, NEW l \in Ifaces, iface_index[j] = iface_index[l]
          PROVE  j = l
      BY <2>3, Zenon DEF TypeInv, DaemonIndexes
    <2>4. ASSUME Started, NEW j \in Ifaces, NEW l \in Ifaces, iface_index[j] = kern'.index[l]
          PROVE  j = l
      BY <2>4, Zenon DEF KernelChange
    <2> QED
      BY <1>1, <2>1, <2>2, <2>3, <2>4, Zenon DEF DaemonIndexes
  <1>8. Started
    BY <1>1 DEF TypeInv, DaemonTypes, Started
  <1>9. Stages'
    <2>1. set_rlocs(address') = set_rlocs(address)'
      BY DEF set_rlocs
    <2> QED
      BY <1>1, <1>8, <2>1 DEF TypeInv, Stages, Started, KernelChange
  <1> QED
    BY <1>4, <1>5, <1>6, <1>7, <1>9 DEF TypeInv, KernelChange

\* The fields of a kernel in which some have changed.
LEMMA KernelTypes ==
    ASSUME TypeInv, NEW i \in Ifaces,
           \/ \E afi \in Afis : \E a \in KernelAddrs[<<i, afi>>] : NewAddress(i, afi, a)
           \/ \E afi \in Afis : \E g \in Gateways[afi] : NewDefaultRoute(i, afi, g)
           \/ LinkDown(i)
           \/ LinkUp(i)
           \/ Removed(i)
           \/ CreatedAgain(i)
    PROVE  TypeInv'
  <1>1. /\ Kern(kern) /\ KernelIndexes /\ DaemonIndexes
        /\ \A p \in Pairs : kern.addr[p] \in AddrsOf[p[2]] \cup {NO_ADDR}
        /\ Pairs = Ifaces \X Afis
        /\ iface_index \in [Ifaces -> Nat]
    BY DEF TypeInv, OfFamily, Pairs, DaemonTypes
  <1>2. \A j, l \in Ifaces : Started /\ iface_index[j] = kern.index[l] => j = l
    BY <1>1 DEF DaemonIndexes
  <1>3. ASSUME NEW afi \in Afis, NEW a \in KernelAddrs[<<i, afi>>], NewAddress(i, afi, a)
        PROVE  TypeInv'
    <2>1. <<i, afi>> \in Pairs /\ a \in AddrsOf[afi] /\ a \in Addrs
      <3>1. <<i, afi>> \in Pairs
        BY <1>1
      <3>2. \A p \in Pairs : KernelAddrs[p] \subseteq AddrsOf[p[2]]
        BY HostAssumption, Zenon
      <3>3. KernelAddrs[<<i, afi>>] \subseteq AddrsOf[<<i, afi>>[2]]
        BY <3>1, <3>2, Zenon
      <3>4. <<i, afi>>[2] = afi
        OBVIOUS
      <3>5. a \in AddrsOf[afi]
        BY <1>3, <3>3, <3>4, Zenon
      <3>6. a \in Addrs
        BY <3>5, Zenon DEF Addrs, Afis
      <3> QED
        BY <3>1, <3>5, <3>6
    <2>2. PICK m, ms : m = Message("NEWADDR", kern.index[i], afi, a, TRUE) /\ ms = <<m>>
      BY Zenon
    <2>3. /\ kern.up[i] /\ kern' = [kern EXCEPT !.addr = [kern.addr EXCEPT ![<<i, afi>>] = a]]
          /\ Notify(i, ms)
      BY <1>3, <2>2 DEF NewAddress
    <2>4. /\ kern'.index = kern.index /\ kern'.next = kern.next /\ kern'.up = kern.up
          /\ kern'.tun = kern.tun
          /\ kern'.addr = [kern.addr EXCEPT ![<<i, afi>>] = a]
      BY <1>1, <2>3 DEF Kern
    <2>5. Kern(kern')
      BY <1>1, <2>1, <2>3, <2>4, Zenon DEF Kern
    <2>6. \A p \in Pairs : kern'.addr[p] \in AddrsOf[p[2]] \cup {NO_ADDR}
      BY <1>1, <2>1, <2>4 DEF Kern
    <2>7. KernelIndexes'
      <3>1. kern'.index = kern.index /\ kern'.next = kern.next /\ kern'.up = kern.up
        BY <2>4, Zenon
      <3>2. KernelIndexes
        BY <1>1, Zenon
      <3> QED
        BY <3>1, <3>2, ZenonT(20) DEF KernelIndexes
    <2>8. m \in MessageSet /\ MessageOK(m, kern'.next)
      BY <1>1, <2>1, <2>2, <2>3, <2>4 DEF Message, MessageSet, MessageOK, KernelIndexes, Kern
    <2>9. kern.next <= kern'.next
      BY <1>1, <2>4 DEF Kern
    <2>10. ms \in Seq(MessageSet) /\ \A n \in 1 .. Len(ms) : MessageOK(ms[n], kern'.next)
      BY <2>2, <2>8, OneMessage, Zenon
    <2>20. KernelChange(i, ms)
      BY <1>2, <2>3, <2>4, <2>5, <2>6, <2>7, <2>10, <2>9 DEF KernelChange
    <2> QED
      BY <2>20, NotifyTypes
  <1>4. ASSUME NEW afi \in Afis, NEW g \in Gateways[afi], NewDefaultRoute(i, afi, g)
        PROVE  TypeInv'
    <2>1. <<i, afi>> \in Pairs /\ g \in GatewayAddrs
      BY <1>1 DEF GatewayAddrs, Afis
    <2>2. PICK m, ms : m = Message("NEWROUTE", kern.index[i], afi, g, TRUE) /\ ms = <<m>>
      BY Zenon
    <2>3. /\ kern.up[i] /\ kern' = [kern EXCEPT !.gw = [kern.gw EXCEPT ![<<i, afi>>] = g]]
          /\ Notify(i, ms)
      BY <1>4, <2>2 DEF NewDefaultRoute
    <2>4. /\ kern'.index = kern.index /\ kern'.next = kern.next /\ kern'.up = kern.up
          /\ kern'.tun = kern.tun /\ kern'.addr = kern.addr
          /\ kern'.gw = [kern.gw EXCEPT ![<<i, afi>>] = g]
      BY <1>1, <2>3 DEF Kern
    <2>5. Kern(kern')
      BY <1>1, <2>1, <2>3, <2>4, Zenon DEF Kern
    <2>6. KernelIndexes' /\ kern.next <= kern'.next
      BY <1>1, <2>4 DEF KernelIndexes, Kern
    <2>7. m \in MessageSet /\ MessageOK(m, kern'.next)
      BY <1>1, <2>1, <2>2, <2>3, <2>4 DEF Message, MessageSet, MessageOK, KernelIndexes, Kern
    <2>8. ms \in Seq(MessageSet) /\ \A n \in 1 .. Len(ms) : MessageOK(ms[n], kern'.next)
      BY <2>2, <2>7, OneMessage, Zenon
    <2>20. KernelChange(i, ms)
      BY <1>1, <1>2, <2>3, <2>4, <2>5, <2>6, <2>8 DEF KernelChange
    <2> QED
      BY <2>20, NotifyTypes
  <1>5. PICK q : q = Flushed(kern, i)
    OBVIOUS
  <1>6. /\ Kern(q) /\ q.index = kern.index /\ q.next = kern.next /\ q.tun = kern.tun
        /\ q.addr = kern.addr /\ q.up = [kern.up EXCEPT ![i] = FALSE]
    <2>1. q = [index |-> kern.index, next |-> kern.next, up |-> [kern.up EXCEPT ![i] = FALSE],
               addr |-> kern.addr,
               gw |-> [p \in Pairs |-> IF p[1] = i THEN NO_ADDR ELSE kern.gw[p]],
               rules |-> kern.rules, routes |-> {r \in kern.routes : r.oif # kern.index[i]},
               tun |-> kern.tun, tunaddr |-> kern.tunaddr]
      BY <1>1, <1>5, Zenon DEF Flushed, Kern
    <2> QED
      BY <1>1, <2>1 DEF Kern
  <1>7. CASE LinkDown(i)
    <2>1. PICK m, ms : m = Message("NEWLINK", kern.index[i], "v4", NO_ADDR, FALSE) /\ ms = <<m>>
      BY Zenon
    <2>2. kern.up[i] /\ kern' = q /\ Notify(i, ms)
      BY <1>5, <1>7, <2>1 DEF LinkDown
    <2>3. KernelIndexes' /\ kern.next <= kern'.next
      <3>1. /\ kern'.index = kern.index /\ kern'.next = kern.next
            /\ kern'.up = [kern.up EXCEPT ![i] = FALSE]
        BY <1>6, <2>2, Zenon
      <3>2. \A j \in Ifaces : kern'.up[j] => kern.up[j]
        BY <1>1, <3>1, Zenon DEF Kern
      <3>3. KernelIndexes'
        BY <1>1, <3>1, <3>2, Zenon DEF KernelIndexes
      <3>4. kern.next \in Nat
        BY <1>1, Zenon DEF Kern
      <3>5. kern.next <= kern'.next
        BY <3>1, <3>4
      <3> QED
        BY <3>3, <3>5, Zenon
    <2>4. m \in MessageSet /\ MessageOK(m, kern'.next)
      BY <1>1, <1>6, <2>1, <2>2 DEF Message, MessageSet, MessageOK, KernelIndexes, Kern, Afis
    <2>5. ms \in Seq(MessageSet) /\ \A n \in 1 .. Len(ms) : MessageOK(ms[n], kern'.next)
      BY <2>1, <2>4, OneMessage, Zenon
    <2>6. \A p \in Pairs : kern'.addr[p] \in AddrsOf[p[2]] \cup {NO_ADDR}
      BY <1>1, <1>6, <2>2, Zenon
    <2>7. Kern(kern') /\ kern'.tun = kern.tun /\ kern'.index = kern.index
      BY <1>6, <2>2
    <2>8. \A j, l \in Ifaces : Started /\ iface_index[j] = kern'.index[l] => j = l
      BY <1>2, <2>7, Zenon
    <2>20. KernelChange(i, ms)
      BY <2>2, <2>3, <2>5, <2>6, <2>7, <2>8, Zenon DEF KernelChange
    <2> QED
      BY <2>20, NotifyTypes
  <1>8. CASE LinkUp(i)
    <2>1. PICK m, ms : m = Message("NEWLINK", kern.index[i], "v4", NO_ADDR, TRUE) /\ ms = <<m>>
      BY Zenon
    <2>2. /\ kern.index[i] # 0 /\ kern' = [kern EXCEPT !.up = [kern.up EXCEPT ![i] = TRUE]]
          /\ Notify(i, ms)
      BY <1>8, <2>1 DEF LinkUp
    <2>3. /\ kern'.index = kern.index /\ kern'.next = kern.next /\ kern'.tun = kern.tun
          /\ kern'.addr = kern.addr /\ kern'.up = [kern.up EXCEPT ![i] = TRUE]
      BY <1>1, <2>2 DEF Kern
    <2>4. Kern(kern')
      BY <1>1, <2>2, <2>3, Zenon DEF Kern
    <2>5. KernelIndexes' /\ kern.next <= kern'.next
      BY <1>1, <2>2, <2>3 DEF KernelIndexes, Kern
    <2>6. m \in MessageSet /\ MessageOK(m, kern'.next)
      BY <1>1, <2>1, <2>2, <2>3 DEF Message, MessageSet, MessageOK, KernelIndexes, Kern, Afis
    <2>7. ms \in Seq(MessageSet) /\ \A n \in 1 .. Len(ms) : MessageOK(ms[n], kern'.next)
      BY <2>1, <2>6, OneMessage, Zenon
    <2>20. KernelChange(i, ms)
      BY <1>1, <1>2, <2>2, <2>3, <2>4, <2>5, <2>7 DEF KernelChange
    <2> QED
      BY <2>20, NotifyTypes
  <1>9. CASE Removed(i)
    <2>1. PICK m : m = Message("NEWLINK", kern.index[i], "v4", NO_ADDR, FALSE)
      BY Zenon
    <2>2. PICK ms : ms = IF kern.up[i] THEN <<m>> ELSE << >>
      BY Zenon
    <2>3. /\ kern.index[i] # 0
          /\ kern' = [q EXCEPT !.index = [q.index EXCEPT ![i] = 0],
                               !.addr = [p \in Pairs |-> IF p[1] = i THEN NO_ADDR ELSE q.addr[p]]]
          /\ Notify(i, ms)
      BY <1>5, <1>9, <2>1, <2>2 DEF Removed
    <2>4. /\ kern'.index = [kern.index EXCEPT ![i] = 0] /\ kern'.next = kern.next
          /\ kern'.tun = kern.tun /\ kern'.up = [kern.up EXCEPT ![i] = FALSE]
          /\ kern'.addr = [p \in Pairs |-> IF p[1] = i THEN NO_ADDR ELSE kern.addr[p]]
      BY <1>6, <2>3 DEF Kern
    <2>5. Kern(kern')
      BY <1>1, <1>6, <2>3, <2>4, Zenon DEF Kern
    <2>6. KernelIndexes' /\ kern.next <= kern'.next
      <3>1. /\ \A j \in Ifaces : kern'.index[j] = IF j = i THEN 0 ELSE kern.index[j]
            /\ \A j \in Ifaces : kern'.up[j] = IF j = i THEN FALSE ELSE kern.up[j]
        BY <1>1, <2>4, Zenon DEF Kern
      <3>2. kern.next \in Nat /\ \A j \in Ifaces : kern.index[j] \in Nat
        BY <1>1, Zenon DEF Kern
      <3>3. kern.index[i] < kern.next
        BY <1>1, Zenon DEF KernelIndexes
      <3>4. 0 < kern.next /\ kern.next <= kern'.next
        BY <2>4, <3>2, <3>3
      <3>5. \A j \in Ifaces : kern'.index[j] < kern'.next
        BY <1>1, <2>4, <3>1, <3>4, Zenon DEF KernelIndexes
      <3>6. \A j \in Ifaces : kern'.up[j] => kern'.index[j] # 0
        BY <1>1, <3>1, Zenon DEF KernelIndexes
      <3>7. \A j, l \in Ifaces : kern'.index[j] = kern'.index[l] /\ kern'.index[j] # 0 => j = l
        BY <1>1, <3>1, Zenon DEF KernelIndexes
      <3> QED
        BY <3>4, <3>5, <3>6, <3>7, Zenon DEF KernelIndexes
    <2>7. \A p \in Pairs : kern'.addr[p] \in AddrsOf[p[2]] \cup {NO_ADDR}
      BY <1>1, <2>4
    <2>8. \A j, l \in Ifaces : Started /\ iface_index[j] = kern'.index[l] => j = l
      BY <1>1, <2>4 DEF DaemonIndexes, Kern
    <2>9. m \in MessageSet /\ MessageOK(m, kern'.next)
      BY <1>1, <2>1, <2>3, <2>4 DEF Message, MessageSet, MessageOK, KernelIndexes, Kern, Afis
    <2>10. ms \in Seq(MessageSet) /\ \A n \in 1 .. Len(ms) : MessageOK(ms[n], kern'.next)
      BY <2>2, <2>9
    <2>20. KernelChange(i, ms)
      BY <2>3, <2>4, <2>5, <2>6, <2>7, <2>8, <2>10 DEF KernelChange
    <2> QED
      BY <2>20, NotifyTypes
  <1>10. CASE CreatedAgain(i)
    <2>1. PICK m, ms : m = Message("NEWLINK", kern.next, "v4", NO_ADDR, FALSE) /\ ms = <<m>>
      BY Zenon
    <2>2. /\ kern.index[i] = 0
          /\ kern' = [kern EXCEPT !.index = [kern.index EXCEPT ![i] = kern.next],
                                  !.next = kern.next + 1]
          /\ Notify(i, ms)
      BY <1>10, <2>1 DEF CreatedAgain
    <2>3. /\ kern'.index = [kern.index EXCEPT ![i] = kern.next] /\ kern'.next = kern.next + 1
          /\ kern'.tun = kern.tun /\ kern'.addr = kern.addr /\ kern'.up = kern.up
      BY <1>1, <2>2 DEF Kern
    <2>4. Kern(kern')
      <3>1. kern.next \in Nat /\ kern'.next \in Nat /\ kern'.index \in [Ifaces -> Nat]
        BY <1>1, <2>3 DEF Kern
      <3>2. /\ kern'.gw = kern.gw /\ kern'.rules = kern.rules /\ kern'.routes = kern.routes
            /\ kern'.tunaddr = kern.tunaddr
        BY <1>1, <2>2 DEF Kern
      <3>3. kern' = [index |-> kern'.index, next |-> kern'.next, up |-> kern'.up,
                     addr |-> kern'.addr, gw |-> kern'.gw, rules |-> kern'.rules,
                     routes |-> kern'.routes, tun |-> kern'.tun, tunaddr |-> kern'.tunaddr]
        BY <1>1, <2>2, Zenon DEF Kern
      <3> QED
        BY <1>1, <2>3, <3>1, <3>2, <3>3 DEF Kern
    <2>5. kern.next \in Nat /\ kern.next # 0 /\ kern.index \in [Ifaces -> Nat]
      BY <1>1 DEF Kern, KernelIndexes
    <2>6. KernelIndexes' /\ kern.next <= kern'.next
      BY <1>1, <2>3, <2>5 DEF KernelIndexes
    <2>7. \A j, l \in Ifaces : Started /\ iface_index[j] = kern'.index[l] => j = l
      <3> SUFFICES ASSUME NEW j \in Ifaces, NEW l \in Ifaces, Started, iface_index[j] = kern'.index[l]
                   PROVE  j = l
        BY Zenon
      <3>1. iface_index[j] < kern.next /\ iface_index[j] \in Nat
        BY <1>1, Zenon DEF DaemonIndexes
      <3>2. CASE l = i
        <4>1. kern'.index[l] = kern.next
          BY <2>3, <2>5, <3>2
        <4> QED
          BY <2>5, <3>1, <4>1
      <3>3. CASE l # i
        <4>1. kern'.index[l] = kern.index[l]
          BY <2>3, <2>5, <3>3
        <4> QED
          BY <1>1, <4>1, Zenon DEF DaemonIndexes
      <3> QED
        BY <3>2, <3>3, Zenon
    <2>8. m \in MessageSet /\ MessageOK(m, kern'.next)
      <3>1. m \in MessageSet
        BY <2>1, <2>5, Zenon DEF Message, MessageSet, Afis
      <3>2. MessageOK(m, kern'.next)
        <4>1. /\ m.type = "NEWLINK" /\ m.index = kern.next /\ m.afi = "v4"
              /\ m.addr = NO_ADDR /\ m.up = FALSE
              /\ m = Message(m.type, m.index, m.afi, m.addr, m.up)
          BY <2>1, Zenon DEF Message
        <4>2. kern.next < kern'.next
          BY <2>3, <2>5
        <4> QED
          BY <2>5, <4>1, <4>2, Zenon DEF MessageOK, Afis
      <3> QED
        BY <3>1, <3>2, Zenon
    <2>9. ms \in Seq(MessageSet) /\ \A n \in 1 .. Len(ms) : MessageOK(ms[n], kern'.next)
      BY <2>1, <2>8, OneMessage, Zenon
    <2>20. KernelChange(i, ms)
      BY <1>1, <2>2, <2>3, <2>4, <2>6, <2>7, <2>9 DEF KernelChange
    <2> QED
      BY <2>20, NotifyTypes
  <1> QED
    BY <1>3, <1>4, <1>7, <1>8, <1>9, <1>10, Zenon

-----------------------------------------------------------------------------
(* The steps of lispd.                                                     *)

\* A step of lispd: it leaves the interfaces of the kernel alone, and the
\* notifications after it are some that were there.
DaemonChange ==
    /\ Kern(kern') /\ SameLinks(kern, kern')
    /\ DaemonTypes'
    /\ \A p \in Configured : address'[p] \in AddrsOf[p[2]] \cup {NO_ADDR}
    /\ DaemonIndexes' /\ Stages'
    /\ \A n \in 1 .. Len(queue') : \E l \in 1 .. Len(queue) : queue'[n] = queue[l]

LEMMA DaemonChangeTypes ==
    ASSUME TypeInv, DaemonChange
    PROVE  TypeInv'
  <1>1. Kern(kern') /\ DaemonTypes' /\ DaemonIndexes' /\ Stages'
    BY DEF DaemonChange
  <1>2. OfFamily'
    BY DEF TypeInv, DaemonChange, OfFamily, SameLinks
  <1>3. KernelIndexes'
    BY DEF TypeInv, DaemonChange, KernelIndexes, SameLinks
  <1>4. kern'.next = kern.next
    BY DEF DaemonChange, SameLinks
  <1>5. Messages'
    <2> SUFFICES ASSUME NEW n \in 1 .. Len(queue') PROVE MessageOK(queue'[n], kern'.next)
      BY DEF Messages
    <2>1. PICK l \in 1 .. Len(queue) : queue'[n] = queue[l]
      BY DEF DaemonChange
    <2>2. MessageOK(queue[l], kern.next)
      BY DEF TypeInv, Messages
    <2> QED
      BY <1>4, <2>1, <2>2
  <1> QED
    BY <1>1, <1>2, <1>3, <1>5 DEF TypeInv

LEMMA SameLinksSelf == \A k : SameLinks(k, k)
  BY DEF SameLinks

\* A step that touches neither the kernel nor lispd's view of it.
LEMMA SetupTypes ==
    ASSUME TypeInv,
           \/ \E daemonize \in BOOLEAN : initial_setup(daemonize)
           \/ RemovePidFile
           \/ UNCHANGED allVars
    PROVE  TypeInv'
  <1>1. /\ status' = status /\ address' = address /\ mode' = mode /\ kern' = kern
        /\ iface_index' = iface_index /\ gateway' = gateway /\ out_socket' = out_socket
        /\ rlocs' = rlocs /\ eids' = eids /\ queue' = queue /\ unseen' = unseen
        /\ stage' = stage \/ (stage = "off" /\ stage' = "setup")
    BY DEF initial_setup, RemovePidFile, allVars, hostVars, ifaceVars
  <1>2. DaemonTypes'
    BY <1>1 DEF TypeInv, DaemonTypes
  <1>3. DaemonIndexes'
    BY <1>1 DEF TypeInv, DaemonIndexes, Started
  <1>4. Stages'
    <2>1. set_rlocs(address)' = set_rlocs(address)
      BY <1>1 DEF set_rlocs
    <2> QED
      BY <1>1, <2>1 DEF TypeInv, Stages, Started
  <1>5. OfFamily' /\ KernelIndexes' /\ Messages'
    BY <1>1 DEF TypeInv, OfFamily, KernelIndexes, Messages
  <1> QED
    BY <1>1, <1>2, <1>3, <1>4, <1>5 DEF TypeInv

LEMMA ConfigTypes ==
    ASSUME TypeInv, parse_config_file
    PROVE  TypeInv'
  <1>1. /\ Kern(kern) /\ DaemonTypes /\ KernelIndexes /\ OfFamily /\ Stages
        /\ Configured \subseteq Pairs
    BY InterfacesAssumption DEF TypeInv, Pairs
  <1>2. /\ stage = "setup" /\ stage' = "configured" /\ \A i \in Ifaces : kern.index[i] # 0
        /\ iface_index' = kern.index
        /\ address' = [p \in Configured |-> get_iface_address(kern, p)]
        /\ status' = [i \in Ifaces |-> \E p \in Configured : p[1] = i /\ address'[p] # NO_ADDR]
        /\ kern' = tun_add_datap_iface_addr(kern, address')
        /\ out_socket' = address'
        /\ queue' = queue /\ mode' = mode /\ gateway' = gateway /\ eids' = eids
    BY DEF parse_config_file
  <1>3. Kern(kern') /\ SameLinks(kern, kern')
    BY <1>1, <1>2, DaemonRequests
  <1>4. /\ \A p \in Configured : address'[p] \in AddrsOf[p[2]] \cup {NO_ADDR}
        /\ address' \in [Configured -> Addrs \cup {NO_ADDR}]
    BY <1>1, <1>2 DEF OfFamily, Kern, get_iface_address
  <1>5. status' \in [Ifaces -> BOOLEAN]
    BY <1>2
  <1>6. DaemonTypes'
    BY <1>1, <1>2, <1>4, <1>5 DEF DaemonTypes, Kern
  <1>7. DaemonIndexes'
    <2>1. kern'.index = kern.index /\ kern'.next = kern.next
      BY <1>3, Zenon DEF SameLinks
    <2>2. /\ \A i \in Ifaces : kern.index[i] # 0 /\ kern.index[i] < kern.next
          /\ \A i, j \in Ifaces : kern.index[i] = kern.index[j] => i = j
      BY <1>1, <1>2, Zenon DEF KernelIndexes
    <2>3. iface_index' = kern.index
      BY <1>2, Zenon
    <2>4. \A i \in Ifaces : iface_index'[i] # 0 /\ iface_index'[i] < kern'.next
      BY <2>1, <2>2, <2>3, Zenon
    <2>5. \A i, j \in Ifaces : iface_index'[i] = iface_index'[j] => i = j
      BY <2>2, <2>3, Zenon
    <2>6. \A i, j \in Ifaces : iface_index'[i] = kern'.index[j] => i = j
      BY <2>1, <2>2, <2>3, Zenon
    <2> QED
      BY <2>4, <2>5, <2>6, Zenon DEF DaemonIndexes
  <1>8. Stages' /\ queue' = << >>
    BY <1>1, <1>2 DEF Stages, Started
  <1>9. DaemonChange
    BY <1>3, <1>4, <1>6, <1>7, <1>8 DEF DaemonChange
  <1> QED
    BY <1>9, DaemonChangeTypes

LEMMA SameIndexes ==
    ASSUME DaemonIndexes, SameLinks(kern, kern'), iface_index' = iface_index, Started' => Started
    PROVE  DaemonIndexes'
  <1>1. kern'.next = kern.next /\ kern'.index = kern.index
    BY Zenon DEF SameLinks
  <1>2. CASE ~Started'
    BY <1>2, Zenon DEF DaemonIndexes
  <1>3. CASE Started'
    <2>1. /\ \A i \in Ifaces : iface_index[i] # 0 /\ iface_index[i] < kern.next
          /\ \A i, j \in Ifaces : iface_index[i] = iface_index[j] => i = j
          /\ \A i, j \in Ifaces : iface_index[i] = kern.index[j] => i = j
      BY <1>3, Zenon DEF DaemonIndexes
    <2>2. \A i \in Ifaces : iface_index'[i] # 0 /\ iface_index'[i] < kern'.next
      BY <1>1, <2>1, Zenon
    <2>3. \A i, j \in Ifaces : iface_index'[i] = iface_index'[j] => i = j
      BY <2>1, Zenon
    <2>4. \A i, j \in Ifaces : iface_index'[i] = kern'.index[j] => i = j
      BY <1>1, <2>1, Zenon
    <2> QED
      BY <2>2, <2>3, <2>4, Zenon DEF DaemonIndexes
  <1> QED
    BY <1>2, <1>3, Zenon

LEMMA DataPlaneTypes ==
    ASSUME TypeInv, datap_init
    PROVE  TypeInv'
  <1>1. Kern(kern) /\ DaemonTypes /\ OfFamily /\ Stages /\ DaemonIndexes
    BY DEF TypeInv
  <1>2. /\ stage = "configured" /\ stage' = "ready"
        /\ IF mode = "MS" THEN kern' = kern ELSE kern' = tun_configure_data_plane(kern, mode)
        /\ rlocs' = set_rlocs(address)
        /\ status' = status /\ address' = address /\ queue' = queue /\ mode' = mode
        /\ iface_index' = iface_index /\ gateway' = gateway /\ out_socket' = out_socket
        /\ eids' = eids /\ unseen' = unseen
    BY DEF datap_init
  <1>3. Kern(kern') /\ SameLinks(kern, kern')
    BY <1>1, <1>2, DaemonRequests, SameLinksSelf
  <1>4. mode # "MS" => kern'.tun = TRUE
    BY <1>1, <1>2, Zenon DEF Kern, tun_configure_data_plane, create_tun, configure_routing_to_tun_router
  <1>5. DaemonTypes'
    BY <1>1, <1>2 DEF DaemonTypes
  <1>6. DaemonIndexes'
    <2>1. Started' => Started
      BY <1>2, Zenon DEF Started
    <2> QED
      BY <1>1, <1>2, <1>3, <2>1, SameIndexes, Zenon
  <1>7. Stages'
    BY <1>1, <1>2, <1>4 DEF Stages, Started, set_rlocs
  <1>8. DaemonChange
    BY <1>1, <1>2, <1>3, <1>5, <1>6, <1>7 DEF DaemonChange, OfFamily
  <1> QED
    BY <1>8, DaemonChangeTypes

LEMMA NetlinkTypes ==
    ASSUME TypeInv, init_netlink
    PROVE  TypeInv'
  <1>1. Kern(kern) /\ DaemonTypes /\ OfFamily /\ Stages /\ DaemonIndexes
    BY DEF TypeInv
  <1> DEFINE known == {p \in Pairs : kern.gw[p] # NO_ADDR /\ iface_index[p[1]] = kern.index[p[1]]}
             routes == {GatewayRoute(p[2], iface_index[p[1]], kern.gw[p]) : p \in known}
             stale(r) == \E s \in routes : s.afi = r.afi /\ s.table = r.table /\ s.dst = r.dst
  <1>2. PICK k : k = [kern EXCEPT !.routes = {r \in @ : ~stale(r)} \cup routes]
    BY Zenon
  <1>3. /\ stage = "ready" /\ stage' = "running"
        /\ gateway' = [p \in Pairs |-> IF p \in known THEN kern.gw[p] ELSE NO_ADDR]
        /\ kern' = tun_add_eid_prefix(k, mode, ConfiguredEids[mode])
        /\ eids' = ConfiguredEids[mode]
        /\ status' = status /\ address' = address /\ queue' = queue /\ mode' = mode
        /\ iface_index' = iface_index /\ out_socket' = out_socket /\ rlocs' = rlocs
    BY <1>2 DEF init_netlink, ifaceVars
  <1> HIDE DEF known, routes, stale
  <1>4. Kern(k) /\ SameLinks(kern, k) /\ k.tun = kern.tun
    BY <1>1, <1>2, Zenon DEF Kern, SameLinks
  <1>5. ConfiguredEids[mode] \in SUBSET Eids
    BY <1>1, HostAssumption DEF DaemonTypes
  <1>6. Kern(kern') /\ SameLinks(k, kern') /\ kern'.tun = kern.tun
    <2>1. Registered(k, mode, ConfiguredEids[mode], kern')
      BY <1>3, <1>4, <1>5, AddEids
    <2> QED
      BY <1>4, <2>1 DEF Registered
  <1>7. SameLinks(kern, kern')
    BY <1>4, <1>6 DEF SameLinks
  <1>8. gateway' \in [Pairs -> GatewayAddrs \cup {NO_ADDR}]
    BY <1>1, <1>3 DEF Kern
  <1>9. DaemonTypes'
    BY <1>1, <1>3, <1>5, <1>8 DEF DaemonTypes
  <1>10. DaemonIndexes'
    BY <1>1, <1>3, <1>7, SameIndexes DEF Started
  <1>11. Stages'
    BY <1>1, <1>3, <1>6 DEF Stages, Started, set_rlocs
  <1>12. DaemonChange
    BY <1>1, <1>3, <1>6, <1>7, <1>9, <1>10, <1>11 DEF DaemonChange, OfFamily
  <1> QED
    BY <1>12, DaemonChangeTypes

LEMMA EidTypes ==
    ASSUME TypeInv, NEW E \in SUBSET Eids, replace_eids(E)
    PROVE  TypeInv'
  <1>1. Kern(kern) /\ DaemonTypes /\ OfFamily /\ Stages /\ DaemonIndexes
    BY DEF TypeInv
  <1>2. PICK k : k = tun_remove_eid_prefix(kern, mode, eids)
    OBVIOUS
  <1>3. /\ stage = "running" /\ kern' = tun_add_eid_prefix(k, mode, E) /\ eids' = E
        /\ status' = status /\ address' = address /\ queue' = queue /\ mode' = mode
        /\ iface_index' = iface_index /\ gateway' = gateway /\ out_socket' = out_socket
        /\ rlocs' = rlocs /\ stage' = stage
    BY <1>2 DEF replace_eids, ifaceVars
  <1>4. Kern(k) /\ SameLinks(kern, k) /\ k.tun = kern.tun
    <2>1. Unregistered(kern, mode, eids, k)
      BY <1>1, <1>2, RemoveEids
    <2> QED
      BY <2>1 DEF Unregistered
  <1>5. Kern(kern') /\ SameLinks(k, kern') /\ kern'.tun = kern.tun
    <2>1. Registered(k, mode, E, kern')
      BY <1>3, <1>4, AddEids
    <2> QED
      BY <1>4, <2>1 DEF Registered
  <1>6. SameLinks(kern, kern')
    BY <1>4, <1>5 DEF SameLinks
  <1>7. DaemonTypes'
    BY <1>1, <1>3 DEF DaemonTypes
  <1>8. DaemonIndexes'
    BY <1>1, <1>3, <1>6, SameIndexes DEF Started
  <1>9. Stages'
    BY <1>1, <1>3, <1>5 DEF Stages, Started, set_rlocs
  <1>10. DaemonChange
    BY <1>1, <1>3, <1>5, <1>6, <1>7, <1>8, <1>9, Zenon DEF DaemonChange, OfFamily
  <1> QED
    BY <1>10, DaemonChangeTypes

\* The end of a process that leaves the kernel as k, but for the tun device.
LEMMA EndedTypes ==
    ASSUME TypeInv, NEW k, Kern(k), SameLinks(kern, k), Ended(k)
    PROVE  TypeInv'
  <1>1. Kern(kern') /\ SameLinks(k, kern')
    BY Zenon DEF Ended, Kern, SameLinks
  <1>2. SameLinks(kern, kern')
    BY <1>1 DEF SameLinks
  <1>3. DaemonTypes'
    BY DEF TypeInv, DaemonTypes, Ended, NoAddresses, NoIndex, NoGateways
  <1>4. /\ DaemonIndexes' /\ Stages' /\ queue' = << >>
        /\ \A p \in Configured : address'[p] = NO_ADDR
    BY DEF DaemonIndexes, Stages, Ended, Started, NoAddresses
  <1>5. DaemonChange
    BY <1>1, <1>2, <1>3, <1>4 DEF DaemonChange
  <1> QED
    BY <1>5, DaemonChangeTypes

LEMMA EndTypes ==
    ASSUME TypeInv, exit_cleanup \/ kill \/ map_server_fails
    PROVE  TypeInv'
  <1>1. Kern(kern)
    BY DEF TypeInv
  <1>2. CASE exit_cleanup
    <2>1. PICK q : q = tun_remove_eid_prefix(kern, mode, eids)
      OBVIOUS
    <2>2. PICK k : k = iface_remove_routing_rules(q)
      OBVIOUS
    <2>3. Ended(k)
      BY <1>2, <2>1, <2>2 DEF exit_cleanup
    <2>4. Kern(q) /\ SameLinks(kern, q)
      <3>1. Unregistered(kern, mode, eids, q)
        BY <1>1, <2>1, RemoveEids
      <3> QED
        BY <3>1 DEF Unregistered
    <2>5. Kern(k) /\ SameLinks(q, k)
      BY <2>2, <2>4, DaemonRequests
    <2>6. SameLinks(kern, k)
      BY <2>4, <2>5 DEF SameLinks
    <2> QED
      BY <2>3, <2>5, <2>6, EndedTypes
  <1>3. CASE kill
    BY <1>1, <1>3, EndedTypes, SameLinksSelf DEF kill, Dies
  <1>4. CASE map_server_fails
    <2>1. PICK k : /\ Ended(k)
                   /\ \/ k = kern
                      \/ \E x, old, new : k = tun_updated_addr_rules(kern, x, old, new)
                      \/ \E i, x : k = tun_updated_link_rules(kern, i, x)
      <3>1. PICK m : m = Head(queue)
        OBVIOUS
      <3>2. CASE \E i \in KnownByIndex(m.index) :
                   LET old == address[<<i, m.afi>>]
                   IN  Dies(IF old = NO_ADDR /\ status[i] THEN kern
                            ELSE tun_updated_addr_rules(kern, iface_index[i], old, m.addr),
                            "crashed")
        BY <3>2 DEF Dies
      <3>3. CASE \E i \in LinkIfaces(m.index) :
                   Dies(tun_updated_link_rules(kern, i, m.index), "crashed")
        BY <3>3 DEF Dies
      <3> QED
        BY <1>4, <3>1, <3>2, <3>3, Zenon DEF map_server_fails
    <2>2. Kern(k) /\ SameLinks(kern, k)
      BY <1>1, <2>1, DaemonRequests, SameLinksSelf
    <2> QED
      BY <2>1, <2>2, EndedTypes
  <1> QED
    BY <1>2, <1>3, <1>4

\* A notification was served.
Handled ==
    /\ stage = "running" /\ queue # << >> /\ queue' = Tail(queue)
    /\ UNCHANGED <<stage, mode, eids>>
    /\ Kern(kern') /\ SameLinks(kern, kern') /\ kern'.tun = kern.tun
    /\ status' \in [Ifaces -> BOOLEAN]
    /\ address' \in [Configured -> Addrs \cup {NO_ADDR}]
    /\ \A p \in Configured : address'[p] \in AddrsOf[p[2]] \cup {NO_ADDR}
    /\ iface_index' \in [Ifaces -> Nat]
    /\ gateway' \in [Pairs -> GatewayAddrs \cup {NO_ADDR}]
    /\ out_socket' \in [Configured -> Addrs \cup {NO_ADDR}]
    /\ DaemonIndexes'
    /\ rlocs' = set_rlocs(address')

LEMMA HandledTypes ==
    ASSUME TypeInv, Handled
    PROVE  TypeInv'
  <1>1. queue \in Seq(MessageSet) /\ queue # << >> /\ queue' = Tail(queue)
    BY DEF TypeInv, DaemonTypes, Handled
  <1>2. /\ queue' \in Seq(MessageSet)
        /\ \A n \in 1 .. Len(queue') : \E l \in 1 .. Len(queue) : queue'[n] = queue[l]
    <2>1. /\ Tail(queue) \in Seq(MessageSet) /\ Len(Tail(queue)) = Len(queue) - 1
          /\ \A n \in 1 .. Len(Tail(queue)) : Tail(queue)[n] = queue[n + 1]
      BY <1>1
    <2>2. Len(queue) \in Nat
      BY <1>1
    <2>3. ASSUME NEW n \in 1 .. Len(Tail(queue))
          PROVE  \E l \in 1 .. Len(queue) : Tail(queue)[n] = queue[l]
      <3>1. n + 1 \in 1 .. Len(queue)
        BY <2>1, <2>2
      <3> QED
        BY <2>1, <3>1
    <2> QED
      BY <1>1, <2>1, <2>3
  <1>3. DaemonTypes'
    BY <1>2 DEF TypeInv, DaemonTypes, Handled
  <1>4. Stages'
    <2>1. set_rlocs(address)' = set_rlocs(address')
      BY DEF set_rlocs
    <2> QED
      BY <2>1 DEF TypeInv, Stages, Started, Handled
  <1>5. DaemonChange
    BY <1>2, <1>3, <1>4 DEF DaemonChange, Handled
  <1> QED
    BY <1>5, DaemonChangeTypes

\* The first notification.
Serving(m) ==
    /\ stage = "running" /\ queue # << >> /\ m = Head(queue) /\ queue' = Tail(queue)
    /\ UNCHANGED <<stage, died, mode, pid_file, eids, inputs>>

LEMMA ServedMessage ==
    ASSUME TypeInv, NEW m, Serving(m)
    PROVE  MessageOK(m, kern.next)
  <1>1. queue \in Seq(MessageSet) /\ queue # << >> /\ m = Head(queue)
    BY DEF TypeInv, DaemonTypes, Serving
  <1>2. m = queue[1] /\ 1 \in 1 .. Len(queue)
    BY <1>1
  <1> QED
    BY <1>2 DEF TypeInv, Messages

LEMMA NothingTypes ==
    ASSUME TypeInv, NEW m, Serving(m),
           UNCHANGED <<ifaceVars, kern, iface_index, gateway, out_socket, rlocs>>
    PROVE  TypeInv'
  <1>1. /\ status' = status /\ address' = address /\ kern' = kern /\ iface_index' = iface_index
        /\ gateway' = gateway /\ out_socket' = out_socket /\ rlocs' = rlocs /\ stage' = stage
    BY DEF ifaceVars, Serving
  <1>2. Kern(kern) /\ DaemonTypes /\ OfFamily /\ Stages /\ DaemonIndexes
    BY DEF TypeInv
  <1>3. DaemonIndexes'
    BY <1>1, <1>2 DEF DaemonIndexes, Started
  <1>4. rlocs' = set_rlocs(address')
    BY <1>1, <1>2 DEF Stages, Serving
  <1>5. SameLinks(kern, kern')
    BY <1>1, SameLinksSelf
  <1>6. Handled
    BY <1>1, <1>2, <1>3, <1>4, <1>5 DEF Handled, Serving, DaemonTypes, OfFamily
  <1> QED
    BY <1>6, HandledTypes

LEMMA AddressTypes ==
    ASSUME TypeInv, NEW m, Serving(m), process_nl_add_address(m)
    PROVE  TypeInv'
  <1>1. Kern(kern) /\ DaemonTypes /\ OfFamily /\ DaemonIndexes
    BY DEF TypeInv
  <1>2. CASE UNCHANGED <<ifaceVars, kern, iface_index, gateway, out_socket, rlocs>>
    BY <1>2, NothingTypes
  <1>3. ASSUME NEW i \in KnownByIndex(m.index), NEW p, p = <<i, m.afi>>, p \in Configured,
               address_changed(i, m.afi, m.addr),
               kern' = tun_updated_addr_rules(kern, iface_index[i], address[p], m.addr),
               out_socket' = [out_socket EXCEPT ![p] = bind_socket(kern, p, m.addr, @)],
               rlocs' = set_rlocs(address'),
               UNCHANGED <<iface_index, gateway>>
        PROVE  TypeInv'
    <2>1. /\ m.addr \in AddrsOf[m.afi] /\ address' = [address EXCEPT ![p] = m.addr]
          /\ status' = status /\ stage' = stage
      BY <1>3, Zenon DEF address_changed, tun_updated_addr, Serving
    <2>2. m.afi \in Afis /\ p[2] = m.afi
      BY <1>3, ServedMessage, Zenon DEF MessageOK
    <2>3. m.addr \in Addrs
      BY <2>1, <2>2 DEF Addrs, Afis
    <2>4. OnlyRules(kern, kern')
      BY <1>1, <1>3, RuleRequests, Zenon
    <2>5. Kern(kern') /\ SameLinks(kern, kern') /\ kern'.tun = kern.tun
      BY <2>4 DEF OnlyRules
    <2>6. /\ address' \in [Configured -> Addrs \cup {NO_ADDR}]
          /\ \A o \in Configured : address'[o] \in AddrsOf[o[2]] \cup {NO_ADDR}
      BY <1>1, <1>3, <2>1, <2>2, <2>3, Zenon DEF DaemonTypes, OfFamily
    <2>7. out_socket' \in [Configured -> Addrs \cup {NO_ADDR}]
      BY <1>1, <1>3, <2>3, Zenon DEF DaemonTypes, bind_socket
    <2>8. DaemonIndexes'
      <3>1. Started' => Started
        BY <2>1, Zenon DEF Started
      <3> QED
        BY <1>1, <1>3, <2>5, <3>1, SameIndexes, Zenon
    <2>9. Handled
      BY <1>1, <1>3, <2>1, <2>5, <2>6, <2>7, <2>8, Zenon DEF Handled, Serving, DaemonTypes
    <2> QED
      BY <2>9, HandledTypes
  <1>4. CASE KnownByIndex(m.index) = {}
    BY <1>2, <1>4, Zenon DEF process_nl_add_address, Discarded
  <1>5. CASE KnownByIndex(m.index) # {}
    <2>1. PICK i \in KnownByIndex(m.index) :
            \/ UNCHANGED <<ifaceVars, kern, iface_index, gateway, out_socket, rlocs>>
            \/ /\ <<i, m.afi>> \in Configured
               /\ address_changed(i, m.afi, m.addr)
               /\ kern' = tun_updated_addr_rules(kern, iface_index[i], address[<<i, m.afi>>], m.addr)
               /\ out_socket' = [out_socket EXCEPT ![<<i, m.afi>>] = bind_socket(kern, <<i, m.afi>>, m.addr, @)]
               /\ rlocs' = set_rlocs(address')
               /\ UNCHANGED <<iface_index, gateway>>
      BY <1>5, Zenon DEF process_nl_add_address, ctrl_if_addr_update
    <2> QED
      BY <1>2, <1>3, <2>1, Zenon
  <1> QED
    BY <1>4, <1>5

\* An interface that is known by its index keeps it; one that is known by its
\* name gets the index that the kernel gave it.
LEMMA LinkTypes ==
    ASSUME TypeInv, NEW m, Serving(m), process_nl_new_link(m)
    PROVE  TypeInv'
  <1>1. Kern(kern) /\ DaemonTypes /\ OfFamily /\ DaemonIndexes /\ KernelIndexes
    BY DEF TypeInv
  <1>2. CASE UNCHANGED <<ifaceVars, kern, iface_index, gateway, out_socket, rlocs>>
    BY <1>2, NothingTypes
  <1>3. ASSUME NEW i \in LinkIfaces(m.index),
               kern' = tun_updated_link_rules(kern, i, m.index),
               iface_index' = [iface_index EXCEPT ![i] = m.index],
               out_socket' = tun_updated_link_sockets(i, m.index),
               link_changed(i),
               rlocs' = set_rlocs(address),
               UNCHANGED gateway
        PROVE  TypeInv'
    <2>1. /\ i \in Ifaces /\ status' = [status EXCEPT ![i] = ~@] /\ address' = address
          /\ stage' = stage
      BY <1>3 DEF link_changed, Serving
    <2>2. m.index \in Nat /\ m.index # 0 /\ m.index < kern.next
      BY ServedMessage, Zenon DEF MessageOK
    <2>3. OnlyRules(kern, kern')
      BY <1>1, <1>3, RuleRequests
    <2>4. Kern(kern') /\ SameLinks(kern, kern') /\ kern'.tun = kern.tun
      BY <2>3 DEF OnlyRules
    <2>5. status' \in [Ifaces -> BOOLEAN] /\ iface_index' \in [Ifaces -> Nat]
      BY <1>1, <1>3, <2>1, <2>2 DEF DaemonTypes
    <2>6. out_socket' \in [Configured -> Addrs \cup {NO_ADDR}]
      BY <1>1, <1>3, Zenon DEF DaemonTypes, tun_updated_link_sockets, bind_socket
    <2>7. DaemonIndexes'
      <3>1. \/ iface_index' = iface_index
            \/ kern.index[i] = m.index /\ \A j \in Ifaces : iface_index[j] # m.index
        BY <1>1, <1>3, <2>1, Zenon DEF LinkIfaces, KnownByIndex, KnownByName, DaemonTypes
      <3>2. stage = "running"
        BY DEF Serving
      <3>3. \A j \in Ifaces : kern.index[j] = m.index /\ kern.index[i] = m.index => j = i
        BY <1>1, <2>1, <2>2 DEF KernelIndexes
      <3>4. CASE iface_index' = iface_index
        <4>1. Started' => Started
          BY <2>1, Zenon DEF Started
        <4> QED
          BY <1>1, <2>4, <3>4, <4>1, SameIndexes, Zenon
      <3>5. CASE kern.index[i] = m.index /\ \A j \in Ifaces : iface_index[j] # m.index
        <4>1. kern'.index = kern.index /\ kern'.next = kern.next
          BY <2>4, Zenon DEF SameLinks
        <4>2. iface_index'[i] = m.index /\ \A j \in Ifaces : j # i => iface_index'[j] = iface_index[j]
          BY <1>1, <1>3, <2>1, Zenon DEF DaemonTypes
        <4>3. /\ \A j \in Ifaces : iface_index[j] # 0 /\ iface_index[j] < kern.next
              /\ \A j, l \in Ifaces : iface_index[j] = iface_index[l] => j = l
              /\ \A j, l \in Ifaces : iface_index[j] = kern.index[l] => j = l
          BY <1>1, <3>2, Zenon DEF DaemonIndexes, Started
        <4>4. \A j \in Ifaces : iface_index'[j] # 0 /\ iface_index'[j] < kern.next
          BY <2>2, <4>2, <4>3, Zenon
        <4>5. \A j, l \in Ifaces : iface_index'[j] = iface_index'[l] => j = l
          BY <3>5, <4>2, <4>3, Zenon
        <4>6. \A j, l \in Ifaces : iface_index'[j] = kern.index[l] => j = l
          <5>1. \A l \in Ifaces : m.index = kern.index[l] => i = l
            BY <3>3, <3>5, Zenon
          <5> QED
            BY <4>2, <4>3, <5>1, Zenon
        <4> QED
          BY <4>1, <4>4, <4>5, <4>6, Zenon DEF DaemonIndexes
      <3> QED
        BY <3>1, <3>4, <3>5
    <2>8. rlocs' = set_rlocs(address')
      BY <1>3, <2>1
    <2>9. Handled
      BY <1>1, <1>3, <2>1, <2>4, <2>5, <2>6, <2>7, <2>8, Zenon DEF Handled, Serving, DaemonTypes, OfFamily
    <2> QED
      BY <2>9, HandledTypes
  <1> QED
    BY <1>2, <1>3, Zenon DEF process_nl_new_link, ctrl_if_addr_update

LEMMA GatewayTypes ==
    ASSUME TypeInv, NEW m, Serving(m), m.type = "NEWROUTE", process_nl_new_unicast_route(m)
    PROVE  TypeInv'
  <1>1. Kern(kern) /\ DaemonTypes /\ OfFamily /\ DaemonIndexes
    BY DEF TypeInv
  <1>2. CASE KnownByIndex(m.index) = {}
    BY <1>2, NothingTypes DEF process_nl_new_unicast_route, Discarded
  <1>3. CASE KnownByIndex(m.index) # {}
    <2>1. PICK i \in KnownByIndex(m.index) :
            /\ tun_process_new_gateway(i, m.afi, m.addr)
            /\ rlocs' = set_rlocs(address)
            /\ UNCHANGED <<ifaceVars, iface_index, out_socket, unseen>>
      BY <1>3 DEF process_nl_new_unicast_route, ctrl_if_addr_update
    <2>2. status' = status /\ address' = address /\ stage' = stage
      BY <2>1 DEF ifaceVars, Serving
    <2>3. m.afi \in Afis /\ m.addr \in GatewayAddrs
      BY ServedMessage, Zenon DEF MessageOK, GatewayAddrs, Afis
    <2>4. /\ gateway' = gateway \/ gateway' = [gateway EXCEPT ![<<i, m.afi>>] = m.addr]
          /\ kern' = kern \/ kern' = add_route(kern, GatewayRoute(m.afi, iface_index[i], m.addr))
      BY <2>1 DEF tun_process_new_gateway
    <2>5. OnlyRoutes(kern, kern')
      <3>1. OnlyRoutes(kern, kern)
        BY <1>1 DEF OnlyRoutes, SameLinks
      <3>2. OnlyRoutes(kern, add_route(kern, GatewayRoute(m.afi, iface_index[i], m.addr)))
        BY <1>1, RuleRequests, Zenon
      <3> QED
        BY <2>4, <3>1, <3>2, Zenon
    <2>6. Kern(kern') /\ SameLinks(kern, kern') /\ kern'.tun = kern.tun
      BY <2>5 DEF OnlyRoutes
    <2>7. gateway' \in [Pairs -> GatewayAddrs \cup {NO_ADDR}]
      BY <1>1, <2>3, <2>4, Zenon DEF DaemonTypes
    <2>8. DaemonIndexes'
      BY <1>1, <2>1, <2>2, <2>6, SameIndexes DEF Started
    <2>9. rlocs' = set_rlocs(address')
      BY <2>1, <2>2
    <2>10. Handled
      BY <1>1, <2>1, <2>2, <2>6, <2>7, <2>8, <2>9, Zenon DEF Handled, Serving, DaemonTypes, OfFamily
    <2> QED
      BY <2>10, HandledTypes
  <1> QED
    BY <1>2, <1>3

LEMMA MessageTypes ==
    ASSUME TypeInv, process_netlink_msg
    PROVE  TypeInv'
  <1>1. PICK m : m = Head(queue)
    BY Zenon
  <1>2. Serving(m)
    BY <1>1 DEF process_netlink_msg, Serving
  <1>3. \/ m.type = "NEWADDR" /\ process_nl_add_address(m)
        \/ m.type = "NEWLINK" /\ process_nl_new_link(m)
        \/ m.type = "NEWROUTE" /\ process_nl_new_unicast_route(m)
    BY <1>1 DEF process_netlink_msg
  <1> QED
    BY <1>2, <1>3, AddressTypes, LinkTypes, GatewayTypes

LEMMA TypeStep ==
    ASSUME TypeInv, [Next]_allVars
    PROVE  TypeInv'
  BY KernelTypes, SetupTypes, ConfigTypes, DataPlaneTypes, NetlinkTypes, MessageTypes, EidTypes,
     EndTypes
     DEF Next, KernelNext

LEMMA AlwaysTypes == Spec => []TypeInv
  BY TypeInit, TypeStep, PTL DEF Spec

\* The index by which lispd finds the interface of a notification
\* (get_interface_from_index) never denotes another interface: while lispd runs its
\* indexes differ from each other and from those the kernel has for the other
\* interfaces, also after interfaces were removed and created again.
THEOREM IndexesNeverConfused == Spec => [](KernelIndexes /\ DaemonIndexes)
  <1>1. TypeInv => KernelIndexes /\ DaemonIndexes
    BY Zenon DEF TypeInv
  <1> QED
    BY <1>1, AlwaysTypes, PTL

-----------------------------------------------------------------------------
(* The rules of lispd.                                                     *)

\* The bag B has the rules of S.  A process that did not clean up (d is not
\* "no") may have left more.
Holds(d, B, S) ==
    IF d = "no" THEN B = Once(S) ELSE S \subseteq DOMAIN B

LEMMA HoldsAdd ==
    ASSUME NEW d, NEW B, RuleBag(B), NEW S, NEW R, Holds(d, B, S), S \cap R = {}
    PROVE  Holds(d, WithRules(B, R), S \cup R)
  BY BagAdd, BagMore DEF Holds

LEMMA HoldsDel ==
    ASSUME NEW d, NEW B, RuleBag(B), NEW S, NEW R, Holds(d, B, S)
    PROVE  Holds(d, WithoutRules(B, R), S \ R)
  BY BagRemove, BagLess DEF Holds

SourceRules(index, addr) ==
    {SourceRule(index[p[1]], addr[p]) : p \in {q \in Configured : addr[q] # NO_ADDR}}

EidRules(m, E) == IF m = "xTR" THEN XtrRules(E) ELSE {}

Own(index, addr, m, E) == SourceRules(index, addr) \cup EidRules(m, E)

LEMMA OwnIs ==
    /\ OwnRules = Own(iface_index, address, mode, eids)
    /\ OwnRules' = Own(iface_index', address', mode', eids')
  BY DEF OwnRules, Own, SourceRules, EidRules, XtrRules

\* The rule of an address is no rule of an EID prefix.
LEMMA RulesApart ==
    ASSUME NEW index, NEW addr, \A p \in Configured : addr[p] \in Addrs \cup {NO_ADDR},
           NEW m, NEW E \in SUBSET Eids
    PROVE  SourceRules(index, addr) \cap EidRules(m, E) = {}
  <1> SUFFICES ASSUME NEW r, r \in SourceRules(index, addr), r \in XtrRules(E)
               PROVE  FALSE
    BY DEF EidRules
  <1>1. PICK p \in Configured : addr[p] # NO_ADDR /\ r = SourceRule(index[p[1]], addr[p])
    BY DEF SourceRules
  <1>2. r.src = addr[p] /\ addr[p] \in Addrs
    <2>1. SourceRule(index[p[1]], addr[p]).src = addr[p]
      BY DEF SourceRule, Rule
    <2> QED
      BY <1>1, <2>1
  <1>3. PICK e \in E : r \in xtr_rules(e)
    BY Zenon DEF XtrRules
  <1>4. r.src = e \/ r.src = NO_ADDR
    BY <1>3, RuleFields, Zenon
  <1>5. Addrs \cap Eids = {} /\ NO_ADDR \notin Addrs
    BY HostAssumption, InterfacesAssumption, Zenon
  <1> QED
    BY <1>2, <1>3, <1>4, <1>5, Zenon

\* The indexes of the interfaces and their addresses tell the rules apart.
Distinct(index, addr) ==
    /\ \A i, j \in Ifaces : index[i] = index[j] => i = j
    /\ addr \in [Configured -> Addrs \cup {NO_ADDR}]
    /\ \A p \in Configured : addr[p] \in AddrsOf[p[2]] \cup {NO_ADDR}

LEMMA SourceRuleOf ==
    ASSUME NEW index, NEW addr, Distinct(index, addr), NEW p \in Configured, NEW q \in Configured,
           NEW a \in AddrsOf[p[2]], addr[q] # NO_ADDR,
           SourceRule(index[p[1]], a) = SourceRule(index[q[1]], addr[q])
    PROVE  p = q /\ a = addr[q]
  <1>1. index[p[1]] = index[q[1]] /\ a = addr[q]
    <2>1. PICK x, y, b : x = index[p[1]] /\ y = index[q[1]] /\ b = addr[q]
      BY Zenon
    <2>2. SourceRule(x, a) = SourceRule(y, b)
      BY <2>1, Zenon
    <2>3. /\ SourceRule(x, a).priority = x /\ SourceRule(x, a).src = a
          /\ SourceRule(y, b).priority = y /\ SourceRule(y, b).src = b
      BY RuleFields, Zenon
    <2> QED
      BY <2>1, <2>2, <2>3, Zenon
  <1>2. p \in Ifaces \X Afis /\ q \in Ifaces \X Afis
    BY InterfacesAssumption
  <1>3. p[1] = q[1]
    BY <1>1, <1>2 DEF Distinct
  <1>4. a \in AddrsOf[q[2]]
    BY <1>1 DEF Distinct
  <1>5. p[2] = q[2]
    <2>1. p[2] \in {"v4", "v6"} /\ q[2] \in {"v4", "v6"}
      BY <1>2 DEF Afis
    <2>2. AddrsOf["v4"] \cap AddrsOf["v6"] = {}
      BY HostAssumption, Zenon
    <2>3. CASE p[2] = "v4"
      BY <1>4, <2>1, <2>2, <2>3, Zenon
    <2>4. CASE p[2] = "v6"
      BY <1>4, <2>1, <2>2, <2>4, Zenon
    <2> QED
      BY <2>1, <2>3, <2>4, Zenon
  <1> QED
    <2>1. p = <<p[1], p[2]>> /\ q = <<q[1], q[2]>>
      BY <1>2
    <2> QED
      BY <1>1, <1>3, <1>5, <2>1, Zenon

\* An interface gets another address.
Readdressed(index, addr, p, a, next, old, new) ==
    /\ Distinct(index, addr) /\ p \in Configured /\ a \in AddrsOf[p[2]] /\ a # addr[p]
    /\ next = [addr EXCEPT ![p] = a]
    /\ old = IF addr[p] = NO_ADDR THEN {} ELSE {SourceRule(index[p[1]], addr[p])}
    /\ new = {SourceRule(index[p[1]], a)}

Replaced(index, addr, next, old, new) ==
    /\ SourceRules(index, addr) \cap new = {}
    /\ SourceRules(index, next) = (SourceRules(index, addr) \ old) \cup new

LEMMA SourceRulesAddress ==
    ASSUME NEW index, NEW addr, NEW p, NEW a, NEW next, NEW old, NEW new,
           Readdressed(index, addr, p, a, next, old, new)
    PROVE  Replaced(index, addr, next, old, new)
  <1>0. /\ Distinct(index, addr) /\ p \in Configured /\ a \in AddrsOf[p[2]] /\ a # addr[p]
        /\ next = [addr EXCEPT ![p] = a]
        /\ old = IF addr[p] = NO_ADDR THEN {} ELSE {SourceRule(index[p[1]], addr[p])}
        /\ new = {SourceRule(index[p[1]], a)}
    BY DEF Readdressed
  <1>1. SourceRules(index, addr) \cap new = {}
    <2> SUFFICES ASSUME SourceRule(index[p[1]], a) \in SourceRules(index, addr)
                 PROVE  FALSE
      BY <1>0, Zenon
    <2>1. PICK q \in Configured :
            addr[q] # NO_ADDR /\ SourceRule(index[p[1]], a) = SourceRule(index[q[1]], addr[q])
      BY Zenon DEF SourceRules
    <2>2. p = q /\ a = addr[q]
      BY <1>0, <2>1, SourceRuleOf, Zenon
    <2> QED
      BY <1>0, <2>2, Zenon
  <1>3. next[p] = a /\ a # NO_ADDR /\ \A q \in Configured \ {p} : next[q] = addr[q]
    <2>1. p[2] \in Afis
      BY <1>0, InterfacesAssumption
    <2> QED
      BY <1>0, <2>1, InterfacesAssumption DEF Distinct, Addrs, Afis
  <1>4. ASSUME NEW r \in SourceRules(index, next) PROVE r \in (SourceRules(index, addr) \ old) \cup new
    <2>1. PICK q \in Configured : next[q] # NO_ADDR /\ r = SourceRule(index[q[1]], next[q])
      BY DEF SourceRules
    <2>2. CASE q = p
      BY <1>0, <1>3, <2>1, <2>2
    <2>3. CASE q # p
      <3>1. addr[q] # NO_ADDR /\ r = SourceRule(index[q[1]], addr[q])
        BY <1>3, <2>1, <2>3
      <3>2. r \in SourceRules(index, addr)
        BY <3>1 DEF SourceRules
      <3>3. ASSUME addr[p] # NO_ADDR PROVE r # SourceRule(index[p[1]], addr[p])
        <4>1. addr[p] \in AddrsOf[p[2]]
          BY <1>0, <3>3, Zenon DEF Distinct
        <4> QED
          BY <1>0, <2>3, <3>1, <4>1, SourceRuleOf
      <3> QED
        BY <1>0, <3>2, <3>3
    <2> QED
      BY <2>2, <2>3
  <1>5. new \subseteq SourceRules(index, next)
    BY <1>0, <1>3 DEF SourceRules
  <1>6. ASSUME NEW r \in SourceRules(index, addr) \ old PROVE r \in SourceRules(index, next)
    <2>1. PICK q \in Configured : addr[q] # NO_ADDR /\ r = SourceRule(index[q[1]], addr[q])
      BY DEF SourceRules
    <2>2. q # p
      BY <1>0, <1>6, <2>1
    <2>3. next[q] = addr[q]
      BY <1>3, <2>2
    <2> QED
      BY <2>1, <2>3 DEF SourceRules
  <1>7. SourceRules(index, next) = (SourceRules(index, addr) \ old) \cup new
    BY <1>4, <1>5, <1>6
  <1> QED
    BY <1>1, <1>7, Zenon DEF Replaced

\* The rules of interface i, with the index x.
RulesOf(i, x, addr) ==
    {SourceRule(x, addr[p]) : p \in {q \in Configured : q[1] = i /\ addr[q] # NO_ADDR}}

\* An interface gets another index, that no interface had.
LEMMA SourceRulesIndex ==
    ASSUME NEW index \in [Ifaces -> Nat], NEW addr, Distinct(index, addr), NEW i \in Ifaces, NEW x,
           \A j \in Ifaces : index[j] = x => j = i
    PROVE  /\ (SourceRules(index, addr) \ RulesOf(i, index[i], addr)) \cap RulesOf(i, x, addr) = {}
           /\ SourceRules([index EXCEPT ![i] = x], addr) =
                 (SourceRules(index, addr) \ RulesOf(i, index[i], addr)) \cup RulesOf(i, x, addr)
  <1>0. Configured \subseteq Ifaces \X Afis
    BY InterfacesAssumption
  <1>1. ASSUME NEW r \in SourceRules(index, addr) \ RulesOf(i, index[i], addr)
        PROVE  \E q \in Configured : /\ addr[q] # NO_ADDR /\ r = SourceRule(index[q[1]], addr[q])
                                     /\ q[1] # i
    <2>1. PICK q \in Configured : addr[q] # NO_ADDR /\ r = SourceRule(index[q[1]], addr[q])
      BY DEF SourceRules
    <2>2. q[1] # i
      BY <1>1, <2>1 DEF RulesOf
    <2> QED
      BY <2>1, <2>2
  <1>2. ASSUME NEW q \in Configured, addr[q] # NO_ADDR, q[1] # i
        PROVE  SourceRule(index[q[1]], addr[q]) \in SourceRules(index, addr) \ RulesOf(i, index[i], addr)
    <2>1. SourceRule(index[q[1]], addr[q]) \in SourceRules(index, addr)
      BY <1>2 DEF SourceRules
    <2>2. index[q[1]] # index[i]
      BY <1>0, <1>2 DEF Distinct
    <2>3. \A r \in RulesOf(i, index[i], addr) : r.priority = index[i]
      <3> SUFFICES ASSUME NEW r \in RulesOf(i, index[i], addr)
                   PROVE  r.priority = index[i]
        BY Zenon
      <3>1. PICK s : s \in Configured /\ r = SourceRule(index[i], addr[s])
        BY Zenon DEF RulesOf
      <3> QED
        BY <3>1, RuleFields, Zenon
    <2> QED
      <3>1. SourceRule(index[q[1]], addr[q]).priority = index[q[1]]
        BY RuleFields, Zenon
      <3> QED
        BY <2>1, <2>2, <2>3, <3>1, Zenon
  <1>3. (SourceRules(index, addr) \ RulesOf(i, index[i], addr)) \cap RulesOf(i, x, addr) = {}
    <2> SUFFICES ASSUME NEW r \in SourceRules(index, addr) \ RulesOf(i, index[i], addr),
                        r \in RulesOf(i, x, addr)
                 PROVE  FALSE
      BY Zenon
    <2>1. PICK q \in Configured : r = SourceRule(index[q[1]], addr[q]) /\ q[1] # i
      BY <1>1
    <2>2. r.priority = x /\ r.priority = index[q[1]]
      BY <2>1, RuleFields DEF RulesOf
    <2> QED
      BY <1>0, <2>1, <2>2
  <1>4. PICK next : next = [index EXCEPT ![i] = x]
    BY Zenon
  <1>5. next[i] = x /\ \A q \in Configured : q[1] # i => next[q[1]] = index[q[1]]
    BY <1>0, <1>4
  <1>6. ASSUME NEW r \in SourceRules(next, addr)
        PROVE  r \in (SourceRules(index, addr) \ RulesOf(i, index[i], addr)) \cup RulesOf(i, x, addr)
    <2>1. PICK q \in Configured : addr[q] # NO_ADDR /\ r = SourceRule(next[q[1]], addr[q])
      BY DEF SourceRules
    <2>2. CASE q[1] = i
      BY <1>5, <2>1, <2>2 DEF RulesOf
    <2>3. CASE q[1] # i
      BY <1>2, <1>5, <2>1, <2>3
    <2> QED
      BY <2>2, <2>3
  <1>7. RulesOf(i, x, addr) \subseteq SourceRules(next, addr)
    BY <1>5 DEF RulesOf, SourceRules
  <1>8. ASSUME NEW r \in SourceRules(index, addr) \ RulesOf(i, index[i], addr)
        PROVE  r \in SourceRules(next, addr)
    <2>1. PICK q \in Configured : /\ addr[q] # NO_ADDR /\ r = SourceRule(index[q[1]], addr[q])
                                  /\ q[1] # i
      BY <1>1
    <2>2. next[q[1]] = index[q[1]]
      BY <1>5, <2>1
    <2> QED
      BY <2>1, <2>2 DEF SourceRules
  <1> QED
    BY <1>3, <1>4, <1>6, <1>7, <1>8, Zenon

Rules == Holds(died, kern.rules, OwnRules)

-----------------------------------------------------------------------------
(* Its routes, and the steps of the system.                                *)

\* The routes of a mobile node over the tun device; the others have a gateway.
Routed(k, m, E) ==
    /\ {r \in k.routes : r.oif = TUN /\ r.table = RT_TABLE_MAIN} = MnRoutes(k.tunaddr)
    /\ k.tunaddr = IF m = "MN" THEN E ELSE {}
    /\ \A r \in k.routes : r.oif # TUN => r.gw # NO_ADDR

Routes == Routed(kern, mode, eids)

LEMMA MnRouteFields ==
    \A E : \A r \in MnRoutes(E) : /\ r.oif = TUN /\ r.table = RT_TABLE_MAIN
                                  /\ r.dst \in {"0/1", "128/1"}
  BY DEF MnRoutes, mn_routes, Route

LEMMA RulesInit == Init => Rules /\ Routes
  <1> SUFFICES ASSUME Init PROVE Rules /\ Routes
    BY Zenon
  <1>1. /\ kern.rules = NoRules /\ kern.routes = {} /\ kern.tunaddr = {} /\ died = "no"
        /\ address = NoAddresses /\ eids = {}
    <2>1. PICK f, n, up, a, g : kern = [index |-> f, next |-> n, up |-> up, addr |-> a, gw |-> g,
                                        rules |-> NoRules, routes |-> {}, tun |-> FALSE, tunaddr |-> {}]
      BY Zenon DEF Init
    <2>2. kern.rules = NoRules /\ kern.routes = {} /\ kern.tunaddr = {}
      BY <2>1
    <2>3. died = "no" /\ address = NoAddresses /\ eids = {}
      BY Zenon DEF Init
    <2> QED
      BY <2>2, <2>3, Zenon
  <1>2. OwnRules = {}
    BY <1>1 DEF OwnRules, NoAddresses
  <1>3. Rules
    BY <1>1, <1>2 DEF Rules, Holds, NoRules
  <1>4. Routes
    BY <1>1 DEF Routes, Routed, MnRoutes
  <1> QED
    BY <1>3, <1>4

\* Nothing of lispd, and of the kernel no route over the tun device, changes.
LEMMA SameRules ==
    ASSUME Rules, Routes,
           kern'.rules = kern.rules, kern'.tunaddr = kern.tunaddr,
           kern'.routes \subseteq kern.routes,
           \A r \in kern.routes : r.oif = TUN => r \in kern'.routes,
           UNCHANGED <<iface_index, address, mode, eids, died>>
    PROVE  Rules' /\ Routes'
  <1>1. OwnRules' = OwnRules
    BY OwnIs
  <1>2. Rules'
    BY <1>1 DEF Rules
  <1>3. Routes'
    BY DEF Routes, Routed
  <1> QED
    BY <1>2, <1>3

LEMMA KernelRules ==
    ASSUME TypeInv, Rules, Routes, NEW i \in Ifaces,
           \/ \E afi \in Afis : \E a \in KernelAddrs[<<i, afi>>] : NewAddress(i, afi, a)
           \/ \E afi \in Afis : \E g \in Gateways[afi] : NewDefaultRoute(i, afi, g)
           \/ LinkDown(i)
           \/ LinkUp(i)
           \/ Removed(i)
           \/ CreatedAgain(i)
    PROVE  Rules' /\ Routes'
  <1>1. Kern(kern) /\ kern.index[i] # TUN
    <2>1. Kern(kern) /\ kern.index \in [Ifaces -> Nat]
      BY Zenon DEF TypeInv, Kern
    <2>2. kern.index[i] \in Nat
      BY <2>1, Zenon
    <2> QED
      BY <2>1, <2>2, TunIndex, Zenon
  <1>2. PICK q : q = Flushed(kern, i)
    BY Zenon
  <1>3. /\ q.rules = kern.rules /\ q.tunaddr = kern.tunaddr
        /\ q.routes = {r \in kern.routes : r.oif # kern.index[i]}
        /\ q = [index |-> q.index, next |-> q.next, up |-> q.up, addr |-> q.addr, gw |-> q.gw,
                rules |-> q.rules, routes |-> q.routes, tun |-> q.tun, tunaddr |-> q.tunaddr]
    BY <1>1, <1>2, Zenon DEF Kern, Flushed
  <1>4. UNCHANGED <<iface_index, address, mode, eids, died>>
    BY Zenon DEF NewAddress, NewDefaultRoute, LinkDown, LinkUp, Removed, CreatedAgain, Notify, ifaceVars
  <1>5. /\ kern'.rules = kern.rules /\ kern'.tunaddr = kern.tunaddr
        /\ kern'.routes \in {kern.routes, q.routes}
    <2>1. CASE \/ \E afi \in Afis : \E a \in KernelAddrs[<<i, afi>>] : NewAddress(i, afi, a)
               \/ \E afi \in Afis : \E g \in Gateways[afi] : NewDefaultRoute(i, afi, g)
      BY <1>1, <2>1, Zenon DEF NewAddress, NewDefaultRoute, Kern
    <2>2. CASE LinkUp(i) \/ CreatedAgain(i)
      BY <1>1, <2>2, Zenon DEF LinkUp, CreatedAgain, Kern
    <2>3. CASE LinkDown(i)
      BY <1>2, <1>3, <2>3 DEF LinkDown
    <2>4. CASE Removed(i)
      <3>1. kern' = [q EXCEPT !.index = [q.index EXCEPT ![i] = 0],
                              !.addr = [p \in Pairs |-> IF p[1] = i THEN NO_ADDR ELSE q.addr[p]]]
        BY <1>2, <2>4 DEF Removed
      <3> QED
        BY <1>3, <3>1
    <2> QED
      BY <2>1, <2>2, <2>3, <2>4, Zenon
  <1>6. /\ kern'.routes \subseteq kern.routes
        /\ \A r \in kern.routes : r.oif = TUN => r \in kern'.routes
    BY <1>1, <1>3, <1>5
  <1> QED
    BY <1>4, <1>5, <1>6, SameRules

LEMMA SetupRules ==
    ASSUME Rules, Routes,
           \/ \E daemonize \in BOOLEAN : initial_setup(daemonize)
           \/ RemovePidFile
           \/ UNCHANGED allVars
    PROVE  Rules' /\ Routes'
  <1>1. kern' = kern /\ UNCHANGED <<iface_index, address, mode, eids, died>>
    BY DEF initial_setup, RemovePidFile, allVars, hostVars, ifaceVars
  <1> QED
    BY <1>1, SameRules

LEMMA ConfigRules ==
    ASSUME TypeInv, Rules, Routes, parse_config_file
    PROVE  Rules' /\ Routes'
  <1>1. Kern(kern) /\ address = NoAddresses /\ eids = {}
    BY DEF TypeInv, Stages, Started, parse_config_file
  <1>2. /\ iface_index' = kern.index /\ kern' = tun_add_datap_iface_addr(kern, address')
        /\ UNCHANGED <<mode, eids, died>>
    BY DEF parse_config_file
  <1>3. PICK R : R = SourceRules(kern.index, address')
    BY Zenon
  <1>4. kern' = add_rule(kern, R)
    BY <1>2, <1>3 DEF tun_add_datap_iface_addr, SourceRules
  <1>5. OnlyRules(kern, kern') /\ kern'.rules = WithRules(kern.rules, R)
    BY <1>1, <1>4, RuleRequests
  <1>6. OwnRules = {}
    BY <1>1 DEF OwnRules, NoAddresses
  <1>7. OwnRules' = {} \cup R
    BY <1>1, <1>2, <1>3, OwnIs DEF Own, EidRules, XtrRules
  <1>8. Holds(died, kern.rules, {}) /\ RuleBag(kern.rules)
    BY <1>1, <1>6 DEF Rules, Kern
  <1>9. Holds(died, WithRules(kern.rules, R), {} \cup R)
    BY <1>8, HoldsAdd
  <1>10. Rules'
    BY <1>2, <1>5, <1>7, <1>9 DEF Rules
  <1>11. Routes'
    BY <1>2, <1>5 DEF Routes, Routed, OnlyRules
  <1> QED
    BY <1>10, <1>11

LEMMA DataPlaneRules ==
    ASSUME TypeInv, Rules, Routes, datap_init
    PROVE  Rules' /\ Routes'
  <1>1. Kern(kern)
    BY DEF TypeInv
  <1>2. /\ IF mode = "MS" THEN kern' = kern ELSE kern' = tun_configure_data_plane(kern, mode)
        /\ UNCHANGED <<iface_index, address, mode, eids, died>>
    BY DEF datap_init
  <1>3. PICK T : T = {Route(afi, LISP_TABLE, "default", TUN, ANY) : afi \in Afis}
    BY Zenon
  <1>4. /\ kern'.rules = kern.rules /\ kern'.tunaddr = kern.tunaddr
        /\ kern'.routes = kern.routes \/ kern'.routes = kern.routes \cup T
    BY <1>1, <1>2, <1>3, Zenon DEF Kern, tun_configure_data_plane, create_tun, configure_routing_to_tun_router
  <1>5. \A r \in T : r.oif = TUN /\ r.table = LISP_TABLE
    <2>1. \A afi : LET r == Route(afi, LISP_TABLE, "default", TUN, ANY)
                  IN  r.oif = TUN /\ r.table = LISP_TABLE
      BY Zenon DEF Route
    <2> QED
      BY <1>3, <2>1, Zenon
  <1>6. LISP_TABLE # RT_TABLE_MAIN
    BY DEF LISP_TABLE, RT_TABLE_MAIN
  <1>7. Rules'
    BY <1>2, <1>4, OwnIs DEF Rules
  <1>8. /\ \A r : /\ r \in kern'.routes /\ r.oif = TUN /\ r.table = RT_TABLE_MAIN
                  <=> r \in kern.routes /\ r.oif = TUN /\ r.table = RT_TABLE_MAIN
        /\ \A r \in kern'.routes : r.oif # TUN => r \in kern.routes
    BY <1>4, <1>5, <1>6
  <1>9. Routes'
    BY <1>2, <1>4, <1>8 DEF Routes, Routed
  <1> QED
    BY <1>7, <1>9

\* The kernel k has the rules and the routes of lispd.
Configures(k, d, index, addr, m, E) ==
    /\ Kern(k) /\ E \in SUBSET Eids
    /\ \A p \in Configured : addr[p] \in Addrs \cup {NO_ADDR}
    /\ Holds(d, k.rules, Own(index, addr, m, E))
    /\ Routed(k, m, E)

\* The prefixes of E are registered: none was, and for a mobile node there is
\* the tun device.
LEMMA RegisterRules ==
    ASSUME NEW k, NEW q, NEW E \in SUBSET Eids, NEW d, NEW m, NEW index, NEW addr,
           Configures(k, d, index, addr, m, {}), Registered(k, m, E, q), m = "MN" => k.tun
    PROVE  Configures(q, d, index, addr, m, E)
  <1>0. /\ Kern(k) /\ \A p \in Configured : addr[p] \in Addrs \cup {NO_ADDR}
        /\ Holds(d, k.rules, Own(index, addr, m, {})) /\ Routed(k, m, {})
        /\ Kern(q)
    BY Zenon DEF Configures, Registered
  <1>1. Own(index, addr, m, {}) = SourceRules(index, addr)
    BY DEF Own, EidRules, XtrRules
  <1>2. Holds(d, q.rules, Own(index, addr, m, E))
    <2>1. CASE m = "xTR"
      <3>1. SourceRules(index, addr) \cap EidRules(m, E) = {}
        BY <1>0, RulesApart
      <3>2. RuleBag(k.rules) /\ Holds(d, k.rules, SourceRules(index, addr))
        BY <1>0, <1>1 DEF Kern
      <3>3. Holds(d, WithRules(k.rules, EidRules(m, E)), SourceRules(index, addr) \cup EidRules(m, E))
        BY <3>1, <3>2, HoldsAdd
      <3>4. q.rules = WithRules(k.rules, EidRules(m, E))
        BY <2>1, Zenon DEF Registered, EidRules
      <3> QED
        BY <3>3, <3>4 DEF Own
    <2>2. CASE m # "xTR"
      <3>1. Own(index, addr, m, E) = SourceRules(index, addr)
        BY <2>2 DEF Own, EidRules
      <3> QED
        BY <1>0, <1>1, <2>2, <3>1, Zenon DEF Registered
    <2> QED
      BY <2>1, <2>2
  <1>3. k.tunaddr = {} /\ MnRoutes({}) = {}
    <2>1. k.tunaddr = {}
      BY <1>0, Zenon DEF Routed
    <2>2. MnRoutes({}) = {}
      BY Zenon DEF MnRoutes
    <2> QED
      BY <2>1, <2>2, Zenon
  <1>4. ASSUME m = "MN" PROVE Routed(q, m, E)
    <2>1. q.routes = k.routes \cup MnRoutes(E) /\ q.tunaddr = E
      BY <1>3, <1>4, Zenon DEF Registered
    <2>2. {r \in q.routes : r.oif = TUN /\ r.table = RT_TABLE_MAIN} = MnRoutes(E)
      BY <1>0, <1>3, <2>1, MnRouteFields, Zenon DEF Routed
    <2>3. \A r \in q.routes : r.oif # TUN => r.gw # NO_ADDR
      BY <1>0, <2>1, MnRouteFields, Zenon DEF Routed
    <2> QED
      BY <1>4, <2>1, <2>2, <2>3, Zenon DEF Routed
  <1>5. ASSUME m # "MN" PROVE Routed(q, m, E)
    BY <1>0, <1>5, Zenon DEF Registered, Routed
  <1> QED
    BY <1>0, <1>2, <1>4, <1>5 DEF Configures

\* They are unregistered.
LEMMA UnregisterRules ==
    ASSUME NEW k, NEW q, NEW E, NEW d, NEW m, NEW index, NEW addr,
           Configures(k, d, index, addr, m, E), Unregistered(k, m, E, q)
    PROVE  Configures(q, d, index, addr, m, {})
  <1>0. /\ Kern(k) /\ \A p \in Configured : addr[p] \in Addrs \cup {NO_ADDR}
        /\ Holds(d, k.rules, Own(index, addr, m, E)) /\ Routed(k, m, E)
        /\ Kern(q) /\ E \in SUBSET Eids
    BY Zenon DEF Configures, Unregistered
  <1>1. Own(index, addr, m, {}) = SourceRules(index, addr)
    BY DEF Own, EidRules, XtrRules
  <1>2. Holds(d, q.rules, Own(index, addr, m, {}))
    <2>1. CASE m = "xTR"
      <3>1. SourceRules(index, addr) \cap EidRules(m, E) = {}
        BY <1>0, RulesApart
      <3>2. RuleBag(k.rules)
        BY <1>0 DEF Kern
      <3>3. Holds(d, WithoutRules(k.rules, EidRules(m, E)), Own(index, addr, m, E) \ EidRules(m, E))
        BY <1>0, <3>2, HoldsDel
      <3>4. Own(index, addr, m, E) \ EidRules(m, E) = SourceRules(index, addr)
        BY <3>1 DEF Own
      <3>5. q.rules = WithoutRules(k.rules, EidRules(m, E))
        BY <2>1 DEF Unregistered, EidRules
      <3> QED
        BY <1>1, <3>3, <3>4, <3>5
    <2>2. CASE m # "xTR"
      <3>1. Own(index, addr, m, E) = SourceRules(index, addr)
        BY <2>2 DEF Own, EidRules
      <3> QED
        BY <1>0, <1>1, <2>2, <3>1, Zenon DEF Unregistered
    <2> QED
      BY <2>1, <2>2
  <1>3. MnRoutes({}) = {}
    BY DEF MnRoutes
  <1>4. ASSUME m = "MN" PROVE Routed(q, m, {})
    <2>1. k.tunaddr = E /\ q.routes = k.routes \ MnRoutes(E) /\ q.tunaddr = {}
      BY <1>0, <1>4, Zenon DEF Unregistered, Routed
    <2>2. {r \in q.routes : r.oif = TUN /\ r.table = RT_TABLE_MAIN} = {}
      BY <1>0, <2>1, Zenon DEF Routed
    <2>3. \A r \in q.routes : r.oif # TUN => r.gw # NO_ADDR
      BY <1>0, <2>1, Zenon DEF Routed
    <2> QED
      BY <1>3, <1>4, <2>1, <2>2, <2>3 DEF Routed
  <1>5. ASSUME m # "MN" PROVE Routed(q, m, {})
    BY <1>0, <1>5, Zenon DEF Unregistered, Routed
  <1> QED
    BY <1>0, <1>2, <1>4, <1>5 DEF Configures

LEMMA NetlinkRules ==
    ASSUME TypeInv, Rules, Routes, init_netlink
    PROVE  Rules' /\ Routes'
  <1>1. /\ Kern(kern) /\ DaemonTypes /\ eids = {} /\ stage = "ready"
        /\ mode = "MN" => kern.tun
    BY DEF TypeInv, Stages, init_netlink
  <1> DEFINE known == {p \in Pairs : kern.gw[p] # NO_ADDR /\ iface_index[p[1]] = kern.index[p[1]]}
             routes == {GatewayRoute(p[2], iface_index[p[1]], kern.gw[p]) : p \in known}
             stale(r) == \E s \in routes : s.afi = r.afi /\ s.table = r.table /\ s.dst = r.dst
  <1>2. PICK k : k = [kern EXCEPT !.routes = {r \in @ : ~stale(r)} \cup routes]
    BY Zenon
  <1>3. /\ kern' = tun_add_eid_prefix(k, mode, ConfiguredEids[mode])
        /\ eids' = ConfiguredEids[mode]
        /\ UNCHANGED <<iface_index, address, mode, died>>
    BY <1>2 DEF init_netlink, ifaceVars
  <1>4. \A r \in routes : r.oif # TUN /\ r.gw # NO_ADDR
    <2> SUFFICES ASSUME NEW p \in known
                 PROVE  LET r == GatewayRoute(p[2], iface_index[p[1]], kern.gw[p])
                        IN  r.oif # TUN /\ r.gw # NO_ADDR
      BY Zenon
    <2>1. iface_index[p[1]] \in Nat /\ kern.gw[p] # NO_ADDR
      BY <1>1 DEF DaemonTypes, Pairs
    <2>2. PICK afi, x, g : afi = p[2] /\ x = iface_index[p[1]] /\ g = kern.gw[p]
      BY Zenon
    <2>3. GatewayRoute(afi, x, g).oif # TUN /\ GatewayRoute(afi, x, g).gw = g
      <3>1. x \in Nat
        BY <2>1, <2>2, Zenon
      <3> QED
        BY <3>1, GatewayFields, Zenon
    <2> QED
      BY <2>1, <2>2, <2>3, Zenon
  <1> HIDE DEF known, routes, stale
  <1>5. /\ Kern(k) /\ k.rules = kern.rules /\ k.tun = kern.tun /\ k.tunaddr = kern.tunaddr
        /\ k.routes = {r \in kern.routes : ~stale(r)} \cup routes
    BY <1>1, <1>2, Zenon DEF Kern
  <1>6. Routed(k, mode, {})
    <2>1. kern.tunaddr = {} /\ MnRoutes({}) = {}
      BY <1>1, NoMnRoutes, Zenon DEF Routes, Routed
    <2>2. \A r \in k.routes : r \in kern.routes \/ (r.oif # TUN /\ r.gw # NO_ADDR)
      BY <1>4, <1>5
    <2>3. {r \in k.routes : r.oif = TUN /\ r.table = RT_TABLE_MAIN} = {}
      BY <2>1, <2>2, Zenon DEF Routes, Routed
    <2>4. \A r \in k.routes : r.oif # TUN => r.gw # NO_ADDR
      BY <2>2 DEF Routes, Routed
    <2> QED
      BY <1>5, <2>1, <2>3, <2>4 DEF Routed
  <1>7. Holds(died, k.rules, Own(iface_index, address, mode, {}))
    BY <1>1, <1>5, OwnIs, Zenon DEF Rules
  <1>8. ConfiguredEids[mode] \in SUBSET Eids
    BY <1>1, HostAssumption DEF DaemonTypes
  <1>9. Registered(k, mode, ConfiguredEids[mode], kern')
    BY <1>3, <1>5, <1>8, AddEids
  <1>10. \A p \in Configured : address[p] \in Addrs \cup {NO_ADDR}
    BY <1>1 DEF DaemonTypes
  <1>11. Configures(k, died, iface_index, address, mode, {})
    BY <1>5, <1>6, <1>7, <1>10 DEF Configures
  <1>12. Configures(kern', died, iface_index, address, mode, ConfiguredEids[mode])
    BY <1>1, <1>5, <1>8, <1>9, <1>11, RegisterRules, Zenon
  <1> QED
    BY <1>3, <1>12, OwnIs, Zenon DEF Rules, Routes, Configures

LEMMA EidsRules ==
    ASSUME TypeInv, Rules, Routes, NEW E \in SUBSET Eids, replace_eids(E)
    PROVE  Rules' /\ Routes'
  <1>1. /\ Kern(kern) /\ eids \in SUBSET Eids
        /\ mode = "MN" => kern.tun
        /\ \A p \in Configured : address[p] \in Addrs \cup {NO_ADDR}
    BY DEF TypeInv, Stages, DaemonTypes, replace_eids
  <1>2. PICK k : k = tun_remove_eid_prefix(kern, mode, eids)
    BY Zenon
  <1>3. /\ kern' = tun_add_eid_prefix(k, mode, E) /\ eids' = E
        /\ UNCHANGED <<iface_index, address, mode, died>>
    BY <1>2 DEF replace_eids, ifaceVars
  <1>4. Unregistered(kern, mode, eids, k)
    BY <1>1, <1>2, RemoveEids
  <1>5. Kern(k) /\ k.tun = kern.tun
    BY <1>4, Zenon DEF Unregistered
  <1>6. Configures(kern, died, iface_index, address, mode, eids)
    BY <1>1, OwnIs DEF Rules, Routes, Configures
  <1>7. Configures(k, died, iface_index, address, mode, {})
    BY <1>4, <1>6, UnregisterRules
  <1>8. Registered(k, mode, E, kern')
    BY <1>3, <1>5, AddEids
  <1>9. Configures(kern', died, iface_index, address, mode, E)
    BY <1>1, <1>5, <1>7, <1>8, RegisterRules
  <1> QED
    BY <1>3, <1>9, OwnIs DEF Rules, Routes, Configures

\* The rules of a notification that is served.
LEMMA AddressRules ==
    ASSUME TypeInv, Rules, Routes, NEW m, Serving(m), process_nl_add_address(m)
    PROVE  Rules' /\ Routes'
  <1>1. /\ Kern(kern) /\ DaemonTypes /\ OfFamily /\ DaemonIndexes /\ stage = "running"
        /\ UNCHANGED <<mode, eids, died>>
    BY DEF TypeInv, Serving
  <1>2. Distinct(iface_index, address)
    BY <1>1, Zenon DEF Distinct, DaemonTypes, OfFamily, DaemonIndexes, Started
  <1>3. CASE UNCHANGED <<ifaceVars, kern, iface_index>>
    <2>1. kern' = kern /\ UNCHANGED <<iface_index, address, mode, eids, died>>
      BY <1>1, <1>3 DEF ifaceVars
    <2> QED
      BY <2>1, SameRules
  <1>4. ASSUME NEW p \in Configured, NEW a \in AddrsOf[p[2]],
               address' = [address EXCEPT ![p] = a], iface_index' = iface_index,
               kern' = tun_updated_addr_rules(kern, iface_index[p[1]], address[p], a)
        PROVE  Rules' /\ Routes'
    <2>1. OnlyRules(kern, kern')
      BY <1>1, <1>4, RuleRequests, Zenon
    <2>2. Routes'
      BY <1>1, <2>1, Zenon DEF Routes, Routed, OnlyRules
    <2>3. CASE address[p] = a
      <3>1. address' = address /\ kern' = kern
        BY <1>1, <1>4, <2>3, Zenon DEF DaemonTypes, tun_updated_addr_rules
      <3> QED
        BY <1>1, <1>4, <3>1, SameRules
    <2>4. CASE address[p] # a
      <3>1. PICK old, new : /\ old = IF address[p] = NO_ADDR THEN {} ELSE {SourceRule(iface_index[p[1]], address[p])}
                            /\ new = {SourceRule(iface_index[p[1]], a)}
        BY Zenon
      <3>2. PICK k : k = IF address[p] = NO_ADDR THEN kern ELSE del_rule(kern, old)
        BY Zenon
      <3>3. kern' = add_rule(k, new)
        BY <1>4, <2>4, <3>1, <3>2 DEF tun_updated_addr_rules
      <3>4. PICK S, X : S = SourceRules(iface_index, address) /\ X = EidRules(mode, eids)
        BY Zenon
      <3>5. S \cap new = {} /\ SourceRules(iface_index, address') = (S \ old) \cup new
        <4>1. Readdressed(iface_index, address, p, a, address', old, new)
          BY <1>2, <1>4, <2>4, <3>1 DEF Readdressed
        <4> QED
          <5>1. Replaced(iface_index, address, address', old, new)
            BY <4>1, SourceRulesAddress, Zenon
          <5> QED
            BY <3>4, <5>1, Zenon DEF Replaced
      <3>6. S \cap X = {} /\ SourceRules(iface_index, address') \cap X = {}
        <4>1. \A q \in Configured : address[q] \in Addrs \cup {NO_ADDR}
          BY <1>1, Zenon DEF DaemonTypes
        <4>2. \A q \in Configured : address'[q] \in Addrs \cup {NO_ADDR}
          BY AddressTypes, Zenon DEF TypeInv, DaemonTypes
        <4>3. eids \in SUBSET Eids
          BY <1>1, Zenon DEF DaemonTypes
        <4> QED
          BY <3>4, <4>1, <4>2, <4>3, RulesApart, Zenon
      <3>7. RuleBag(kern.rules) /\ Holds(died, kern.rules, S \cup X)
        BY <1>1, <3>4, OwnIs DEF Rules, Own, Kern
      <3>8. Kern(k) /\ Holds(died, k.rules, (S \cup X) \ old)
        <4>1. CASE address[p] = NO_ADDR
          <5>1. (S \cup X) \ old = S \cup X
            BY <3>1, <4>1
          <5> QED
            BY <1>1, <3>2, <3>7, <4>1, <5>1
        <4>2. CASE address[p] # NO_ADDR
          <5>1. OnlyRules(kern, k) /\ k.rules = WithoutRules(kern.rules, old)
            BY <1>1, <3>2, <4>2, RuleRequests, Zenon
          <5>2. Holds(died, WithoutRules(kern.rules, old), (S \cup X) \ old)
            BY <3>7, HoldsDel, Zenon
          <5> QED
            BY <5>1, <5>2 DEF OnlyRules
        <4> QED
          BY <4>1, <4>2
      <3>9. old \subseteq S
        BY <1>4, <3>1, <3>4 DEF SourceRules
      <3>10. ((S \cup X) \ old) \cap new = {} /\ ((S \cup X) \ old) \cup new = ((S \ old) \cup new) \cup X
        BY <3>5, <3>6, <3>9
      <3>11. kern'.rules = WithRules(k.rules, new) /\ RuleBag(k.rules)
        BY <3>3, <3>8, RuleRequests, Zenon DEF Kern
      <3>12. Holds(died, WithRules(k.rules, new), ((S \cup X) \ old) \cup new)
        BY <3>8, <3>10, <3>11, HoldsAdd, Zenon
      <3>13. OwnRules' = ((S \ old) \cup new) \cup X
        BY <1>1, <1>4, <3>4, <3>5, OwnIs, Zenon DEF Own
      <3>14. Rules'
        BY <1>1, <3>10, <3>11, <3>12, <3>13, Zenon DEF Rules
      <3> QED
        BY <2>2, <3>14
    <2> QED
      BY <2>3, <2>4
  <1>5. CASE KnownByIndex(m.index) = {}
    BY <1>3, <1>5, Zenon DEF process_nl_add_address, Discarded
  <1>6. CASE KnownByIndex(m.index) # {}
    <2>1. PICK i \in KnownByIndex(m.index) :
            \/ UNCHANGED <<ifaceVars, kern, iface_index>>
            \/ /\ <<i, m.afi>> \in Configured
               /\ address_changed(i, m.afi, m.addr)
               /\ kern' = tun_updated_addr_rules(kern, iface_index[i], address[<<i, m.afi>>], m.addr)
               /\ iface_index' = iface_index
      BY <1>6, Zenon DEF process_nl_add_address
    <2>2. PICK p : p = <<i, m.afi>>
      BY Zenon
    <2>3. p[1] = i /\ p[2] = m.afi
      BY <2>2
    <2>4. CASE p \in Configured /\ address_changed(i, m.afi, m.addr)
               /\ kern' = tun_updated_addr_rules(kern, iface_index[i], address[p], m.addr)
               /\ iface_index' = iface_index
      <3>1. m.addr \in AddrsOf[p[2]] /\ address' = [address EXCEPT ![p] = m.addr]
        BY <2>2, <2>3, <2>4, Zenon DEF address_changed, tun_updated_addr
      <3> QED
        BY <1>4, <2>3, <2>4, <3>1, Zenon
    <2> QED
      BY <1>3, <2>1, <2>2, <2>4, Zenon
  <1> QED
    BY <1>5, <1>6

LEMMA LinkRules ==
    ASSUME TypeInv, Rules, Routes, NEW m, Serving(m), process_nl_new_link(m)
    PROVE  Rules' /\ Routes'
  <1>1. /\ Kern(kern) /\ DaemonTypes /\ OfFamily /\ DaemonIndexes /\ stage = "running"
        /\ UNCHANGED <<mode, eids, died>>
    BY DEF TypeInv, Serving
  <1>2. CASE UNCHANGED <<ifaceVars, kern, iface_index>>
    <2>1. kern' = kern /\ UNCHANGED <<iface_index, address, mode, eids, died>>
      BY <1>1, <1>2 DEF ifaceVars
    <2> QED
      BY <2>1, SameRules
  <1>3. ASSUME NEW i \in LinkIfaces(m.index),
               kern' = tun_updated_link_rules(kern, i, m.index),
               iface_index' = [iface_index EXCEPT ![i] = m.index],
               link_changed(i)
        PROVE  Rules' /\ Routes'
    <2>1. i \in Ifaces /\ address' = address
      BY <1>3 DEF link_changed
    <2>2. OnlyRules(kern, kern')
      BY <1>1, <1>3, RuleRequests
    <2>3. Routes'
      BY <1>1, <2>2 DEF Routes, Routed, OnlyRules
    <2>4. PICK S, X, old, new : /\ S = SourceRules(iface_index, address) /\ X = EidRules(mode, eids)
                                /\ old = RulesOf(i, iface_index[i], address)
                                /\ new = RulesOf(i, m.index, address)
      BY Zenon
    <2>5. (S \ old) \cap new = {} /\ SourceRules(iface_index', address) = (S \ old) \cup new
      <3>1. \A j \in Ifaces : iface_index[j] = m.index => j = i
        BY <1>1, <1>3, <2>1, Zenon DEF LinkIfaces, KnownByIndex, KnownByName, DaemonIndexes, Started
      <3>2. Distinct(iface_index, address) /\ iface_index \in [Ifaces -> Nat]
        BY <1>1, Zenon DEF Distinct, DaemonTypes, OfFamily, DaemonIndexes, Started
      <3>3. PICK x : x = m.index
        BY Zenon
      <3>4. /\ (SourceRules(iface_index, address) \ RulesOf(i, iface_index[i], address)) \cap RulesOf(i, x, address) = {}
            /\ SourceRules([iface_index EXCEPT ![i] = x], address) =
                  (SourceRules(iface_index, address) \ RulesOf(i, iface_index[i], address)) \cup RulesOf(i, x, address)
        BY <2>1, <3>1, <3>2, <3>3, SourceRulesIndex, Zenon
      <3> QED
        BY <1>3, <2>4, <3>3, <3>4, Zenon
    <2>6. PICK k : k = del_rule(kern, old)
      BY Zenon
    <2>7. kern' = add_rule(k, new)
      BY <1>3, <2>4, <2>6, Zenon DEF tun_updated_link_rules, RulesOf
    <2>8. old \subseteq S /\ new \subseteq SourceRules(iface_index', address)
      BY <2>4, <2>5, Zenon DEF RulesOf, SourceRules
    <2>9. S \cap X = {} /\ SourceRules(iface_index', address) \cap X = {}
      <3>1. address \in [Configured -> Addrs \cup {NO_ADDR}] /\ eids \subseteq Eids
        BY <1>1, Zenon DEF DaemonTypes
      <3>2. (\A q \in Configured : address[q] \in Addrs \cup {NO_ADDR}) /\ eids \in SUBSET Eids
        BY <3>1, Zenon
      <3> QED
        BY <2>4, <3>2, RulesApart, Zenon
    <2>10. RuleBag(kern.rules) /\ Holds(died, kern.rules, S \cup X)
      BY <1>1, <2>4, OwnIs DEF Rules, Own, Kern
    <2>11. OnlyRules(kern, k) /\ k.rules = WithoutRules(kern.rules, old)
      BY <1>1, <2>6, RuleRequests
    <2>12. Holds(died, k.rules, (S \cup X) \ old)
      <3>1. Holds(died, WithoutRules(kern.rules, old), (S \cup X) \ old)
        BY <2>10, HoldsDel, Zenon
      <3> QED
        BY <2>11, <3>1
    <2>13. RuleBag(k.rules) /\ kern'.rules = WithRules(k.rules, new)
      <3>1. Kern(k)
        BY <2>11 DEF OnlyRules
      <3> QED
        BY <2>7, <3>1, RuleRequests, Zenon DEF Kern
    <2>14. ((S \cup X) \ old) \cap new = {} /\ ((S \cup X) \ old) \cup new = ((S \ old) \cup new) \cup X
      BY <2>5, <2>8, <2>9
    <2>15. Holds(died, kern'.rules, ((S \cup X) \ old) \cup new)
      <3>1. PICK T, B : T = (S \cup X) \ old /\ B = k.rules
        BY Zenon
      <3>2. Holds(died, B, T) /\ RuleBag(B) /\ T \cap new = {}
        BY <2>12, <2>13, <2>14, <3>1
      <3>3. Holds(died, WithRules(B, new), T \cup new)
        BY <3>2, HoldsAdd, Zenon
      <3> QED
        BY <2>13, <3>1, <3>3
    <2>16. OwnRules' = ((S \ old) \cup new) \cup X
      BY <1>1, <2>1, <2>4, <2>5, OwnIs, Zenon DEF Own
    <2>17. Rules'
      BY <1>1, <2>14, <2>15, <2>16, Zenon DEF Rules
    <2> QED
      BY <2>3, <2>17
  <1> QED
    BY <1>2, <1>3, Zenon DEF process_nl_new_link

LEMMA GatewayRules ==
    ASSUME TypeInv, Rules, Routes, NEW m, Serving(m), m.type = "NEWROUTE",
           process_nl_new_unicast_route(m)
    PROVE  Rules' /\ Routes'
  <1>1. /\ Kern(kern) /\ DaemonTypes /\ UNCHANGED <<mode, eids, died>>
    BY DEF TypeInv, Serving
  <1>2. CASE kern' = kern /\ UNCHANGED <<ifaceVars, iface_index>>
    <2>1. kern' = kern /\ UNCHANGED <<iface_index, address, mode, eids, died>>
      BY <1>1, <1>2 DEF ifaceVars
    <2> QED
      BY <2>1, SameRules, Zenon
  <1>3. ASSUME NEW i \in KnownByIndex(m.index), UNCHANGED <<ifaceVars, iface_index>>,
               kern' = add_route(kern, GatewayRoute(m.afi, iface_index[i], m.addr))
        PROVE  Rules' /\ Routes'
    <2>1. OnlyRoutes(kern, kern')
      BY <1>1, <1>3, RuleRequests
    <2>2. OwnRules' = OwnRules
      BY <1>1, <1>3, OwnIs DEF ifaceVars
    <2>3. Rules'
      BY <1>1, <2>1, <2>2 DEF Rules, OnlyRoutes
    <2>4. PICK r : r = GatewayRoute(m.afi, iface_index[i], m.addr)
      BY Zenon
    <2>5. r.oif # TUN /\ r.gw # NO_ADDR /\ r.dst = "default"
      <3>1. iface_index[i] \in Nat /\ iface_index[i] # TUN
        BY <1>1 DEF DaemonTypes, KnownByIndex, TUN
      <3>2. m.addr # NO_ADDR
        <4>1. m.addr \in Gateways[m.afi] /\ m.afi \in Afis
          BY ServedMessage, Zenon DEF MessageOK
        <4>2. \A afi \in Afis : NO_ADDR \notin Gateways[afi]
          BY HostAssumption
        <4> QED
          BY <4>1, <4>2
      <3> QED
        BY <2>4, <3>1, <3>2 DEF GatewayRoute, Route
    <2>6. \/ kern'.routes = kern.routes
          \/ kern'.routes = {r} \cup {s \in kern.routes : s.afi # r.afi \/ s.table # r.table \/ s.dst # r.dst}
      BY <1>1, <1>3, <2>4 DEF add_route, Kern
    <2>7. \A s : s \in kern.routes /\ s.oif = TUN /\ s.table = RT_TABLE_MAIN => s.dst # "default"
      BY MnRouteFields DEF Routes, Routed
    <2>8. {s \in kern'.routes : s.oif = TUN /\ s.table = RT_TABLE_MAIN} =
             {s \in kern.routes : s.oif = TUN /\ s.table = RT_TABLE_MAIN}
      BY <2>5, <2>6, <2>7
    <2>9. \A s \in kern'.routes : s.oif # TUN => s.gw # NO_ADDR
      BY <2>5, <2>6 DEF Routes, Routed
    <2>10. Routes'
      BY <1>1, <2>1, <2>8, <2>9, Zenon DEF Routes, Routed, OnlyRoutes
    <2> QED
      BY <2>3, <2>10
  <1> QED
    BY <1>2, <1>3, Zenon DEF process_nl_new_unicast_route, Discarded, tun_process_new_gateway

LEMMA MessageRules ==
    ASSUME TypeInv, Rules, Routes, process_netlink_msg
    PROVE  Rules' /\ Routes'
  <1>1. PICK m : m = Head(queue)
    BY Zenon
  <1>2. Serving(m)
    BY <1>1 DEF process_netlink_msg, Serving
  <1>3. \/ m.type = "NEWADDR" /\ process_nl_add_address(m)
        \/ m.type = "NEWLINK" /\ process_nl_new_link(m)
        \/ m.type = "NEWROUTE" /\ process_nl_new_unicast_route(m)
    BY <1>1 DEF process_netlink_msg
  <1> QED
    BY <1>2, <1>3, AddressRules, LinkRules, GatewayRules

-----------------------------------------------------------------------------
(* The end of the process.                                                 *)

\* What is left in the kernel k when the process ends.
LEMMA EndedRules ==
    ASSUME NEW k, Kern(k), Ended(k), \A r \in k.routes : r.oif # TUN => r.gw # NO_ADDR,
           NEW d, d = "no" => k.rules = Once({})
    PROVE  Holds(d, kern'.rules, OwnRules') /\ Routes'
  <1>1. /\ kern'.rules = k.rules /\ kern'.tunaddr = {}
        /\ kern'.routes = {r \in k.routes : r.oif # TUN}
        /\ address' = NoAddresses /\ eids' = {}
    BY DEF Ended, Kern
  <1>2. OwnRules' = {}
    BY <1>1 DEF OwnRules, NoAddresses
  <1>3. {} \subseteq DOMAIN k.rules
    BY DEF Once
  <1>4. Holds(d, kern'.rules, OwnRules')
    BY <1>1, <1>2, <1>3 DEF Holds
  <1>5. MnRoutes({}) = {}
    BY DEF MnRoutes
  <1>6. Routes'
    BY <1>1, <1>5 DEF Routes, Routed
  <1> QED
    BY <1>4, <1>6

\* A clean exit removes the rules, and the routes of the gateways.
LEMMA ExitKernel ==
    ASSUME TypeInv, Rules, Routes, NEW q, q = tun_remove_eid_prefix(kern, mode, eids),
           NEW k, k = iface_remove_routing_rules(q)
    PROVE  /\ Kern(k) /\ \A r \in k.routes : r.oif # TUN => r.gw # NO_ADDR
           /\ died = "no" => k.rules = Once({})
           /\ \A p \in Configured : address[p] # NO_ADDR =>
                 GatewayRoute(p[2], iface_index[p[1]], gateway[p]) \notin k.routes
  <1>1. /\ Kern(kern) /\ eids \in SUBSET Eids /\ DaemonTypes
        /\ \A p \in Configured : address[p] \in Addrs \cup {NO_ADDR}
    BY DEF TypeInv, DaemonTypes
  <1>2. Configures(kern, died, iface_index, address, mode, eids)
    BY <1>1, OwnIs DEF Rules, Routes, Configures
  <1>3. Unregistered(kern, mode, eids, q)
    BY <1>1, RemoveEids
  <1>4. Configures(q, died, iface_index, address, mode, {})
    BY <1>2, <1>3, UnregisterRules
  <1>5. /\ Kern(q) /\ Holds(died, q.rules, SourceRules(iface_index, address))
        /\ \A r \in q.routes : r.oif # TUN => r.gw # NO_ADDR
    BY <1>4, Zenon DEF Configures, Own, EidRules, XtrRules, Routed
  <1>6. PICK G : G = {GatewayRoute(p[2], iface_index[p[1]], gateway[p]) :
                         p \in {o \in {n \in Configured : address[n] # NO_ADDR} : gateway[o] # NO_ADDR}}
    BY Zenon
  <1>7. PICK j : j = del_rule(q, SourceRules(iface_index, address))
    BY Zenon
  <1>8. k = [j EXCEPT !.routes = @ \ G]
    BY <1>6, <1>7 DEF iface_remove_routing_rules, SourceRules
  <1>9. OnlyRules(q, j) /\ j.rules = WithoutRules(q.rules, SourceRules(iface_index, address))
    BY <1>5, <1>7, RuleRequests, Zenon
  <1>10. Kern(k) /\ k.rules = j.rules /\ k.routes = q.routes \ G
    BY <1>8, <1>9 DEF OnlyRules, Kern
  <1>11. ASSUME died = "no" PROVE k.rules = Once({})
    <2>1. q.rules = Once(SourceRules(iface_index, address))
      BY <1>5, <1>11 DEF Holds
    <2>2. j.rules = Once(SourceRules(iface_index, address) \ SourceRules(iface_index, address))
      BY <1>9, <2>1, BagRemove, Zenon
    <2> QED
      BY <1>10, <2>2
  <1>12. ASSUME NEW p \in Configured, address[p] # NO_ADDR
         PROVE  GatewayRoute(p[2], iface_index[p[1]], gateway[p]) \notin k.routes
    <2>1. CASE gateway[p] # NO_ADDR
      BY <1>6, <1>10, <1>12, <2>1, Zenon
    <2>2. CASE gateway[p] = NO_ADDR
      <3>1. p \in Ifaces \X Afis
        BY InterfacesAssumption
      <3>2. iface_index[p[1]] \in Nat
        BY <1>1, <3>1 DEF DaemonTypes
      <3>3. PICK r : r = GatewayRoute(p[2], iface_index[p[1]], gateway[p])
        BY Zenon
      <3>4. r.oif # TUN /\ r.gw = NO_ADDR
        BY <2>2, <3>2, <3>3, GatewayFields, Zenon
      <3> QED
        BY <1>5, <1>10, <3>3, <3>4, Zenon
    <2> QED
      BY <2>1, <2>2
  <1> QED
    BY <1>5, <1>10, <1>11, <1>12, Zenon

LEMMA EndRules ==
    ASSUME TypeInv, Rules, Routes, exit_cleanup \/ kill \/ map_server_fails
    PROVE  Rules' /\ Routes'
  <1>1. Kern(kern) /\ \A r \in kern.routes : r.oif # TUN => r.gw # NO_ADDR
    BY DEF TypeInv, Routes, Routed
  <1>2. CASE exit_cleanup
    <2>1. PICK q : q = tun_remove_eid_prefix(kern, mode, eids)
      BY Zenon
    <2>2. PICK k : k = iface_remove_routing_rules(q)
      BY Zenon
    <2>3. Ended(k) /\ died' = died
      BY <1>2, <2>1, <2>2 DEF exit_cleanup
    <2>4. /\ Kern(k) /\ \A r \in k.routes : r.oif # TUN => r.gw # NO_ADDR
          /\ died = "no" => k.rules = Once({})
      BY <2>1, <2>2, ExitKernel, Zenon
    <2>5. Holds(died, kern'.rules, OwnRules') /\ Routes'
      BY <2>3, <2>4, EndedRules
    <2> QED
      BY <2>3, <2>5 DEF Rules
  <1>3. ASSUME NEW k, Ended(k), died' # "no", Kern(k), k.routes = kern.routes
        PROVE  Rules' /\ Routes'
    <2>1. Holds(died', kern'.rules, OwnRules') /\ Routes'
      BY <1>1, <1>3, EndedRules, Zenon
    <2> QED
      BY <2>1 DEF Rules
  <1>4. CASE kill
    BY <1>1, <1>3, <1>4 DEF kill, Dies
  <1>5. CASE map_server_fails
    <2>1. PICK k : /\ Ended(k) /\ died' = "crashed"
                   /\ \/ k = kern
                      \/ \E x, old, new : k = tun_updated_addr_rules(kern, x, old, new)
                      \/ \E i, x : k = tun_updated_link_rules(kern, i, x)
      <3>1. PICK m : m = Head(queue)
        BY Zenon
      <3>2. CASE \E i \in KnownByIndex(m.index) :
                   LET old == address[<<i, m.afi>>]
                   IN  Dies(IF old = NO_ADDR /\ status[i] THEN kern
                            ELSE tun_updated_addr_rules(kern, iface_index[i], old, m.addr),
                            "crashed")
        BY <3>2, Zenon DEF Dies
      <3>3. CASE \E i \in LinkIfaces(m.index) :
                   Dies(tun_updated_link_rules(kern, i, m.index), "crashed")
        BY <3>3 DEF Dies
      <3> QED
        BY <1>5, <3>1, <3>2, <3>3, Zenon DEF map_server_fails
    <2>2. OnlyRules(kern, k)
      <3>1. OnlyRules(kern, kern)
        BY <1>1, RuleRequests, Zenon
      <3>2. \A x, old, new : OnlyRules(kern, tun_updated_addr_rules(kern, x, old, new))
        BY <1>1, RuleRequests, Zenon
      <3>3. \A i, x : OnlyRules(kern, tun_updated_link_rules(kern, i, x))
        BY <1>1, RuleRequests, Zenon
      <3> QED
        BY <2>1, <3>1, <3>2, <3>3, Zenon
    <2>3. Kern(k) /\ k.routes = kern.routes
      BY <2>2 DEF OnlyRules
    <2> QED
      BY <1>3, <2>1, <2>3
  <1> QED
    BY <1>2, <1>4, <1>5

LEMMA RulesStep ==
    ASSUME TypeInv, Rules, Routes, [Next]_allVars
    PROVE  Rules' /\ Routes'
  BY KernelRules, SetupRules, ConfigRules, DataPlaneRules, NetlinkRules, MessageRules, EidsRules,
     EndRules, Zenon
     DEF Next, KernelNext

LEMMA AlwaysRules == Spec => [](TypeInv /\ Rules /\ Routes)
  <1>1. Init => TypeInv /\ Rules /\ Routes
    BY TypeInit, RulesInit
  <1>2. TypeInv /\ Rules /\ Routes /\ [Next]_allVars => (TypeInv /\ Rules /\ Routes)'
    BY TypeStep, RulesStep
  <1> QED
    BY <1>1, <1>2, PTL DEF Spec

\* Through every change of address, of index and of the database
\* (tun_updated_addr, tun_updated_link, tun_add_eid_prefix) the kernel has the
\* rules of lispd, once each and no other, and a mobile node has the routes of
\* its EIDs; after a process that did not clean up there are never fewer rules.
THEOREM KernelAlwaysFollows == Spec => []KernelFollowsDaemon
  <1>1. TypeInv /\ Rules /\ Routes => KernelFollowsDaemon
    BY Zenon DEF Rules, Routes, Routed, Holds, MnRoutes, KernelFollowsDaemon
  <1> QED
    BY <1>1, AlwaysRules, PTL

\* A process that exits cleanly (exit_cleanup) leaves no rule, and no route by a
\* gateway that it knew of an interface and family with an address.
THEOREM ExitAlwaysRestores == Spec => ExitRestoresKernel
  <1>1. ASSUME TypeInv, Rules, Routes, [Next]_allVars,
               stage # "off", stage' = "off", died = "no", died' = "no"
        PROVE  /\ kern'.rules = NoRules
               /\ \A p \in Configured : address[p] # NO_ADDR =>
                     GatewayRoute(p[2], iface_index[p[1]], gateway[p]) \notin kern'.routes
    <2>1. exit_cleanup
      <3>1. ~kill /\ ~map_server_fails
        BY <1>1, Zenon DEF kill, map_server_fails, Dies
      <3>2. ~KernelNext
        BY <1>1, ZenonT(40) DEF KernelNext, NewAddress, NewDefaultRoute, LinkDown, LinkUp, Removed, CreatedAgain, Notify
      <3>3. /\ \A daemonize \in BOOLEAN : ~initial_setup(daemonize)
            /\ ~parse_config_file /\ ~datap_init /\ ~init_netlink /\ ~process_netlink_msg
            /\ \A E \in SUBSET Eids : ~replace_eids(E)
            /\ ~RemovePidFile /\ ~UNCHANGED allVars
        BY <1>1 DEF initial_setup, parse_config_file, datap_init, init_netlink, process_netlink_msg,
                    replace_eids, RemovePidFile, allVars, hostVars
      <3> QED
        BY <1>1, <3>1, <3>2, <3>3 DEF Next
    <2>2. PICK q : q = tun_remove_eid_prefix(kern, mode, eids)
      BY Zenon
    <2>3. PICK k : k = iface_remove_routing_rules(q)
      BY Zenon
    <2>4. Ended(k)
      BY <2>1, <2>2, <2>3 DEF exit_cleanup
    <2>5. /\ Kern(k) /\ k.rules = Once({})
          /\ \A p \in Configured : address[p] # NO_ADDR =>
                GatewayRoute(p[2], iface_index[p[1]], gateway[p]) \notin k.routes
      BY <1>1, <2>2, <2>3, ExitKernel, Zenon
    <2>6. kern'.rules = k.rules /\ kern'.routes \subseteq k.routes
      BY <2>4, <2>5 DEF Ended, Kern
    <2> QED
      BY <2>5, <2>6, Zenon DEF NoRules
  <1>2. TypeInv /\ Rules /\ Routes /\ [Next]_allVars =>
          [stage # "off" /\ stage' = "off" /\ died = "no" /\ died' = "no" =>
             /\ kern'.rules = NoRules
             /\ \A p \in Configured : address[p] # NO_ADDR =>
                   GatewayRoute(p[2], iface_index[p[1]], gateway[p]) \notin kern'.routes]_allVars
    BY <1>1, Zenon
  <1> QED
    BY <1>2, AlwaysRules, PTL DEF Spec, ExitRestoresKernel

=============================================================================
