--------------------------- MODULE ControlExchange ---------------------------
(***************************************************************************)
(* Messages on their way between LISPmob devices, byte for byte: an xTR    *)
(* ("itr") that asks for mappings, probes and solicits, a Map Server       *)
(* ("ms"), an xTR or RTR ("etr") that owns a mapping, and data packets     *)
(* from itr to etr, directly or through an "rtr".  Every handler builds    *)
(* its message in a buffer (Message, Packets), the network carries the     *)
(* window of that buffer, and the receiver takes it apart in a buffer of   *)
(* its own.  The variable "sent" remembers what the sender meant, and      *)
(* "got" what the receiver understood.                                     *)
(*                                                                         *)
(* Sources: the send and receive functions of control/lisp_xtr.c and       *)
(* control/lisp_ms.c, control/control-data-plane/tun/cdp_tun.c and         *)
(* data-plane/tun/tun_input.c.                                             *)
(***************************************************************************)
EXTENDS Message

CONSTANTS Configs,      \* the deployments: see ConfigType
          MaxExchanges  \* bound on the number of exchanges in one behaviour

ASSUME ExchangeAssumption == MaxExchanges \in Nat \ {0}

VARIABLES cfg,      \* the deployment of this behaviour
          local,    \* the local mapping of the etr: a set with at most one element
          stored,   \* the mapping registered at the Map Server, likewise
          proxy,    \* the proxy-reply flag of the site at the Map Server
          wire,     \* the packet on its way: <<>> or one packet
          sent,     \* what its sender meant
          got,      \* what the last receiver understood: a set with at most one element
          heard,    \* what the sender of that message meant, likewise
          buf,      \* the buffer the last handler left behind
          static,   \* the memory of the static packet buffers of the data plane
          nonce, exchanges

vars == <<cfg, local, stored, proxy, wire, sent, got, heard, buf, static, nonce, exchanges>>

Nodes == {"itr", "ms", "etr", "rtr"}
Id(n) == CASE n = "itr" -> 1 [] n = "ms" -> 2 [] n = "etr" -> 3 [] n = "rtr" -> 4

(* A deployment: the families in which each device has a control address,   *)
(* the EID and the mappings the etr can be configured with, whether the etr *)
(* is an xTR or an RTR, what the Map Server knows of the site ("none": no   *)
(* site covers the EID), whether it has the key of the etr, and whether the *)
(* etr asks for proxy replies.                                              *)
ConfigType ==
  [afis : [Nodes -> SUBSET {4, 6}], eid : {c.eid : c \in Configs},
   mappings : {c.mappings : c \in Configs}, mode : {"xtr", "rtr"},
   site : {"none", "open"}, samekey : BOOLEAN, proxy : BOOLEAN]

Addr(n, afi) == IP(afi, Id(n))
Eid(afi) == IP(afi, 100)                       \* a host behind the itr
Afi == lisp_addr_ip_afi(cfg.eid)
SiteKey(n) == IF n = "ms" /\ ~ cfg.samekey THEN "other" ELSE "key"

(* ctrl_default_rlocs: the default control address of each family *)
ctrl_default_rlocs(n) ==
  (IF 4 \in cfg.afis[n] THEN <<Addr(n, 4)>> ELSE <<>>) \o
  (IF 6 \in cfg.afis[n] THEN <<Addr(n, 6)>> ELSE <<>>)

uconn(la, ra, rp) == [la |-> la, ra |-> ra, lp |-> LISP_CONTROL_PORT, rp |-> rp]

(* tun_control_dp_send_msg, with the source address that                    *)
(* tun_control_dp_get_output_ctrl_sock fills in when there is none          *)
tun_control_dp_send_msg(n, b, uc) ==
  LET afi == lisp_addr_ip_afi(uc.ra)
      la  == IF uc.la = NO_ADDR THEN Addr(n, afi) ELSE uc.la
  IN  IF uc.ra.lafi # "ip" \/ afi \notin cfg.afis[n] \/ lisp_addr_ip_afi(la) # afi
      THEN [ok |-> FALSE, b |-> b]
      ELSE [ok |-> TRUE, b |-> pkt_push_udp_and_ip(b, uc.lp, uc.rp, la, uc.ra)]

Nothing == [type |-> 0]

(* a handler sends b, meaning what *)
Send(n, b, uc, what) ==
  \E s \in {tun_control_dp_send_msg(n, b, uc)} :
    /\ buf' = s.b
    /\ wire' = IF s.ok THEN <<Wire(s.b)>> ELSE <<>>
    /\ sent' = IF s.ok THEN what ELSE Nothing

SendNothing(b) == buf' = b /\ wire' = <<>> /\ sent' = Nothing

(* What a message means to its reader: its type, its flags and its content; *)
(* a source EID loses its prefix length, RLOCs are read in reverse, and a   *)
(* mapping is read with the locators that are up.                           *)
Request(h, seid, rlocs, eid) ==
  [type |-> MAP_REQUEST, nonce |-> h.nonce, probe |-> h.probe, smr |-> h.smr,
   smr_invoked |-> h.smr_invoked,
   seid |-> IF seid.lafi = "ippref" THEN lisp_addr_ip(seid) ELSE seid,
   rlocs |-> Reverse(rlocs), eid |-> lisp_addr_set_plen(eid, lisp_addr_get_plen(eid))]

Content(type, n, probe, recs, probed) ==
  [type |-> type, nonce |-> n, probe |-> probe, recs |-> recs, probed |-> probed]

AsRead(m) == [eid |-> lisp_addr_set_plen(m.eid, lisp_addr_get_plen(m.eid)), ttl |-> m.ttl,
              act |-> ACT_NO_ACTION, auth |-> m.auth, locs |-> {l \in m.locs : l.state = "up"}]

Negative(eid, ttl, act, auth) ==
  [eid |-> lisp_addr_set_plen(eid, lisp_addr_get_plen(eid)), ttl |-> ttl, act |-> act,
   auth |-> auth, locs |-> {}]

Init ==
  /\ cfg \in Configs
  /\ local \in {{m} : m \in cfg.mappings}
  /\ stored = {} /\ proxy = FALSE
  /\ wire = <<>> /\ sent = Nothing /\ got = {} /\ heard = {}
  /\ buf = lbuf_use__(NoBytes, 0)
  /\ static = [n \in Nodes |-> NoBytes]
  /\ nonce = 0 /\ exchanges = 0

-----------------------------------------------------------------------------
(* Senders *)

Starts ==
  /\ wire = <<>> /\ exchanges < MaxExchanges
  /\ exchanges' = exchanges + 1 /\ nonce' = nonce + 1
  /\ got' = {} /\ heard' = {}
  /\ UNCHANGED <<cfg, stored, proxy>>

(* build_and_send_map_request and send_smr_invoked_map_request: an          *)
(* encapsulated Map-Request to the Map Resolver, at any of its addresses    *)
build_and_send_map_request(invoked) ==
  /\ Starts /\ Afi # 0
  /\ LET rlocs == ctrl_default_rlocs("itr")
         b == lisp_msg_mreq_create(Eid(Afi), rlocs, cfg.eid)
         h == [lisp_msg_hdr(b) EXCEPT !.nonce = nonce', !.smr_invoked = invoked]
         e == lisp_msg_encap(WithHdr(b, h), LISP_CONTROL_PORT, LISP_CONTROL_PORT, Eid(Afi), cfg.eid)
     IN  \E afi \in cfg.afis["ms"] :
           Send("itr", e, uconn(NO_ADDR, Addr("ms", afi), LISP_CONTROL_PORT),
                Request(h, Eid(Afi), rlocs, cfg.eid))
  /\ UNCHANGED <<local, static>>

(* rloc_probing: a plain Map-Request without source EID to a locator *)
rloc_probing ==
  /\ Starts
  /\ LET rlocs == ctrl_default_rlocs("itr")
         b == lisp_msg_mreq_create(NO_ADDR, rlocs, cfg.eid)
         h == [lisp_msg_hdr(b) EXCEPT !.nonce = nonce', !.probe = TRUE]
     IN  \E afi \in cfg.afis["etr"] :
           Send("itr", WithHdr(b, h), uconn(NO_ADDR, Addr("etr", afi), LISP_CONTROL_PORT),
                Request(h, NO_ADDR, rlocs, cfg.eid))
  /\ UNCHANGED <<local, static>>

(* build_and_send_smr_mreq: the source EID is a local prefix, the RLOCs are *)
(* the locators of its mapping (here with a path), and the nonce stays 0    *)
build_and_send_smr_mreq ==
  /\ Starts /\ Afi # 0
  /\ LET seid  == IPPREF(Afi, 100, 24)
         rlocs == Append(ctrl_default_rlocs("itr"),
                         ELP(<<[flags |-> 1, addr |-> Addr("rtr", 4)], [flags |-> 0, addr |-> Addr("itr", 4)]>>))
         b == lisp_msg_mreq_create(seid, rlocs, cfg.eid)
         h == [lisp_msg_hdr(b) EXCEPT !.smr = TRUE]
     IN  \E afi \in cfg.afis["etr"] :
           Send("itr", WithHdr(b, h), uconn(NO_ADDR, Addr("etr", afi), LISP_CONTROL_PORT),
                Request(h, seid, rlocs, cfg.eid))
  /\ UNCHANGED <<local, static>>

(* build_and_send_map_reg.  The etr may have been restarted with another    *)
(* mapping, or without one, since the last time.                            *)
build_and_send_map_reg ==
  /\ Starts
  /\ \E l \in {{m} : m \in cfg.mappings} \cup {{}} : local' = l
  /\ IF local' = {} THEN SendNothing(buf)
     ELSE LET m == CHOOSE x \in local' : TRUE
              b == lisp_msg_mreg_create(m)
              h == [lisp_msg_hdr(b) EXCEPT !.nonce = nonce', !.proxy = cfg.proxy]
          IN  \E afi \in cfg.afis["ms"] :
                Send("etr", lisp_msg_fill_auth_data(WithHdr(b, h), SiteKey("etr")),
                     uconn(NO_ADDR, Addr("ms", afi), LISP_CONTROL_PORT),
                     Content(MAP_REGISTER, nonce', FALSE, <<AsRead(m)>>, {}))
  /\ UNCHANGED static

-----------------------------------------------------------------------------
(* Receivers *)

OuterIp == Load(wire[1].mem, 0)
OuterUdp == Load(wire[1].mem, ip_hdr_len(OuterIp.ver))

(* sock_ctrl_recv and tun_control_dp_recv_msg: the kernel takes the outer   *)
(* headers off and tells the addresses and the source port                  *)
Arrives(n) == wire # <<>> /\ OuterIp.k = "ip" /\ OuterIp.dst = Id(n)
              /\ OuterUdp.k = "udp" /\ OuterUdp.dport = LISP_CONTROL_PORT
ArrivedUc == uconn(IP(OuterIp.ver, OuterIp.dst), IP(OuterIp.ver, OuterIp.src), OuterUdp.sport)
ArrivedBuf == lbuf_reset(Receive(lisp_msg_create_buf, wire[1],
                                 ip_hdr_len(OuterIp.ver) + UDP_HDR_LEN), "lisp")

(* xtr_recv_msg and ms_recv_msg, before they switch on the type: an         *)
(* encapsulated message is unwrapped, and the answer goes to its inner      *)
(* port; the type is 0 when it could not be unwrapped                       *)
recv_msg ==
  LET decapsulated(d) == [type |-> IF d.ok THEN lisp_msg_type(d.b) ELSE 0, b |-> d.b,
                          uc |-> [ArrivedUc EXCEPT !.rp = d.sport]]
      unwrapped(b) == IF lisp_msg_type(b) = ENCAP_CONTROL
                      THEN decapsulated(lisp_msg_ecm_decap(b))
                      ELSE [type |-> lisp_msg_type(b), b |-> b, uc |-> ArrivedUc]
  IN  unwrapped(ArrivedBuf)

Receives(n) ==
  /\ Arrives(n)
  /\ heard' = {sent}
  /\ UNCHANGED <<cfg, local, static, nonce, exchanges>>

(* the content of a Map-Request: header, source EID, RLOCs and its record *)
ReadRequest(b) ==
  LET h == lisp_msg_hdr(b)
      read(s, r, e) ==
        [type |-> MAP_REQUEST, nonce |-> h.nonce, probe |-> h.probe, smr |-> h.smr,
         smr_invoked |-> h.smr_invoked, seid |-> s.addr, rlocs |-> r.rlocs, eid |-> e.eid]
      from(s, r) == read(s, r, lisp_msg_parse_eid_rec(r.b))
      rest(s) == from(s, lisp_msg_parse_itr_rlocs(s.b))
  IN  rest(lisp_msg_parse_addr(lisp_msg_pull_hdr(b)))

(* the records of a message from buffer b on, n of them; left is what       *)
(* remains unread                                                           *)
ReadRecords(b, n) ==
  LET add(acc, r) == [ok |-> acc.ok /\ r.ok, b |-> r.b, probed |-> acc.probed \cup r.probed,
                      recs |-> acc.recs \o SetToSeq(r.m)]
      next(acc, i) == add(acc, lisp_msg_parse_mapping_record(acc.b))
  IN  FoldLeft(next, [ok |-> TRUE, b |-> b, recs |-> <<>>, probed |-> {}], [i \in 1 .. n |-> i])

ReadAuthenticated(b) ==
  ReadRecords(lisp_msg_pull_auth_field(lisp_msg_pull_hdr(b)), lisp_msg_hdr(b).records)

(* an answer takes the nonce, and the probe bit, of the question *)
Numbered(b, n, probe) == WithHdr(b, [lisp_msg_hdr(b) EXCEPT !.nonce = n, !.probe = probe])

(* the IP addresses of the locators that are up *)
get_locator_with_afi(m, afi) ==
  {lisp_addr_get_ip_addr(l.addr) : l \in {x \in m.locs :
      x.state = "up" /\ lisp_addr_ip_afi(lisp_addr_get_ip_addr(x.addr)) = afi}}

(* forward_mreq: the encapsulated message goes out again, from its          *)
(* encapsulated-control header on, to an IPv4 locator that is up if there   *)
(* is one and the Map Server has IPv4, to an IPv6 one otherwise             *)
forward_mreq(b, m) ==
  LET v4 == IF 4 \in cfg.afis["ms"] THEN get_locator_with_afi(m, 4) ELSE {}
      v6 == IF 6 \in cfg.afis["ms"] THEN get_locator_with_afi(m, 6) ELSE {}
      to == IF v4 # {} THEN v4 ELSE v6
  IN  IF to = {} THEN SendNothing(b)
      ELSE \E drloc \in to :
             Send("ms", lbuf_point_to(b, "lhdr"), uconn(NO_ADDR, drloc, LISP_CONTROL_PORT), sent)

(* ms_recv_map_request, once the request q is read: probes and              *)
(* solicitations are discarded; a negative reply when no site covers the    *)
(* EID or none is registered; the request forwarded when the site does not  *)
(* ask for proxy replies, and a reply, no longer authoritative, when it     *)
(* does                                                                     *)
ms_answer(u, q) ==
  LET negative(ttl) ==
        Send("ms", lisp_msg_neg_mrep_create(q.eid, ttl, ACT_NATIVE_FWD, TRUE, q.nonce), u.uc,
             Content(MAP_REPLY, q.nonce, FALSE, <<Negative(q.eid, ttl, ACT_NATIVE_FWD, TRUE)>>, {}))
      to == laddr_list_get_addr(q.rlocs, lisp_addr_ip_afi(u.uc.la))
      ra == IF to = <<>> THEN u.uc.ra ELSE to[1]
      reply(m) ==
        Send("ms", Numbered(lisp_msg_put_mapping(lisp_msg_create(MAP_REPLY), m, NO_ADDR), q.nonce, FALSE),
             [u.uc EXCEPT !.ra = ra], Content(MAP_REPLY, q.nonce, FALSE, <<AsRead(m)>>, {}))
  IN  IF q.probe \/ q.smr THEN SendNothing(u.b)
      ELSE IF stored = {} THEN negative(IF cfg.site = "none" THEN 15 ELSE 1)
      ELSE \E m \in stored : IF proxy THEN reply([m EXCEPT !.auth = FALSE]) ELSE forward_mreq(u.b, m)

ms_recv_map_request ==
  /\ Receives("ms")
  /\ \E u \in {recv_msg} :
       /\ u.type \in {MAP_REQUEST, 0}
       /\ IF u.type = 0 THEN got' = {} /\ SendNothing(u.b)
          ELSE \E q \in {ReadRequest(u.b)} : got' = {q} /\ ms_answer(u, q)
  /\ UNCHANGED <<stored, proxy>>

(* the locators of the registered mapping are replaced, and nothing else *)
mapping_update_locators(m) == {[x EXCEPT !.locs = m.locs] : x \in stored}

(* ms_recv_map_register: the authentication is checked on the message as it *)
(* arrived, the records are read from a copy.  A registered mapping is only *)
(* replaced when mapping_cmp tells it from the new one; what is notified is *)
(* the mapping that was read.                                               *)
ms_recv_map_register ==
  /\ Receives("ms")
  /\ \E u \in {x \in {recv_msg} : x.type = MAP_REGISTER} : \E r \in {ReadAuthenticated(u.b)} :
     LET h == lisp_msg_hdr(u.b)
         notify(m) == lisp_msg_put_mapping(
                        lisp_msg_put_empty_auth_record(lisp_msg_create(MAP_NOTIFY)), m, NO_ADDR)
     IN  IF ~ r.ok \/ cfg.site = "none" \/ ~ lisp_msg_check_auth_field(u.b, SiteKey("ms"))
         THEN got' = {} /\ SendNothing(r.b) /\ UNCHANGED <<stored, proxy>>
         ELSE \E m \in {r.recs[1]}, same \in {\E x \in stored : mapping_cmp(x, r.recs[1])} :
                /\ got' = {Content(MAP_REGISTER, h.nonce, FALSE, r.recs, r.probed)}
                /\ stored' = IF same THEN stored
                             ELSE IF stored = {} THEN {m} ELSE mapping_update_locators(m)
                /\ proxy' = IF same THEN proxy ELSE h.proxy
                /\ Send("ms", lisp_msg_fill_auth_data(Numbered(notify(m), h.nonce, FALSE), SiteKey("ms")),
                        u.uc, Content(MAP_NOTIFY, h.nonce, FALSE, <<AsRead(m)>>, {}))

(* Mutant: the answer goes to where the request came from. *)
map_reply_fill_uconn_to_sender(n, rlocs, uc) == <<uc>>

(* map_reply_fill_uconn: the first RLOC of the family the request came in,  *)
(* or the first of the other family when the device has an address in it    *)
map_reply_fill_uconn(n, rlocs, uc) ==
  LET afi   == lisp_addr_ip_afi(uc.la)
      other == IF afi = 4 THEN 6 ELSE 4
      same  == laddr_list_get_addr(rlocs, afi)
      alt   == laddr_list_get_addr(rlocs, other)
  IN  CASE same # <<>> -> <<[uc EXCEPT !.ra = same[1]]>>
        [] same = <<>> /\ other \in cfg.afis[n] /\ alt # <<>> ->
             <<[uc EXCEPT !.ra = alt[1], !.la = Addr(n, other)]>>
        [] OTHER -> <<>>

(* tr_recv_map_request, once the request q is read: an xTR answers with its *)
(* mapping, with the locator at which a probe arrived marked, and with no   *)
(* record at all when the EID is not local; an RTR answers probes with a    *)
(* negative record.  A solicitation is not answered: the device asks for    *)
(* the mapping again.                                                       *)
tr_answer(u, q) ==
  LET m == CHOOSE x \in local : TRUE
      new == lisp_msg_create(MAP_REPLY)
      own == cfg.mode = "xtr" /\ local # {}
      neg == cfg.mode = "rtr" /\ (q.smr \/ q.probe)
      at  == IF q.probe THEN u.uc.la ELSE NO_ADDR
      rep == IF own THEN lisp_msg_put_mapping(new, m, at)
             ELSE IF neg THEN lisp_msg_put_neg_mapping(new, q.eid, 0, ACT_NO_ACTION, FALSE)
             ELSE new
      recs == IF own THEN <<AsRead(m)>>
              ELSE IF neg THEN <<Negative(q.eid, 0, ACT_NO_ACTION, FALSE)>> ELSE <<>>
      probed == IF own /\ q.probe
                THEN {l.addr : l \in {x \in m.locs :
                         x.state = "up" /\ lisp_addr_get_ip_addr(x.addr) = at}}
                ELSE {}
  IN  \E uc \in {map_reply_fill_uconn("etr", q.rlocs, u.uc)} :
        IF uc = <<>> \/ (q.smr /\ (own \/ neg) /\ q.seid # NO_ADDR /\ ~ q.probe)
        THEN SendNothing(u.b)
        ELSE Send("etr", Numbered(rep, q.nonce, q.probe), uc[1],
                  Content(MAP_REPLY, q.nonce, q.probe, recs, probed))

tr_recv_map_request ==
  /\ Receives("etr")
  /\ \E u \in {recv_msg} :
       /\ u.type \in {MAP_REQUEST, 0}
       /\ IF u.type = 0 THEN got' = {} /\ SendNothing(u.b)
          ELSE \E q \in {ReadRequest(u.b)} : got' = {q} /\ tr_answer(u, q)
  /\ UNCHANGED <<stored, proxy>>

(* tr_recv_map_notify and tr_recv_map_reply, as far as reading goes *)
tr_recv_map_notify ==
  /\ Receives("etr")
  /\ \E u \in {x \in {recv_msg} : x.type = MAP_NOTIFY} : \E r \in {ReadAuthenticated(u.b)} :
     LET h == lisp_msg_hdr(u.b)
     IN  /\ got' = IF h.nonce = nonce /\ lisp_msg_check_auth_field(u.b, SiteKey("etr")) /\ r.ok
                   THEN {Content(MAP_NOTIFY, h.nonce, FALSE, r.recs, r.probed)} ELSE {}
         /\ SendNothing(r.b)
  /\ UNCHANGED <<stored, proxy>>

tr_recv_map_reply ==
  /\ Receives("itr")
  /\ \E u \in {x \in {recv_msg} : x.type = MAP_REPLY} :
     \E r \in {ReadRecords(lisp_msg_pull_hdr(u.b), lisp_msg_hdr(u.b).records)} :
     LET h == lisp_msg_hdr(u.b)
     IN  /\ got' = IF h.nonce = nonce /\ r.ok
                   THEN {Content(MAP_REPLY, h.nonce, h.probe, r.recs, r.probed)} ELSE {}
         /\ SendNothing(r.b)
  /\ UNCHANGED <<stored, proxy>>
-----------------------------------------------------------------------------
(* Data packets.  The packet buffer of a device is static: what earlier     *)
(* packets left in it is still there.                                       *)
DATA == 100

(* External: a host sends a UDP packet, and a router on the path of a       *)
(* packet takes one off its ttl and adjusts a checksum that was right.      *)
HostPacket(ver, tos, dport) ==
  LET payload == lbuf_put(lisp_msg_create_buf, 32, <<Field(32, [k |-> "payload"])>>)
      marked(b) == ip_hdr_set_ttl_and_tos(b, b.data, 64, tos)
  IN  Wire(marked(pkt_push_udp_and_ip(payload, 5000, dport, IP(ver, 100), IP(ver, 200))))

OneHop(pkt) ==
  LET h == Load(pkt.mem, 0)
      cleared == [h EXCEPT !.sum = {}]
      after == [cleared EXCEPT !.ttl = @ - 1]
      right == h.ver = 4 /\ h.sum = ip_checksum(cleared)
  IN  [pkt EXCEPT !.mem[0].v = [after EXCEPT !.sum = IF right THEN ip_checksum(after) ELSE h.sum]]

DataMeaning(pkt) == [type |-> DATA, pkt |-> pkt]

(* tun_output: encapsulation from one device to the next *)
tun_output(from, to, afi, b, what) ==
  \E e \in {lisp_data_encap(b, LISP_DATA_PORT, LISP_DATA_PORT, Addr(from, afi), Addr(to, afi))} :
    /\ buf' = e
    /\ static' = [static EXCEPT ![from] = e.mem]
    /\ wire' = <<OneHop(Wire(e))>>
    /\ sent' = DataMeaning(what)

(* tun_output_recv: the itr takes a packet of a host from the tun device *)
tun_output_recv ==
  /\ Starts /\ cfg.mode = "xtr"
  /\ \E ver \in {4, 6}, tos \in {0, 8}, to \in {"etr", "rtr"} :
     \E afi \in cfg.afis["itr"] \cap cfg.afis[to] :
     \E pkt \in {HostPacket(ver, tos, 6000)} :
       LET b == Receive(lbuf_reserve(lbuf_use__(static["itr"], MAX_IP_PKT_LEN), LBUF_STACK_OFFSET),
                        pkt, 0)
       IN  tun_output("itr", to, afi, lbuf_reset(b, "ip"), OneHop(pkt))
  /\ UNCHANGED local

(* sock_data_recv: over IPv4 a raw socket delivers the whole packet, over   *)
(* IPv6 what follows the IP header; ttl and tos come beside it              *)
DataArrives(n) == wire # <<>> /\ OuterIp.k = "ip" /\ OuterIp.dst = Id(n)
                  /\ OuterUdp.k = "udp" /\ OuterUdp.dport = LISP_DATA_PORT

DecapInto(n, headroom) ==
  LET b == lbuf_reserve(lbuf_use__(static[n], MAX_IP_PKT_LEN), headroom)
      skip == IF OuterIp.ver = 4 THEN 0 ELSE ip_hdr_len(6)
  IN  tun_read_and_decap_pkt(Receive(b, wire[1], skip), OuterIp.ver, OuterIp.ttl, OuterIp.tos)

(* tun_process_input_packet: the inner packet is written to the tun device *)
tun_process_input_packet ==
  /\ DataArrives("etr")
  /\ \E d \in {DecapInto("etr", 0)} :
       /\ got' = IF d.ok THEN {DataMeaning([size |-> d.b.size, mem |-> Wire(lbuf_point_to(d.b, "l3")).mem])}
                 ELSE {}
       /\ static' = [static EXCEPT !["etr"] = d.b.mem]
       /\ SendNothing(d.b)
  /\ heard' = {sent}
  /\ UNCHANGED <<cfg, local, stored, proxy, nonce, exchanges>>

(* tun_rtr_process_input_packet: the inner packet is encapsulated again *)
tun_rtr_process_input_packet ==
  /\ DataArrives("rtr")
  /\ \E d \in {DecapInto("rtr", LBUF_STACK_OFFSET)} :
     LET b == lbuf_reset(lbuf_point_to(d.b, "l3"), "ip")
     IN  \/ \E afi \in cfg.afis["rtr"] \cap cfg.afis["etr"] :
              tun_output("rtr", "etr", afi, b, OneHop(sent.pkt))
         \/ /\ cfg.afis["rtr"] \cap cfg.afis["etr"] = {}
            /\ SendNothing(b)
            /\ static' = [static EXCEPT !["rtr"] = b.mem]
  /\ got' = {} /\ heard' = {}
  /\ UNCHANGED <<cfg, local, stored, proxy, nonce, exchanges>>

(* the last exchange is over *)
Done == exchanges = MaxExchanges /\ wire = <<>> /\ UNCHANGED vars

Next ==
  \/ \E invoked \in BOOLEAN : build_and_send_map_request(invoked)
  \/ rloc_probing \/ build_and_send_smr_mreq \/ build_and_send_map_reg
  \/ ms_recv_map_request \/ ms_recv_map_register
  \/ tr_recv_map_request \/ tr_recv_map_notify \/ tr_recv_map_reply
  \/ tun_output_recv \/ tun_process_input_packet \/ tun_rtr_process_input_packet
  \/ Done

Spec == Init /\ [][Next]_vars

-----------------------------------------------------------------------------
(* Properties *)

TypeOK ==
  /\ cfg \in ConfigType
  /\ Cardinality(local) <= 1 /\ Cardinality(stored) <= 1 /\ proxy \in BOOLEAN
  /\ Len(wire) <= 1 /\ Cardinality(got) <= 1 /\ Cardinality(heard) <= 1
  /\ exchanges \in 0 .. MaxExchanges /\ nonce \in 0 .. MaxExchanges

(* Refused on purpose: a registration the Map Server has no site or another *)
(* key for, and a reply with the nonce 0 that a solicitation carries        *)
Refused(s) ==
  \/ s.type = MAP_REGISTER /\ (cfg.site = "none" \/ ~ cfg.samekey)
  \/ s.type = MAP_REPLY /\ s.nonce = 0

(* A receiver understands what the sender meant: every field, address, path *)
(* and locator of a control message, and every byte of a data packet except *)
(* the hops it travelled, survives being written, encapsulated, forwarded,  *)
(* decapsulated and parsed, whatever families the three headers are of.     *)
(* Nothing is refused but what Refused lists.                               *)
UnderstoodAsMeant == \A s \in heard : IF Refused(s) THEN got = {} ELSE got = {s}

(* No message outgrows its buffer: the headroom lisp_msg_create_buf and the *)
(* data plane reserve is enough for every encapsulation, so the block is    *)
(* never moved under the pointers the functions of liblisp.c hold.          *)
BuffersStayInPlace ==
  /\ ~ buf.moved /\ buf.data >= 0 /\ lbuf_tail(buf) <= buf.allocated

(* What is sent is a packet the receiving kernel accepts: the lengths of    *)
(* the IP and UDP headers are those of the packet and both checksums are    *)
(* right, also when the headers were pushed over what an earlier packet     *)
(* left in the static buffer of the data plane.                             *)
PacketsAreValid == \A i \in DOMAIN wire : KernelAccepts(wire[i])

(* A Map-Reply is on its way to the device that asked, with the nonce of    *)
(* the question, and is never sent to the Map Server that forwarded it (an  *)
(* SMR for an EID that is not local draws an empty reply with nonce 0); a   *)
(* question that got through stays without an answer only when asker and    *)
(* owner have no address family in common, or the Map Server has none in    *)
(* common with the registered locators (map_reply_fill_uconn).              *)
RepliesReachTheAsker ==
  /\ \A i \in DOMAIN wire : sent.type = MAP_REPLY =>
       OuterIp.dst = Id("itr") /\ (sent.nonce = nonce \/ (sent.nonce = 0 /\ sent.recs = <<>>))
  /\ \A s \in heard : s.type = MAP_REQUEST /\ ~ s.smr /\ wire = <<>> =>
       \/ cfg.afis["itr"] \cap cfg.afis["etr"] = {}
       \/ \A m \in stored, afi \in cfg.afis["ms"] : get_locator_with_afi(m, afi) = {}

(* Once a Map-Register has been taken, the Map Server holds the locators it *)
(* carried.                                                                 *)
StoredIsRegistered ==
  \A s \in got : s.type = MAP_REGISTER => \A m \in stored : m.locs = s.recs[1].locs
=============================================================================
