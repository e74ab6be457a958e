------------------------------- MODULE Packets -------------------------------
(***************************************************************************)
(* IP and UDP headers, checksums and LISP encapsulation: lib/packets.c,    *)
(* lib/cksum.c, the encapsulation functions of liblisp/liblisp.c and the   *)
(* decapsulation of data-plane/tun/tun_input.c.                            *)
(*                                                                         *)
(* A checksum is the set of what was summed: {} is the value 0, and {x}    *)
(* the sum of x.  Two different contents have different sums, so a check   *)
(* that succeeds in the model is one whose sender and receiver summed the  *)
(* same bytes.                                                             *)
(***************************************************************************)
EXTENDS Address

LISP_CONTROL_PORT == 4342
LISP_DATA_PORT == 4341
MAX_IP_PKT_LEN == 4096
MAX_IP_HDR_LEN == 40
UDP_HDR_LEN == 8
ECM_HDR_LEN == 4
DATA_HDR_LEN == 8
LBUF_STACK_OFFSET == 100

(* Mutant: the reserve forgets the encapsulated-control header. *)
MAX_LISP_MSG_ENCAP_LEN_no_ecm == 2 * (MAX_IP_HDR_LEN + UDP_HDR_LEN)

(* The headroom of a control message: an outer and an inner IP and UDP      *)
(* header and the encapsulated-control header between them.                 *)
MAX_LISP_MSG_ENCAP_LEN == 2 * (MAX_IP_HDR_LEN + UDP_HDR_LEN) + ECM_HDR_LEN

ip_hdr_len(ver) == IF ver = 4 THEN 20 ELSE 40

(* ip_checksum over a header: the field ip_sum takes part in it, so the     *)
(* result is only right when the field was 0 before.                        *)
ip_checksum(h) == IF h.sum = {} THEN {<<h.len, h.ttl, h.tos, h.src, h.dst>>} ELSE {<<0, 0, 0, 0, 0>>}

(* udp_checksum over the pseudo header and the len bytes from the UDP       *)
(* header on, the check field included                                      *)
udp_checksum(mem, udp, iph) ==
  LET h == mem[udp].v
  IN  {<<iph.src, iph.dst, h.len, h.check, Bytes(mem, udp + UDP_HDR_LEN, udp + h.len)>>}

(* the sum a receiver computes is 0: the check field holds the sum of the   *)
(* rest of what it covers                                                   *)
ChecksumVerifies(mem, udp, iph) ==
  LET h == mem[udp].v
  IN  h.check = udp_checksum([mem EXCEPT ![udp].v.check = {}], udp, iph)

-----------------------------------------------------------------------------
pkt_push_udp(b, sp, dp) ==
  lbuf_push(b, Field(UDP_HDR_LEN, [k |-> "udp", sport |-> sp, dport |-> dp,
                                   len |-> UDP_HDR_LEN + b.size, check |-> {}]))

(* ip_sum is not cleared before the sum is computed: it holds what these    *)
(* two bytes of the buffer held, 0 in memory that was never written.        *)
pkt_push_ipv4(b, src, dst) ==
  LET at == b.data - 20
      h  == [k |-> "ip", ver |-> 4, len |-> b.size + 20, ttl |-> 255, tos |-> 0,
             src |-> src.a, dst |-> dst.a,
             sum |-> IF Written(b.mem, at + 10, 2) THEN {<<0, 0, 0, 0, 0>>} ELSE {}]
  IN  lbuf_push(b, Field(20, [h EXCEPT !.sum = ip_checksum(h)]))

pkt_push_ipv6(b, src, dst) ==
  lbuf_push(b, Field(40, [k |-> "ip", ver |-> 6, len |-> b.size, ttl |-> 255, tos |-> 0,
                          src |-> src.a, dst |-> dst.a, sum |-> {}]))

pkt_push_ip(b, src, dst) ==
  IF src.afi = 4 THEN pkt_push_ipv4(b, src, dst) ELSE pkt_push_ipv6(b, src, dst)

(* The UDP header is pushed first and stays when the two addresses are not  *)
(* of one family; the checksum is computed once the IP header is there.     *)
pkt_push_udp_and_ip(b, sp, dp, src, dst) ==
  LET u == lbuf_reset(pkt_push_udp(b, sp, dp), "udp")
      summed(i) == Rewrite(i, i.mark.udp, [Load(i.mem, i.mark.udp) EXCEPT
                     !.check = udp_checksum(i.mem, i.mark.udp, Load(i.mem, i.mark.ip))])
  IN  IF src.afi # dst.afi THEN u ELSE summed(lbuf_reset(pkt_push_ip(u, src, dst), "ip"))

pkt_pull_ip(b) ==
  LET h == Load(b.mem, b.data) IN IF h.k = "ip" THEN lbuf_pull(b, ip_hdr_len(h.ver)) ELSE b
pkt_pull_udp(b) == lbuf_pull(b, UDP_HDR_LEN)

(* Mutant: the new ttl and tos are written and the checksum is left alone. *)
ip_hdr_set_ttl_and_tos_keeps_sum(b, at, ttl, tos) ==
  LET h == Load(b.mem, at)
  IN  Rewrite(b, at, [h EXCEPT !.ttl = IF ttl = 0 THEN @ ELSE ttl, !.tos = tos])

(* the IPv4 checksum is computed again from a cleared field *)
ip_hdr_set_ttl_and_tos(b, at, ttl, tos) ==
  LET h == [Load(b.mem, at) EXCEPT !.ttl = IF ttl = 0 THEN @ ELSE ttl, !.tos = tos, !.sum = {}]
  IN  Rewrite(b, at, IF h.ver = 4 THEN [h EXCEPT !.sum = ip_checksum(h)] ELSE h)

-----------------------------------------------------------------------------
(* lisp_msg_encap: inner headers and the encapsulated-control header *)
lisp_msg_encap(b, lp, rp, la, ra) ==
  LET i == pkt_push_udp_and_ip(lbuf_reset(b, "lisp"), lp, rp, lisp_addr_ip(la), lisp_addr_ip(ra))
  IN  lbuf_reset(lbuf_push(i, Field(ECM_HDR_LEN, [k |-> "msg", type |-> 8])), "lhdr")

(* lisp_msg_ecm_decap, and the port the answer goes to: ok unless the inner *)
(* UDP checksum is there and is wrong                                       *)
lisp_msg_ecm_decap(b) ==
  LET e == lbuf_reset(lbuf_pull(lbuf_reset(b, "lhdr"), ECM_HDR_LEN), "l3")
      i == lbuf_reset(pkt_pull_ip(e), "l4")
      verified(u, h) ==
        IF h.k # "udp" THEN [ok |-> FALSE, b |-> u, sport |-> 0]
        ELSE [ok |-> h.check = {} \/ ChecksumVerifies(u.mem, u.mark.l4, Load(u.mem, u.mark.l3)),
              b |-> u, sport |-> h.sport]
      unwrapped(u) == verified(u, Load(u.mem, u.mark.l4))
  IN  unwrapped(lbuf_reset(pkt_pull_udp(i), "lisp"))

(* lisp_data_encap: the outer header takes the ttl and tos of the inner one *)
lisp_data_encap(b, lp, rp, la, ra) ==
  LET inner == Load(b.mem, b.data)
      d == lbuf_push(b, Field(DATA_HDR_LEN, [k |-> "data"]))
      mark(o) == ip_hdr_set_ttl_and_tos(o, o.data, inner.ttl, inner.tos)
  IN  mark(pkt_push_udp_and_ip(d, lp, rp, lisp_addr_ip(la), lisp_addr_ip(ra)))

(* tun_read_and_decap_pkt on a packet the raw socket delivered: with its    *)
(* IPv4 header, or from the UDP header on for IPv6; ttl and tos come from   *)
(* the control data of the socket                                           *)
tun_read_and_decap_pkt(b, afi, ttl, tos) ==
  LET mark(d) == ip_hdr_set_ttl_and_tos(d, d.data, ttl, tos)
      decap(u) == IF Load(u.mem, u.mark.udp).dport # LISP_DATA_PORT
                  THEN [ok |-> FALSE, b |-> pkt_pull_udp(u)]
                  ELSE [ok |-> TRUE,
                        b |-> mark(lbuf_reset(lbuf_pull(pkt_pull_udp(u), DATA_HDR_LEN), "l3"))]
  IN  decap(lbuf_reset(IF afi = 4 THEN pkt_pull_ip(lbuf_reset(b, "ip")) ELSE b, "udp"))

-----------------------------------------------------------------------------
(* External.  send_raw_packet hands the window of the buffer to the kernel; *)
(* sock_ctrl_recv and sock_data_recv copy a packet into the tail room of a  *)
(* buffer, at its data pointer.                                             *)
Wire(b) == [size |-> b.size, mem |-> Bytes(b.mem, b.data, lbuf_tail(b))]

Receive(b, pkt, skip) ==
  LET n == pkt.size - skip
      in == Bytes(pkt.mem, skip, pkt.size)
      shifted == [o \in {p + b.data : p \in DOMAIN in} |-> in[o - b.data]]
      kept == {o \in DOMAIN b.mem : o + b.mem[o].len <= b.data \/ o >= b.data + n}
  IN  [b EXCEPT !.size = n, !.mem = [o \in kept |-> b.mem[o]] @@ shifted]

(* the kernel's own checks on the outer headers of a packet *)
KernelAccepts(pkt) ==
  LET ip == Load(pkt.mem, 0)
      at == ip_hdr_len(ip.ver)
      udp == Load(pkt.mem, at)
  IN  /\ ip.k = "ip" /\ udp.k = "udp"
      /\ pkt.size = IF ip.ver = 4 THEN ip.len ELSE ip.len + 40
      /\ ip.ver = 4 => ip.sum = ip_checksum([ip EXCEPT !.sum = {}])
      /\ udp.len = pkt.size - at
      /\ ChecksumVerifies(pkt.mem, at, ip)
=============================================================================
