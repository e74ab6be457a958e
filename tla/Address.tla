------------------------------- MODULE Address -------------------------------
(***************************************************************************)
(* Addresses and how they are written to and read from a message:          *)
(* liblisp/lisp_address.c, lisp_ip.c and lisp_lcaf.c.  An IP address is    *)
(* its family (4 or 6) and a number; an LCAF address is a multicast pair   *)
(* (MC), an explicit locator path (ELP) or a replication list (RLE), the   *)
(* three kinds a LISPmob device can be configured with.                    *)
(***************************************************************************)
EXTENDS Lbuf

NO_ADDR == [lafi |-> "none"]
IP(afi, a) == [lafi |-> "ip", afi |-> afi, a |-> a]
IPPREF(afi, a, plen) == [lafi |-> "ippref", afi |-> afi, a |-> a, plen |-> plen]
MC(src, grp, splen, gplen) ==
  [lafi |-> "lcaf", type |-> 9, src |-> src, grp |-> grp, splen |-> splen, gplen |-> gplen]
ELP(nodes) == [lafi |-> "lcaf", type |-> 10, nodes |-> nodes]
RLE(nodes) == [lafi |-> "lcaf", type |-> 13, nodes |-> nodes]

IsLcaf(a, type) == a.lafi = "lcaf" /\ a.type = type
lisp_addr_ip_afi(a) == IF a.lafi \in {"ip", "ippref"} THEN a.afi ELSE 0

ip_addr_size(afi) == IF afi = 4 THEN 4 ELSE 16
ip_addr_afi_to_default_mask(afi) == IF afi = 4 THEN 32 ELSE 128

lisp_addr_get_plen(a) ==
  CASE a.lafi = "ip"     -> ip_addr_afi_to_default_mask(a.afi)
    [] a.lafi = "ippref" -> a.plen
    [] OTHER             -> 0

lisp_addr_set_plen(a, plen) ==
  IF a.lafi \in {"ip", "ippref"} THEN IPPREF(a.afi, a.a, plen) ELSE a

(* the address alone, as it is copied into an IP header *)
lisp_addr_ip(a) == IP(a.afi, a.a)

-----------------------------------------------------------------------------
(* Writing.  The space is reserved from the first function and filled by    *)
(* the second; a node of a path is preceded by its flags (2 bytes) and one  *)
(* of a replication list by its level (4 bytes).                            *)
NodeHdrLen(type) == IF type = 10 THEN 2 ELSE 4

RECURSIVE lisp_addr_size_to_write(_)
mc_type_get_size_to_write(a) ==
  16 + lisp_addr_size_to_write(a.src) + lisp_addr_size_to_write(a.grp)
nodes_get_size_to_write(a) ==
  8 + FoldLeft(LAMBDA n, x : n + NodeHdrLen(a.type) + lisp_addr_size_to_write(x.addr), 0, a.nodes)
lisp_addr_size_to_write(a) ==
  CASE a.lafi = "none"             -> 2
    [] a.lafi \in {"ip", "ippref"} -> 2 + ip_addr_size(a.afi)
    [] IsLcaf(a, 9)                -> mc_type_get_size_to_write(a)
    [] OTHER                       -> nodes_get_size_to_write(a)

RECURSIVE lisp_addr_write(_)
mc_type_write_to_pkt(a) ==
  LET src == lisp_addr_write(a.src)
      grp == lisp_addr_write(a.grp)
  IN  <<Field(16, [k |-> "afi", afi |-> 16387, type |-> 9, n |-> SizeOf(src) + SizeOf(grp) + 8,
                   splen |-> a.splen, gplen |-> a.gplen])>> \o src \o grp
nodes_write_to_pkt(a) ==
  LET node(x) == <<Field(NodeHdrLen(a.type), [k |-> "node", flags |-> x.flags])>>
                   \o lisp_addr_write(x.addr)
      body == FlattenSeq([i \in 1 .. Len(a.nodes) |-> node(a.nodes[i])])
  IN  <<Field(8, [k |-> "afi", afi |-> 16387, type |-> a.type, n |-> SizeOf(body)])>> \o body
lisp_addr_write(a) ==
  CASE a.lafi = "none" -> <<Field(2, [k |-> "afi", afi |-> 0])>>
    [] a.lafi \in {"ip", "ippref"} ->
         <<Field(2, [k |-> "afi", afi |-> IF a.afi = 4 THEN 1 ELSE 2]),
           Field(ip_addr_size(a.afi), [k |-> "addr", a |-> a.a])>>
    [] IsLcaf(a, 9) -> mc_type_write_to_pkt(a)
    [] OTHER        -> nodes_write_to_pkt(a)

-----------------------------------------------------------------------------
(* Reading.  Each function returns the address and the number of bytes it   *)
(* read, 0 when it fails.                                                   *)
Unread == [len |-> 0, addr |-> NO_ADDR]
Read(len, addr) == [len |-> len, addr |-> addr]

ip_addr_parse(mem, at, afi) ==
  LET f == Load(mem, at + 2)
  IN  IF f.k = "addr" THEN Read(2 + ip_addr_size(afi), IP(afi, f.a)) ELSE Unread

RECURSIVE lisp_addr_parse(_, _)
mc_type_parse(mem, at) ==
  LET h == Load(mem, at)
      pair(src, grp) == Read(16 + src.len + grp.len, MC(src.addr, grp.addr, h.splen, h.gplen))
      from(src) == pair(src, lisp_addr_parse(mem, at + 16 + src.len))
  IN  from(lisp_addr_parse(mem, at + 16))

(* the loop of elp_type_parse and of rle_type_parse, from offset at with    *)
(* left bytes to go                                                         *)
RECURSIVE nodes_parse(_, _, _, _)
nodes_parse(mem, at, type, left) ==
  IF left <= 0 THEN [ok |-> TRUE, nodes |-> <<>>, len |-> 0]
  ELSE LET h == Load(mem, at)
           n == NodeHdrLen(type)
           join(a, r) == IF h.k # "node" \/ a.len = 0 \/ ~ r.ok
                         THEN [ok |-> FALSE, nodes |-> <<>>, len |-> 0]
                         ELSE [ok |-> TRUE, len |-> n + a.len + r.len,
                               nodes |-> <<[flags |-> h.flags, addr |-> a.addr]>> \o r.nodes]
           from(a) == join(a, nodes_parse(mem, at + n + a.len, type, left - n - a.len))
       IN  from(lisp_addr_parse(mem, at + n))

nodes_type_parse(mem, at) ==
  LET h == Load(mem, at)
      addr(r) == IF r.ok
                 THEN Read(8 + r.len, [lafi |-> "lcaf", type |-> h.type, nodes |-> r.nodes])
                 ELSE Unread
  IN  addr(nodes_parse(mem, at + 8, h.type, h.n))

lcaf_addr_parse(mem, at) ==
  LET h == Load(mem, at)
      whole(r) == IF r.len = h.n + 8 THEN r ELSE Unread
  IN  whole(IF h.type = 9 THEN mc_type_parse(mem, at) ELSE nodes_type_parse(mem, at))

lisp_addr_parse(mem, at) ==
  LET h == Load(mem, at)
  IN  IF h.k # "afi" THEN Unread
      ELSE CASE h.afi = 0        -> Read(2, NO_ADDR)
             [] h.afi \in {1, 2} -> ip_addr_parse(mem, at, IF h.afi = 1 THEN 4 ELSE 6)
             [] OTHER            -> lcaf_addr_parse(mem, at)

-----------------------------------------------------------------------------
(* lisp_addr_cmp(a, b) = 0.  Prefix lengths are not compared, and a path is *)
(* compared by its first node only: elp_type_cmp steps from the first node  *)
(* to the one before it, which is the head of the list.  Two absent         *)
(* addresses are the same only when they are one object, which the two      *)
(* addresses compared here never are.                                       *)
RECURSIVE SameAddr(_, _)
mc_type_cmp(a, b) ==
  a.splen = b.splen /\ a.gplen = b.gplen /\ SameAddr(a.src, b.src) /\ SameAddr(a.grp, b.grp)
elp_type_cmp(a, b) ==
  a.nodes # <<>> /\ b.nodes # <<>> =>
    SameAddr(a.nodes[1].addr, b.nodes[1].addr) /\ a.nodes[1].flags = b.nodes[1].flags
rle_type_cmp(a, b) ==
  \A i \in DOMAIN a.nodes \cap DOMAIN b.nodes :
    a.nodes[i].flags = b.nodes[i].flags /\ SameAddr(a.nodes[i].addr, b.nodes[i].addr)
SameAddr(a, b) ==
  /\ a.lafi = b.lafi /\ a.lafi # "none"
  /\ a.lafi \in {"ip", "ippref"} => a.afi = b.afi /\ a.a = b.a
  /\ a.lafi = "lcaf" => /\ a.type = b.type
                        /\ CASE a.type = 9  -> mc_type_cmp(a, b)
                             [] a.type = 10 -> elp_type_cmp(a, b)
                             [] OTHER       -> rle_type_cmp(a, b)

(* the IP address that stands for an address: the last node of a path, the  *)
(* source of a multicast pair; a replication list has none                  *)
RECURSIVE lisp_addr_get_ip_addr(_)
lisp_addr_get_ip_addr(a) ==
  CASE a.lafi = "ip"                         -> a
    [] IsLcaf(a, 9)                          -> lisp_addr_get_ip_addr(a.src)
    [] IsLcaf(a, 10) /\ a.nodes # <<>>       -> lisp_addr_get_ip_addr(Last(a.nodes).addr)
    [] OTHER                                 -> NO_ADDR
=============================================================================
