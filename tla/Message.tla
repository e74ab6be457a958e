------------------------------- MODULE Message -------------------------------
(***************************************************************************)
(* LISP control messages: how liblisp/liblisp.c builds them in a buffer    *)
(* and takes them apart again, with the records of lisp_locator.c and      *)
(* lisp_mapping.c and the authentication of lib/hmac.c.                    *)
(*                                                                         *)
(* A mapping is an EID, a TTL, the action and the authoritative bit, and a *)
(* set of locators no two of which have the same address.                  *)
(***************************************************************************)
EXTENDS Packets

MAP_REQUEST == 1
MAP_REPLY == 2
MAP_REGISTER == 3
MAP_NOTIFY == 4
ENCAP_CONTROL == 8

ACT_NO_ACTION == 0
ACT_NATIVE_FWD == 1

MSG_HDR_LEN == 12
AUTH_HDR_LEN == 4
SHA1_AUTH_DATA_LEN == 20

-----------------------------------------------------------------------------
(* The header of the message in b, at the mark "lisp" *)
lisp_msg_hdr(b) == Load(b.mem, b.mark.lisp)
lisp_msg_type(b) == IF lisp_msg_hdr(b).k = "msg" THEN lisp_msg_hdr(b).type ELSE 0
WithHdr(b, h) == Rewrite(b, b.mark.lisp, h)

lisp_msg_create_buf ==
  lbuf_reset(lbuf_new_with_headroom(MAX_IP_PKT_LEN, MAX_LISP_MSG_ENCAP_LEN), "lisp")

(* the *_hdr_init functions: every flag off, except that a Map-Register     *)
(* asks for a Map-Notify                                                    *)
hdr_init(type) ==
  [k |-> "msg", type |-> type, nonce |-> 0, records |-> 0, itr_rlocs |-> 0,
   probe |-> FALSE, smr |-> FALSE, smr_invoked |-> FALSE, proxy |-> FALSE,
   map_notify |-> type = MAP_REGISTER]

lisp_msg_create(type) ==
  lbuf_put(lisp_msg_create_buf, MSG_HDR_LEN, <<Field(MSG_HDR_LEN, hdr_init(type))>>)

lisp_msg_put_addr(b, a) == lbuf_put(b, lisp_addr_size_to_write(a), lisp_addr_write(a))

increment_record_count(b) ==
  WithHdr(b, [lisp_msg_hdr(b) EXCEPT !.records = (@ + 1) % 256])

lisp_msg_put_locator(b, l, probed) ==
  lisp_msg_put_addr(
    lbuf_put(b, 6, <<Field(6, [k |-> "loc", prio |-> l.prio, weight |-> l.weight, local |-> TRUE,
                               reachable |-> l.state = "up", probed |-> probed])>>),
    l.addr)

RecordHdr(eid, ttl, act, auth, n) ==
  Field(10, [k |-> "rec", plen |-> lisp_addr_get_plen(eid), ttl |-> ttl, act |-> act,
             auth |-> auth, locators |-> n])

(* The record header is completed, through the pointer taken when it was    *)
(* put, once the locators that are up have been written and counted.        *)
lisp_msg_put_mapping(b, m, probed) ==
  LET hdr == lbuf_put(b, 10, <<RecordHdr(m.eid, m.ttl, ACT_NO_ACTION, m.auth, 0)>>)
      rec == lbuf_tail(b)
      up  == SetToSeq({l \in m.locs : l.state = "up"})
      put(acc, l) == lisp_msg_put_locator(acc, l, SameAddr(lisp_addr_get_ip_addr(l.addr), probed))
      completed(all) == Rewrite(all, rec, [Load(all.mem, rec) EXCEPT !.locators = Len(up)])
  IN  increment_record_count(completed(FoldLeft(put, lisp_msg_put_addr(hdr, m.eid), up)))

lisp_msg_put_neg_mapping(b, eid, ttl, act, auth) ==
  increment_record_count(
    lisp_msg_put_addr(lbuf_put(b, 10, <<RecordHdr(eid, ttl, act, auth, 0)>>), eid))

lisp_msg_neg_mrep_create(eid, ttl, act, auth, nonce) ==
  LET numbered(b) == WithHdr(b, [lisp_msg_hdr(b) EXCEPT !.nonce = nonce])
  IN  numbered(lisp_msg_put_neg_mapping(lisp_msg_create(MAP_REPLY), eid, ttl, act, auth))

(* the count field has 5 bits and holds the number of RLOCs less one *)
lisp_msg_put_itr_rlocs(b, rlocs) ==
  LET counted(all) == WithHdr(all, [lisp_msg_hdr(all) EXCEPT !.itr_rlocs = (Len(rlocs) - 1) % 32])
  IN  counted(FoldLeft(lisp_msg_put_addr, b, rlocs))

lisp_msg_put_eid_rec(b, eid) ==
  increment_record_count(
    lisp_msg_put_addr(
      lbuf_put(b, 2, <<Field(2, [k |-> "eidrec", plen |-> lisp_addr_get_plen(eid)])>>), eid))

lisp_msg_mreq_create(seid, rlocs, deid) ==
  lisp_msg_put_eid_rec(
    lisp_msg_put_itr_rlocs(lisp_msg_put_addr(lisp_msg_create(MAP_REQUEST), seid), rlocs), deid)

-----------------------------------------------------------------------------
(* Authentication.  The HMAC is the set of the key and the bytes it covers, *)
(* taken with the field itself cleared; {} is a cleared field.              *)
lisp_msg_put_empty_auth_record(b) ==
  lbuf_put(b, AUTH_HDR_LEN + SHA1_AUTH_DATA_LEN,
    <<Field(AUTH_HDR_LEN, [k |-> "authhdr", len |-> SHA1_AUTH_DATA_LEN]),
      Field(SHA1_AUTH_DATA_LEN, [k |-> "auth", mac |-> {}])>>)

AuthData(b) == b.mark.lisp + MSG_HDR_LEN + AUTH_HDR_LEN

(* mbedtls_md_hmac over lbuf_size(b) bytes from the LISP header on *)
hmac(b, key) ==
  LET cleared == Rewrite(b, AuthData(b), [k |-> "auth", mac |-> {}])
  IN  {<<key, Bytes(cleared.mem, b.mark.lisp, b.mark.lisp + b.size)>>}

lisp_msg_fill_auth_data(b, key) == Rewrite(b, AuthData(b), [k |-> "auth", mac |-> hmac(b, key)])

lisp_msg_check_auth_field(b, key) ==
  LET f == Load(b.mem, AuthData(b)) IN f.k = "auth" /\ f.mac = hmac(b, key)

lisp_msg_mreg_create(m) ==
  lisp_msg_put_mapping(lisp_msg_put_empty_auth_record(lisp_msg_create(MAP_REGISTER)), m, NO_ADDR)

-----------------------------------------------------------------------------
(* Taking a message apart.  Every function returns the buffer with what it  *)
(* read pulled off; ok is FALSE where the code returns BAD.                 *)
lisp_msg_pull_hdr(b) == IF lisp_msg_type(b) \in 1 .. 4 THEN lbuf_pull(b, MSG_HDR_LEN) ELSE b
lisp_msg_pull_auth_field(b) == lbuf_pull(lbuf_pull(b, AUTH_HDR_LEN), SHA1_AUTH_DATA_LEN)

lisp_msg_parse_addr(b) ==
  LET pulled(r) == [b |-> lbuf_pull(b, r.len), addr |-> r.addr]
  IN  pulled(lisp_addr_parse(b.mem, b.data))

(* The address is pulled, the two bytes of the record header before it are  *)
(* not: the position is only right for the last record of a message.        *)
lisp_msg_parse_eid_rec(b) ==
  LET h == Load(b.mem, b.data)
      pulled(r) == [b |-> lbuf_pull(b, r.len),
                    eid |-> IF h.k = "eidrec" THEN lisp_addr_set_plen(r.addr, h.plen) ELSE NO_ADDR]
  IN  pulled(lisp_addr_parse(b.mem, b.data + 2))

(* Mutant: the count is taken for the number of RLOCs. *)
lisp_msg_parse_itr_rlocs_one_less(b) ==
  LET n == lisp_msg_hdr(b).itr_rlocs
      add(acc, r) == [b |-> r.b, rlocs |-> <<r.addr>> \o acc.rlocs]
      next(acc, i) == add(acc, lisp_msg_parse_addr(acc.b))
  IN  FoldLeft(next, [b |-> b, rlocs |-> <<>>], [i \in 1 .. n |-> i])

(* glist_add on a list without an order pushes to the front: the list comes *)
(* out reversed                                                             *)
lisp_msg_parse_itr_rlocs(b) ==
  LET n == lisp_msg_hdr(b).itr_rlocs + 1
      add(acc, r) == [b |-> r.b, rlocs |-> <<r.addr>> \o acc.rlocs]
      next(acc, i) == add(acc, lisp_msg_parse_addr(acc.b))
  IN  FoldLeft(next, [b |-> b, rlocs |-> <<>>], [i \in 1 .. n |-> i])

(* locator_parse: a locator that is local and not reachable is down *)
lisp_msg_parse_loc(b) ==
  LET h == Load(b.mem, b.data)
      loc(r) ==
        IF h.k # "loc" \/ r.len = 0 THEN [ok |-> FALSE, b |-> b, loc |-> {}, probed |-> FALSE]
        ELSE [ok |-> TRUE, b |-> lbuf_pull(b, 6 + r.len), probed |-> h.probed,
              loc |-> {[addr |-> r.addr, prio |-> h.prio, weight |-> h.weight,
                        state |-> IF ~ h.reachable /\ h.local THEN "down" ELSE "up"]}]
  IN  loc(lisp_addr_parse(b.mem, b.data + 6))

(* of two locators with the same address the one with the better priority   *)
(* stays                                                                    *)
mapping_add_locator(locs, l) ==
  LET dup == {x \in locs : SameAddr(x.addr, l.addr)}
  IN  IF \A x \in dup : x.prio > l.prio THEN (locs \ dup) \cup {l} ELSE locs

lisp_msg_parse_mapping_record(b) ==
  LET h == Load(b.mem, b.data)
      n == IF h.k = "rec" THEN h.locators ELSE 0
      add(acc, r) ==
        [ok |-> acc.ok /\ r.ok, b |-> r.b, locs |-> r.loc \cup acc.locs,
         probed |-> IF acc.probed = {} /\ r.probed THEN r.loc ELSE acc.probed]
      next(acc, i) == add(acc, lisp_msg_parse_loc(acc.b))
      locators(from) == FoldLeft(next, [ok |-> TRUE, b |-> from, locs |-> {}, probed |-> {}],
                                 [i \in 1 .. n |-> i])
      record(e, l) ==
        IF h.k # "rec" \/ e.len = 0 \/ ~ l.ok
        THEN [ok |-> FALSE, b |-> b, m |-> {}, probed |-> {}]
        ELSE [ok |-> TRUE, b |-> l.b, probed |-> {x.addr : x \in l.probed},
              m |-> {[eid |-> lisp_addr_set_plen(e.addr, h.plen), ttl |-> h.ttl, act |-> h.act,
                      auth |-> h.auth,
                      locs |-> FoldSet(LAMBDA x, acc : mapping_add_locator(acc, x), {}, l.locs)]}]
      from(e) == record(e, locators(lbuf_pull(lbuf_pull(b, 10), e.len)))
  IN  from(lisp_addr_parse(b.mem, b.data + 10))

(* locator_cmp and mapping_cmp, = 0: the lists of both are in one order, so *)
(* that they are compared position by position                              *)
locator_cmp(x, y) == SameAddr(x.addr, y.addr) /\ x.prio = y.prio /\ x.weight = y.weight
mapping_cmp(m1, m2) ==
  /\ SameAddr(m1.eid, m2.eid)
  /\ Cardinality(m1.locs) = Cardinality(m2.locs)
  /\ \A x \in m1.locs : \E y \in m2.locs : locator_cmp(x, y)

(* laddr_list_get_addr: the first address of the family, in a sequence that *)
(* is empty when there is none                                              *)
laddr_list_get_addr(l, afi) ==
  LET same == SelectSeq(l, LAMBDA a : lisp_addr_ip_afi(a) = afi)
  IN  IF same = <<>> THEN <<>> ELSE <<Head(same)>>
=============================================================================
