---------------------------- MODULE FlowBalancing ----------------------------
(* The forwarding policy of the tunnel routers: the vectors that spread the *)
(* flows of a mapping over its locators by priority and weight, and the     *)
(* choice of a pair of RLOCs from the vectors of two mappings               *)
(* (fwd_policies/flow_balancing).                                           *)
(*                                                                          *)
(* A mapping is the sequence of its locators, in the order of its locator   *)
(* lists.  A locator is a record; its afi is the family of the address that *)
(* fb_lisp_addr_get_fwd_ip_addr finds in it, 0 when there is none.          *)
EXTENDS Naturals, Sequences

UP == "UP"
DOWN == "DOWN"
AF_INET == 4
AF_INET6 == 6
UNUSED_RLOC_PRIORITY == 255

-----------------------------------------------------------------------------
\* Weights are of a byte.
Weights == 0 .. 255

\* The loop of highest_common_factor, for its variables b and a.
euclid[b \in Weights] == [a \in Weights |-> IF b = 0 THEN a ELSE euclid[a % b][b]]

\* Its exchange of a and b when a < b leaves both as they are.
highest_common_factor(a, b) == IF a = 0 THEN b ELSE euclid[b][a]

\* The variable of a loop over a list after each of its turns.
Turns(turn(_, _), start, list) ==
    LET value[n \in 0 .. Len(list)] ==
            IF n = 0 THEN start ELSE turn(value[n - 1], list[n])
    IN  value

After(turn(_, _), start, list) == Turns(turn, start, list)[Len(list)]

total_weight(locators) == After(LAMBDA weight, l : weight + l.weight, 0, locators)

tmp_hcf(locators) ==
    After(LAMBDA h, l : highest_common_factor(h, l.weight), Head(locators).weight, locators)

get_hcf_locators_weight(locators) ==
    [total |-> total_weight(locators), hcf |-> tmp_hcf(locators)]

\* A turn of its loop: the usable locators of the best priority so far.
select_locator(best, l) ==
    IF l.state = DOWN \/ l.priority = UNUSED_RLOC_PRIORITY \/ l.priority > best.priority THEN best
    ELSE IF l.priority = best.priority THEN [best EXCEPT !.locators = Append(@, l)]
    ELSE [priority |-> l.priority, locators |-> <<l>>]

select_best_priority_locators(loct_list) ==
    After(select_locator, [priority |-> UNUSED_RLOC_PRIORITY, locators |-> <<>>], loct_list)

-----------------------------------------------------------------------------
\* A vector of the code is a pointer and a length; NoVector is the null one.
NoVector == [null |-> TRUE, length |-> 0, cells |-> <<>>]

\* The positions of a locator in the vector.
used_pos(l, total, hcf) == IF total # 0 THEN l.weight \div hcf ELSE 1

fill_vector(locators, total, hcf) ==
    After(LAMBDA cells, l : cells \o [p \in 1 .. used_pos(l, total, hcf) |-> l], <<>>, locators)

set_balancing_vector(locators, total, hcf) ==
    [null |-> FALSE,
     length |-> IF total # 0 THEN total \div hcf ELSE Len(locators),
     cells |-> fill_vector(locators, total, hcf)]

\* glist_add puts each locator in front of those before it.
fb_locators_classify_in_4_6(map, afi) ==
    After(LAMBDA list, l : IF l.afi = afi THEN <<l>> \o list ELSE list, <<>>, map)

balancing_vectors_calculate(map) ==
    LET best == [afi \in {AF_INET, AF_INET6} |->
                    select_best_priority_locators(
                        fb_locators_classify_in_4_6(map, afi))]
        weights(afi) == get_hcf_locators_weight(best[afi].locators)
        family(afi) ==
            IF best[afi].priority = UNUSED_RLOC_PRIORITY THEN NoVector
            ELSE set_balancing_vector(best[afi].locators, weights(afi).total,
                                      weights(afi).hcf)
        v4 == family(AF_INET)
        v6 == family(AF_INET6)
        mixed ==
            IF v4.null \/ v6.null THEN NoVector
            ELSE IF best[AF_INET].priority < best[AF_INET6].priority THEN v4
            ELSE IF best[AF_INET].priority > best[AF_INET6].priority THEN v6
            ELSE set_balancing_vector(
                    best[AF_INET].locators \o best[AF_INET6].locators,
                    weights(AF_INET).total + weights(AF_INET6).total,
                    highest_common_factor(weights(AF_INET).hcf,
                                          weights(AF_INET6).hcf))
    IN  [v4 |-> v4, v6 |-> v6, mixed |-> mixed]

-----------------------------------------------------------------------------
\* No forwarding entry: the packet is sent as it is.
Native == <<>>

At(vector, hash) == vector.cells[(hash % vector.length) + 1]

\* Any source vector is taken, and the destination must have one too.
fb_get_fw_entryAny(src_blv, dst_blv, hash) ==
    LET src_loc_vec ==
            IF ~src_blv.mixed.null THEN src_blv.mixed
            ELSE IF ~src_blv.v6.null THEN src_blv.v6
            ELSE src_blv.v4
        src_loct == At(src_loc_vec, hash)
        dst_loc_vec == IF src_loct.afi = AF_INET THEN dst_blv.v4 ELSE dst_blv.v6
    IN  IF src_loc_vec.null \/ dst_loc_vec.null THEN Native
        ELSE <<src_loct, At(dst_loc_vec, hash)>>

\* The destination is taken from its own mixed vector.
fb_get_fw_entryMixed(src_blv, dst_blv, hash) ==
    LET common(src, dst) == ~src.null /\ ~dst.null
    IN  IF common(src_blv.mixed, dst_blv.mixed) THEN <<At(src_blv.mixed, hash), At(dst_blv.mixed, hash)>>
        ELSE IF common(src_blv.v6, dst_blv.v6) THEN <<At(src_blv.v6, hash), At(dst_blv.v6, hash)>>
        ELSE IF common(src_blv.v4, dst_blv.v4) THEN <<At(src_blv.v4, hash), At(dst_blv.v4, hash)>>
        ELSE Native

\* The RLOCs of a flow, from the vectors of its source and destination: the
\* family of the source RLOC decides the vector of the destination.
fb_get_fw_entry(src_blv, dst_blv, hash) ==
    LET common(src, dst) == ~src.null /\ ~dst.null
        src_loc_vec == IF common(src_blv.mixed, dst_blv.mixed) THEN src_blv.mixed
                       ELSE IF common(src_blv.v6, dst_blv.v6) THEN src_blv.v6
                       ELSE IF common(src_blv.v4, dst_blv.v4) THEN src_blv.v4
                       ELSE NoVector
        src_loct == At(src_loc_vec, hash)
        dst_loc_vec == IF src_loct.afi = AF_INET THEN dst_blv.v4 ELSE dst_blv.v6
    IN  IF src_loc_vec.null THEN Native
        ELSE <<src_loct, At(dst_loc_vec, hash)>>

=============================================================================
