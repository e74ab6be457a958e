---------------------------- MODULE MCMappingDb -----------------------------
(***************************************************************************)
(* MappingDb for TLC: IPv4 addresses of three bits with prefixes that nest *)
(* and that split at every bit, one of them with host bits set; IPv6       *)
(* addresses of one bit; multicast EIDs whose sources and groups nest.     *)
(***************************************************************************)
EXTENDS MappingDb

CONSTANTS e1, e2, e3

MCMaxBits == (4 :> 3) @@ (6 :> 1)

Ippref(addr, plen) == [lafi |-> "IPPREF", afi |-> 4, addr |-> addr, plen |-> plen]

Mc(src, splen, grp, gplen) ==
    [lafi |-> "MC", afi |-> 4, src |-> src, splen |-> splen, grp |-> grp, gplen |-> gplen]

MCAddrs ==
    {Ippref(<<0, 0, 0>>, 0),
     Ippref(<<0, 1, 1>>, 1),
     Ippref(<<0, 0, 0>>, 2), Ippref(<<0, 1, 0>>, 2),
     Ippref(<<0, 1, 0>>, 3), Ippref(<<0, 0, 1>>, 3), Ippref(<<1, 1, 1>>, 3), Ippref(<<1, 0, 0>>, 1),
     [lafi |-> "IPPREF", afi |-> 6, addr |-> <<0>>, plen |-> 0],
     [lafi |-> "IP", afi |-> 4, addr |-> <<0, 1, 0>>],
     [lafi |-> "IID"],
     Mc(<<0, 0, 0>>, 1, <<1, 0, 0>>, 1),
     Mc(<<0, 0, 0>>, 1, <<1, 1, 0>>, 2),
     Mc(<<0, 1, 0>>, 2, <<1, 0, 0>>, 1)}

Symmetry == Permutations(Entries)
=============================================================================
