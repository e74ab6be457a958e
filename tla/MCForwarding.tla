----------------------------- MODULE MCForwarding -----------------------------
(* Mappings of up to three locators that differ in family, priority and     *)
(* weight.                                                                  *)
EXTENDS Forwarding

Loct(addr, afi, priority, weight) ==
    [addr |-> addr, afi |-> afi, priority |-> priority, weight |-> weight,
     state |-> UP]

v4(addr, priority, weight) == Loct(addr, AF_INET, priority, weight)
v6(addr, priority, weight) == Loct(addr, AF_INET6, priority, weight)

MCLocalMaps ==
    {<<v4(1, 1, 4), v4(2, 1, 6), v6(3, 1, 10)>>,
     <<v4(1, 1, 0), v6(2, 1, 0)>>,
     <<v4(1, 2, 3), v4(2, 1, 0), v6(3, 2, 9)>>,
     <<v4(1, 1, 6), v6(2, UNUSED_RLOC_PRIORITY, 5), v6(3, 3, 1)>>,
     <<v6(1, 1, 2), v6(2, 1, 3)>>}

\* The last locator has no address the policy can send to.
MCRemoteMaps ==
    {<<>>,
     <<v4(4, 1, 3), v6(5, 2, 2)>>,
     <<v6(5, 1, 9), v6(6, 1, 6), v4(7, 1, 0)>>,
     <<v4(4, 1, 1), Loct(8, 0, 1, 1)>>}

MCPetrMaps == {<<>>, <<v4(9, 1, 1)>>}

=============================================================================
