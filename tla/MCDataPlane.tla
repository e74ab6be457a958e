----------------------------- MODULE MCDataPlane -----------------------------
(* Flows that meet in the buckets of a table of four.                       *)
EXTENDS DataPlane, TLC

CONSTANTS f1, f2, f3, f4, lisp, group, n1, n2, n3, n4, i1, i2, a1, a2, a3

Flow(ends, protocol) == [ends |-> ends, protocol |-> protocol]

MCHashOf(t) == CASE t.ends = f1 -> 5 [] t.ends = f2 -> 1 [] t.ends = f3 -> 9
                 [] t.ends = f4 -> 6 [] OTHER -> 0

MCTuples == {Flow(f1, "TCP"), Flow(f2, "UDP"), Flow(f3, "TCP"), Flow(lisp, "UDP"),
             Flow(group, "UDP")}
MCDevices == {<<"TUN", "xTR_MODE">>, <<"VPNAPI", "RTR_MODE">>}
MCMaxChanges == [TUN |-> 2, VPNAPI |-> 1]
MCHash == [t \in MCTuples |-> MCHashOf(t)]

\* Two flows between the same ends, of different protocols.
MCTwins == {Flow(f1, "TCP"), Flow(f1, "UDP"), Flow(f2, "UDP"), Flow(f3, "TCP"),
            Flow(f4, "TCP")}
MCTwinsHash == [t \in MCTwins |-> IF t = Flow(f1, "UDP") THEN 2 ELSE MCHashOf(t)]
MCNoChanges == [TUN |-> 0]
MCTun == {<<"TUN", "xTR_MODE">>}

\* ttable_insert takes any node that is free: free nodes are alike.
NodeSymmetry == Permutations(Nodes)

=============================================================================
