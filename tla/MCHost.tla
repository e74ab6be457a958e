------------------------------- MODULE MCHost -------------------------------
(* Two interfaces, one family each: the first has an address and a gateway, *)
(* one of them is up.  The next index that the kernel gives exceeds a byte.  *)
EXTENDS Host

CONSTANTS i1, i2, a1, a2, b1, g1, g2, e1, e2

MCInterfaceList == <<i1, i2>>
MCConfigured == {<<i1, "v4">>, <<i2, "v6">>}
MCAddrsOf == [afi \in Afis |-> IF afi = "v4" THEN {a1, a2} ELSE {b1}]
MCInitialAddresses ==
    {[p \in MCConfigured |-> IF p = <<i1, "v4">> THEN a1 ELSE NO_ADDR]}
MCKernelAddrs ==
    [p \in {i1, i2} \X Afis |-> CASE p = <<i1, "v4">> -> {a1, a2} [] p[2] = "v6" -> {b1} [] OTHER -> {}]
MCInitialLinks == {[i \in {i1, i2} |-> i = up] : up \in {i1, i2}}
MCInitialGateways ==
    {[p \in {i1, i2} \X Afis |-> IF p = <<i1, "v4">> THEN g1 ELSE NO_ADDR]}
MCGateways == [afi \in Afis |-> IF afi = "v4" THEN {g1, g2} ELSE {}]
MCEidAfi == [e \in {e1, e2} |-> "v4"]
MCConfiguredEids == [m \in Modes |-> IF m \in {"xTR", "MN"} THEN {e1} ELSE {}]
MCFirstIndex == [i \in {i1, i2} |-> IF i = i1 THEN 2 ELSE 3]
MCNextIndex == 258

=============================================================================
