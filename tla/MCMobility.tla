----------------------------- MODULE MCMobility -----------------------------
(* One interface with an IPv4 locator and one with a locator of each       *)
(* family.                                                                 *)
EXTENDS Mobility

CONSTANTS i1, i2, a1, a2, b1, m1, s1

MCInterfaceList == <<i1, i2>>
MCConfigured == {<<i1, "v4">>, <<i2, "v4">>, <<i2, "v6">>}
MCAddrsOf == [afi \in Afis |-> IF afi = "v4" THEN {a1, a2} ELSE {b1}]
MCLocators == {<<m1, p[1], p[2]>> : p \in MCConfigured}
MCMapServerAfi == [s \in MapServers |-> "v4"]

Addressed(x, y, z) ==
    [p \in MCConfigured |-> IF p[1] = i1 THEN x ELSE IF p[2] = "v4" THEN y ELSE z]

\* The second interface is up or down when the program starts.
MCUniformAddresses == {Addressed(a1, a2, b1), Addressed(a1, NO_ADDR, NO_ADDR)}

ASSUME MCUniform == Uniform

=============================================================================
