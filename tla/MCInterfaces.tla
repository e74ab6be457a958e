---------------------------- MODULE MCInterfaces ----------------------------
(* Two interfaces with both families; the second has no address yet.       *)
EXTENDS Interfaces

CONSTANTS i1, i2, a1, a2, b1

MCInterfaceList == <<i1, i2>>
MCConfigured == {i1, i2} \X Afis
MCAddrsOf == [afi \in Afis |-> IF afi = "v4" THEN {a1, a2} ELSE {b1}]
MCInitialAddresses ==
    {[p \in MCConfigured |-> IF p = <<i1, "v4">> THEN a1 ELSE NO_ADDR]}

=============================================================================
