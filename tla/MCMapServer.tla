---------------------------- MODULE MCMapServer ----------------------------
(* Instances of MapServer over addresses of two bits.  Site 0/1 accepts    *)
(* more specifics, site 2/1 does not.                                      *)
EXTENDS MapServer

CONSTANTS k1, k2, m4, m6, Flags

P(a, l) == [addr |-> a, plen |-> l]

MCPrefixes == {P(0, 0), P(0, 1), P(0, 2), P(1, 2), P(2, 1), P(2, 2), P(3, 2)}

MCConfigured == {P(0, 1), P(2, 1)}

MCMoreSpecifics == {P(0, 1)}

MCMerge == {P(2, 1)}

MCNone == {}

\* Static registrations outside of the configured sites and below one.
MCStatic == {P(0, 0), P(1, 2)}

MCKey == [c \in MCConfigured |-> IF c = P(0, 1) THEN k1 ELSE k2]

\* No key is an initial segment of another.
MCKeyPrefix == {<<k1, k1>>, <<k2, k2>>}

Rec(p, m) == [eid |-> p, mapping |-> m, parses |-> TRUE]

\* A record that cannot be parsed.
Garbled == [eid |-> P(0, 1), mapping |-> m4, parses |-> FALSE]

\* The records of the messages that arrive: one, as lispd sends them, or two
\* of different sites, of one site, of one prefix.
MCRecords ==
    {<<Rec(p, m)>> : p \in {P(0, 1), P(0, 2), P(2, 1), P(3, 2)}, m \in Mappings}
        \cup {<<Rec(P(0, 0), m4), Rec(P(0, 1), m4)>>,
              <<Rec(P(0, 1), m4), Rec(P(2, 1), m4)>>,
              <<Rec(P(3, 2), m4), Rec(P(2, 1), m6)>>,
              <<Rec(P(0, 2), m4), Rec(P(0, 2), m6)>>,
              <<Rec(P(0, 2), m6), Garbled>>,
              <<Rec(P(1, 2), m4)>>}

MCMessages ==
    {[records |-> r, key |-> k, proxy |-> f, want_map_notify |-> w] :
        r \in MCRecords, k \in Keys, f \in Flags, w \in Flags}

\* Registrations of a more specific prefix with the address of its site.
MCMessagesSameAddress ==
    {[records |-> <<Rec(p, m)>>, key |-> k2, proxy |-> FALSE, want_map_notify |-> TRUE] :
        p \in {P(2, 1), P(2, 2), P(3, 2)}, m \in Mappings}

=============================================================================
