----------------------------- MODULE MCMapCache -----------------------------
(* Instances of MapCache for TLC: all hosts belong to one site.            *)
EXTENDS MapCache, TLC

CONSTANT s1

MCSites == {s1}

MCSiteOf == [h \in Hosts |-> s1]

Symmetry == Permutations(Mces) \cup Permutations(Timers) \cup Permutations(Nonces)
                \cup Permutations(Hosts)

=============================================================================
