---------------------------- MODULE PrefixTable -----------------------------
(***************************************************************************)
(* What a mapping database promises its users (the map cache, the local    *)
(* mappings and the site databases of the map server): a table from keys   *)
(* to entries in which a key is added once, removed, and looked up exactly *)
(* or by longest match.                                                    *)
(*                                                                         *)
(* A key is [kind, afi, bits, grp]: the bits of an EID prefix, and for a   *)
(* multicast key the bits of its source prefix and those of its group.     *)
(***************************************************************************)
EXTENDS Naturals, Sequences, FiniteSets, TLC
LOCAL INSTANCE SequencesExt

CONSTANT NULL          \* no entry

VARIABLES table,       \* function from the keys present to their entries
          expected     \* what the last addition or removal has to return

Longest(keys) == CHOOSE k \in keys : \A o \in keys : Len(o.bits) <= Len(k.bits)

LongestGroup(keys) == CHOOSE k \in keys : \A o \in keys : Len(o.grp) <= Len(k.grp)

\* The keys of table t, of the kind and family of k, whose prefix covers k's.
Covering(t, k) == {o \in DOMAIN t : /\ o.kind = k.kind /\ o.afi = k.afi
                                    /\ IsPrefix(o.bits, k.bits)}

\* A unicast key is answered by the longest prefix that covers it.  A
\* multicast one by the longest group among those of the longest source.
Best(t, k) ==
    LET sources == Covering(t, k)
        source  == Longest(sources).bits
        groups  == {o \in sources : o.bits = source /\ IsPrefix(o.grp, k.grp)}
    IN  IF sources = {} THEN NULL
        ELSE IF k.kind = "ip" THEN t[Longest(sources)]
        ELSE IF groups = {} THEN NULL ELSE t[LongestGroup(groups)]

\* An exact lookup asks for the very prefix; of a multicast key only the
\* source has to be that prefix.
Exact(t, k) ==
    LET groups == {o \in Covering(t, k) : o.bits = k.bits /\ IsPrefix(o.grp, k.grp)}
    IN  IF k.kind = "ip" THEN (IF k \in DOMAIN t THEN t[k] ELSE NULL)
        ELSE IF groups = {} THEN NULL ELSE t[LongestGroup(groups)]

Init == table = <<>> /\ expected = NULL

\* The first entry of a key stays.
Add(k, d) ==
    /\ table' = IF k \in DOMAIN table THEN table ELSE table @@ k :> d
    /\ expected' = "GOOD"

Refuse == expected' = "BAD" /\ UNCHANGED table

Take(k) ==
    /\ table' = [o \in DOMAIN table \ {k} |-> table[o]]
    /\ expected' = IF k \in DOMAIN table THEN table[k] ELSE NULL

Clear == table' = <<>> /\ expected' = NULL
=============================================================================
