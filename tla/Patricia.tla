------------------------------ MODULE Patricia ------------------------------
(***************************************************************************)
(* The Patricia trie of elibs/patricia/patricia.c, on which the mapping    *)
(* database keeps its prefixes.                                            *)
(*                                                                         *)
(* A tree is a record [head, maxbits, node, num_active_node].  node is the *)
(* heap of the tree: a function from the allocated pointers to the nodes   *)
(* [bit, prefix, data, l, r, parent].  A glue node has no prefix.  An      *)
(* address is the sequence of its bits, most significant first, and a      *)
(* prefix the record [addr, bitlen]: host bits of addr may be set.         *)
(***************************************************************************)
EXTENDS Naturals, Sequences, FiniteSets, TLC
LOCAL INSTANCE SequencesExt

CONSTANT NULL          \* the null pointer

Bit == {0, 1}

\* BIT_TEST (addr[bit >> 3], 0x80 >> (bit & 0x07)): bit is counted from 0
BIT_TEST(addr, bit) == addr[bit + 1] = 1

\* The first mask bits of two addresses are the same.
comp_with_mask(addr, dest, mask) ==
    SubSeq(addr, 1, mask) = SubSeq(dest, 1, mask)

New_Prefix(addr, bitlen) == [addr |-> addr, bitlen |-> bitlen]

New_Patricia(maxbits) ==
    [head |-> NULL, maxbits |-> maxbits, node |-> <<>>, num_active_node |-> 0]

\* The pointer that the next allocation returns: the lowest that is free.
Alloc(t, k) ==
    LET used == DOMAIN t.node
        free == {p \in 1 .. Cardinality(used) + 2 : p \notin used}
    IN  CHOOSE p \in free : Cardinality({q \in free : q < p}) = k

Child(t, n, addr) ==
    IF BIT_TEST(addr, t.node[n].bit) THEN t.node[n].r ELSE t.node[n].l

-----------------------------------------------------------------------------
(* Lookups *)

\* The nodes that the loop of the two searches visits from node n: it goes
\* down while the node's bit is below bitlen, and ends on a node at or below
\* that depth or on NULL.
RECURSIVE SearchPath(_, _, _, _)
SearchPath(t, n, addr, bitlen) ==
    IF n = NULL \/ (n # NULL /\ t.node[n].bit >= bitlen)
      THEN <<n>>
      ELSE <<n>> \o SearchPath(t, Child(t, n, addr), addr, bitlen)

patricia_search_exact(t, prefix) ==
    IF t.head = NULL THEN NULL
    ELSE LET n == Last(SearchPath(t, t.head, prefix.addr, prefix.bitlen))
         IN  IF /\ n # NULL
                /\ t.node[n].bit = prefix.bitlen
                /\ t.node[n].prefix # NULL
                /\ comp_with_mask(t.node[n].prefix.addr, prefix.addr, prefix.bitlen)
               THEN n
               ELSE NULL

\* Faulty: the deepest prefix of the stack is taken without comparing it.
patricia_search_best2Unchecked(t, prefix, inclusive) ==
    LET path  == SearchPath(t, t.head, prefix.addr, prefix.bitlen)
        stack == SelectSeq(path, LAMBDA n : n # NULL /\ t.node[n].prefix # NULL)
    IN  IF t.head = NULL THEN NULL ELSE IF stack = <<>> THEN NULL ELSE Last(stack)

\* The stack of the prefixes met on the way down is popped until one of them
\* contains the address.
patricia_search_best2(t, prefix, inclusive) ==
    IF t.head = NULL THEN NULL
    ELSE LET path    == SearchPath(t, t.head, prefix.addr, prefix.bitlen)
             visited == IF inclusive THEN path ELSE Front(path)
             stack   == SelectSeq(visited,
                           LAMBDA n : n # NULL /\ t.node[n].prefix # NULL)
             matches == SelectSeq(stack,
                           LAMBDA n : /\ t.node[n].prefix.bitlen <= prefix.bitlen
                                      /\ comp_with_mask(t.node[n].prefix.addr,
                                             prefix.addr, t.node[n].prefix.bitlen))
         IN  IF matches = <<>> THEN NULL ELSE Last(matches)

patricia_search_best(t, prefix) == patricia_search_best2(t, prefix, TRUE)

-----------------------------------------------------------------------------
(* Insertion *)

\* patricia_lookup goes down to a node with a prefix that is deep enough, or
\* as far as there are children.
RECURSIVE LookupDown(_, _, _)
LookupDown(t, n, prefix) ==
    LET next == IF /\ t.node[n].bit < t.maxbits
                   /\ BIT_TEST(prefix.addr, t.node[n].bit)
                  THEN t.node[n].r
                  ELSE t.node[n].l
    IN  IF \/ t.node[n].bit >= prefix.bitlen /\ t.node[n].prefix # NULL
           \/ next = NULL
          THEN n
          ELSE LookupDown(t, next, prefix)

\* The first bit in which the two addresses differ, at most limit.
DifferBit(addr, test_addr, limit) ==
    LET differ == {b \in 0 .. limit - 1 : BIT_TEST(addr, b) # BIT_TEST(test_addr, b)}
    IN  IF differ = {} THEN limit
        ELSE CHOOSE b \in differ : \A c \in differ : b <= c

\* Up again, to the highest node whose parent branches before differ_bit.
RECURSIVE LookupUp(_, _, _)
LookupUp(t, n, differ_bit) ==
    LET parent == t.node[n].parent
    IN  IF parent # NULL /\ (parent # NULL => t.node[parent].bit >= differ_bit)
          THEN LookupUp(t, parent, differ_bit)
          ELSE n

Node(bit, prefix, l, r, parent) ==
    [bit |-> bit, prefix |-> prefix, data |-> NULL, l |-> l, r |-> r, parent |-> parent]

\* Makes new the child of parent in the place of old.
Relink(t, parent, old, new) ==
    IF parent = NULL THEN [t EXCEPT !.head = new]
    ELSE IF t.node[parent].r = old THEN [t EXCEPT !.node[parent].r = new]
    ELSE [t EXCEPT !.node[parent].l = new]

GoesRight(t, addr, bit) == bit < t.maxbits /\ (bit < t.maxbits => BIT_TEST(addr, bit))

Added(t, nodes) ==
    [t EXCEPT !.num_active_node = @ + Cardinality(DOMAIN nodes), !.node = @ @@ nodes]

AddHead(t, prefix, new) ==
    [node |-> new,
     tree |-> [Added(t, new :> Node(prefix.bitlen, prefix, NULL, NULL, NULL)) EXCEPT !.head = new]]

\* A glue node gets the prefix.
FoundNode(t, n, prefix) ==
    [node |-> n,
     tree |-> IF t.node[n].prefix # NULL THEN t ELSE [t EXCEPT !.node[n].prefix = prefix]]

\* The new node becomes a child of n.
AddChild(t, n, prefix, new) ==
    LET side == IF GoesRight(t, prefix.addr, t.node[n].bit) THEN "r" ELSE "l"
    IN  [node |-> new,
         tree |-> [Added(t, new :> Node(prefix.bitlen, prefix, NULL, NULL, n))
                     EXCEPT !.node[n][side] = new]]

\* above takes the place of n in the tree and becomes the parent of n.
PutAbove(t, n, above) ==
    [Relink(t, t.node[n].parent, n, above) EXCEPT !.node[n].parent = above]

\* The new node becomes the parent of n: test_addr is the address of a prefix
\* below n.
AddParent(t, n, prefix, test_addr, new) ==
    LET right == GoesRight(t, test_addr, prefix.bitlen)
    IN  [node |-> new,
         tree |-> PutAbove(
                    Added(t, new :> Node(prefix.bitlen, prefix, IF right THEN NULL ELSE n,
                                         IF right THEN n ELSE NULL, t.node[n].parent)),
                    n, new)]

\* A glue node becomes the parent of n and of the new node.
AddGlue(t, n, prefix, differ_bit, new, glue) ==
    LET right == GoesRight(t, prefix.addr, differ_bit)
    IN  [node |-> new,
         tree |-> PutAbove(
                    Added(t, new :> Node(prefix.bitlen, prefix, NULL, NULL, glue)
                               @@ glue :> Node(differ_bit, NULL, IF right THEN n ELSE new,
                                               IF right THEN new ELSE n, t.node[n].parent)),
                    n, glue)]

\* n is the highest node that branches at or below differ_bit.
PlaceAt(t, n, prefix, test_addr, differ_bit, new, glue) ==
    IF differ_bit = prefix.bitlen /\ t.node[n].bit = prefix.bitlen THEN FoundNode(t, n, prefix)
    ELSE IF t.node[n].bit = differ_bit THEN AddChild(t, n, prefix, new)
    ELSE IF prefix.bitlen = differ_bit THEN AddParent(t, n, prefix, test_addr, new)
    ELSE AddGlue(t, n, prefix, differ_bit, new, glue)

\* down is the node that the descent ends on.
PlaceFrom(t, down, prefix) ==
    LET test_addr == t.node[down].prefix.addr
        check_bit == IF t.node[down].bit < prefix.bitlen THEN t.node[down].bit ELSE prefix.bitlen
        place(differ_bit) == PlaceAt(t, LookupUp(t, down, differ_bit), prefix, test_addr,
                                     differ_bit, Alloc(t, 0), Alloc(t, 1))
    IN  place(DifferBit(prefix.addr, test_addr, check_bit))

\* The node of the prefix and the tree that holds it, the node created when it
\* is not there.
patricia_lookup(t, prefix) ==
    IF t.head = NULL THEN AddHead(t, prefix, Alloc(t, 0))
    ELSE PlaceFrom(t, LookupDown(t, t.head, prefix), prefix)

-----------------------------------------------------------------------------
(* Removal *)

Delete(t, n) ==
    [t EXCEPT !.node = [p \in DOMAIN t.node \ {n} |-> t.node[p]],
              !.num_active_node = @ - 1]

\* Faulty: a glue parent stays with one child.
RemoveLeafKeepGlue(t, n) == Delete(Relink(t, t.node[n].parent, n, NULL), n)

\* The node is deleted and its only child takes its place.
Splice(t, n, child) ==
    Delete([Relink(t, t.node[n].parent, n, child) EXCEPT !.node[child].parent = t.node[n].parent], n)

\* A leaf is deleted, and its parent with it when that is a glue node left
\* with one child.
RemoveLeaf(t, n) ==
    LET parent == t.node[n].parent
        cut    == Delete(Relink(t, parent, n, NULL), n)
    IN  IF parent = NULL \/ t.node[parent].prefix # NULL THEN cut
        ELSE Splice(cut, parent, IF t.node[parent].r = n THEN t.node[parent].l
                                 ELSE t.node[parent].r)

patricia_remove(t, n) ==
    LET l == t.node[n].l
        r == t.node[n].r
    IN  IF r # NULL /\ l # NULL
          THEN [t EXCEPT !.node[n].prefix = NULL, !.node[n].data = NULL]
        ELSE IF r = NULL /\ l = NULL THEN RemoveLeaf(t, n)
        ELSE Splice(t, n, IF r # NULL THEN r ELSE l)

-----------------------------------------------------------------------------
(* Walks *)

\* PATRICIA_WALK: the nodes with a prefix, a node before its left subtree and
\* that before its right one.
RECURSIVE WalkFrom(_, _)
WalkFrom(t, n) ==
    IF n = NULL THEN <<>>
    ELSE (IF t.node[n].prefix # NULL THEN <<n>> ELSE <<>>)
         \o WalkFrom(t, t.node[n].l) \o WalkFrom(t, t.node[n].r)

PATRICIA_WALK(t) == WalkFrom(t, t.head)

\* The data that Clear_Patricia hands to its function, in that order: of every
\* node with a prefix that has data.
Clear_Patricia(t) ==
    LET nodes == SelectSeq(PATRICIA_WALK(t), LAMBDA n : t.node[n].data # NULL)
    IN  [i \in DOMAIN nodes |-> t.node[nodes[i]].data]

-----------------------------------------------------------------------------
(* Well-formed trees *)

\* The nodes above n, n included, from the root.
RECURSIVE PathFromRoot(_, _)
PathFromRoot(t, n) ==
    IF n = NULL THEN <<>> ELSE Append(PathFromRoot(t, t.node[n].parent), n)

\* The asserts of the code as one predicate: every allocated node is reached
\* from the head through parent and child pointers that agree, bits grow
\* downwards, a glue node has two children and no data, and the prefixes
\* below a node share the bits that lead to it.
WellFormed(t) ==
    /\ t.num_active_node = Cardinality(DOMAIN t.node)
    /\ t.head = NULL <=> DOMAIN t.node = {}
    /\ \A n \in DOMAIN t.node :
         LET node == t.node[n] IN
         /\ node.parent = NULL <=> t.head = n
         /\ node.parent # NULL =>
              /\ n \in {t.node[node.parent].l, t.node[node.parent].r}
              /\ t.node[node.parent].bit < node.bit
         /\ \A c \in {node.l, node.r} \ {NULL} : c \in DOMAIN t.node /\ t.node[c].parent = n
         /\ node.l = node.r => node.l = NULL
         /\ node.prefix = NULL => node.l # NULL /\ node.r # NULL /\ node.data = NULL
         /\ node.prefix # NULL => node.prefix.bitlen = node.bit
    /\ \A n \in DOMAIN t.node : t.node[n].prefix # NULL =>
         LET path == PathFromRoot(t, n) IN
         \A i \in 1 .. Len(path) - 1 :
            path[i + 1] = Child(t, path[i], t.node[n].prefix.addr)
=============================================================================
