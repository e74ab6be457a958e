------------------------------ MODULE TupleTable ------------------------------
(***************************************************************************)
(* The table in which the data plane keeps the decision for each flow      *)
(* (lib/ttable.c): a hash table with open addressing (elibs/khash) from    *)
(* the 5-tuple of the flow to a node, and a list of the nodes, the most    *)
(* recently used first, that says which to drop when the table is full.    *)
(* Two tuples are the same key when their addresses and ports are          *)
(* (pkt_tuple_cmp); the hash is also that of the protocol.                 *)
(***************************************************************************)
EXTENDS Integers, Sequences, FiniteSets, Bitwise
LOCAL INSTANCE SequencesExt
LOCAL INSTANCE FiniteSetsExt

CONSTANTS
    TIMEOUT, NEGATIVE_TIMEOUT,   \* in ticks
    MAX_SIZE, OLD_ENTRIES,
    Tuples,      \* 5-tuples: records [ends, protocol]
    Hash,        \* Hash[t]: hashword of the words of the 5-tuple t
    Sizes,       \* the numbers of buckets the hash table may come to
    Nodes,       \* the memory of the nodes
    NULL

ASSUME TupleTableAssumption ==
    /\ {TIMEOUT, NEGATIVE_TIMEOUT, MAX_SIZE, OLD_ENTRIES} \subseteq Nat
    /\ NEGATIVE_TIMEOUT < TIMEOUT
    /\ 0 < OLD_ENTRIES /\ OLD_ENTRIES <= MAX_SIZE
    /\ Hash \in [Tuples -> Nat]

pkt_tuple_hash(t) == Hash[t]

pkt_tuple_cmp(t1, t2) == t1.ends = t2.ends

-----------------------------------------------------------------------------
(* The hash table: buckets 0 .. n_buckets - 1, a power of 2.  size counts   *)
(* the live buckets and n_occupied those that are not empty.                *)

Bucket(flag) == [flag |-> flag, key |-> NULL, val |-> NULL]

kh_init == [n_buckets |-> 0, size |-> 0, n_occupied |-> 0, bucket |-> <<>>]

\* n_buckets * __ac_HASH_UPPER + 0.5
upper_bound(n) == (77 * n + 50) \div 100

\* The distance between the buckets of the search for a key with hash k.
ac_inc == [k \in {Hash[t] : t \in Tuples}, mask \in {n - 1 : n \in Sizes} |->
              (((k \div 8) ^^ (k * 8)) | 1) & mask]

\* The bucket at step j of the search for a key with hash k.
Step(k, n, j) == (k + j * ac_inc[k, n - 1]) % n

\* The buckets that the search for key passes, in order.
Probe(h, key) ==
    [j \in 0 .. h.n_buckets - 1 |-> Step(pkt_tuple_hash(key), h.n_buckets, j)]

\* The steps at which the search ends: at an empty bucket or the key.
Stops(h, key, probe) ==
    {j \in DOMAIN probe :
        LET b == h.bucket[probe[j]]
        IN  b.flag = "empty" \/ (b.flag = "live" /\ pkt_tuple_cmp(b.key, key))}

Found(h, probe, stops) == stops # {} /\ h.bucket[probe[Min(stops)]].flag = "live"

\* The bucket of the key, or n_buckets.
kh_get(h, key) ==
    LET at(probe, stops) == IF Found(h, probe, stops) THEN probe[Min(stops)] ELSE h.n_buckets
        get(probe) == at(probe, Stops(h, key, probe))
    IN  get(Probe(h, key))

\* The pair of key and value moves to the first free bucket of the new table
\* and what the old table still has in that place moves on.
RECURSIVE Place(_, _, _)
Place(w, pair, n) ==
    LET k == pkt_tuple_hash(pair.key)
        next(i) == [w EXCEPT !.placed = @ \cup {i}, !.left = @ \ {i}, !.bucket[i] = pair]
        place(i) == IF i \in w.left THEN Place(next(i), w.bucket[i], n) ELSE next(i)
        steps == [j \in 0 .. n - 1 |-> Step(k, n, j)]
    IN  place(steps[Min({j \in DOMAIN steps : steps[j] \notin w.placed})])

RECURSIVE Rehash(_, _, _)
Rehash(w, j, n) ==
    IF w.left = {} THEN w
    ELSE Rehash(IF j \notin w.left THEN w
                ELSE Place([w EXCEPT !.left = @ \ {j}], w.bucket[j], n), j + 1, n)

\* n is the new number of buckets, rounded up.
kh_resize(h, n) ==
    LET live == {i \in 0 .. h.n_buckets - 1 : h.bucket[i].flag = "live"}
        both == [i \in 0 .. n - 1 |->
                    IF i < h.n_buckets THEN h.bucket[i] ELSE Bucket("empty")]
        renewed(done) == [i \in 0 .. n - 1 |->
                             IF i \in done.placed THEN done.bucket[i] ELSE Bucket("empty")]
    IN  IF h.size >= upper_bound(n) THEN h
        ELSE [n_buckets |-> n, size |-> h.size, n_occupied |-> h.size,
              bucket |-> renewed(Rehash([left |-> live, placed |-> {}, bucket |-> both], 0, n))]

\* A full table is cleared of its deleted buckets or doubled.
MakeRoom(h) ==
    IF h.n_occupied < upper_bound(h.n_buckets) THEN h
    ELSE kh_resize(h, IF h.n_buckets > 2 * h.size THEN h.n_buckets
                      ELSE Max({4, 2 * h.n_buckets}))

\* A new key takes the last deleted bucket passed, or the empty one found.
PutAt(h, probe, stops) ==
    LET passed == IF stops = {} THEN DOMAIN probe ELSE 0 .. Min(stops) - 1
        deleted == {j \in passed : h.bucket[probe[j]].flag = "del"}
    IN  IF Found(h, probe, stops) \/ deleted = {} THEN probe[Min(stops)]
        ELSE probe[Max(deleted)]

\* A bucket that has the key keeps the one it has.
Put(h, x, key, val) ==
    IF h.bucket[x].flag = "live" THEN [h EXCEPT !.bucket[x].val = val]
    ELSE [h EXCEPT !.bucket[x] = [flag |-> "live", key |-> key, val |-> val], !.size = @ + 1,
                   !.n_occupied = IF h.bucket[x].flag = "empty" THEN @ + 1 ELSE @]

kh_put(h0, key, val) ==
    LET search(h, probe) == Put(h, PutAt(h, probe, Stops(h, key, probe)), key, val)
        put(h) == search(h, Probe(h, key))
    IN  put(MakeRoom(h0))

kh_del(h, x) == [h EXCEPT !.bucket[x] = Bucket("del"), !.size = @ - 1]

-----------------------------------------------------------------------------
(* The table: the hash table, the list of nodes and the nodes themselves,   *)
(* each with its tuple, its forwarding information and its age.             *)

ttable_init == [htable |-> kh_init, list |-> <<>>, node |-> [n \in Nodes |-> NULL]]

Live(tt) == {x \in 0 .. tt.htable.n_buckets - 1 : tt.htable.bucket[x].flag = "live"}

\* The list does not know of the node any more, the table still does.
ttable_remove_with_khiterKept(tt, x) ==
    LET n == tt.htable.bucket[x].val
    IN  [tt EXCEPT !.list = SelectSeq(@, LAMBDA m : m # n), !.node[n] = NULL]

ttable_remove_with_khiter(tt, x) ==
    LET n == tt.htable.bucket[x].val
    IN  [htable |-> kh_del(tt.htable, x),
         list   |-> SelectSeq(tt.list, LAMBDA m : m # n),
         node   |-> [tt.node EXCEPT ![n] = NULL]]

ttable_remove(tt, tpl) ==
    LET remove(x) == IF x = tt.htable.n_buckets THEN tt ELSE ttable_remove_with_khiter(tt, x)
    IN  remove(kh_get(tt.htable, tpl))

tnode_expired(node) == node.age > TIMEOUT

RemoveExpired(tt) ==
    FoldSet(LAMBDA x, t : ttable_remove_with_khiter(t, x), tt,
            {x \in Live(tt) : tnode_expired(tt.node[tt.htable.bucket[x].val])})

\* The node at the back of the list is looked up by its tuple and removed.
RECURSIVE RemoveOld(_, _)
RemoveOld(tt, to_remove) ==
    IF to_remove <= 0 THEN tt
    ELSE RemoveOld(ttable_remove(tt, tt.node[Last(tt.list)].tpl), to_remove - 1)

\* Only the expired nodes are removed.
ReduceExpired(tt) == IF tt.htable.size < MAX_SIZE THEN tt ELSE RemoveExpired(tt)

\* What ttable_insert does first in a table that is full.
Reduce(tt) ==
    LET reduce(without) ==
            RemoveOld(without, OLD_ENTRIES - (tt.htable.size - without.htable.size))
    IN  IF tt.htable.size < MAX_SIZE THEN tt ELSE reduce(RemoveExpired(tt))

Free(tt) == {n \in Nodes : tt.node[n] = NULL}

ttable_insert(tt, tpl, fi) ==
    LET insert(t, n) ==
            [htable |-> kh_put(t.htable, tpl, n),
             list   |-> <<n>> \o t.list,
             node   |-> [t.node EXCEPT ![n] = [tpl |-> tpl, fi |-> fi, age |-> 0]]]
        reduced(t) == insert(t, CHOOSE n \in Free(t) : TRUE)
    IN  reduced(Reduce(tt))

\* The node of bucket x becomes the first of the list.
UseNode(tt, x) ==
    LET n == tt.htable.bucket[x].val
    IN  [tt |-> [tt EXCEPT !.list = <<n>> \o SelectSeq(@, LAMBDA m : m # n)],
         fi |-> tt.node[n].fi]

\* A node is used whatever its age.
ttable_lookupStale(tt, tpl) ==
    LET use(x) == IF x = tt.htable.n_buckets THEN [tt |-> tt, fi |-> NULL] ELSE UseNode(tt, x)
    IN  use(kh_get(tt.htable, tpl))

\* A node that is found is used, unless it is too old: then it is removed.
ttable_lookup(tt, tpl) ==
    LET expired(node) == node.age > (IF node.fi.temporal THEN NEGATIVE_TIMEOUT ELSE TIMEOUT)
        use(x) == IF x = tt.htable.n_buckets THEN [tt |-> tt, fi |-> NULL]
                  ELSE IF expired(tt.node[tt.htable.bucket[x].val])
                    THEN [tt |-> ttable_remove_with_khiter(tt, x), fi |-> NULL]
                  ELSE UseNode(tt, x)
    IN  use(kh_get(tt.htable, tpl))

-----------------------------------------------------------------------------
\* What the table is compared with: the list has each node of the table once
\* and no other, a bucket has the tuple of its node, and each tuple is found
\* where it is.
Consistent(tt) ==
    LET h == tt.htable
    IN  /\ {h.bucket[x].val : x \in Live(tt)} = {tt.list[k] : k \in DOMAIN tt.list}
        /\ Cardinality(Live(tt)) = h.size /\ Len(tt.list) = h.size
        /\ \A x \in Live(tt) :
              /\ tt.node[h.bucket[x].val] # NULL
              /\ tt.node[h.bucket[x].val].tpl = h.bucket[x].key
              /\ kh_get(h, h.bucket[x].key) = x

=============================================================================
