-------------------------- MODULE ForwardingProofs --------------------------
(* Proofs about module Forwarding, for any mappings, priorities, weights and *)
(* hashes: the vectors are always those of the mappings, and the RLOCs of a  *)
(* flow are the best that both sides have.                                   *)
EXTENDS BalancingProofs

-----------------------------------------------------------------------------
(* The choice of the RLOCs.                                                 *)

\* x is of A and has the best priority of A.
BestOf(x, A) == x \in A /\ \A j \in A : x.priority <= j.priority

LEMMA AtServes ==
    ASSUME NEW v, NEW A, Serves(v, A), NEW hash \in Nat
    PROVE  BestOf(At(v, hash), A)
  <1>1. v.length \in Nat /\ v.length # 0
    BY Zenon DEF Serves
  <1>2. (hash % v.length) + 1 \in 1 .. v.length
    BY <1>1
  <1> QED
    BY <1>2, Zenon DEF Serves, At, BestOf

LEMMA Families == AF_INET # AF_INET6
  BY DEF AF_INET, AF_INET6

LEMMA CandidateFamily ==
    ASSUME NEW map, NEW l
    PROVE  /\ l \in Ip4(map) => l.afi = AF_INET
           /\ l \in Ip6(map) => l.afi = AF_INET6
           /\ l \in Candidates(map, {AF_INET, AF_INET6}) <=> l \in Ip4(map) \cup Ip6(map)
  BY Zenon DEF Ip4, Ip6, Candidates

LEMMA NullVectors ==
    ASSUME NEW b, NEW map, Vectors(b, map)
    PROVE  /\ (b.v4.null = TRUE /\ Ip4(map) = {}) \/ (b.v4.null = FALSE /\ Ip4(map) # {} /\ Serves(b.v4, Ip4(map)))
           /\ (b.v6.null = TRUE /\ Ip6(map) = {}) \/ (b.v6.null = FALSE /\ Ip6(map) # {} /\ Serves(b.v6, Ip6(map)))
           /\ \/ b.mixed.null = TRUE /\ (Ip4(map) = {} \/ Ip6(map) = {})
              \/ /\ b.mixed.null = FALSE /\ Ip4(map) # {} /\ Ip6(map) # {}
                 /\ Serves(b.mixed, Ip4(map) \cup Ip6(map))
  <1>1. NoVector.null = TRUE
    BY DEF NoVector
  <1> QED
    BY <1>1, Zenon DEF Vectors, ServesOrNone, Serves

\* The families that two mappings have in common.
Shared(s, d) == {afi \in {AF_INET, AF_INET6} : Candidates(s, {afi}) # {} /\ Candidates(d, {afi}) # {}}

\* The decision e for a flow from s to d.
Decided(e, s, d) ==
    \/ e = Native /\ Shared(s, d) = {}
    \/ \E x, y : /\ e = <<x, y>> /\ x.afi = y.afi
                 /\ BestOf(x, Candidates(s, Shared(s, d)))
                 /\ BestOf(y, Candidates(d, {x.afi}))

\* fb_get_fw_entry finds the best pair of RLOCs, and one if there is any.
LEMMA Decision ==
    ASSUME NEW s, NEW d, NEW b, NEW c, Vectors(b, s), Vectors(c, d), NEW hash \in Nat, NEW e,
           e = fb_get_fw_entry(b, c, hash)
    PROVE  Decided(e, s, d)
  <1>1. PICK b4, b6, bm, c4, c6, cm : /\ b4 = b.v4 /\ b6 = b.v6 /\ bm = b.mixed
                                      /\ c4 = c.v4 /\ c6 = c.v6 /\ cm = c.mixed
    BY Zenon
  <1>2. PICK s4, s6, d4, d6 : s4 = Ip4(s) /\ s6 = Ip6(s) /\ d4 = Ip4(d) /\ d6 = Ip6(d)
    BY Zenon
  <1>3. /\ (b4.null = TRUE /\ s4 = {}) \/ (b4.null = FALSE /\ s4 # {} /\ Serves(b4, s4))
        /\ (b6.null = TRUE /\ s6 = {}) \/ (b6.null = FALSE /\ s6 # {} /\ Serves(b6, s6))
        /\ \/ bm.null = TRUE /\ (s4 = {} \/ s6 = {})
           \/ bm.null = FALSE /\ s4 # {} /\ s6 # {} /\ Serves(bm, s4 \cup s6)
    BY <1>1, <1>2, NullVectors, Zenon
  <1>4. /\ (c4.null = TRUE /\ d4 = {}) \/ (c4.null = FALSE /\ d4 # {} /\ Serves(c4, d4))
        /\ (c6.null = TRUE /\ d6 = {}) \/ (c6.null = FALSE /\ d6 # {} /\ Serves(c6, d6))
        /\ \/ cm.null = TRUE /\ (d4 = {} \/ d6 = {})
           \/ cm.null = FALSE /\ d4 # {} /\ d6 # {} /\ Serves(cm, d4 \cup d6)
    BY <1>1, <1>2, NullVectors, Zenon
  <1>5. /\ AF_INET \in Shared(s, d) <=> s4 # {} /\ d4 # {}
        /\ AF_INET6 \in Shared(s, d) <=> s6 # {} /\ d6 # {}
        /\ Shared(s, d) \subseteq {AF_INET, AF_INET6}
    BY <1>2, Zenon DEF Shared, Ip4, Ip6
  <1>6. ASSUME NEW v, NEW x, x = At(v, hash), NEW A, Serves(v, A), A = Candidates(s, Shared(s, d)),
               v.null = FALSE, e = <<x, At(IF x.afi = AF_INET THEN c4 ELSE c6, hash)>>,
               \/ x.afi = AF_INET /\ d4 # {}
               \/ x.afi = AF_INET6 /\ d6 # {}
        PROVE  Decided(e, s, d)
    <2>1. BestOf(x, Candidates(s, Shared(s, d)))
      BY <1>6, AtServes, Zenon
    <2>2. CASE x.afi = AF_INET /\ d4 # {}
      <3>1. PICK y : y = At(c4, hash)
        BY Zenon
      <3>2. BestOf(y, d4)
        BY <1>4, <2>2, <3>1, AtServes, Zenon
      <3>3. y.afi = AF_INET
        BY <1>2, <3>2, CandidateFamily, Zenon DEF BestOf
      <3> QED
        BY <1>2, <1>6, <2>1, <2>2, <3>1, <3>2, <3>3, Zenon DEF Decided, Ip4
    <2>3. CASE x.afi = AF_INET6 /\ d6 # {}
      <3>1. PICK y : y = At(c6, hash)
        BY Zenon
      <3>2. BestOf(y, d6)
        BY <1>4, <2>3, <3>1, AtServes, Zenon
      <3>3. y.afi = AF_INET6
        BY <1>2, <3>2, CandidateFamily, Zenon DEF BestOf
      <3>4. e = <<x, y>>
        BY <1>6, <2>3, <3>1, Families, Zenon
      <3> QED
        BY <1>2, <2>1, <2>3, <3>2, <3>3, <3>4, Zenon DEF Decided, Ip6
    <2> QED
      BY <1>6, <2>2, <2>3, Zenon
  <1>7. CASE bm.null = FALSE /\ cm.null = FALSE
    <2>1. Shared(s, d) = {AF_INET, AF_INET6}
      BY <1>3, <1>4, <1>5, <1>7, Zenon
    <2>2. Candidates(s, Shared(s, d)) = s4 \cup s6
      BY <1>2, <2>1, CandidateFamily, Zenon
    <2>3. PICK x : x = At(bm, hash)
      BY Zenon
    <2>4. e = <<x, At(IF x.afi = AF_INET THEN c4 ELSE c6, hash)>>
      BY <1>1, <1>7, <2>3, Zenon DEF fb_get_fw_entry
    <2>5. Serves(bm, s4 \cup s6) /\ d4 # {} /\ d6 # {}
      BY <1>3, <1>4, <1>7, Zenon
    <2>6. x.afi = AF_INET \/ x.afi = AF_INET6
      <3>1. BestOf(x, s4 \cup s6)
        BY <2>3, <2>5, AtServes, Zenon
      <3>2. x \in s4 \/ x \in s6
        BY <3>1, Zenon DEF BestOf
      <3> QED
        BY <1>2, <3>2, CandidateFamily, Zenon
    <2> QED
      BY <1>6, <1>7, <2>2, <2>3, <2>4, <2>5, <2>6, Zenon
  <1>8. CASE ~(bm.null = FALSE /\ cm.null = FALSE) /\ b6.null = FALSE /\ c6.null = FALSE
    <2>1. Shared(s, d) = {AF_INET6} /\ bm.null \in BOOLEAN /\ cm.null \in BOOLEAN
      BY <1>3, <1>4, <1>5, <1>8, Families, Zenon
    <2>2. Candidates(s, Shared(s, d)) = s6
      BY <1>2, <2>1, Zenon DEF Ip6
    <2>3. PICK x : x = At(b6, hash)
      BY Zenon
    <2>4. e = <<x, At(IF x.afi = AF_INET THEN c4 ELSE c6, hash)>>
      BY <1>1, <1>3, <1>4, <1>8, <2>3, Zenon DEF fb_get_fw_entry
    <2>5. Serves(b6, s6) /\ d6 # {}
      BY <1>3, <1>4, <1>8, Zenon
    <2>6. x.afi = AF_INET6
      BY <1>2, <2>3, <2>5, AtServes, CandidateFamily, Zenon DEF BestOf
    <2> QED
      BY <1>6, <1>8, <2>2, <2>3, <2>4, <2>5, <2>6, Zenon
  <1>9. CASE /\ ~(bm.null = FALSE /\ cm.null = FALSE) /\ ~(b6.null = FALSE /\ c6.null = FALSE)
             /\ b4.null = FALSE /\ c4.null = FALSE
    <2>1. Shared(s, d) = {AF_INET}
      BY <1>3, <1>4, <1>5, <1>9, Families, Zenon
    <2>2. Candidates(s, Shared(s, d)) = s4
      BY <1>2, <2>1, Zenon DEF Ip4
    <2>3. PICK x : x = At(b4, hash)
      BY Zenon
    <2>4. e = <<x, At(IF x.afi = AF_INET THEN c4 ELSE c6, hash)>>
      BY <1>1, <1>3, <1>4, <1>9, <2>3, Zenon DEF fb_get_fw_entry
    <2>5. Serves(b4, s4) /\ d4 # {}
      BY <1>3, <1>4, <1>9, Zenon
    <2>6. x.afi = AF_INET
      BY <1>2, <2>3, <2>5, AtServes, CandidateFamily, Zenon DEF BestOf
    <2> QED
      BY <1>6, <1>9, <2>2, <2>3, <2>4, <2>5, <2>6, Zenon
  <1>10. CASE /\ ~(bm.null = FALSE /\ cm.null = FALSE) /\ ~(b6.null = FALSE /\ c6.null = FALSE)
              /\ ~(b4.null = FALSE /\ c4.null = FALSE)
    <2>1. Shared(s, d) = {}
      BY <1>3, <1>4, <1>5, <1>10, Zenon
    <2>2. NoVector.null = TRUE
      BY DEF NoVector
    <2>3. e = Native
      BY <1>1, <1>3, <1>4, <1>10, <2>2, Zenon DEF fb_get_fw_entry
    <2> QED
      BY <2>1, <2>3, Zenon DEF Decided
  <1> QED
    BY <1>7, <1>8, <1>9, <1>10, Zenon

\* Candidates are the locators at the positions of Eligible.
LEMMA EligibleIs ==
    ASSUME NEW map \in Seq(Locators), NEW afis
    PROVE  /\ \A k \in Eligible(map, afis) : map[k] \in Candidates(map, afis)
           /\ \A l \in Candidates(map, afis) : \E k \in Eligible(map, afis) : map[k] = l
  <1>1. DOMAIN map = 1 .. Len(map) /\ \A k \in 1 .. Len(map) : map[k] \in Locators
    OBVIOUS
  <1> QED
    BY <1>1, Zenon DEF Eligible, Candidates, Usable, In

LEMMA BestIs ==
    ASSUME NEW map \in Seq(Locators), NEW afis, NEW x, BestOf(x, Candidates(map, afis))
    PROVE  \E k \in Best(map, afis) : map[k] = x
  <1>1. PICK k \in Eligible(map, afis) : map[k] = x
    BY EligibleIs DEF BestOf
  <1>2. \A j \in Eligible(map, afis) : map[k].priority <= map[j].priority
    BY <1>1, EligibleIs DEF BestOf
  <1> QED
    BY <1>1, <1>2, Zenon DEF Best

LEMMA BestTop ==
    ASSUME NEW map \in Seq(Locators), NEW afis, NEW T, T = Top(Candidates(map, afis))
    PROVE  /\ \A k \in DOMAIN map : k \in Best(map, afis) <=> map[k] \in T
           /\ \A l \in T : \E k \in Best(map, afis) : map[k] = l
           /\ Best(map, afis) \subseteq DOMAIN map
  <1>1. PICK A : A = Candidates(map, afis)
    BY Zenon
  <1>2. \A k \in DOMAIN map : k \in Eligible(map, afis) <=> map[k] \in A
    <2>1. DOMAIN map = 1 .. Len(map) /\ \A k \in 1 .. Len(map) : map[k] \in Locators
      OBVIOUS
    <2> QED
      BY <1>1, <2>1, Zenon DEF Eligible, Candidates, Usable, In
  <1>3. \A l \in A : \E k \in Eligible(map, afis) : map[k] = l
    BY <1>1, EligibleIs, Zenon
  <1>4. Eligible(map, afis) \subseteq DOMAIN map
    BY Zenon DEF Eligible
  <1>5. ASSUME NEW k \in DOMAIN map PROVE k \in Best(map, afis) <=> map[k] \in T
    <2>1. ASSUME k \in Best(map, afis) PROVE map[k] \in T
      BY <1>1, <1>2, <1>3, <2>1, Zenon DEF Best, Top
    <2>2. ASSUME map[k] \in T PROVE k \in Best(map, afis)
      BY <1>1, <1>2, <1>4, <2>2, Zenon DEF Best, Top
    <2> QED
      BY <2>1, <2>2, Zenon
  <1>6. ASSUME NEW l \in T PROVE \E k \in Best(map, afis) : map[k] = l
    <2>1. PICK k \in DOMAIN map : map[k] = l
      BY <1>1, <1>3, <1>4, Zenon DEF Top
    <2> QED
      BY <1>5, <2>1, Zenon
  <1>7. Best(map, afis) \subseteq DOMAIN map
    BY <1>4, Zenon DEF Best
  <1> QED
    BY <1>5, <1>6, <1>7, Zenon

\* A vector that serves the candidates of a mapping spreads over its best locators.
LEMMA ServesSpreads ==
    ASSUME NEW map \in Seq(Locators), NEW afis, NEW v, Serves(v, Candidates(map, afis)),
           NEW best, best = Best(map, afis)
    PROVE  ~v.null /\ Spreads(v, map, best)
  <1>1. PICK T : T = Top(Candidates(map, afis))
    BY Zenon
  <1>2. /\ \A k \in DOMAIN map : k \in best <=> map[k] \in T
        /\ \A l \in T : \E k \in best : map[k] = l
        /\ best \subseteq DOMAIN map
    <2>1. /\ \A k \in DOMAIN map : k \in Best(map, afis) <=> map[k] \in T
          /\ \A l \in T : \E k \in Best(map, afis) : map[k] = l
          /\ Best(map, afis) \subseteq DOMAIN map
      BY <1>1, BestTop, Zenon
    <2> QED
      BY <2>1, Zenon
  <1>3. v.null = FALSE /\ v.length \in Nat /\ v.length # 0 /\ Fair(v, T)
    BY <1>1, Zenon DEF Serves
  <1>4. v.length > 0
    BY <1>3
  <1>5. \A n \in 1 .. v.length : \E k \in best : v.cells[n] = map[k]
    <2>1. \A n \in 1 .. v.length : v.cells[n] \in T
      BY <1>1, Zenon DEF Serves, Top
    <2> QED
      BY <1>2, <2>1, Zenon
  <1>6. \A k \in DOMAIN map :
           Share(map[k], T) = IF k \notin best THEN 0
                              ELSE IF \A j \in best : map[j].weight = 0 THEN 1
                              ELSE map[k].weight
    <2>1. (\A m \in T : m.weight = 0) <=> (\A j \in best : map[j].weight = 0)
      BY <1>2, Zenon
    <2> QED
      BY <1>2, <2>1, Zenon DEF Share
  <1>7. \A j, k \in DOMAIN map :
           Cells(v, map[j]) * Share(map[k], T) = Cells(v, map[k]) * Share(map[j], T)
    BY <1>3, Zenon DEF Fair
  <1>8. \A d \in 2 .. v.length : \E k \in best : Cells(v, map[k]) % d # 0
    <2>1. \A d \in 2 .. v.length : \E l \in T : Cells(v, l) % d # 0
      BY <1>3, Zenon DEF Fair
    <2> QED
      BY <1>2, <2>1
  <1>9. Len(v.cells) = v.length
    BY <1>3, Zenon DEF Fair
  <1>10. ASSUME NEW j \in DOMAIN map, NEW k \in DOMAIN map
         PROVE  Cells(v, map[j]) * (IF k \notin best THEN 0
                                    ELSE IF \A i \in best : map[i].weight = 0 THEN 1
                                    ELSE map[k].weight)
                = Cells(v, map[k]) * (IF j \notin best THEN 0
                                      ELSE IF \A i \in best : map[i].weight = 0 THEN 1
                                      ELSE map[j].weight)
    BY <1>6, <1>7, Zenon
  <1> QED
    BY <1>3, <1>4, <1>5, <1>8, <1>9, <1>10, Zenon DEF Spreads

LEMMA SharedIs ==
    ASSUME NEW s \in Seq(Locators), NEW d \in Seq(Locators)
    PROVE  Shared(s, d) = CommonFamilies(s, d)
  <1>1. ASSUME NEW map \in Seq(Locators), NEW afi
        PROVE  Candidates(map, {afi}) = {} <=> Eligible(map, {afi}) = {}
    BY <1>1, EligibleIs, Zenon
  <1> QED
    BY <1>1, Zenon DEF Shared, CommonFamilies

\* The vectors of a mapping give its locators their shares of the hash space.
LEMMA VectorsBalance ==
    ASSUME NEW map \in Seq(Locators), NEW b, Vectors(b, map)
    PROVE  Balanced(map, b)
  <1>1. ASSUME NEW v, NEW afi, ServesOrNone(v, Candidates(map, {afi}))
        PROVE  SpreadsFamily(v, map, afi)
    <2>1. Candidates(map, {afi}) = {} <=> Eligible(map, {afi}) = {}
      BY EligibleIs, Zenon
    <2>2. CASE Eligible(map, {afi}) = {}
      BY <1>1, <2>1, <2>2, Zenon DEF ServesOrNone, SpreadsFamily
    <2>3. CASE Eligible(map, {afi}) # {}
      <3>1. Serves(v, Candidates(map, {afi}))
        BY <1>1, <2>1, <2>3, Zenon DEF ServesOrNone
      <3>2. ~v.null /\ Spreads(v, map, Best(map, {afi}))
        BY <3>1, ServesSpreads, Zenon
      <3> QED
        BY <2>3, <3>2, Zenon DEF SpreadsFamily
    <2> QED
      BY <2>2, <2>3, Zenon
  <1>2. SpreadsFamily(b.v4, map, AF_INET) /\ SpreadsFamily(b.v6, map, AF_INET6)
    BY <1>1, Zenon DEF Vectors, Ip4, Ip6
  <1>3. PICK F : F = CommonFamilies(map, map)
    BY Zenon
  <1>4. F = {AF_INET, AF_INET6} <=> Ip4(map) # {} /\ Ip6(map) # {}
    <2>1. F = Shared(map, map)
      BY <1>3, SharedIs, Zenon
    <2> QED
      BY <2>1, Families, Zenon DEF Shared, Ip4, Ip6
  <1>5. Ip4(map) \cup Ip6(map) = Candidates(map, {AF_INET, AF_INET6})
    BY CandidateFamily, Zenon
  <1>6. CASE Ip4(map) # {} /\ Ip6(map) # {}
    <2>1. Serves(b.mixed, Candidates(map, {AF_INET, AF_INET6}))
      BY <1>5, <1>6, Zenon DEF Vectors
    <2>2. ~b.mixed.null /\ Spreads(b.mixed, map, Best(map, {AF_INET, AF_INET6}))
      BY <2>1, ServesSpreads, Zenon
    <2> QED
      BY <1>2, <1>3, <1>4, <1>6, <2>2, Zenon DEF Balanced
  <1>7. CASE ~(Ip4(map) # {} /\ Ip6(map) # {})
    <2>1. b.mixed = NoVector
      BY <1>7, Zenon DEF Vectors
    <2> QED
      BY <1>2, <1>3, <1>4, <1>7, <2>1, Zenon DEF Balanced
  <1> QED
    BY <1>6, <1>7, Zenon

\* What the two properties say of a decision e for the destination d.
IsBest(e, s, d) ==
    e # Native =>
        /\ e[1].afi = e[2].afi
        /\ \E k \in Best(s, CommonFamilies(s, d)) : s[k] = e[1]
        /\ \E k \in Best(d, {e[1].afi}) : d[k] = e[2]

LEMMA DecidedIs ==
    ASSUME NEW s \in Seq(Locators), NEW d \in Seq(Locators), NEW e, Decided(e, s, d)
    PROVE  IsBest(e, s, d) /\ (e = Native => CommonFamilies(s, d) = {})
  <1>1. Shared(s, d) = CommonFamilies(s, d)
    BY SharedIs, Zenon
  <1>2. CASE e = Native /\ Shared(s, d) = {}
    BY <1>1, <1>2, Zenon DEF IsBest
  <1>3. ASSUME NEW x, NEW y, e = <<x, y>>, x.afi = y.afi,
               BestOf(x, Candidates(s, Shared(s, d))), BestOf(y, Candidates(d, {x.afi}))
        PROVE  IsBest(e, s, d) /\ (e = Native => CommonFamilies(s, d) = {})
    <2>1. e[1] = x /\ e[2] = y /\ e # Native
      BY <1>3 DEF Native
    <2>2. \E k \in Best(s, CommonFamilies(s, d)) : s[k] = x
      BY <1>1, <1>3, BestIs
    <2>3. \E k \in Best(d, {x.afi}) : d[k] = y
      BY <1>3, BestIs
    <2> QED
      BY <1>3, <2>1, <2>2, <2>3, Zenon DEF IsBest
  <1> QED
    BY <1>2, <1>3, Zenon DEF Decided

-----------------------------------------------------------------------------
(* The vectors are those of the mappings, and the decision rests on them.   *)

Entries == [status : {"NONE", "NOT_ACTIVE", "ACTIVE"}, map : Mappings]

\* Every mapping that packets are sent by has its vectors; there are none for
\* the Proxy-ETRs of an RTR.
VectorsServe ==
    /\ Vectors(local_fwd, local)
    /\ mce.status # "NONE" => Vectors(mce_fwd, mce.map)
    /\ mode # "RTR_MODE" => Vectors(petrs_fwd, petrs)

Maps ==
    /\ local \in Mappings /\ mce \in Entries /\ petrs \in Mappings
    /\ mode = "RTR_MODE" => petrs = <<>> /\ petrs_fwd = NULL
    /\ mce.status = "NONE" => mce = NoEntry /\ mce_fwd = NULL
    /\ DOMAIN local_fwd = {"v4", "v6", "mixed"}

Inv == Maps /\ VectorsServe /\ RlocsAreBest /\ NativeOnlyWithoutPath

LEMMA MappingIs ==
    ASSUME NEW map \in Mappings
    PROVE  map \in Seq(Locators) /\ OneOfEach(map, AF_INET) /\ OneOfEach(map, AF_INET6)
  <1>1. /\ map \in Seq(Locators)
        /\ \A i, j \in DOMAIN map :
              map[i].afi # 0 /\ map[i].afi = map[j].afi /\ map[i].addr = map[j].addr => i = j
    BY Zenon DEF Mappings
  <1>2. DOMAIN map = 1 .. Len(map)
    BY <1>1
  <1> QED
    <2>1. AF_INET # 0 /\ AF_INET6 # 0
      BY DEF AF_INET, AF_INET6
    <2> QED
      BY <1>1, <1>2, <2>1, Zenon DEF OneOfEach

LEMMA MappingVectors ==
    ASSUME NEW map \in Mappings, NEW b, b = balancing_vectors_calculate(map)
    PROVE  Vectors(b, map)
  BY MappingIs, Balancing, Zenon

LEMMA VectorFields == \A map : DOMAIN balancing_vectors_calculate(map) = {"v4", "v6", "mixed"}
  BY Zenon DEF balancing_vectors_calculate

LEMMA StateChange ==
    ASSUME NEW map \in Mappings, NEW k \in DOMAIN map, NEW st \in {UP, DOWN}
    PROVE  [map EXCEPT ![k].state = st] \in Mappings
  <1>1. /\ map \in Seq(Locators)
        /\ \A i, j \in DOMAIN map :
              map[i].afi # 0 /\ map[i].afi = map[j].afi /\ map[i].addr = map[j].addr => i = j
    BY Zenon DEF Mappings
  <1>2. PICK l \in Locators : l = map[k]
    BY <1>1
  <1>3. PICK n : n = [l EXCEPT !.state = st]
    BY Zenon
  <1>4. n \in Locators /\ n.addr = l.addr /\ n.afi = l.afi
    BY <1>3, Zenon DEF Locators
  <1>5. PICK r : r = [map EXCEPT ![k] = n]
    BY Zenon
  <1>6. [map EXCEPT ![k].state = st] = r
    BY <1>2, <1>3, <1>5, Zenon
  <1>7. r \in Seq(Locators) /\ DOMAIN r = DOMAIN map
    BY <1>1, <1>4, <1>5
  <1>8. \A i \in DOMAIN map : r[i] = IF i = k THEN n ELSE map[i]
    BY <1>1, <1>5
  <1>9. \A i \in DOMAIN map : r[i].addr = map[i].addr /\ r[i].afi = map[i].afi
    BY <1>2, <1>4, <1>8, Zenon
  <1>10. \A i, j \in DOMAIN r :
            r[i].afi # 0 /\ r[i].afi = r[j].afi /\ r[i].addr = r[j].addr => i = j
    BY <1>1, <1>7, <1>9, Zenon
  <1> QED
    <2>1. r \in Mappings
      BY <1>7, <1>10, Zenon DEF Mappings
    <2> QED
      BY <1>6, <2>1, Zenon

LEMMA NoPacketFields == NoPacket.entry = Native /\ NoPacket.found = FALSE
  BY DEF NoPacket

LEMMA Configurations ==
    \A m \in LocalMaps \cup RemoteMaps \cup PetrMaps : m \in Mappings
  BY ForwardingAssumption, Zenon

LEMMA EmptyMap == <<>> \in Mappings /\ \A afis : Candidates(<<>>, afis) = {}
  <1>1. <<>> \in Seq(Locators) /\ DOMAIN <<>> = {}
    OBVIOUS
  <1>2. <<>> \in Mappings
    BY <1>1, Zenon DEF Mappings
  <1> QED
    BY <1>2, InEmpty, Zenon DEF Candidates

LEMMA InvInit == Init => Inv
  <1> SUFFICES ASSUME Init PROVE Inv
    OBVIOUS
  <1>1. local \in Mappings /\ petrs \in Mappings
    BY Configurations, EmptyMap, Zenon DEF Init
  <1>2. Vectors(local_fwd, local) /\ DOMAIN local_fwd = {"v4", "v6", "mixed"}
    BY <1>1, MappingVectors, VectorFields, Zenon DEF Init
  <1>3. mode # "RTR_MODE" => Vectors(petrs_fwd, petrs)
    BY <1>1, MappingVectors, Zenon DEF Init
  <1>4. mce \in Entries /\ mce.status = "NONE" /\ mce = NoEntry /\ mce_fwd = NULL
    BY EmptyMap DEF Init, NoEntry, Entries
  <1>5. RlocsAreBest /\ NativeOnlyWithoutPath
    BY NoPacketFields, Zenon DEF Init, RlocsAreBest, NativeOnlyWithoutPath
  <1>6. mode = "RTR_MODE" => petrs = <<>> /\ petrs_fwd = NULL
    BY Zenon DEF Init
  <1> QED
    BY <1>1, <1>2, <1>3, <1>4, <1>5, <1>6, Zenon DEF Inv, Maps, VectorsServe

\* An event drops the decision; the vectors follow the mapping it changes.
LEMMA EventStep ==
    ASSUME Inv, Event,
           \/ UNCHANGED <<local, local_fwd>>
           \/ local' \in Mappings /\ local_fwd' = balancing_vectors_calculate(local'),
           \/ UNCHANGED <<mce, mce_fwd>>
           \/ /\ mce' \in Entries
              /\ \/ mce' = NoEntry /\ mce_fwd' = NULL
                 \/ mce'.status # "NONE" /\ mce_fwd' = balancing_vectors_calculate(mce'.map),
           \/ UNCHANGED <<petrs, petrs_fwd>>
           \/ /\ mode # "RTR_MODE" /\ petrs' \in Mappings
              /\ petrs_fwd' = balancing_vectors_calculate(petrs')
    PROVE  Inv'
  <1>1. Maps /\ VectorsServe
    BY Zenon DEF Inv
  <1>2. mode' = mode /\ fwd_info' = NoPacket
    BY Zenon DEF Event
  <1>3. RlocsAreBest' /\ NativeOnlyWithoutPath'
    BY <1>2, NoPacketFields, Zenon DEF RlocsAreBest, NativeOnlyWithoutPath
  <1>4. /\ local' \in Mappings /\ DOMAIN local_fwd' = {"v4", "v6", "mixed"}
        /\ Vectors(local_fwd', local')
    <2>1. CASE UNCHANGED <<local, local_fwd>>
      BY <1>1, <2>1, Zenon DEF Maps, VectorsServe
    <2>2. CASE local' \in Mappings /\ local_fwd' = balancing_vectors_calculate(local')
      BY <2>2, MappingVectors, VectorFields, Zenon
    <2> QED
      BY <2>1, <2>2, Zenon
  <1>5. /\ mce' \in Entries /\ (mce'.status # "NONE" => Vectors(mce_fwd', mce'.map))
        /\ mce'.status = "NONE" => mce' = NoEntry /\ mce_fwd' = NULL
    <2>1. CASE UNCHANGED <<mce, mce_fwd>>
      BY <1>1, <2>1, Zenon DEF Maps, VectorsServe
    <2>2. CASE /\ mce' \in Entries
               /\ \/ mce' = NoEntry /\ mce_fwd' = NULL
                  \/ mce'.status # "NONE" /\ mce_fwd' = balancing_vectors_calculate(mce'.map)
      <3>1. mce'.map \in Mappings
        BY <2>2 DEF Entries
      <3>2. CASE mce' = NoEntry /\ mce_fwd' = NULL
        <4>1. mce'.status = "NONE"
          BY <3>2 DEF NoEntry
        <4> QED
          BY <2>2, <3>2, <4>1, Zenon
      <3>3. CASE mce'.status # "NONE" /\ mce_fwd' = balancing_vectors_calculate(mce'.map)
        BY <2>2, <3>1, <3>3, MappingVectors, Zenon
      <3> QED
        BY <2>2, <3>2, <3>3, Zenon
    <2> QED
      BY <2>1, <2>2, Zenon
  <1>6. /\ petrs' \in Mappings /\ (mode # "RTR_MODE" => Vectors(petrs_fwd', petrs'))
        /\ mode = "RTR_MODE" => petrs' = <<>> /\ petrs_fwd' = NULL
    <2>1. CASE UNCHANGED <<petrs, petrs_fwd>>
      BY <1>1, <2>1, Zenon DEF Maps, VectorsServe
    <2>2. CASE /\ mode # "RTR_MODE" /\ petrs' \in Mappings
               /\ petrs_fwd' = balancing_vectors_calculate(petrs')
      BY <2>2, MappingVectors, Zenon
    <2> QED
      BY <2>1, <2>2, Zenon
  <1> QED
    BY <1>2, <1>3, <1>4, <1>5, <1>6, Zenon DEF Inv, Maps, VectorsServe

\* A decision for a packet from a local EID.
LEMMA PacketDecision ==
    ASSUME Maps, VectorsServe, NEW hash \in Nat, ~UsesNull(hash), NEW e, e = tr_get_fwd_entry_of(hash)
    PROVE  IsBest(e, local, Destination) /\ (e = Native => CommonFamilies(local, Destination) = {})
  <1>1. /\ local \in Seq(Locators) /\ petrs \in Seq(Locators)
        /\ mode = "RTR_MODE" => petrs = <<>> /\ petrs_fwd = NULL
        /\ DOMAIN local_fwd = {"v4", "v6", "mixed"}
    BY MappingIs, Zenon DEF Maps
  <1>2. mce.map \in Seq(Locators)
    <2>1. mce.map \in Mappings
      BY DEF Maps, Entries
    <2> QED
      BY <2>1, MappingIs, Zenon
  <1>3. Vectors(local_fwd, local) /\ (mode # "RTR_MODE" => Vectors(petrs_fwd, petrs))
    BY Zenon DEF VectorsServe
  <1>4. ASSUME Positive PROVE Decided(fb_get_fw_entry(local_fwd, mce_fwd, hash), local, mce.map)
    <2>1. Vectors(mce_fwd, mce.map)
      BY <1>4 DEF Positive, VectorsServe
    <2> QED
      BY <1>3, <2>1, Decision
  <1>5. CASE Positive /\ ~FallsBack(hash)
    <2>1. e = fb_get_fw_entry(local_fwd, mce_fwd, hash) /\ Destination = mce.map
      BY <1>5, Zenon DEF tr_get_fwd_entry_of, Destination
    <2> QED
      BY <1>1, <1>2, <1>4, <1>5, <2>1, DecidedIs
  <1>6. CASE FallsBack(hash)
    <2>1. /\ Positive /\ fb_get_fw_entry(local_fwd, mce_fwd, hash) = Native /\ petrs = <<>>
          /\ Destination = mce.map
      BY <1>6, Zenon DEF FallsBack, Destination
    <2>2. CommonFamilies(local, mce.map) = {}
      BY <1>1, <1>2, <1>4, <2>1, DecidedIs
    <2>3. e = fb_get_fw_entry(local_fwd, petrs_fwd, hash)
      BY <1>6, <2>1, Zenon DEF tr_get_fwd_entry_of
    <2>4. e = Native
      <3>1. CASE mode # "RTR_MODE"
        <4>1. Decided(e, local, <<>>)
          BY <1>3, <2>1, <2>3, <3>1, Decision
        <4> QED
          BY <4>1, EmptyMap, Zenon DEF Decided, BestOf
      <3>2. CASE mode = "RTR_MODE"
        <4>1. \A f \in {"v4", "v6", "mixed"} : local_fwd[f].null
          BY <1>1, <1>6, <3>2, Zenon DEF UsesNull
        <4>2. local_fwd.v4.null /\ local_fwd.v6.null /\ local_fwd.mixed.null
          BY <4>1
        <4>3. NoVector.null = TRUE
          BY DEF NoVector
        <4> QED
          BY <2>3, <4>2, <4>3, Zenon DEF fb_get_fw_entry
      <3> QED
        BY <3>1, <3>2
    <2> QED
      BY <2>1, <2>2, <2>4, Zenon DEF IsBest
  <1>7. CASE ~Positive /\ petrs # <<>>
    <2>1. e = fb_get_fw_entry(local_fwd, petrs_fwd, hash) /\ Destination = petrs
      BY <1>7, Zenon DEF tr_get_fwd_entry_of, FallsBack, Destination
    <2>2. Decided(e, local, petrs)
      BY <1>1, <1>3, <1>7, <2>1, Decision
    <2> QED
      BY <1>1, <2>1, <2>2, DecidedIs, Zenon
  <1>8. CASE ~Positive /\ petrs = <<>>
    <2>1. e = Native /\ Destination = <<>>
      BY <1>8, Zenon DEF tr_get_fwd_entry_of, FallsBack, Destination
    <2>2. Shared(local, <<>>) = {}
      BY EmptyMap, Zenon DEF Shared
    <2>3. CommonFamilies(local, <<>>) = {}
      BY <1>1, <2>2, EmptyMap, MappingIs, SharedIs, Zenon
    <2> QED
      BY <2>1, <2>3, Zenon DEF IsBest
  <1>9. FallsBack(hash) => Positive
    BY DEF FallsBack
  <1> QED
    BY <1>5, <1>6, <1>7, <1>8, <1>9, Zenon

\* A packet leaves the mappings as they are; a destination that was not in the
\* map cache gets an entry without locators.
LEMMA PacketStep ==
    ASSUME Inv, NEW hash \in Hashes, tr_get_fwd_entry(hash)
    PROVE  Inv'
  <1>1. Maps /\ VectorsServe /\ hash \in Nat
    BY ForwardingAssumption, Zenon DEF Inv
  <1>2. UNCHANGED <<mode, local, local_fwd, petrs, petrs_fwd>>
    BY Zenon DEF tr_get_fwd_entry
  <1>3. /\ mce' \in Entries /\ (mce'.status # "NONE" => Vectors(mce_fwd', mce'.map))
        /\ mce'.status # "NONE"
        /\ (Positive' <=> Positive) /\ (Positive => mce'.map = mce.map)
    <2>1. CASE mce.status = "NONE"
      <3>1. mce' = [status |-> "NOT_ACTIVE", map |-> <<>>] /\ mce_fwd' = balancing_vectors_calculate(<<>>)
        BY <2>1, Zenon DEF tr_get_fwd_entry, handle_map_cache_miss
      <3>2. mce' \in Entries /\ mce'.map = <<>> /\ mce'.status = "NOT_ACTIVE"
        BY <3>1, EmptyMap DEF Entries
      <3>3. Vectors(mce_fwd', <<>>)
        BY <3>1, EmptyMap, MappingVectors, Zenon
      <3>4. ~Positive /\ ~Positive' /\ mce'.status # "NONE"
        BY <2>1, <3>2 DEF Positive
      <3> QED
        BY <3>2, <3>3, <3>4, Zenon
    <2>2. CASE mce.status # "NONE"
      <3>1. mce' = mce /\ mce_fwd' = mce_fwd
        BY <2>2, Zenon DEF tr_get_fwd_entry
      <3>2. mce' \in Entries /\ Vectors(mce_fwd', mce'.map) /\ mce'.status # "NONE"
        BY <1>1, <2>2, <3>1, Zenon DEF Maps, VectorsServe
      <3>3. Positive' <=> Positive
        BY <3>1, Zenon DEF Positive
      <3> QED
        BY <3>1, <3>2, <3>3, Zenon
    <2> QED
      BY <2>1, <2>2
  <1>4. Destination' = Destination
    BY <1>2, <1>3, Zenon DEF Destination
  <1>5. RlocsAreBest' /\ NativeOnlyWithoutPath'
    <2>1. CASE UsesNull(hash)
      <3>1. fwd_info' = NoPacket
        BY <2>1, Zenon DEF tr_get_fwd_entry
      <3> QED
        BY <3>1, NoPacketFields, Zenon DEF RlocsAreBest, NativeOnlyWithoutPath
    <2>2. CASE ~UsesNull(hash)
      <3>1. PICK e : e = tr_get_fwd_entry_of(hash)
        BY Zenon
      <3>2. fwd_info'.entry = e
        BY <2>2, <3>1 DEF tr_get_fwd_entry
      <3>3. IsBest(e, local, Destination) /\ (e = Native => CommonFamilies(local, Destination) = {})
        BY <1>1, <2>2, <3>1, PacketDecision
      <3> QED
        BY <1>2, <1>4, <3>2, <3>3, Zenon DEF IsBest, RlocsAreBest, NativeOnlyWithoutPath
    <2> QED
      BY <2>1, <2>2
  <1> QED
    BY <1>1, <1>2, <1>3, <1>5, Zenon DEF Inv, Maps, VectorsServe

LEMMA InvStep ==
    ASSUME Inv, [Next]_vars
    PROVE  Inv'
  <1>1. /\ local \in Mappings /\ mce \in Entries /\ petrs \in Mappings
        /\ mode = "RTR_MODE" => petrs = <<>>
    BY Zenon DEF Inv, Maps
  <1>2. mce.map \in Mappings
    BY <1>1 DEF Entries
  <1>3. \A state : Opposite(state) \in {UP, DOWN}
    BY Zenon DEF Opposite
  <1>4. ASSUME NEW k \in DOMAIN local, xtr_if_event(k) PROVE Inv'
    <2>1. /\ Event /\ local' = [local EXCEPT ![k].state = Opposite(@)]
          /\ local_fwd' = balancing_vectors_calculate(local') /\ UNCHANGED <<mce, mce_fwd, petrs, petrs_fwd>>
      BY <1>4, Zenon DEF xtr_if_event
    <2>2. PICK st \in {UP, DOWN} : local' = [local EXCEPT ![k].state = st]
      BY <1>3, <2>1, Zenon
    <2>3. local' \in Mappings
      BY <1>1, <2>2, StateChange, Zenon
    <2> QED
      BY <2>1, <2>3, EventStep, Zenon
  <1>5. ASSUME NEW m \in RemoteMaps, tr_mcache_add_mapping(m) \/ update_mcache_entry(m) PROVE Inv'
    <2>1. m \in Mappings
      BY Configurations, Zenon
    <2>2. /\ Event /\ mce_fwd' = balancing_vectors_calculate(m)
          /\ UNCHANGED <<local, local_fwd, petrs, petrs_fwd>>
          /\ \/ mce' = [status |-> "ACTIVE", map |-> m]
             \/ mce.status = "ACTIVE" /\ mce' = [mce EXCEPT !.map = m]
      BY <1>5, Zenon DEF tr_mcache_add_mapping, update_mcache_entry
    <2>3. mce' \in Entries /\ mce'.map = m /\ mce'.status = "ACTIVE"
      BY <1>1, <2>1, <2>2 DEF Entries
    <2> QED
      BY <2>2, <2>3, EventStep, Zenon
  <1>6. ASSUME mc_entry_expiration_timer_cb PROVE Inv'
    <2>1. Event /\ mce' = NoEntry /\ mce_fwd' = NULL /\ UNCHANGED <<local, local_fwd, petrs, petrs_fwd>>
      BY <1>6, Zenon DEF mc_entry_expiration_timer_cb
    <2>2. mce' \in Entries
      BY <2>1, EmptyMap DEF NoEntry, Entries
    <2> QED
      BY <2>1, <2>2, EventStep, Zenon
  <1>7. ASSUME NEW k \in DOMAIN mce.map, rloc_probing_cb(k) \/ handle_locator_probe_reply(k) PROVE Inv'
    <2>1. PICK st \in {UP, DOWN} : mce' = [mce EXCEPT !.map[k].state = st]
      BY <1>7, Zenon DEF rloc_probing_cb, handle_locator_probe_reply
    <2>2. /\ Event /\ mce_fwd' = balancing_vectors_calculate(mce'.map)
          /\ UNCHANGED <<local, local_fwd, petrs, petrs_fwd>>
      BY <1>7, Zenon DEF rloc_probing_cb, handle_locator_probe_reply
    <2>3. PICK m : m = [mce.map EXCEPT ![k].state = st]
      BY Zenon
    <2>4. m \in Mappings
      BY <1>2, <2>3, StateChange, Zenon
    <2>5. mce' = [mce EXCEPT !.map = m]
      BY <2>1, <2>3
    <2>6. mce.status # "NONE"
      <3>1. DOMAIN NoEntry.map = {}
        BY DEF NoEntry
      <3> QED
        BY <3>1, Zenon DEF Inv, Maps
    <2>7. mce' \in Entries /\ mce'.status = mce.status
      <3> HIDE DEF Mappings
      <3> QED
        BY <1>1, <2>4, <2>5 DEF Entries
    <2> QED
      BY <2>2, <2>6, <2>7, EventStep, Zenon
  <1>8. ASSUME NEW k \in DOMAIN petrs, petr_probing(k) PROVE Inv'
    <2>1. /\ Event /\ petrs' = [petrs EXCEPT ![k].state = Opposite(@)]
          /\ petrs_fwd' = balancing_vectors_calculate(petrs') /\ UNCHANGED <<local, local_fwd, mce, mce_fwd>>
      BY <1>8, Zenon DEF petr_probing
    <2>2. PICK st \in {UP, DOWN} : petrs' = [petrs EXCEPT ![k].state = st]
      BY <1>3, <2>1, Zenon
    <2>3. petrs' \in Mappings
      BY <1>1, <2>2, StateChange, Zenon
    <2>4. mode # "RTR_MODE"
      BY <1>1
    <2> QED
      BY <2>1, <2>3, <2>4, EventStep, Zenon
  <1>9. ASSUME tr_get_fwd_entry_foreign PROVE Inv'
    <2>1. /\ UNCHANGED <<mode, local, local_fwd, mce, mce_fwd, petrs, petrs_fwd>>
          /\ fwd_info' = [NoPacket EXCEPT !.made = TRUE]
      BY <1>9, Zenon DEF tr_get_fwd_entry_foreign
    <2>2. fwd_info'.entry = Native /\ fwd_info'.found = FALSE
      BY <2>1 DEF NoPacket
    <2>3. RlocsAreBest' /\ NativeOnlyWithoutPath'
      BY <2>2, Zenon DEF RlocsAreBest, NativeOnlyWithoutPath
    <2> QED
      BY <2>1, <2>3, Zenon DEF Inv, Maps, VectorsServe
  <1>10. CASE UNCHANGED vars
    BY <1>10, Zenon DEF vars, Inv, Maps, VectorsServe, RlocsAreBest, NativeOnlyWithoutPath, Destination, Positive
  <1> QED
    BY <1>4, <1>5, <1>6, <1>7, <1>8, <1>9, <1>10, PacketStep, Zenon DEF Next

LEMMA AlwaysInv == Spec => []Inv
  BY InvInit, InvStep, PTL DEF Spec

\* Whatever locators go up and down and whatever mapping a Map-Reply brings, a
\* vector of the local mapping, of the map-cache entry and of the Proxy-ETRs is
\* filled to its length by set_balancing_vector, with usable locators of the best
\* priority, and there is one whenever there is such a locator: At reads no cell
\* that was not written, and no vector is left from an earlier state of the
\* locators.
THEOREM VectorsAlwaysServe == Spec => []VectorsServe
  <1>1. Inv => VectorsServe
    BY Zenon DEF Inv
  <1> QED
    BY <1>1, AlwaysInv, PTL

\* Whatever the weights, the priorities, the families and the states of the
\* locators, and whatever changes them, the vectors of the local mapping, of the
\* map-cache entry and of the Proxy-ETRs give every usable locator of the best
\* priority the share of the hash space its weight asks for, and no vector is
\* longer than these shares need (get_hcf, select_best_priority_locators,
\* set_balancing_vector, balancing_vectors_calculate and its callers).
THEOREM TrafficAlwaysSpread == Spec => []TrafficSpreadByWeight
  <1>1. ASSUME Inv PROVE TrafficSpreadByWeight
    <2>1. Maps /\ VectorsServe
      BY <1>1, Zenon DEF Inv
    <2>2. local \in Seq(Locators) /\ petrs \in Seq(Locators)
      BY <2>1, MappingIs, Zenon DEF Maps
    <2>3. mce.map \in Seq(Locators)
      <3>1. mce.map \in Mappings
        BY <2>1 DEF Maps, Entries
      <3> QED
        BY <3>1, MappingIs, Zenon
    <2>4. Balanced(local, local_fwd)
      BY <2>1, <2>2, VectorsBalance, Zenon DEF VectorsServe
    <2>5. mce_fwd # NULL => Balanced(mce.map, mce_fwd)
      BY <2>1, <2>3, VectorsBalance, Zenon DEF Maps, VectorsServe
    <2>6. petrs_fwd # NULL => Balanced(petrs, petrs_fwd)
      BY <2>1, <2>2, VectorsBalance, Zenon DEF Maps, VectorsServe
    <2> QED
      BY <2>4, <2>5, <2>6, Zenon DEF TrafficSpreadByWeight
  <1> QED
    BY <1>1, AlwaysInv, PTL

\* For every mapping, priority, weight, state of the locators and hash, the RLOCs
\* that fb_get_fw_entry chooses are of one family, and the best of the families
\* that source and destination have in common.
THEOREM RlocsAlwaysBest == Spec => []RlocsAreBest
  <1>1. Inv => RlocsAreBest
    BY Zenon DEF Inv
  <1> QED
    BY <1>1, AlwaysInv, PTL

\* A packet from a local EID leaves without encapsulation (tr_get_fwd_entry) only
\* when the local mapping and the mapping it is sent by have no family in common.
THEOREM NativeNeedsNoPath == Spec => []NativeOnlyWithoutPath
  <1>1. Inv => NativeOnlyWithoutPath
    BY Zenon DEF Inv
  <1> QED
    BY <1>1, AlwaysInv, PTL

=============================================================================
