--------------------------- MODULE BalancingProofs ---------------------------
(* Proofs about module FlowBalancing, for any mappings, priorities and       *)
(* weights: a vector is filled to its length with the best locators, in      *)
(* proportion to their weights, and is the shortest that does so.            *)
EXTENDS Forwarding, TLAPS, FiniteSetTheorems

-----------------------------------------------------------------------------
(* Induction, with the set of the numbers that have the property.           *)

LEMMA Induction ==
    ASSUME NEW S, 0 \in S, \A n \in Nat : n \in S => n + 1 \in S
    PROVE  Nat \subseteq S
  <1> DEFINE bad == {n \in Nat : n \notin S}
  <1>1. SUFFICES ASSUME bad # {} PROVE FALSE
    OBVIOUS
  <1>2. PICK k \in bad : \A j \in bad : ~(<<j, k>> \in OpToRel(<, Nat))
    BY <1>1, NatLessThanWellFounded, WFMin, Zenon
  <1>3. k \in Nat /\ k # 0 /\ k - 1 \in Nat
    OBVIOUS
  <1>4. <<k - 1, k>> \in OpToRel(<, Nat)
    BY <1>3 DEF OpToRel
  <1>5. k - 1 \notin bad
    BY <1>2, <1>4, Zenon
  <1> QED
    BY <1>3, <1>5

LEMMA BoundedInduction ==
    ASSUME NEW N \in Nat, NEW S, 0 \in S, \A n \in 1 .. N : n - 1 \in S => n \in S
    PROVE  0 .. N \subseteq S
  <1> DEFINE T == {n \in Nat : n <= N => n \in S}
  <1>1. \A n \in Nat : n \in T => n + 1 \in T
    OBVIOUS
  <1>2. 0 \in T
    OBVIOUS
  <1> HIDE DEF T
  <1>3. Nat \subseteq T
    BY <1>1, <1>2, Induction
  <1> QED
    BY <1>3 DEF T

\* A loop over N elements whose turns stay in V has a value after each turn.
Loop(f, N, V, start, turn) ==
    /\ f \in [0 .. N -> V] /\ f[0] = start
    /\ \A n \in 1 .. N : f[n - 1] \in V /\ f[n] = turn[<<f[n - 1], n>>]

LEMMA LoopExists ==
    ASSUME NEW N \in Nat, NEW V, NEW start \in V, NEW turn \in [V \X (1 .. N) -> V]
    PROVE  \E f : Loop(f, N, V, start, turn)
  <1> DEFINE Upto(f, m) == /\ f \in [0 .. m -> V] /\ f[0] = start
                           /\ \A n \in 1 .. m : f[n] = turn[<<f[n - 1], n>>]
             S == {m \in 0 .. N : \E f : Upto(f, m)}
  <1>1. 0 \in S
    <2> DEFINE f == [n \in 0 .. 0 |-> start]
    <2>1. f \in [0 .. 0 -> V] /\ f[0] = start /\ 1 .. 0 = {}
      OBVIOUS
    <2> HIDE DEF f
    <2>2. Upto(f, 0)
      BY <2>1
    <2> QED
      BY <2>2
  <1>2. ASSUME NEW m \in 1 .. N, m - 1 \in S PROVE m \in S
    <2>1. PICK f : Upto(f, m - 1)
      BY <1>2
    <2> DEFINE g == [n \in 0 .. m |-> IF n = m THEN turn[<<f[m - 1], m>>] ELSE f[n]]
    <2>2. m \in Nat /\ m - 1 \in 0 .. (m - 1) /\ f[m - 1] \in V
      BY <2>1
    <2>3. turn[<<f[m - 1], m>>] \in V
      BY <2>2
    <2>4. g \in [0 .. m -> V]
      BY <2>1, <2>3
    <2>5. g[0] = start
      BY <2>1, <2>2
    <2>6. ASSUME NEW n \in 1 .. m PROVE g[n] = turn[<<g[n - 1], n>>]
      <3>1. n - 1 \in 0 .. (m - 1) /\ n - 1 \in 0 .. m /\ n - 1 # m /\ n \in 0 .. m
        BY <2>2
      <3>2. g[n - 1] = f[n - 1]
        BY <3>1
      <3>3. CASE n = m
        BY <3>1, <3>2, <3>3
      <3>4. CASE n # m
        <4>1. g[n] = f[n] /\ n \in 1 .. (m - 1)
          BY <3>1, <3>4
        <4> QED
          BY <2>1, <3>2, <4>1
      <3> QED
        BY <3>3, <3>4
    <2> HIDE DEF g
    <2>7. Upto(g, m)
      BY <2>4, <2>5, <2>6
    <2> QED
      BY <2>7
  <1> HIDE DEF Upto
  <1>3. N \in S
    <2> HIDE DEF S
    <2>1. 0 .. N \subseteq S
      BY <1>1, <1>2, BoundedInduction
    <2> QED
      BY <2>1
  <1>4. PICK f : Upto(f, N)
    BY <1>3
  <1>5. \A n \in 1 .. N : n - 1 \in 0 .. N
    OBVIOUS
  <1> QED
    BY <1>4, <1>5 DEF Upto, Loop

-----------------------------------------------------------------------------
(* The highest common factor.                                              *)

\* The equation of euclid, up to b = m.
Euclid(f, m) ==
    /\ f \in [0 .. m -> [Weights -> Weights]]
    /\ \A b \in 0 .. m : \A a \in Weights : f[b][a] = IF b = 0 THEN a ELSE f[a % b][b]

LEMMA Modulo ==
    ASSUME NEW a \in Nat, NEW b \in Nat, b # 0
    PROVE  a % b \in 0 .. (b - 1) /\ a = b * (a \div b) + (a % b) /\ a \div b \in Nat
  OBVIOUS

LEMMA EuclidExists == \E f : Euclid(f, 255)
  <1> DEFINE S == {m \in 0 .. 255 : \E f : Euclid(f, m)}
  <1>1. 0 \in S
    <2> DEFINE f == [b \in 0 .. 0 |-> [a \in Weights |-> a]]
    <2>1. f \in [0 .. 0 -> [Weights -> Weights]] /\ f[0] = [a \in Weights |-> a]
      OBVIOUS
    <2>2. \A b \in 0 .. 0 : b = 0
      OBVIOUS
    <2> HIDE DEF f
    <2>3. Euclid(f, 0)
      BY <2>1, <2>2 DEF Euclid
    <2> QED
      BY <2>3
  <1>2. ASSUME NEW m \in 1 .. 255, m - 1 \in S PROVE m \in S
    <2>1. PICK f : Euclid(f, m - 1)
      BY <1>2
    <2> DEFINE last == [a \in Weights |-> f[a % m][m]]
               g == [b \in 0 .. m |-> IF b = m THEN last ELSE f[b]]
    <2>2. \A a \in Weights : a % m \in 0 .. (m - 1)
      BY Modulo DEF Weights
    <2>3. last \in [Weights -> Weights]
      <3>1. m \in Weights
        BY DEF Weights
      <3> QED
        BY <2>1, <2>2, <3>1 DEF Euclid
    <2>4. g \in [0 .. m -> [Weights -> Weights]]
      <3>1. \A b \in 0 .. m : b # m => b \in 0 .. (m - 1)
        OBVIOUS
      <3> QED
        BY <2>1, <2>3, <3>1 DEF Euclid
    <2>5. ASSUME NEW b \in 0 .. m, NEW a \in Weights
          PROVE  g[b][a] = IF b = 0 THEN a ELSE g[a % b][b]
      <3>1. b # 0 => a % b \in 0 .. (b - 1)
        BY Modulo DEF Weights
      <3>2. b # 0 => a % b \in 0 .. m /\ a % b # m
        BY <3>1
      <3>3. b # 0 => g[a % b] = f[a % b]
        BY <3>2
      <3>4. CASE b = m
        <4>1. b # 0 /\ g[b] = last
          BY <3>4
        <4>2. last[a] = f[a % m][m]
          OBVIOUS
        <4> HIDE DEF last, g
        <4> QED
          BY <3>3, <3>4, <4>1, <4>2
      <3>5. CASE b # m
        <4>1. b \in 0 .. (m - 1) /\ g[b] = f[b]
          BY <3>5
        <4> HIDE DEF last, g
        <4> QED
          BY <2>1, <3>3, <4>1, Zenon DEF Euclid
      <3> QED
        BY <3>4, <3>5
    <2> HIDE DEF g
    <2>6. Euclid(g, m)
      BY <2>4, <2>5 DEF Euclid
    <2> QED
      BY <2>6
  <1> HIDE DEF S
  <1>3. 0 .. 255 \subseteq S
    BY <1>1, <1>2, BoundedInduction
  <1> QED
    BY <1>3 DEF S

LEMMA EuclidIs == Euclid(euclid, 255)
  <1> DEFINE value(f) == [b \in Weights |-> [a \in Weights |-> IF b = 0 THEN a ELSE f[a % b][b]]]
  <1>1. PICK f : Euclid(f, 255)
    BY EuclidExists
  <1>2. f = value(f)
    <2>1. ASSUME NEW b \in Weights
          PROVE  f[b] = [a \in Weights |-> IF b = 0 THEN a ELSE f[a % b][b]]
      <3>1. f[b] \in [Weights -> Weights]
        <4>1. f \in [0 .. 255 -> [Weights -> Weights]]
          BY <1>1, Zenon DEF Euclid
        <4>2. b \in 0 .. 255
          BY Zenon DEF Weights
        <4> QED
          BY <4>1, <4>2, Zenon
      <3>2. f[b] = [a \in Weights |-> f[b][a]]
        BY <3>1, Zenon
      <3>3. \A a \in Weights : f[b][a] = IF b = 0 THEN a ELSE f[a % b][b]
        BY <1>1, ZenonT(40) DEF Euclid, Weights
      <3> QED
        BY <3>2, <3>3, Zenon
    <2>2. DOMAIN f = Weights /\ f = [b \in DOMAIN f |-> f[b]]
      BY <1>1, ZenonT(40) DEF Euclid, Weights
    <2> QED
      BY <2>1, <2>2
  <1>3. euclid = value(euclid)
    BY <1>2, Zenon DEF euclid
  <1>4. \A b \in Weights : euclid[b] = [a \in Weights |-> IF b = 0 THEN a ELSE euclid[a % b][b]]
    <2> DEFINE e == euclid
    <2>1. e = value(e)
      BY <1>3, Zenon
    <2> HIDE DEF e
    <2>2. \A b \in Weights : e[b] = [a \in Weights |-> IF b = 0 THEN a ELSE e[a % b][b]]
      BY <2>1, Zenon
    <2> QED
      BY <2>2 DEF e
  <1> DEFINE S == {m \in 0 .. 255 : \A b \in 0 .. m : euclid[b] \in [Weights -> Weights]}
  <1>5. 0 \in S
    <2>1. \A b \in 0 .. 0 : b = 0 /\ b \in Weights
      BY DEF Weights
    <2>2. euclid[0] \in [Weights -> Weights]
      <3> DEFINE e == euclid
      <3> HIDE DEF e
      <3>1. e[0] = [a \in Weights |-> a]
        BY <1>4, <2>1 DEF e
      <3>2. e[0] \in [Weights -> Weights]
        BY <3>1
      <3> QED
        BY <3>2 DEF e
    <2> QED
      BY <2>1, <2>2
  <1>6. ASSUME NEW m \in 1 .. 255, m - 1 \in S PROVE m \in S
    <2>1. \A a \in Weights : a % m \in 0 .. (m - 1)
      BY Modulo DEF Weights
    <2>2. \A b \in 0 .. (m - 1) : euclid[b] \in [Weights -> Weights]
      BY <1>6
    <2>3. m \in Weights /\ m # 0
      BY DEF Weights
    <2>4. euclid[m] \in [Weights -> Weights]
      <3> DEFINE e == euclid
      <3> HIDE DEF e
      <3>1. e[m] = [a \in Weights |-> e[a % m][m]]
        BY <1>4, <2>3 DEF e
      <3>2. \A a \in Weights : e[a % m][m] \in Weights
        BY <2>1, <2>2, <2>3 DEF e
      <3>3. e[m] \in [Weights -> Weights]
        BY <3>1, <3>2
      <3> QED
        BY <3>3 DEF e
    <2>5. \A b \in 0 .. m : b = m \/ b \in 0 .. (m - 1)
      OBVIOUS
    <2> QED
      BY <2>2, <2>4, <2>5
  <1>7. 0 .. 255 \subseteq S
    <2> HIDE DEF S
    <2> QED
      BY <1>5, <1>6, BoundedInduction
  <1>8. \A b \in Weights : euclid[b] \in [Weights -> Weights]
    <2>1. 255 \in S
      <3>1. 255 \in 0 .. 255
        OBVIOUS
      <3> QED
        BY <1>7, <3>1, Zenon
    <2> QED
      BY <2>1, Zenon DEF Weights
  <1>9. euclid \in [Weights -> [Weights -> Weights]]
    <2> DEFINE e == euclid
    <2>1. e = value(e) /\ \A b \in Weights : e[b] \in [Weights -> Weights]
      BY <1>3, <1>8, Zenon
    <2> HIDE DEF e
    <2>2. e \in [Weights -> [Weights -> Weights]]
      BY <2>1
    <2> QED
      BY <2>2 DEF e
  <1>10. \A b \in Weights : \A a \in Weights : euclid[b][a] = IF b = 0 THEN a ELSE euclid[a % b][b]
    <2> DEFINE e == euclid
    <2>1. \A b \in Weights : e[b] = [a \in Weights |-> IF b = 0 THEN a ELSE e[a % b][b]]
      BY <1>4
    <2> HIDE DEF e
    <2>2. \A b \in Weights : \A a \in Weights : e[b][a] = IF b = 0 THEN a ELSE e[a % b][b]
      BY <2>1, Zenon
    <2> QED
      BY <2>2 DEF e
  <1> QED
    BY <1>9, <1>10, Zenon DEF Euclid, Weights

Divides(d, n) == \E q \in Nat : n = d * q

LEMMA DividesSum ==
    ASSUME NEW d \in Nat, NEW m \in Nat, NEW n \in Nat, Divides(d, m), Divides(d, n), NEW k \in Nat
    PROVE  Divides(d, m * k + n)
  <1>1. PICK p \in Nat : m = d * p
    BY Zenon DEF Divides
  <1>2. PICK q \in Nat : n = d * q
    BY Zenon DEF Divides
  <1>3. m * k + n = d * (p * k + q) /\ p * k + q \in Nat
    BY <1>1, <1>2
  <1> QED
    BY <1>3, Zenon DEF Divides

LEMMA DividesTrans ==
    ASSUME NEW d \in Nat, NEW m \in Nat, NEW n \in Nat, Divides(d, m), Divides(m, n)
    PROVE  Divides(d, n)
  <1>1. PICK p \in Nat : m = d * p
    BY Zenon DEF Divides
  <1>2. PICK q \in Nat : n = m * q
    BY Zenon DEF Divides
  <1>3. n = d * (p * q) /\ p * q \in Nat
    BY <1>1, <1>2
  <1> QED
    BY <1>3, Zenon DEF Divides

LEMMA DividesSelf == \A n \in Nat : Divides(n, n) /\ Divides(n, 0)
  <1>1. \A n \in Nat : n = n * 1 /\ 0 = n * 0
    OBVIOUS
  <1> QED
    BY <1>1 DEF Divides

LEMMA EuclidDivides ==
    \A b \in Weights : \A a \in Weights :
       euclid[b][a] \in Weights /\ Divides(euclid[b][a], a) /\ Divides(euclid[b][a], b)
  <1> DEFINE e == euclid
             Both(b) == \A a \in Weights :
                           e[b][a] \in Weights /\ Divides(e[b][a], a) /\ Divides(e[b][a], b)
             S == {m \in 0 .. 255 : \A b \in 0 .. m : Both(b)}
  <1>1. Euclid(e, 255)
    BY EuclidIs
  <1> HIDE DEF e
  <1>2. /\ \A b \in Weights : \A a \in Weights : e[b][a] \in Weights
        /\ \A b \in Weights : \A a \in Weights : e[b][a] = IF b = 0 THEN a ELSE e[a % b][b]
    <2>1. \A b \in Weights : e[b] \in [Weights -> Weights]
      BY <1>1, ZenonT(40) DEF Euclid, Weights
    <2>2. \A b \in Weights : \A a \in Weights : e[b][a] \in Weights
      BY <2>1
    <2> QED
      BY <1>1, <2>2, ZenonT(40) DEF Euclid, Weights
  <1>3. Both(0)
    <2>1. 0 \in Weights /\ Weights \subseteq Nat
      BY DEF Weights
    <2> QED
      BY <1>2, <2>1, DividesSelf
  <1>4. ASSUME NEW m \in 1 .. 255, m - 1 \in S PROVE m \in S
    <2>1. m \in Weights /\ m # 0 /\ m \in Nat
      BY DEF Weights
    <2>2. \A b \in 0 .. (m - 1) : Both(b)
      BY <1>4
    <2>3. ASSUME NEW a \in Weights
          PROVE  e[m][a] \in Weights /\ Divides(e[m][a], a) /\ Divides(e[m][a], m)
      <3>1. /\ a \in Nat /\ a % m \in 0 .. (m - 1) /\ a = m * (a \div m) + (a % m)
            /\ a \div m \in Nat
        BY <2>1, Modulo DEF Weights
      <3>2. e[m][a] = e[a % m][m]
        BY <1>2, <2>1
      <3>3. PICK d : d = e[a % m][m]
        OBVIOUS
      <3>4. d \in Weights /\ Divides(d, m) /\ Divides(d, a % m)
        BY <2>1, <2>2, <3>1, <3>3, Zenon
      <3>5. d \in Nat /\ a % m \in Nat
        BY <3>1, <3>4 DEF Weights
      <3>6. Divides(d, m * (a \div m) + (a % m))
        BY <2>1, <3>1, <3>4, <3>5, DividesSum, Zenon
      <3> QED
        BY <3>1, <3>2, <3>3, <3>4, <3>6
    <2>4. \A b \in 0 .. m : b = m \/ b \in 0 .. (m - 1)
      OBVIOUS
    <2> QED
      BY <2>2, <2>3, <2>4
  <1>5. 0 \in S
    <2>1. \A b \in 0 .. 0 : b = 0
      OBVIOUS
    <2> QED
      BY <1>3, <2>1
  <1>6. 0 .. 255 \subseteq S
    <2> HIDE DEF S
    <2> QED
      BY <1>4, <1>5, BoundedInduction
  <1>7. \A b \in Weights : Both(b)
    <2>1. 255 \in S
      <3> HIDE DEF S
      <3> QED
        BY <1>6
    <2> HIDE DEF Both
    <2> QED
      BY <2>1, Zenon DEF Weights
  <1> QED
    BY <1>7 DEF e

LEMMA WeightsAreNat == Weights \subseteq Nat
  BY DEF Weights

LEMMA CommonFactor ==
    ASSUME NEW a \in Weights, NEW b \in Weights, NEW h, h = highest_common_factor(a, b)
    PROVE  h \in Weights /\ Divides(h, a) /\ Divides(h, b)
  <1>1. a \in Nat /\ b \in Nat
    BY DEF Weights
  <1> QED
    BY <1>1, EuclidDivides, DividesSelf DEF highest_common_factor

LEMMA DividesRest ==
    ASSUME NEW c \in Nat, NEW m \in Nat, NEW n \in Nat, NEW k \in Nat,
           Divides(c, m), Divides(c, m * k + n)
    PROVE  Divides(c, n)
  <1>1. PICK p \in Nat : m = c * p
    BY Zenon DEF Divides
  <1>2. PICK q \in Nat : m * k + n = c * q
    BY Zenon DEF Divides
  <1>3. PICK r : r = p * k
    BY Zenon
  <1>4. r \in Nat /\ m * k = c * r
    BY <1>1, <1>3
  <1>5. CASE r <= q
    <2>1. q - r \in Nat /\ n = c * (q - r)
      BY <1>2, <1>4, <1>5
    <2> QED
      BY <2>1, Zenon DEF Divides
  <1>6. CASE ~(r <= q)
    <2>1. n + c * (r - q) = 0 /\ r - q \in Nat
      BY <1>2, <1>4, <1>6
    <2>2. c * (r - q) \in Nat
      BY <2>1
    <2>3. n = 0
      BY <2>1, <2>2
    <2> QED
      BY <2>3, DividesSelf DEF Divides
  <1> QED
    BY <1>5, <1>6

\* Every common divisor divides what the loop of highest_common_factor returns.
LEMMA EuclidGreatest ==
    ASSUME NEW c \in Nat
    PROVE  \A b \in Weights : \A a \in Weights :
              Divides(c, a) /\ Divides(c, b) => Divides(c, euclid[b][a])
  <1> DEFINE e == euclid
             Greatest(b) == \A a \in Weights :
                               Divides(c, a) /\ Divides(c, b) => Divides(c, e[b][a])
             S == {m \in 0 .. 255 : \A b \in 0 .. m : Greatest(b)}
  <1>1. Euclid(e, 255)
    BY EuclidIs
  <1> HIDE DEF e
  <1>2. \A b \in Weights : \A a \in Weights : e[b][a] = IF b = 0 THEN a ELSE e[a % b][b]
    BY <1>1, Zenon DEF Euclid, Weights
  <1>3. Greatest(0)
    <2>1. 0 \in Weights
      BY DEF Weights
    <2> QED
      BY <1>2, <2>1, Zenon
  <1>4. ASSUME NEW m \in 1 .. 255, m - 1 \in S PROVE m \in S
    <2>1. m \in Weights /\ m # 0 /\ m \in Nat
      BY DEF Weights
    <2>2. \A b \in 0 .. (m - 1) : Greatest(b)
      BY <1>4
    <2>3. ASSUME NEW a \in Weights, Divides(c, a), Divides(c, m) PROVE Divides(c, e[m][a])
      <3>1. /\ a \in Nat /\ a % m \in 0 .. (m - 1) /\ a = m * (a \div m) + (a % m)
            /\ a \div m \in Nat
        BY <2>1, Modulo DEF Weights
      <3>2. a % m \in Nat
        BY <3>1
      <3>3. Divides(c, m * (a \div m) + (a % m))
        BY <2>3, <3>1
      <3>4. Divides(c, a % m)
        BY <2>1, <2>3, <3>1, <3>2, <3>3, DividesRest, Zenon
      <3>5. Divides(c, e[a % m][m])
        BY <2>1, <2>2, <2>3, <3>1, <3>4, Zenon
      <3> QED
        BY <1>2, <2>1, <3>5, Zenon
    <2>4. \A b \in 0 .. m : b = m \/ b \in 0 .. (m - 1)
      OBVIOUS
    <2> QED
      BY <2>2, <2>3, <2>4
  <1>5. 0 \in S
    <2>1. \A b \in 0 .. 0 : b = 0
      OBVIOUS
    <2> QED
      BY <1>3, <2>1
  <1>6. 0 .. 255 \subseteq S
    <2> HIDE DEF S
    <2> QED
      BY <1>4, <1>5, BoundedInduction
  <1>7. \A b \in Weights : Greatest(b)
    <2>1. 255 \in S
      <3> HIDE DEF S
      <3> QED
        BY <1>6
    <2> HIDE DEF Greatest
    <2> QED
      BY <2>1, Zenon DEF Weights
  <1> QED
    BY <1>7 DEF e

LEMMA GreatestFactor ==
    ASSUME NEW a \in Weights, NEW b \in Weights, NEW h, h = highest_common_factor(a, b),
           NEW c \in Nat, Divides(c, a), Divides(c, b)
    PROVE  Divides(c, h)
  BY EuclidGreatest, Zenon DEF highest_common_factor

-----------------------------------------------------------------------------
(* The loops of the code.                                                   *)

Selections == [priority : 0 .. 255, locators : Seq(Locators)]
NoSelection == [priority |-> UNUSED_RLOC_PRIORITY, locators |-> <<>>]

LEMMA LocatorFields ==
    \A l \in Locators : /\ l.weight \in Weights /\ l.weight \in Nat /\ l.priority \in 0 .. 255
                        /\ l.afi \in {0, AF_INET, AF_INET6} /\ l.state \in {UP, DOWN}
  BY DEF Locators, Weights

LEMMA SelectLocator ==
    \A best \in Selections, l \in Locators : select_locator(best, l) \in Selections
  <1> SUFFICES ASSUME NEW best \in Selections, NEW l \in Locators
               PROVE  select_locator(best, l) \in Selections
    OBVIOUS
  <1>1. PICK q : q = Append(best.locators, l)
    BY Zenon
  <1>2. q \in Seq(Locators)
    BY <1>1 DEF Selections
  <1>3. [best EXCEPT !.locators = q] \in Selections
    BY <1>2, Zenon DEF Selections
  <1>4. [priority |-> l.priority, locators |-> <<l>>] \in Selections
    BY LocatorFields DEF Selections
  <1> QED
    BY <1>1, <1>3, <1>4, Zenon DEF select_locator

Positions(l, total, hcf) ==
    [p \in 1 .. (IF total # 0 THEN l.weight \div hcf ELSE 1) |-> l]

\* Each locator of the family is put in front of the others.
Classified(f, map, afi) ==
    /\ f \in [0 .. Len(map) -> Seq(Locators)] /\ f[0] = <<>>
    /\ \A n \in 1 .. Len(map) :
          f[n] = IF map[n].afi = afi THEN <<map[n]>> \o f[n - 1] ELSE f[n - 1]

LEMMA ClassifyLoop ==
    ASSUME NEW map \in Seq(Locators), NEW afi
    PROVE  \E f : Classified(f, map, afi) /\ fb_locators_classify_in_4_6(map, afi) = f[Len(map)]
  <1> DEFINE N == Len(map)
             V == Seq(Locators)
             start == <<>>
             turn == [x \in V \X (1 .. N) |->
                        IF map[x[2]].afi = afi THEN <<map[x[2]]>> \o x[1] ELSE x[1]]
             v == Turns(LAMBDA list, l : IF l.afi = afi THEN <<l>> \o list ELSE list, <<>>, map)
             value(f) == [n \in 0 .. N |->
                            IF n = 0 THEN start
                            ELSE IF map[n].afi = afi THEN <<map[n]>> \o f[n - 1] ELSE f[n - 1]]
  <1>1. N \in Nat /\ start \in V /\ turn \in [V \X (1 .. N) -> V]
    OBVIOUS
  <1>2. PICK f : Loop(f, N, V, start, turn)
    <2> HIDE DEF N, V, turn, start
    <2> QED
      BY <1>1, LoopExists, Zenon
  <1>3. ASSUME NEW n \in 1 .. N
        PROVE  f[n] = IF map[n].afi = afi THEN <<map[n]>> \o f[n - 1] ELSE f[n - 1]
    <2>1. f[n - 1] \in V /\ f[n] = turn[<<f[n - 1], n>>]
      BY <1>2, Zenon DEF Loop
    <2>2. <<f[n - 1], n>> \in V \X (1 .. N)
      BY <2>1
    <2> QED
      BY <2>1, <2>2, Zenon
  <1>4. f = value(f)
    <2>1. f \in [0 .. N -> V] /\ f[0] = start
      BY <1>2, Zenon DEF Loop
    <2>2. \A n \in 0 .. N : n = 0 \/ n \in 1 .. N
      BY <1>1
    <2>3. \A n \in 0 .. N : f[n] = value(f)[n]
      <3> HIDE DEF N
      <3> QED
        BY <1>3, <2>1, <2>2, Zenon
    <2> HIDE DEF N, V
    <2> QED
      BY <2>1, <2>3, Zenon
  <1>5. v = value(v)
    BY <1>4, Zenon DEF Turns
  <1>6. v[N] = f[N]
    <2> DEFINE S == {n \in 0 .. N : v[n] = f[n]}
    <2> HIDE DEF v
    <2>1. 0 \in S
      BY <1>1, <1>2, <1>5 DEF Loop
    <2>2. ASSUME NEW n \in 1 .. N, n - 1 \in S PROVE n \in S
      <3>1. n \in 0 .. N /\ n # 0 /\ v[n - 1] = f[n - 1]
        BY <1>1, <2>2
      <3>2. v[n] = IF map[n].afi = afi THEN <<map[n]>> \o v[n - 1] ELSE v[n - 1]
        BY <1>5, <3>1, Zenon
      <3> QED
        BY <1>3, <3>1, <3>2
    <2>3. 0 .. N \subseteq S
      <3> HIDE DEF S, N
      <3> QED
        BY <1>1, <2>1, <2>2, BoundedInduction, Zenon
    <2> QED
      BY <1>1, <2>3
  <1>7. fb_locators_classify_in_4_6(map, afi) = v[N]
    BY Zenon DEF fb_locators_classify_in_4_6, After
  <1>8. f \in [0 .. N -> V] /\ f[0] = start
    BY <1>2, Zenon DEF Loop
  <1> QED
    BY <1>3, <1>6, <1>7, <1>8, Zenon DEF Classified

\* The sum of the weights.
Summed(f, L) ==
    /\ f \in [0 .. Len(L) -> Nat] /\ f[0] = 0
    /\ \A n \in 1 .. Len(L) :
          f[n] = f[n - 1] + L[n].weight

LEMMA TotalLoop ==
    ASSUME NEW L \in Seq(Locators)
    PROVE  \E f : Summed(f, L) /\ total_weight(L) = f[Len(L)]
  <1> DEFINE N == Len(L)
             V == Nat
             start == 0
             turn == [x \in V \X (1 .. N) |->
                        x[1] + L[x[2]].weight]
             v == Turns(LAMBDA weight, l : weight + l.weight, 0, L)
             value(f) == [n \in 0 .. N |->
                            IF n = 0 THEN start
                            ELSE f[n - 1] + L[n].weight]
  <1>1. N \in Nat /\ start \in V /\ turn \in [V \X (1 .. N) -> V]
    <2>1. \A n \in 1 .. N : L[n] \in Locators /\ L[n].weight \in Nat
      BY LocatorFields
    <2>2. \A x \in Nat \X (1 .. N) : x[1] + L[x[2]].weight \in Nat
      BY <2>1
    <2> QED
      BY <2>2
  <1>2. PICK f : Loop(f, N, V, start, turn)
    <2> HIDE DEF N, V, turn, start
    <2> QED
      BY <1>1, LoopExists, Zenon
  <1>3. ASSUME NEW n \in 1 .. N
        PROVE  f[n] = f[n - 1] + L[n].weight
    <2>1. f[n - 1] \in V /\ f[n] = turn[<<f[n - 1], n>>]
      BY <1>2, Zenon DEF Loop
    <2>2. <<f[n - 1], n>> \in V \X (1 .. N)
      BY <2>1
    <2> QED
      BY <2>1, <2>2, Zenon
  <1>4. f = value(f)
    <2>1. f \in [0 .. N -> V] /\ f[0] = start
      BY <1>2, Zenon DEF Loop
    <2>2. \A n \in 0 .. N : n = 0 \/ n \in 1 .. N
      BY <1>1
    <2>3. \A n \in 0 .. N : f[n] = value(f)[n]
      <3> HIDE DEF N
      <3> QED
        BY <1>3, <2>1, <2>2, Zenon
    <2> HIDE DEF N, V
    <2> QED
      BY <2>1, <2>3, Zenon
  <1>5. v = value(v)
    BY <1>4, Zenon DEF Turns
  <1>6. v[N] = f[N]
    <2> DEFINE S == {n \in 0 .. N : v[n] = f[n]}
    <2> HIDE DEF v
    <2>1. 0 \in S
      BY <1>1, <1>2, <1>5 DEF Loop
    <2>2. ASSUME NEW n \in 1 .. N, n - 1 \in S PROVE n \in S
      <3>1. n \in 0 .. N /\ n # 0 /\ v[n - 1] = f[n - 1]
        BY <1>1, <2>2
      <3>2. v[n] = v[n - 1] + L[n].weight
        BY <1>5, <3>1
      <3> QED
        BY <1>3, <3>1, <3>2
    <2>3. 0 .. N \subseteq S
      <3> HIDE DEF S, N
      <3> QED
        BY <1>1, <2>1, <2>2, BoundedInduction, Zenon
    <2> QED
      BY <1>1, <2>3
  <1>7. total_weight(L) = v[N]
    BY Zenon DEF total_weight, After
  <1>8. f \in [0 .. N -> V] /\ f[0] = start
    BY <1>2, Zenon DEF Loop
  <1> QED
    BY <1>3, <1>6, <1>7, <1>8, Zenon DEF Summed

\* The highest common factor of the weights.
Factored(f, L) ==
    /\ f \in [0 .. Len(L) -> Weights] /\ f[0] = L[1].weight
    /\ \A n \in 1 .. Len(L) :
          f[n] = highest_common_factor(f[n - 1], L[n].weight)

LEMMA FactorLoop ==
    ASSUME NEW L \in Seq(Locators), L # <<>>
    PROVE  \E f : Factored(f, L) /\ tmp_hcf(L) = f[Len(L)]
  <1> DEFINE N == Len(L)
             V == Weights
             start == L[1].weight
             turn == [x \in V \X (1 .. N) |->
                        highest_common_factor(x[1], L[x[2]].weight)]
             v == Turns(LAMBDA h, l : highest_common_factor(h, l.weight), Head(L).weight, L)
             value(f) == [n \in 0 .. N |->
                            IF n = 0 THEN start
                            ELSE highest_common_factor(f[n - 1], L[n].weight)]
  <1>1. N \in Nat /\ start \in V /\ turn \in [V \X (1 .. N) -> V]
    <2>1. \A n \in 1 .. N : L[n] \in Locators /\ L[n].weight \in Weights
      BY LocatorFields
    <2>2. 1 \in 1 .. N
      OBVIOUS
    <2>3. \A h \in Weights, w \in Weights : highest_common_factor(h, w) \in Weights
      BY CommonFactor
    <2>4. \A x \in Weights \X (1 .. N) : highest_common_factor(x[1], L[x[2]].weight) \in Weights
      BY <2>1, <2>3
    <2> QED
      BY <2>1, <2>2, <2>4
  <1>2. PICK f : Loop(f, N, V, start, turn)
    <2> HIDE DEF N, V, turn, start
    <2> QED
      BY <1>1, LoopExists, Zenon
  <1>3. ASSUME NEW n \in 1 .. N
        PROVE  f[n] = highest_common_factor(f[n - 1], L[n].weight)
    <2>1. f[n - 1] \in V /\ f[n] = turn[<<f[n - 1], n>>]
      BY <1>2, Zenon DEF Loop
    <2>2. <<f[n - 1], n>> \in V \X (1 .. N)
      BY <2>1
    <2> QED
      BY <2>1, <2>2, Zenon
  <1>4. f = value(f)
    <2>1. f \in [0 .. N -> V] /\ f[0] = start
      BY <1>2, Zenon DEF Loop
    <2>2. \A n \in 0 .. N : n = 0 \/ n \in 1 .. N
      BY <1>1
    <2>3. \A n \in 0 .. N : f[n] = value(f)[n]
      <3> HIDE DEF N
      <3> QED
        BY <1>3, <2>1, <2>2, Zenon
    <2> HIDE DEF N, V
    <2> QED
      BY <2>1, <2>3, Zenon
  <1>5. v = value(v)
    BY <1>4 DEF Turns
  <1>6. v[N] = f[N]
    <2> DEFINE S == {n \in 0 .. N : v[n] = f[n]}
    <2> HIDE DEF v
    <2>1. 0 \in S
      BY <1>1, <1>2, <1>5 DEF Loop
    <2>2. ASSUME NEW n \in 1 .. N, n - 1 \in S PROVE n \in S
      <3>1. n \in 0 .. N /\ n # 0 /\ v[n - 1] = f[n - 1]
        BY <1>1, <2>2
      <3>2. v[n] = highest_common_factor(v[n - 1], L[n].weight)
        BY <1>5, <3>1
      <3> QED
        BY <1>3, <3>1, <3>2
    <2>3. 0 .. N \subseteq S
      <3> HIDE DEF S, N
      <3> QED
        BY <1>1, <2>1, <2>2, BoundedInduction, Zenon
    <2> QED
      BY <1>1, <2>3
  <1>7. tmp_hcf(L) = v[N]
    BY DEF tmp_hcf, After
  <1>8. f \in [0 .. N -> V] /\ f[0] = start
    BY <1>2, Zenon DEF Loop
  <1> QED
    BY <1>3, <1>6, <1>7, <1>8, Zenon DEF Factored

\* The usable locators of the best priority.
Selected(f, L) ==
    /\ f \in [0 .. Len(L) -> Selections] /\ f[0] = NoSelection
    /\ \A n \in 1 .. Len(L) :
          f[n] = select_locator(f[n - 1], L[n])

LEMMA SelectLoop ==
    ASSUME NEW L \in Seq(Locators)
    PROVE  \E f : Selected(f, L) /\ select_best_priority_locators(L) = f[Len(L)]
  <1> DEFINE N == Len(L)
             V == Selections
             start == NoSelection
             turn == [x \in V \X (1 .. N) |->
                        select_locator(x[1], L[x[2]])]
             v == Turns(select_locator, NoSelection, L)
             value(f) == [n \in 0 .. N |->
                            IF n = 0 THEN start
                            ELSE select_locator(f[n - 1], L[n])]
  <1>1. N \in Nat /\ start \in V /\ turn \in [V \X (1 .. N) -> V]
    <2>1. NoSelection \in Selections
      BY DEF Selections, NoSelection, UNUSED_RLOC_PRIORITY
    <2>2. \A n \in 1 .. N : L[n] \in Locators
      OBVIOUS
    <2>3. \A x \in V \X (1 .. N) : select_locator(x[1], L[x[2]]) \in V
      BY <2>2, SelectLocator
    <2> QED
      BY <2>1, <2>3
  <1>2. PICK f : Loop(f, N, V, start, turn)
    <2> HIDE DEF N, V, turn, start
    <2> QED
      BY <1>1, LoopExists, Zenon
  <1>3. ASSUME NEW n \in 1 .. N
        PROVE  f[n] = select_locator(f[n - 1], L[n])
    <2>1. f[n - 1] \in V /\ f[n] = turn[<<f[n - 1], n>>]
      BY <1>2, Zenon DEF Loop
    <2>2. <<f[n - 1], n>> \in V \X (1 .. N)
      BY <2>1
    <2> QED
      BY <2>1, <2>2, Zenon
  <1>4. f = value(f)
    <2>1. f \in [0 .. N -> V] /\ f[0] = start
      BY <1>2, Zenon DEF Loop
    <2>2. \A n \in 0 .. N : n = 0 \/ n \in 1 .. N
      BY <1>1
    <2>3. \A n \in 0 .. N : f[n] = value(f)[n]
      <3> HIDE DEF N
      <3> QED
        BY <1>3, <2>1, <2>2, Zenon
    <2> HIDE DEF N, V
    <2> QED
      BY <2>1, <2>3, Zenon
  <1>5. v = value(v)
    BY <1>4, Zenon DEF Turns
  <1>6. v[N] = f[N]
    <2> DEFINE S == {n \in 0 .. N : v[n] = f[n]}
    <2> HIDE DEF v
    <2>1. 0 \in S
      BY <1>1, <1>2, <1>5 DEF Loop
    <2>2. ASSUME NEW n \in 1 .. N, n - 1 \in S PROVE n \in S
      <3>1. n \in 0 .. N /\ n # 0 /\ v[n - 1] = f[n - 1]
        BY <1>1, <2>2
      <3>2. v[n] = select_locator(v[n - 1], L[n])
        BY <1>5, <3>1
      <3> QED
        BY <1>3, <3>1, <3>2
    <2>3. 0 .. N \subseteq S
      <3> HIDE DEF S, N
      <3> QED
        BY <1>1, <2>1, <2>2, BoundedInduction, Zenon
    <2> QED
      BY <1>1, <2>3
  <1>7. select_best_priority_locators(L) = v[N]
    BY DEF select_best_priority_locators, NoSelection, After
  <1>8. f \in [0 .. N -> V] /\ f[0] = start
    BY <1>2, Zenon DEF Loop
  <1> QED
    BY <1>3, <1>6, <1>7, <1>8 DEF Selected

\* Each locator takes its positions.
Filled(f, L, total, hcf) ==
    /\ f \in [0 .. Len(L) -> Seq(Locators)] /\ f[0] = <<>>
    /\ \A n \in 1 .. Len(L) :
          f[n] = f[n - 1] \o Positions(L[n], total, hcf)

LEMMA FillLoop ==
    ASSUME NEW L \in Seq(Locators), NEW total, NEW hcf, \A l \in Locators : Positions(l, total, hcf) \in Seq(Locators)
    PROVE  \E f : Filled(f, L, total, hcf) /\ set_balancing_vector(L, total, hcf).cells = f[Len(L)]
  <1> DEFINE N == Len(L)
             V == Seq(Locators)
             start == <<>>
             turn == [x \in V \X (1 .. N) |->
                        x[1] \o Positions(L[x[2]], total, hcf)]
             v == Turns(LAMBDA cells, l : cells \o Positions(l, total, hcf), <<>>, L)
             value(f) == [n \in 0 .. N |->
                            IF n = 0 THEN start
                            ELSE f[n - 1] \o Positions(L[n], total, hcf)]
  <1>1. N \in Nat /\ start \in V /\ turn \in [V \X (1 .. N) -> V]
    OBVIOUS
  <1>2. PICK f : Loop(f, N, V, start, turn)
    <2> HIDE DEF N, V, turn, start
    <2> QED
      BY <1>1, LoopExists, Zenon
  <1>3. ASSUME NEW n \in 1 .. N
        PROVE  f[n] = f[n - 1] \o Positions(L[n], total, hcf)
    <2>1. f[n - 1] \in V /\ f[n] = turn[<<f[n - 1], n>>]
      BY <1>2, Zenon DEF Loop
    <2>2. <<f[n - 1], n>> \in V \X (1 .. N)
      BY <2>1
    <2> QED
      BY <2>1, <2>2, Zenon
  <1>4. f = value(f)
    <2>1. f \in [0 .. N -> V] /\ f[0] = start
      BY <1>2, Zenon DEF Loop
    <2>2. \A n \in 0 .. N : n = 0 \/ n \in 1 .. N
      BY <1>1
    <2>3. \A n \in 0 .. N : f[n] = value(f)[n]
      <3> HIDE DEF N
      <3> QED
        BY <1>3, <2>1, <2>2, Zenon
    <2> QED
      BY <2>1, <2>3, Zenon
  <1>5. v = value(v)
    BY <1>4, Zenon DEF Turns
  <1>6. v[N] = f[N]
    <2> DEFINE S == {n \in 0 .. N : v[n] = f[n]}
    <2> HIDE DEF v
    <2>1. 0 \in S
      BY <1>1, <1>2, <1>5 DEF Loop
    <2>2. ASSUME NEW n \in 1 .. N, n - 1 \in S PROVE n \in S
      <3>1. n \in 0 .. N /\ n # 0 /\ v[n - 1] = f[n - 1]
        BY <1>1, <2>2
      <3>2. v[n] = v[n - 1] \o Positions(L[n], total, hcf)
        BY <1>5, <3>1, Zenon
      <3> QED
        BY <1>3, <3>1, <3>2, Zenon
    <2>3. 0 .. N \subseteq S
      <3> HIDE DEF S, N
      <3> QED
        BY <1>1, <2>1, <2>2, BoundedInduction, Zenon
    <2> QED
      BY <1>1, <2>3
  <1>7. set_balancing_vector(L, total, hcf).cells = v[N]
    BY Zenon DEF set_balancing_vector, fill_vector, used_pos, Positions, After
  <1>8. f \in [0 .. N -> V] /\ f[0] = start
    BY <1>2, Zenon DEF Loop
  <1> QED
    BY <1>3, <1>6, <1>7, <1>8, Zenon DEF Filled

-----------------------------------------------------------------------------
(* What the lists hold.                                                    *)

In(l, q) == \E k \in 1 .. Len(q) : q[k] = l
First(q, n) == {q[k] : k \in 1 .. n}

LEMMA InEmpty == \A l : ~In(l, <<>>)
  BY DEF In

LEMMA InConcat ==
    ASSUME NEW T, NEW q \in Seq(T), NEW r \in Seq(T), NEW l
    PROVE  In(l, q \o r) <=> In(l, q) \/ In(l, r)
  <1>1. /\ Len(q) \in Nat /\ Len(r) \in Nat /\ Len(q \o r) = Len(q) + Len(r)
        /\ \A k \in 1 .. Len(q) : (q \o r)[k] = q[k]
        /\ \A k \in 1 .. Len(r) : (q \o r)[k + Len(q)] = r[k]
    OBVIOUS
  <1>2. PICK c : c = q \o r
    BY Zenon
  <1>3. ASSUME NEW k \in 1 .. Len(c), c[k] = l PROVE In(l, q) \/ In(l, r)
    <2>1. CASE k \in 1 .. Len(q)
      BY <1>1, <1>2, <1>3, <2>1 DEF In
    <2>2. CASE k \notin 1 .. Len(q)
      <3>1. k - Len(q) \in 1 .. Len(r) /\ (k - Len(q)) + Len(q) = k
        BY <1>1, <1>2, <2>2
      <3>2. r[k - Len(q)] = c[k]
        BY <1>1, <1>2, <3>1
      <3> QED
        BY <1>3, <3>1, <3>2 DEF In
    <2> QED
      BY <2>1, <2>2
  <1>4. ASSUME NEW k \in 1 .. Len(q), q[k] = l PROVE In(l, c)
    BY <1>1, <1>2, <1>4 DEF In
  <1>5. ASSUME NEW k \in 1 .. Len(r), r[k] = l PROVE In(l, c)
    <2>1. k + Len(q) \in 1 .. Len(c) /\ c[k + Len(q)] = l
      BY <1>1, <1>2, <1>5
    <2> QED
      BY <2>1 DEF In
  <1> QED
    BY <1>2, <1>3, <1>4, <1>5 DEF In

LEMMA InOne == \A x, l : In(l, <<x>>) <=> l = x
  BY DEF In

LEMMA InAppend ==
    ASSUME NEW T, NEW q \in Seq(T), NEW x \in T, NEW l
    PROVE  In(l, Append(q, x)) <=> In(l, q) \/ l = x
  <1>1. PICK r : r = <<x>>
    BY Zenon
  <1>2. Append(q, x) = q \o r /\ r \in Seq(T)
    BY <1>1
  <1>3. In(l, q \o r) <=> In(l, q) \/ In(l, r)
    BY <1>2, InConcat
  <1>4. In(l, r) <=> l = x
    BY <1>1, InOne
  <1> QED
    BY <1>2, <1>3, <1>4

\* No locator is twice in the list.
Distinct(q) == \A j, k \in 1 .. Len(q) : q[j] = q[k] => j = k

\* No locator of the family is twice in the mapping.
OneOfEach(map, afi) == \A j, k \in 1 .. Len(map) : map[j].afi = afi /\ map[j] = map[k] => j = k

LEMMA DistinctConcat ==
    ASSUME NEW T, NEW q \in Seq(T), NEW r \in Seq(T), Distinct(q), Distinct(r),
           \A l : ~(In(l, q) /\ In(l, r))
    PROVE  Distinct(q \o r)
  <1>1. PICK c, a, b : c = q \o r /\ a = Len(q) /\ b = Len(r)
    BY Zenon
  <1>2. /\ a \in Nat /\ b \in Nat /\ Len(c) = a + b
        /\ \A k \in 1 .. a : c[k] = q[k]
        /\ \A k \in (a + 1) .. (a + b) : c[k] = r[k - a] /\ k - a \in 1 .. b
    BY <1>1
  <1>3. \A k \in 1 .. (a + b) : k \in 1 .. a \/ k \in (a + 1) .. (a + b)
    BY <1>2
  <1>4. \A j \in 1 .. a, k \in (a + 1) .. (a + b) : c[j] # c[k]
    <2>1. \A j \in 1 .. a, k \in 1 .. b : q[j] # r[k]
      BY <1>1, Zenon DEF In
    <2> QED
      BY <1>2, <2>1
  <1>5. \A j, k \in 1 .. a : c[j] = c[k] => j = k
    BY <1>1, <1>2 DEF Distinct
  <1>6. ASSUME NEW j \in (a + 1) .. (a + b), NEW k \in (a + 1) .. (a + b), c[j] = c[k] PROVE j = k
    <2>1. j - a = k - a
      BY <1>1, <1>2, <1>6 DEF Distinct
    <2> QED
      BY <1>2, <2>1
  <1>7. \A j, k \in 1 .. (a + b) : c[j] = c[k] => j = k
    BY <1>3, <1>4, <1>5, <1>6, Zenon
  <1> QED
    BY <1>1, <1>2, <1>7, Zenon DEF Distinct

LEMMA DistinctOne == \A x : Distinct(<<x>>)
  BY DEF Distinct

LEMMA DistinctNone == Distinct(<<>>)
  BY DEF Distinct

LEMMA DistinctAppend ==
    ASSUME NEW T, NEW q \in Seq(T), NEW x \in T, Distinct(q), ~In(x, q)
    PROVE  Distinct(Append(q, x)) /\ Distinct(<<x>> \o q)
  <1>1. PICK r : r = <<x>>
    BY Zenon
  <1>2. Append(q, x) = q \o r /\ r \in Seq(T)
    BY <1>1
  <1>3. Distinct(r) /\ \A l : In(l, r) <=> l = x
    BY <1>1, DistinctOne, InOne, Zenon
  <1>4. Distinct(q \o r) /\ Distinct(r \o q)
    BY <1>2, <1>3, DistinctConcat, Zenon
  <1> QED
    BY <1>1, <1>2, <1>4

\* The element after the first ones is not among them.
LEMMA DistinctNext ==
    ASSUME NEW q, Distinct(q), Len(q) \in Nat, NEW n \in 1 .. Len(q)
    PROVE  q[n] \notin First(q, n - 1)
  <1>1. \A k \in 1 .. (n - 1) : k \in 1 .. Len(q) /\ k # n
    OBVIOUS
  <1> QED
    BY <1>1, Zenon DEF Distinct, First

LEMMA FirstNext ==
    ASSUME NEW q, NEW n \in Nat, n # 0
    PROVE  First(q, n) = First(q, n - 1) \cup {q[n]}
  BY DEF First

LEMMA FirstNone == \A q : First(q, 0) = {}
  BY DEF First

\* fb_locators_classify_in_4_6 collects the locators of the family.
LEMMA ClassifiedIn ==
    ASSUME NEW map \in Seq(Locators), NEW afi, OneOfEach(map, afi),
           NEW C, C = fb_locators_classify_in_4_6(map, afi)
    PROVE  /\ C \in Seq(Locators) /\ Distinct(C)
           /\ \A l : In(l, C) <=> In(l, map) /\ l.afi = afi
  <1>1. PICK f : Classified(f, map, afi) /\ C = f[Len(map)]
    BY ClassifyLoop
  <1> DEFINE N == Len(map)
             S == {n \in 0 .. N : /\ \A l : In(l, f[n]) <=> l \in First(map, n) /\ l.afi = afi
                                  /\ Distinct(f[n])}
  <1>2. N \in Nat /\ 0 \in 0 .. N
    OBVIOUS
  <1>3. 0 \in S
    BY <1>1, <1>2, InEmpty, FirstNone, DistinctNone, Zenon DEF Classified
  <1>4. ASSUME NEW n \in 1 .. N, n - 1 \in S PROVE n \in S
    <2>0. PICK r : r = <<map[n]>>
      BY Zenon
    <2>1. /\ f[n - 1] \in Seq(Locators) /\ r \in Seq(Locators) /\ n \in Nat /\ n # 0
          /\ f[n] = IF map[n].afi = afi THEN r \o f[n - 1] ELSE f[n - 1]
      <3>1. n - 1 \in 0 .. N /\ map[n] \in Locators /\ n \in Nat /\ n # 0
        BY <1>2
      <3>2. f \in [0 .. N -> Seq(Locators)]
        BY <1>1 DEF Classified
      <3>3. f[n] = IF map[n].afi = afi THEN r \o f[n - 1] ELSE f[n - 1]
        BY <1>1, <2>0, Zenon DEF Classified
      <3>4. r \in Seq(Locators)
        BY <2>0, <3>1
      <3> QED
        BY <3>1, <3>2, <3>3, <3>4, Zenon
    <2>2. ASSUME NEW l PROVE In(l, f[n]) <=> l \in First(map, n) /\ l.afi = afi
      <3>1. In(l, f[n - 1]) <=> l \in First(map, n - 1) /\ l.afi = afi
        BY <1>4
      <3>2. l \in First(map, n) <=> l \in First(map, n - 1) \/ l = map[n]
        BY <2>1, FirstNext
      <3>3. In(l, r \o f[n - 1]) <=> In(l, r) \/ In(l, f[n - 1])
        BY <2>1, InConcat
      <3>4. In(l, r) <=> l = map[n]
        BY <2>0, InOne
      <3> QED
        BY <2>1, <3>1, <3>2, <3>3, <3>4
    <2>3. Distinct(f[n])
      <3>1. Distinct(f[n - 1]) /\ (In(map[n], f[n - 1]) => map[n] \in First(map, n - 1))
        BY <1>4, Zenon
      <3>2. CASE map[n].afi = afi
        <4>1. \A k \in 1 .. (n - 1) : k \in 1 .. N /\ k # n
          BY <1>2
        <4>2. map[n] \notin First(map, n - 1)
          BY <3>2, <4>1, Zenon DEF OneOfEach, First
        <4>3. map[n] \in Locators
          BY <1>2
        <4>4. Distinct(r \o f[n - 1])
          BY <2>0, <2>1, <3>1, <4>2, <4>3, DistinctAppend, Zenon
        <4> QED
          BY <2>1, <3>2, <4>4, Zenon
      <3>3. CASE map[n].afi # afi
        BY <2>1, <3>1, <3>3, Zenon
      <3> QED
        BY <3>2, <3>3, Zenon
    <2>4. n \in 0 .. N
      BY <1>2
    <2> QED
      BY <2>2, <2>3, <2>4, Zenon
  <1>5. 0 .. N \subseteq S
    <2> HIDE DEF S, N
    <2> QED
      BY <1>2, <1>3, <1>4, BoundedInduction, Zenon
  <1>6. Distinct(f[N]) /\ \A l : In(l, f[N]) <=> l \in First(map, N) /\ l.afi = afi
    BY <1>2, <1>5
  <1>7. f[N] \in Seq(Locators)
    BY <1>1, <1>2 DEF Classified
  <1> QED
    BY <1>1, <1>6, <1>7 DEF In, First

Usable(l) == l.state = UP /\ l.priority # UNUSED_RLOC_PRIORITY

\* best is the selection among the locators of A.
SelectedOf(best, A) ==
    /\ best \in Selections
    /\ Distinct(best.locators)
    /\ \A l : In(l, best.locators) <=> l \in A /\ Usable(l) /\ l.priority = best.priority
    /\ \A l \in A : Usable(l) => best.priority <= l.priority
    /\ best.priority # UNUSED_RLOC_PRIORITY => \E l : In(l, best.locators)

LEMMA SelectFirst == SelectedOf(NoSelection, {})
  <1>1. /\ NoSelection \in Selections /\ NoSelection.locators = <<>>
        /\ NoSelection.priority = UNUSED_RLOC_PRIORITY
    BY DEF NoSelection, Selections, UNUSED_RLOC_PRIORITY
  <1> QED
    BY <1>1, InEmpty, DistinctNone, Zenon DEF SelectedOf

LEMMA Between ==
    ASSUME NEW p \in 0 .. 255, NEW q \in 0 .. 255, NEW r \in 0 .. 255, p < q, q <= r
    PROVE  p # r /\ p <= r
  OBVIOUS

LEMMA Priorities ==
    ASSUME NEW p \in 0 .. 255, NEW q \in 0 .. 255
    PROVE  /\ p > q => p # q /\ ~(p < q) /\ q <= p
           /\ p < q => p # q /\ ~(p > q) /\ p <= q
           /\ p = q => p <= q /\ ~(p > q)
           /\ p > q \/ p < q \/ p = q
  OBVIOUS

LEMMA SelectNext ==
    ASSUME NEW A, A \subseteq Locators, NEW x \in Locators, x \notin A, NEW best,
           SelectedOf(best, A), NEW next, next = select_locator(best, x)
    PROVE  SelectedOf(next, A \cup {x})
  <1>1. /\ x.priority \in 0 .. 255 /\ x.state \in {UP, DOWN}
        /\ best.priority \in 0 .. 255 /\ best.locators \in Seq(Locators)
    BY LocatorFields DEF SelectedOf, Selections
  <1>2. next \in Selections
    BY SelectLocator DEF SelectedOf
  <1>3. /\ Distinct(best.locators)
        /\ \A l : In(l, best.locators) <=> l \in A /\ Usable(l) /\ l.priority = best.priority
        /\ \A l \in A : Usable(l) => best.priority <= l.priority
        /\ best.priority # UNUSED_RLOC_PRIORITY => \E l : In(l, best.locators)
    BY DEF SelectedOf
  <1>4. UP # DOWN
    BY DEF UP, DOWN
  <1>5. CASE ~Usable(x)
    <2>1. next = best
      BY <1>1, <1>5 DEF select_locator, Usable
    <2> QED
      BY <1>2, <1>3, <1>5, <2>1, Zenon DEF SelectedOf
  <1>6. CASE Usable(x) /\ x.priority > best.priority
    <2>1. x.priority # best.priority /\ ~(x.priority < best.priority) /\ best.priority <= x.priority
      BY <1>1, <1>6, Priorities, Zenon
    <2>2. next = best
      BY <1>4, <1>6, <2>1, Zenon DEF select_locator, Usable
    <2> QED
      BY <1>2, <1>3, <2>1, <2>2 DEF SelectedOf
  <1>7. CASE Usable(x) /\ x.priority = best.priority
    <2>1. PICK q : q = Append(best.locators, x)
      BY Zenon
    <2>2. x.priority <= x.priority /\ ~(x.priority > best.priority)
      BY <1>1, <1>7, Priorities, Zenon
    <2>3. next = [best EXCEPT !.locators = q]
      BY <1>4, <1>7, <2>1, <2>2, Zenon DEF select_locator, Usable
    <2>4. next.priority = best.priority /\ next.locators = q
      BY <2>3 DEF SelectedOf, Selections
    <2>5. \A l : In(l, q) <=> In(l, best.locators) \/ l = x
      BY <1>1, <2>1, InAppend
    <2>6. \A l : In(l, next.locators) <=>
                    l \in A \cup {x} /\ Usable(l) /\ l.priority = next.priority
      BY <1>3, <1>7, <2>4, <2>5, Zenon
    <2>7. \A l \in A \cup {x} : Usable(l) => next.priority <= l.priority
      BY <1>3, <1>7, <2>2, <2>4, Zenon
    <2>8. In(x, next.locators)
      BY <2>4, <2>5, Zenon
    <2>9. Distinct(q)
      BY <1>1, <1>3, <2>1, DistinctAppend, Zenon
    <2> QED
      BY <1>2, <2>4, <2>6, <2>7, <2>8, <2>9, Zenon DEF SelectedOf
  <1>8. CASE Usable(x) /\ x.priority < best.priority
    <2>1. PICK q : q = <<x>>
      BY Zenon
    <2>2. next = [priority |-> x.priority, locators |-> q]
      <3>1. x.priority # best.priority /\ ~(x.priority > best.priority)
        BY <1>1, <1>8, Priorities, Zenon
      <3> QED
        BY <1>4, <1>8, <2>1, <3>1, Zenon DEF select_locator, Usable
    <2>3. next.priority = x.priority /\ next.locators = q
      BY <2>2
    <2>4. \A l : In(l, q) <=> l = x
      BY <2>1, InOne
    <2>5. ASSUME NEW l \in A, Usable(l) PROVE x.priority # l.priority /\ x.priority <= l.priority
      <3>1. l.priority \in 0 .. 255 /\ best.priority <= l.priority
        BY <1>3, <2>5, LocatorFields
      <3>2. x.priority \in 0 .. 255 /\ best.priority \in 0 .. 255 /\ x.priority < best.priority
        BY <1>1, <1>8
      <3> QED
        BY <3>1, <3>2, Between, ZenonT(40)
    <2>6. \A l \in A \cup {x} : Usable(l) => next.priority <= l.priority
      <3>1. x.priority <= x.priority
        BY <1>1, Priorities, Zenon
      <3> QED
        BY <2>3, <2>5, <3>1, Zenon
    <2>7. \A l : In(l, next.locators) <=>
                    l \in A \cup {x} /\ Usable(l) /\ l.priority = next.priority
      BY <1>8, <2>3, <2>4, <2>5, Zenon
    <2>8. In(x, next.locators)
      BY <2>3, <2>4, Zenon
    <2>9. Distinct(next.locators)
      BY <2>1, <2>3, DistinctOne, Zenon
    <2> QED
      BY <1>2, <2>6, <2>7, <2>8, <2>9, Zenon DEF SelectedOf
  <1>9. x.priority > best.priority \/ x.priority < best.priority \/ x.priority = best.priority
    BY <1>1, Priorities, Zenon
  <1> QED
    BY <1>5, <1>6, <1>7, <1>8, <1>9, Zenon

\* select_best_priority_locators selects the usable locators of the best
\* priority.
LEMMA SelectedIn ==
    ASSUME NEW L \in Seq(Locators), Distinct(L),
           NEW best, best = select_best_priority_locators(L)
    PROVE  SelectedOf(best, First(L, Len(L)))
  <1>1. PICK f : Selected(f, L) /\ best = f[Len(L)]
    BY SelectLoop
  <1> DEFINE N == Len(L)
             S == {n \in 0 .. N : SelectedOf(f[n], First(L, n))}
  <1>2. N \in Nat /\ 0 \in 0 .. N
    OBVIOUS
  <1>3. 0 \in S
    BY <1>1, <1>2, SelectFirst, FirstNone, Zenon DEF Selected
  <1>4. ASSUME NEW n \in 1 .. N, n - 1 \in S PROVE n \in S
    <2>1. f[n] = select_locator(f[n - 1], L[n])
      BY <1>1 DEF Selected
    <2>2. SelectedOf(f[n - 1], First(L, n - 1))
      BY <1>4
    <2>3. SelectedOf(f[n], First(L, n))
      <3>1. L[n] \in Locators /\ First(L, n - 1) \subseteq Locators
        BY <1>2 DEF First
      <3>2. L[n] \notin First(L, n - 1)
        BY <1>2, DistinctNext
      <3>4. SelectedOf(f[n], First(L, n - 1) \cup {L[n]})
        BY <2>1, <2>2, <3>1, <3>2, SelectNext
      <3>3. First(L, n) = First(L, n - 1) \cup {L[n]}
        BY FirstNext
      <3> QED
        BY <3>3, <3>4
    <2>4. n \in 0 .. N
      BY <1>2
    <2> QED
      BY <2>3, <2>4
  <1>5. 0 .. N \subseteq S
    <2> HIDE DEF S, N
    <2> QED
      BY <1>2, <1>3, <1>4, BoundedInduction, Zenon
  <1>6. N \in S
    BY <1>2, <1>5
  <1> QED
    BY <1>1, <1>6

-----------------------------------------------------------------------------
(* The lengths of the vectors.                                              *)

\* tmp_hcf divides the weights of all the locators.
LEMMA FactorDivides ==
    ASSUME NEW L \in Seq(Locators), L # <<>>, NEW h, h = tmp_hcf(L)
    PROVE  h \in Weights /\ \A l : In(l, L) => Divides(h, l.weight)
  <1>1. PICK f : Factored(f, L) /\ h = f[Len(L)]
    BY FactorLoop
  <1> DEFINE N == Len(L)
             S == {n \in 0 .. N : \A k \in 1 .. n : Divides(f[n], L[k].weight)}
  <1>2. N \in Nat /\ \A k \in 1 .. N : L[k] \in Locators
    OBVIOUS
  <1>3. \A n \in 0 .. N : f[n] \in Weights
    BY <1>1, <1>2 DEF Factored
  <1>4. 0 \in S
    BY <1>2
  <1>5. ASSUME NEW n \in 1 .. N, n - 1 \in S PROVE n \in S
    <2>1. PICK w : w = L[n].weight
      BY Zenon
    <2>2. w \in Weights /\ f[n] = highest_common_factor(f[n - 1], w)
      BY <1>1, <1>2, <2>1, LocatorFields DEF Factored
    <2>3. f[n - 1] \in Weights /\ f[n] \in Weights
      BY <1>2, <1>3
    <2>4. Divides(f[n], f[n - 1]) /\ Divides(f[n], w)
      BY <2>2, <2>3, CommonFactor, Zenon
    <2>5. ASSUME NEW k \in 1 .. n PROVE Divides(f[n], L[k].weight)
      <3>1. CASE k = n
        BY <2>1, <2>4, <3>1
      <3>2. CASE k \in 1 .. (n - 1)
        <4>1. Divides(f[n - 1], L[k].weight)
          BY <1>5, <3>2
        <4>2. k \in 1 .. N
          BY <1>2
        <4>3. L[k].weight \in Nat
          BY <1>2, <4>2, LocatorFields, Zenon
        <4>4. f[n] \in Nat /\ f[n - 1] \in Nat
          BY <2>3, WeightsAreNat, Zenon
        <4> QED
          BY <2>4, <4>1, <4>3, <4>4, DividesTrans, Zenon
      <3> QED
        BY <1>2, <3>1, <3>2
    <2>6. n \in 0 .. N
      BY <1>2
    <2> QED
      BY <2>5, <2>6
  <1>6. 0 .. N \subseteq S
    <2> HIDE DEF S, N
    <2> QED
      BY <1>2, <1>4, <1>5, BoundedInduction, Zenon
  <1>7. N \in S
    BY <1>2, <1>6
  <1> QED
    BY <1>1, <1>2, <1>3, <1>7 DEF In

\* Whatever divides them all divides tmp_hcf.
LEMMA FactorGreatest ==
    ASSUME NEW L \in Seq(Locators), L # <<>>, NEW h, h = tmp_hcf(L),
           NEW c \in Nat, \A l : In(l, L) => Divides(c, l.weight)
    PROVE  Divides(c, h)
  <1>1. PICK f : Factored(f, L) /\ h = f[Len(L)]
    BY FactorLoop
  <1> DEFINE N == Len(L)
             S == {n \in 0 .. N : Divides(c, f[n])}
  <1>2. N \in Nat /\ 1 \in 1 .. N /\ \A k \in 1 .. N : L[k] \in Locators /\ In(L[k], L)
    BY DEF In
  <1>3. \A n \in 0 .. N : f[n] \in Weights
    BY <1>1, <1>2 DEF Factored
  <1>4. 0 \in S
    <2>1. f[0] = L[1].weight /\ 0 \in 0 .. N
      BY <1>1, <1>2 DEF Factored
    <2> QED
      BY <1>2, <2>1, Zenon
  <1>5. ASSUME NEW n \in 1 .. N, n - 1 \in S PROVE n \in S
    <2>1. PICK w : w = L[n].weight
      BY Zenon
    <2>2. w \in Weights /\ f[n] = highest_common_factor(f[n - 1], w)
      BY <1>1, <1>2, <2>1, LocatorFields DEF Factored
    <2>3. n \in 0 .. N /\ n - 1 \in 0 .. N
      BY <1>2
    <2>4. Divides(c, f[n - 1]) /\ Divides(c, w)
      BY <1>2, <1>5, <2>1, Zenon
    <2>5. Divides(c, f[n])
      BY <1>3, <2>2, <2>3, <2>4, GreatestFactor, Zenon
    <2> QED
      BY <2>3, <2>5, Zenon
  <1>6. 0 .. N \subseteq S
    <2> HIDE DEF S, N
    <2> QED
      BY <1>2, <1>4, <1>5, BoundedInduction, Zenon
  <1>7. N \in S
    BY <1>2, <1>6
  <1> QED
    BY <1>1, <1>7

\* The sum of the weights of two lists.
LEMMA SumConcat ==
    ASSUME NEW L \in Seq(Locators), NEW M \in Seq(Locators), NEW s, NEW t, Summed(s, L), Summed(t, M)
    PROVE  \E f : Summed(f, L \o M) /\ f[Len(L \o M)] = s[Len(L)] + t[Len(M)]
  <1>1. PICK N, K, C : N = Len(L) /\ K = Len(M) /\ C = L \o M
    BY Zenon
  <1>2. /\ N \in Nat /\ K \in Nat /\ Len(C) = N + K
        /\ \A n \in 1 .. N : C[n] = L[n] /\ L[n] \in Locators
        /\ \A n \in (N + 1) .. (N + K) : C[n] = M[n - N] /\ M[n - N] \in Locators
    BY <1>1
  <1>3. /\ \A n \in 0 .. N : s[n] \in Nat
        /\ \A n \in 0 .. K : t[n] \in Nat
        /\ s[0] = 0 /\ t[0] = 0
        /\ \A n \in 1 .. N : s[n] = s[n - 1] + L[n].weight
        /\ \A n \in 1 .. K : t[n] = t[n - 1] + M[n].weight
    BY <1>1, Zenon DEF Summed
  <1> DEFINE f == [n \in 0 .. (N + K) |-> IF n <= N THEN s[n] ELSE s[N] + t[n - N]]
  <1>4. /\ \A n \in 0 .. N : f[n] = s[n]
        /\ \A n \in N .. (N + K) : f[n] = s[N] + t[n - N]
    <2>1. \A n \in 0 .. N : n \in 0 .. (N + K) /\ n <= N
      BY <1>2
    <2>2. ASSUME NEW n \in N .. (N + K) PROVE f[n] = s[N] + t[n - N]
      <3>1. n \in 0 .. (N + K) /\ N \in 0 .. N
        BY <1>2
      <3>2. CASE n = N
        <4>1. n - N = 0 /\ s[N] + 0 = s[N] /\ n <= N
          BY <1>2, <1>3, <3>1, <3>2
        <4> QED
          BY <1>3, <3>1, <3>2, <4>1, Zenon
      <3>3. CASE n # N
        <4>1. ~(n <= N)
          BY <1>2, <3>3
        <4> QED
          BY <3>1, <4>1, Zenon
      <3> QED
        BY <3>2, <3>3
    <2> QED
      BY <2>1, <2>2, Zenon
  <1>5. DOMAIN f = 0 .. (N + K) /\ f = [n \in 0 .. (N + K) |-> f[n]]
    OBVIOUS
  <1> HIDE DEF f
  <1>6. ASSUME NEW n \in 0 .. (N + K) PROVE f[n] \in Nat
    <2>1. n \in 0 .. N \/ (n \in N .. (N + K) /\ n - N \in 0 .. K)
      BY <1>2
    <2>2. N \in 0 .. N
      BY <1>2
    <2>3. CASE n \in 0 .. N
      BY <1>3, <1>4, <2>3, Zenon
    <2>4. CASE n \in N .. (N + K) /\ n - N \in 0 .. K
      <3>1. s[N] \in Nat /\ t[n - N] \in Nat /\ f[n] = s[N] + t[n - N]
        BY <1>3, <1>4, <2>2, <2>4, Zenon
      <3> QED
        BY <3>1
    <2> QED
      BY <2>1, <2>3, <2>4, Zenon
  <1>7. ASSUME NEW n \in 1 .. (N + K) PROVE f[n] = f[n - 1] + C[n].weight
    <2>1. CASE n \in 1 .. N
      <3>1. n \in 0 .. N /\ n - 1 \in 0 .. N
        BY <1>2, <2>1
      <3> QED
        BY <1>2, <1>3, <1>4, <2>1, <3>1, Zenon
    <2>2. CASE n \in (N + 1) .. (N + K)
      <3>1. /\ n \in N .. (N + K) /\ n - 1 \in N .. (N + K) /\ n - N \in 1 .. K
            /\ (n - 1) - N = (n - N) - 1 /\ (n - N) - 1 \in 0 .. K /\ N \in 0 .. N
        BY <1>2, <2>2
      <3>2. t[n - N] = t[(n - N) - 1] + C[n].weight /\ C[n] \in Locators
        BY <1>2, <1>3, <2>2, <3>1, Zenon
      <3>3. f[n] = s[N] + t[n - N] /\ f[n - 1] = s[N] + t[(n - N) - 1]
        BY <1>4, <3>1, Zenon
      <3>4. PICK a, b, w : a = s[N] /\ b = t[(n - N) - 1] /\ w = C[n].weight
        BY Zenon
      <3>5. a \in Nat /\ b \in Nat /\ w \in Nat
        BY <1>3, <3>1, <3>2, <3>4, LocatorFields, Zenon
      <3>6. a + (b + w) = (a + b) + w
        BY <3>5
      <3> QED
        BY <3>2, <3>3, <3>4, <3>6, Zenon
    <2> QED
      BY <1>2, <2>1, <2>2
  <1>8. f[N + K] = s[N] + t[K]
    <2>1. N + K \in N .. (N + K) /\ (N + K) - N = K
      BY <1>2
    <2> QED
      BY <1>4, <2>1, Zenon
  <1>9. f \in [0 .. (N + K) -> Nat] /\ f[0] = 0
    <2>1. 0 \in 0 .. N
      BY <1>2
    <2> QED
      BY <1>3, <1>4, <1>5, <1>6, <2>1, Zenon
  <1> QED
    BY <1>1, <1>2, <1>7, <1>8, <1>9, Zenon DEF Summed

\* Both pieces of arithmetic of set_balancing_vector.
LEMMA Quotient ==
    ASSUME NEW h \in Nat, h # 0, NEW q \in Nat
    PROVE  (h * q) \div h = q
  OBVIOUS

LEMMA NextLength ==
    ASSUME NEW h \in Nat, NEW c \in Nat, NEW q \in Nat, NEW s, s = h * c, NEW w, w = h * q
    PROVE  h * (c + q) = s + w
  OBVIOUS

\* With no common factor all the weights are 0.
LEMMA NoFactor ==
    ASSUME NEW L \in Seq(Locators), NEW s, Summed(s, L), \A l : In(l, L) => Divides(0, l.weight)
    PROVE  s[Len(L)] = 0
  <1>1. PICK N : N = Len(L)
    BY Zenon
  <1>2. N \in Nat /\ \A k \in 1 .. N : In(L[k], L)
    BY <1>1 DEF In
  <1>3. \A q \in Nat : 0 * q = 0
    OBVIOUS
  <1>4. \A k \in 1 .. N : L[k].weight = 0
    BY <1>2, <1>3, Zenon DEF Divides
  <1>5. s[0] = 0 /\ \A n \in 1 .. N : s[n] = s[n - 1] + L[n].weight
    BY <1>1, Zenon DEF Summed
  <1> DEFINE S == {n \in 0 .. N : s[n] = 0}
  <1>6. 0 \in S
    BY <1>2, <1>5
  <1>7. ASSUME NEW n \in 1 .. N, n - 1 \in S PROVE n \in S
    <2>1. s[n] = 0
      BY <1>4, <1>5, <1>7
    <2>2. n \in 0 .. N
      BY <1>2
    <2> QED
      BY <2>1, <2>2
  <1>8. 0 .. N \subseteq S
    <2> HIDE DEF S
    <2> QED
      BY <1>2, <1>6, <1>7, BoundedInduction, Zenon
  <1> QED
    BY <1>1, <1>2, <1>8

\* The positions of a locator.
LEMMA PositionsOf ==
    ASSUME NEW l \in Locators, NEW total, NEW h \in Nat, total = 0 \/ h # 0, NEW c, c = Positions(l, total, h)
    PROVE  /\ c \in Seq(Locators) /\ \A x : In(x, c) => x = l
           /\ total = 0 => Len(c) = 1
           /\ total # 0 => Len(c) = l.weight \div h
  <1>1. PICK u : u = IF total # 0 THEN l.weight \div h ELSE 1
    BY Zenon
  <1>2. u \in Nat
    BY <1>1, LocatorFields
  <1>3. c = [p \in 1 .. u |-> l]
    BY <1>1, Zenon DEF Positions
  <1>4. c \in Seq(Locators) /\ Len(c) = u /\ \A p \in 1 .. u : c[p] = l
    BY <1>2, <1>3
  <1>5. \A x : In(x, c) => x = l
    BY <1>4, Zenon DEF In
  <1> QED
    BY <1>1, <1>4, <1>5, Zenon

-----------------------------------------------------------------------------
(* The shares of the locators.                                              *)

Uses(q, x) == Cardinality({p \in DOMAIN q : q[p] = x})

LEMMA UsesNone == \A x : Uses(<<>>, x) = 0
  <1>1. \A x : {p \in DOMAIN <<>> : <<>>[p] = x} = {}
    OBVIOUS
  <1> QED
    BY <1>1, FS_EmptySet, Zenon DEF Uses

LEMMA UsesNat ==
    ASSUME NEW q \in Seq(Locators), NEW x
    PROVE  Uses(q, x) \in Nat
  <1>1. PICK P : P = {p \in DOMAIN q : q[p] = x}
    BY Zenon
  <1>2. P \subseteq 1 .. Len(q) /\ Len(q) \in Nat /\ 1 \in Int /\ Len(q) \in Int
    BY <1>1
  <1>3. IsFiniteSet(1 .. Len(q))
    BY <1>2, FS_Interval, Zenon
  <1>4. IsFiniteSet(P)
    BY <1>2, <1>3, FS_Subset, Zenon
  <1> QED
    BY <1>1, <1>4, FS_CardinalityType, Zenon DEF Uses

\* The positions of a locator that has none yet follow those of the others.
Followed(q, r, l, u) ==
    /\ Uses(r, l) = u
    /\ \A x : x # l => Uses(r, x) = Uses(q, x)

LEMMA UsesNext ==
    ASSUME NEW q \in Seq(Locators), NEW l \in Locators, ~In(l, q),
           NEW u \in Nat, NEW c, c = [p \in 1 .. u |-> l]
    PROVE  Followed(q, q \o c, l, u)
  <1>1. PICK a, r : a = Len(q) /\ r = q \o c
    BY Zenon
  <1>2. c \in Seq(Locators) /\ Len(c) = u /\ \A p \in 1 .. u : c[p] = l
    OBVIOUS
  <1>3. /\ a \in Nat /\ DOMAIN q = 1 .. a /\ DOMAIN r = 1 .. (a + u)
        /\ \A p \in 1 .. a : r[p] = q[p]
        /\ \A p \in (a + 1) .. (a + u) : r[p] = l
    BY <1>1, <1>2
  <1>4. \A p \in 1 .. a : q[p] # l
    BY <1>1, Zenon DEF In
  <1>5. {p \in DOMAIN r : r[p] = l} = (a + 1) .. (a + u)
    BY <1>3, <1>4
  <1>6. Cardinality((a + 1) .. (a + u)) = u
    <2>1. Cardinality((a + 1) .. (a + u)) =
            IF a + 1 > a + u THEN 0 ELSE (a + u) - (a + 1) + 1
      <3>1. PICK s \in Int, t \in Int : s = a + 1 /\ t = a + u
        BY <1>3
      <3>2. Cardinality(s .. t) = IF s > t THEN 0 ELSE t - s + 1
        BY FS_Interval, Zenon
      <3> QED
        BY <3>1, <3>2, Zenon
    <2> QED
      BY <1>3, <2>1
  <1>7. ASSUME NEW x, x # l PROVE {p \in DOMAIN r : r[p] = x} = {p \in DOMAIN q : q[p] = x}
    BY <1>3, <1>7
  <1>8. Uses(r, l) = u
    BY <1>5, <1>6, Zenon DEF Uses
  <1>9. \A x : x # l => Uses(r, x) = Uses(q, x)
    BY <1>7, Zenon DEF Uses
  <1> QED
    BY <1>1, <1>8, <1>9, Zenon DEF Followed

\* set_balancing_vector gives each locator of the list its positions.
LEMMA CellsOf ==
    ASSUME NEW L \in Seq(Locators), Distinct(L), NEW total, NEW h \in Nat, total = 0 \/ h # 0,
           NEW v, v = set_balancing_vector(L, total, h)
    PROVE  \A l : Uses(v.cells, l) = IF In(l, L) THEN used_pos(l, total, h) ELSE 0
  <1>1. PICK N : N = Len(L)
    BY Zenon
  <1>2. N \in Nat /\ N \in 0 .. N /\ 0 \in 0 .. N /\ \A k \in 1 .. N : L[k] \in Locators
    BY <1>1
  <1>3. \A l \in Locators : Positions(l, total, h) \in Seq(Locators)
    BY PositionsOf, Zenon
  <1>4. PICK f : Filled(f, L, total, h) /\ v.cells = f[N]
    <2>1. \E f : Filled(f, L, total, h) /\ set_balancing_vector(L, total, h).cells = f[Len(L)]
      BY <1>3, FillLoop, Zenon
    <2> QED
      BY <1>1, <2>1, Zenon
  <1>5. /\ f[0] = <<>> /\ \A n \in 0 .. N : f[n] \in Seq(Locators)
        /\ \A n \in 1 .. N : f[n] = f[n - 1] \o Positions(L[n], total, h)
    BY <1>1, <1>4, Zenon DEF Filled
  <1> DEFINE S == {n \in 0 .. N :
                     /\ \A l : In(l, f[n]) => l \in First(L, n)
                     /\ \A l : Uses(f[n], l) = IF l \in First(L, n) THEN used_pos(l, total, h) ELSE 0}
  <1>6. 0 \in S
    BY <1>2, <1>5, InEmpty, FirstNone, UsesNone, Zenon
  <1>7. ASSUME NEW n \in 1 .. N, n - 1 \in S PROVE n \in S
    <2>1. PICK a, l, u, c : /\ a = f[n - 1] /\ l = L[n] /\ u = used_pos(l, total, h)
                            /\ c = [p \in 1 .. u |-> l]
      BY Zenon
    <2>2. n \in 0 .. N /\ n - 1 \in 0 .. N /\ n \in Nat /\ n # 0
      BY <1>2
    <2>3. l \in Locators /\ a \in Seq(Locators) /\ f[n] = a \o c
      BY <1>2, <1>5, <2>1, <2>2, Zenon DEF Positions, used_pos
    <2>4. u \in Nat
      <3>1. l.weight \in Nat
        BY <2>3, LocatorFields, Zenon
      <3>2. h # 0 => l.weight \div h \in Nat
        BY <3>1, Modulo, Zenon
      <3>3. 1 \in Nat
        OBVIOUS
      <3> QED
        BY <2>1, <3>2, <3>3, Zenon DEF used_pos
    <2>5. c \in Seq(Locators) /\ \A x : In(x, c) => x = l
      <3>1. c \in Seq(Locators) /\ Len(c) = u /\ \A p \in 1 .. u : c[p] = l
        BY <2>1, <2>3, <2>4
      <3> QED
        BY <3>1, Zenon DEF In
    <2>6. /\ \A x : In(x, a) => x \in First(L, n - 1)
          /\ \A x : Uses(a, x) = IF x \in First(L, n - 1) THEN used_pos(x, total, h) ELSE 0
      BY <1>7, <2>1, Zenon
    <2>7. l \notin First(L, n - 1) /\ First(L, n) = First(L, n - 1) \cup {l}
      BY <1>1, <1>2, <2>1, <2>2, DistinctNext, FirstNext
    <2>8. Uses(a \o c, l) = u /\ \A x : x # l => Uses(a \o c, x) = Uses(a, x)
      <3>1. ~In(l, a) /\ a \in Seq(Locators) /\ l \in Locators /\ c = [p \in 1 .. u |-> l]
        BY <2>1, <2>3, <2>6, <2>7, Zenon
      <3> QED
        <4>1. Followed(a, a \o c, l, u)
          BY <2>4, <3>1, UsesNext, Zenon
        <4> QED
          BY <4>1, Zenon DEF Followed
    <2>9. \A x : In(x, a \o c) <=> In(x, a) \/ In(x, c)
      BY <2>3, <2>5, InConcat, Zenon
    <2>10. \A x : In(x, f[n]) => x \in First(L, n)
      BY <2>3, <2>5, <2>6, <2>7, <2>9, Zenon
    <2>11. \A x : Uses(f[n], x) = IF x \in First(L, n) THEN used_pos(x, total, h) ELSE 0
      <3>1. Uses(f[n], l) = used_pos(l, total, h) /\ l \in First(L, n)
        BY <2>1, <2>3, <2>7, <2>8, Zenon
      <3>2. ASSUME NEW x, x # l
            PROVE  Uses(f[n], x) = IF x \in First(L, n) THEN used_pos(x, total, h) ELSE 0
        <4>1. Uses(f[n], x) = Uses(a, x) /\ (x \in First(L, n) <=> x \in First(L, n - 1))
          BY <2>3, <2>7, <2>8, <3>2, Zenon
        <4> QED
          BY <2>6, <4>1, Zenon
      <3> QED
        BY <3>1, <3>2, Zenon
    <2> QED
      BY <2>2, <2>10, <2>11, Zenon
  <1>8. 0 .. N \subseteq S
    <2> HIDE DEF S
    <2> QED
      BY <1>2, <1>6, <1>7, BoundedInduction, Zenon
  <1>9. \A l : Uses(f[N], l) = IF l \in First(L, N) THEN used_pos(l, total, h) ELSE 0
    BY <1>2, <1>8, Zenon
  <1>10. \A l : In(l, L) <=> l \in First(L, N)
    BY <1>1, Zenon DEF In, First
  <1> QED
    BY <1>4, <1>9, <1>10, Zenon

\* Only weights of 0 have the sum 0.
LEMMA NoWeight ==
    ASSUME NEW L \in Seq(Locators), NEW s, Summed(s, L), s[Len(L)] = 0
    PROVE  \A l : In(l, L) => l.weight = 0
  <1>1. PICK N : N = Len(L)
    BY Zenon
  <1>2. N \in Nat /\ N \in 0 .. N /\ 0 \in 0 .. N /\ \A k \in 1 .. N : L[k] \in Locators
    BY <1>1
  <1>3. /\ \A n \in 0 .. N : s[n] \in Nat
        /\ \A n \in 1 .. N : s[n] = s[n - 1] + L[n].weight
    BY <1>1, Zenon DEF Summed
  <1>4. \A k \in 1 .. N : L[k].weight \in Nat
    BY <1>2, LocatorFields, Zenon
  <1> DEFINE S == {n \in 0 .. N : \A k \in 1 .. n : L[k].weight <= s[n]}
  <1>5. 0 \in S
    BY <1>2
  <1>6. ASSUME NEW n \in 1 .. N, n - 1 \in S PROVE n \in S
    <2>1. n \in 0 .. N /\ n - 1 \in 0 .. N
      BY <1>2
    <2>2. PICK a, b, w : a = s[n - 1] /\ b = s[n] /\ w = L[n].weight
      BY Zenon
    <2>3. a \in Nat /\ b \in Nat /\ w \in Nat /\ b = a + w
      BY <1>3, <1>4, <2>1, <2>2, Zenon
    <2>4. \A x \in Nat : x <= a => x <= b
      BY <2>3
    <2>5. w <= b
      BY <2>3
    <2>6. \A k \in 1 .. n : k \in 1 .. N /\ (k = n \/ k \in 1 .. (n - 1))
      BY <1>2
    <2>7. \A k \in 1 .. (n - 1) : L[k].weight <= a
      BY <1>6, <2>2, Zenon
    <2>8. \A k \in 1 .. n : L[k].weight <= b
      BY <1>4, <2>2, <2>4, <2>5, <2>6, <2>7, Zenon
    <2> QED
      BY <2>1, <2>2, <2>8, Zenon
  <1>7. 0 .. N \subseteq S
    <2> HIDE DEF S
    <2> QED
      BY <1>2, <1>5, <1>6, BoundedInduction, Zenon
  <1>8. \A k \in 1 .. N : L[k].weight <= 0
    BY <1>1, <1>2, <1>7
  <1>9. \A k \in 1 .. N : L[k].weight = 0
    BY <1>4, <1>8
  <1> QED
    BY <1>1, <1>9, Zenon DEF In

\* set_balancing_vector fills its vector to the length that it computes, and
\* with the locators of the list.
LEMMA VectorFilled ==
    ASSUME NEW L \in Seq(Locators), L # <<>>, NEW s, Summed(s, L),
           NEW h \in Nat, \A l : In(l, L) => Divides(h, l.weight),
           NEW total, total = s[Len(L)], NEW v, v = set_balancing_vector(L, total, h)
    PROVE  /\ v.null = FALSE /\ v.length \in Nat /\ v.length # 0
           /\ v.cells \in Seq(Locators) /\ Len(v.cells) = v.length
           /\ \A n \in 1 .. v.length : In(v.cells[n], L)
  <1>1. PICK N : N = Len(L)
    BY Zenon
  <1>2. N \in Nat /\ N # 0 /\ \A k \in 1 .. N : L[k] \in Locators /\ In(L[k], L)
    BY <1>1 DEF In
  <1>3. total = 0 \/ h # 0
    BY NoFactor, Zenon
  <1>4. \A l \in Locators : Positions(l, total, h) \in Seq(Locators)
    BY <1>3, PositionsOf, Zenon
  <1>5. PICK f : Filled(f, L, total, h) /\ v.cells = f[N]
    <2>1. \E f : Filled(f, L, total, h) /\ set_balancing_vector(L, total, h).cells = f[Len(L)]
      BY <1>4, FillLoop, Zenon
    <2> QED
      BY <1>1, <2>1, Zenon
  <1>6. /\ f[0] = <<>> /\ \A n \in 0 .. N : f[n] \in Seq(Locators)
        /\ \A n \in 1 .. N : f[n] = f[n - 1] \o Positions(L[n], total, h)
    BY <1>1, <1>5, Zenon DEF Filled
  <1>7. s[0] = 0 /\ \A n \in 1 .. N : s[n] = s[n - 1] + L[n].weight
    BY <1>1, Zenon DEF Summed
  <1> DEFINE S == {n \in 0 .. N : /\ \A l : In(l, f[n]) => In(l, L)
                                  /\ total = 0 => Len(f[n]) = n
                                  /\ total # 0 => h * Len(f[n]) = s[n]}
  <1>8. 0 \in S
    <2>1. 0 \in 0 .. N /\ Len(<<>>) = 0 /\ h * 0 = 0
      BY <1>2
    <2> QED
      BY <1>6, <1>7, <2>1, InEmpty, Zenon
  <1>9. ASSUME NEW n \in 1 .. N, n - 1 \in S PROVE n \in S
    <2>1. PICK a, c, l : a = f[n - 1] /\ c = Positions(l, total, h) /\ l = L[n]
      BY Zenon
    <2>2. n \in 0 .. N /\ n - 1 \in 0 .. N /\ (n - 1) + 1 = n
      BY <1>2
    <2>3. l \in Locators /\ In(l, L) /\ a \in Seq(Locators) /\ f[n] = a \o c
      BY <1>2, <1>6, <2>1, <2>2, Zenon
    <2>4. /\ c \in Seq(Locators) /\ \A x : In(x, c) => x = l
          /\ total = 0 => Len(c) = 1
          /\ total # 0 => Len(c) = l.weight \div h
      BY <1>3, <2>1, <2>3, PositionsOf
    <2>5. /\ \A x : In(x, a) => In(x, L)
          /\ total = 0 => Len(a) = n - 1
          /\ total # 0 => h * Len(a) = s[n - 1]
      BY <1>9, <2>1, Zenon
    <2>6. \A x : In(x, f[n]) => In(x, L)
      <3>1. \A x : In(x, a \o c) <=> In(x, a) \/ In(x, c)
        BY <2>3, <2>4, InConcat, Zenon
      <3> QED
        BY <2>3, <2>4, <2>5, <3>1, Zenon
    <2>7. Len(f[n]) = Len(a) + Len(c) /\ Len(a) \in Nat /\ Len(c) \in Nat
      BY <2>3, <2>4
    <2>8. ASSUME total = 0 PROVE Len(f[n]) = n
      BY <2>2, <2>4, <2>5, <2>7, <2>8, Zenon
    <2>9. ASSUME total # 0 PROVE h * Len(f[n]) = s[n]
      <3>1. PICK q \in Nat : l.weight = h * q
        BY <2>3, Zenon DEF Divides
      <3>2. h # 0
        BY <1>3, <2>9, Zenon
      <3>3. Len(c) = q
        BY <2>4, <2>9, <3>1, <3>2, Quotient, Zenon
      <3>4. s[n] = s[n - 1] + l.weight /\ s[n - 1] = h * Len(a)
        BY <1>7, <2>1, <2>5, <2>9, Zenon
      <3>5. PICK x, y, d : x = s[n - 1] /\ y = l.weight /\ d = Len(a)
        BY Zenon
      <3>6. h * (d + q) = x + y
        BY <2>7, <3>1, <3>4, <3>5, NextLength
      <3> QED
        BY <2>7, <3>3, <3>4, <3>5, <3>6, Zenon
    <2> QED
      BY <2>2, <2>6, <2>8, <2>9, Zenon
  <1>10. 0 .. N \subseteq S
    <2> HIDE DEF S
    <2> QED
      BY <1>2, <1>8, <1>9, BoundedInduction, Zenon
  <1>11. N \in 0 .. N
    BY <1>2
  <1>12. /\ v.cells \in Seq(Locators) /\ \A l : In(l, v.cells) => In(l, L)
         /\ total = 0 => Len(v.cells) = N
         /\ total # 0 => h * Len(v.cells) = total
    BY <1>1, <1>5, <1>6, <1>10, <1>11, Zenon
  <1>13. v.null = FALSE /\ v.length = IF total # 0 THEN total \div h ELSE N
    BY <1>1, Zenon DEF set_balancing_vector
  <1>14. PICK K : K = Len(v.cells)
    BY Zenon
  <1>15. K \in Nat
    BY <1>12, <1>14
  <1>16. v.length = K /\ K # 0
    <2>1. CASE total = 0
      BY <1>2, <1>12, <1>13, <1>14, <2>1, Zenon
    <2>2. CASE total # 0
      <3>1. h # 0 /\ h * K = total
        BY <1>3, <1>12, <1>14, <2>2, Zenon
      <3>2. total \div h = K /\ h * 0 = 0
        BY <1>15, <3>1, Quotient
      <3> QED
        BY <1>13, <2>2, <3>1, <3>2, Zenon
    <2> QED
      BY <2>1, <2>2
  <1>17. \A n \in 1 .. K : In(v.cells[n], v.cells)
    BY <1>14, Zenon DEF In
  <1> QED
    BY <1>12, <1>13, <1>14, <1>15, <1>16, <1>17, Zenon

\* h is the highest common factor of the weights.
Factor(h, L) ==
    /\ h \in Nat /\ \A l : In(l, L) => Divides(h, l.weight)
    /\ \A c \in Nat : (\A l : In(l, L) => Divides(c, l.weight)) => Divides(c, h)

\* What Spreads says of the cells of two locators and of shorter vectors, T
\* being the best locators.
Share(l, T) == IF l \notin T THEN 0 ELSE IF \A m \in T : m.weight = 0 THEN 1 ELSE l.weight
Fair(v, T) ==
    /\ Len(v.cells) = v.length
    /\ \A l, m : Cells(v, l) * Share(m, T) = Cells(v, m) * Share(l, T)
    /\ \A d \in 2 .. v.length : \E l \in T : Cells(v, l) % d # 0

\* No number is divided by a proper multiple of it.
LEMMA NoMultiple ==
    ASSUME NEW h \in Nat, h # 0, NEW d \in Nat, d >= 2, NEW z \in Nat
    PROVE  h # (h * d) * z
  <1>1. PICK y : y = h * d
    BY Zenon
  <1>2. y \in Nat /\ y >= h + h
    BY <1>1
  <1>3. CASE z = 0
    BY <1>1, <1>2, <1>3
  <1>4. CASE z # 0
    <2>1. y * z >= y
      BY <1>2, <1>4
    <2>2. y * z \in Nat
      BY <1>2
    <2> QED
      BY <1>1, <1>2, <2>1, <2>2
  <1> QED
    BY <1>3, <1>4

LEMMA CrossProduct ==
    ASSUME NEW h \in Nat, NEW p \in Nat, NEW q \in Nat, NEW x, x = h * p, NEW y, y = h * q
    PROVE  p * y = q * x
  OBVIOUS

\* The cells of the locators are in the ratio of their weights, and have no
\* common factor.
LEMMA VectorFair ==
    ASSUME NEW L \in Seq(Locators), L # <<>>, Distinct(L), NEW s, Summed(s, L), NEW h, Factor(h, L),
           NEW total, total = s[Len(L)], NEW v, v = set_balancing_vector(L, total, h),
           NEW T, \A l : In(l, L) <=> l \in T
    PROVE  Fair(v, T)
  <1>1. h \in Nat /\ \A l \in T : Divides(h, l.weight) /\ l \in Locators /\ l.weight \in Nat
    <2>1. \A l : In(l, L) => l \in Locators
      BY DEF In
    <2> QED
      BY <2>1, LocatorFields, Zenon DEF Factor
  <1>2. /\ v.null = FALSE /\ v.length \in Nat /\ v.length # 0
        /\ v.cells \in Seq(Locators) /\ Len(v.cells) = v.length
        /\ \A n \in 1 .. v.length : In(v.cells[n], L)
    BY <1>1, VectorFilled, Zenon
  <1>3. total = 0 \/ h # 0
    BY NoFactor, Zenon DEF Factor
  <1>4. \A l : Cells(v, l) = IF l \in T THEN used_pos(l, total, h) ELSE 0
    <2>1. \A l : Uses(v.cells, l) = IF In(l, L) THEN used_pos(l, total, h) ELSE 0
      BY <1>1, <1>3, CellsOf
    <2> QED
      BY <2>1 DEF Cells, Uses
  <1>5. total = 0 <=> \A l \in T : l.weight = 0
    <2>1. total = 0 => \A l \in T : l.weight = 0
      BY NoWeight, Zenon
    <2>2. ASSUME \A l \in T : l.weight = 0 PROVE total = 0
      <3>1. \A l : In(l, L) => Divides(0, l.weight)
        BY <2>2, DividesSelf
      <3> QED
        BY <3>1, NoFactor, Zenon
    <2> QED
      BY <2>1, <2>2, Zenon
  <1>6. PICK l0 : l0 \in T
    <2>1. 1 \in 1 .. Len(L)
      OBVIOUS
    <2> QED
      BY <2>1, Zenon DEF In
  <1>7. CASE total = 0
    <2>1. \A l : /\ Cells(v, l) = IF l \in T THEN 1 ELSE 0
                 /\ Share(l, T) = IF l \in T THEN 1 ELSE 0
      BY <1>4, <1>5, <1>7, Zenon DEF used_pos, Share
    <2>2. \A l, m : Cells(v, l) * Share(m, T) = Cells(v, m) * Share(l, T)
      <3>1. \A a, b \in {0, 1} : a * b = b * a
        OBVIOUS
      <3>2. \A l : Share(l, T) = Cells(v, l)
        BY <2>1, Zenon
      <3>3. 0 \in {0, 1} /\ 1 \in {0, 1}
        OBVIOUS
      <3>4. \A l : Cells(v, l) \in {0, 1}
        BY <2>1, <3>3, Zenon
      <3> QED
        BY <3>1, <3>2, <3>4
    <2>3. \A d \in 2 .. v.length : 1 % d # 0
      BY <1>2
    <2>4. Cells(v, l0) = 1
      BY <1>6, <2>1, Zenon
    <2> QED
      BY <1>2, <1>6, <2>2, <2>3, <2>4, Zenon DEF Fair
  <1>8. CASE total # 0
    <2>1. \A l : Share(l, T) = IF l \in T THEN l.weight ELSE 0
      BY <1>5, <1>8, Zenon DEF Share
    <2>2. ASSUME NEW l \in T PROVE Cells(v, l) \in Nat /\ l.weight = h * Cells(v, l)
      <3>1. PICK q \in Nat : l.weight = h * q
        BY <1>1, Zenon DEF Divides
      <3>2. Cells(v, l) = l.weight \div h
        BY <1>4, <1>8, Zenon DEF used_pos
      <3>3. Cells(v, l) = q
        BY <1>1, <1>3, <1>8, <3>1, <3>2, Quotient, Zenon
      <3> QED
        BY <3>1, <3>3, Zenon
    <2>3. \A l : l \notin T => Cells(v, l) = 0 /\ Share(l, T) = 0
      BY <1>4, <2>1, Zenon
    <2>4. \A l : Cells(v, l) \in Nat /\ Share(l, T) \in Nat /\ Share(l, T) = h * Cells(v, l)
      <3>1. 0 \in Nat /\ h * 0 = 0
        BY <1>1
      <3> QED
        BY <1>1, <2>1, <2>2, <2>3, <3>1, Zenon
    <2>5. \A l, m : Cells(v, l) * Share(m, T) = Cells(v, m) * Share(l, T)
      <3> TAKE l, m
      <3>1. PICK p, q, x, y : p = Cells(v, l) /\ q = Cells(v, m) /\ x = Share(l, T) /\ y = Share(m, T)
        BY Zenon
      <3>2. p \in Nat /\ q \in Nat /\ x = h * p /\ y = h * q
        BY <2>4, <3>1, Zenon
      <3>3. p * y = q * x
        BY <1>1, <3>2, CrossProduct
      <3> QED
        BY <3>1, <3>3, Zenon
    <2>6. ASSUME NEW d \in 2 .. v.length, \A l \in T : Cells(v, l) % d = 0 PROVE FALSE
      <3>1. d \in Nat /\ d # 0 /\ d >= 2 /\ h * d \in Nat
        BY <1>1, <1>2
      <3>2. ASSUME NEW l \in T PROVE Divides(h * d, l.weight)
        <4>1. PICK q, z : q = Cells(v, l) /\ z = q \div d
          BY Zenon
        <4>2. q \in Nat /\ q % d = 0 /\ l.weight = h * q
          BY <2>2, <2>6, <4>1, Zenon
        <4>3. z \in Nat /\ q = d * z + 0
          BY <3>1, <4>1, <4>2, Modulo, ZenonT(40)
        <4>4. h * q = (h * d) * z
          BY <1>1, <3>1, <4>3
        <4> QED
          BY <4>2, <4>3, <4>4, Zenon DEF Divides
      <3>3. Divides(h * d, h)
        BY <3>1, <3>2, Zenon DEF Factor
      <3>4. PICK z \in Nat : h = (h * d) * z
        BY <3>3, Zenon DEF Divides
      <3> QED
        BY <1>1, <1>3, <1>8, <3>1, <3>4, NoMultiple, Zenon
    <2>7. \A d \in 2 .. v.length : \E l \in T : Cells(v, l) % d # 0
      BY <2>6, Zenon
    <2> QED
      BY <1>2, <2>5, <2>7, Zenon DEF Fair
  <1> QED
    BY <1>7, <1>8, Zenon

-----------------------------------------------------------------------------
(* The vectors of a mapping.                                                *)

\* The locators of a mapping that may be used.
Candidates(map, afis) == {l \in Locators : In(l, map) /\ Usable(l) /\ l.afi \in afis}

Top(A) == {l \in A : \A j \in A : l.priority <= j.priority}

\* A vector that serves the locators of A: it is filled to its length, every
\* cell has a locator of A of the best priority, and these have fair shares.
Serves(v, A) ==
    /\ v.null = FALSE /\ v.length \in Nat /\ v.length # 0
    /\ \A n \in 1 .. v.length :
          v.cells[n] \in A /\ \A j \in A : v.cells[n].priority <= j.priority
    /\ Fair(v, Top(A))

\* The locators of A of priority p, the best one.
Finest(L, A, p) ==
    /\ L \in Seq(Locators) /\ L # <<>> /\ Distinct(L) /\ p \in 0 .. 255
    /\ \A l : In(l, L) <=> l \in A /\ l.priority = p
    /\ \A j \in A : p <= j.priority

LEMMA FinestTop ==
    ASSUME NEW A, A \subseteq Locators, NEW p, NEW L, Finest(L, A, p)
    PROVE  \A l : In(l, L) <=> l \in Top(A)
  <1>1. /\ p \in 0 .. 255 /\ \A l : In(l, L) <=> l \in A /\ l.priority = p
        /\ \A j \in A : p <= j.priority
    BY Zenon DEF Finest
  <1>2. PICK x \in A : x.priority = p
    <2>1. L \in Seq(Locators) /\ L # <<>>
      BY Zenon DEF Finest
    <2>2. 1 \in 1 .. Len(L)
      BY <2>1
    <2>3. In(L[1], L)
      BY <2>2, Zenon DEF In
    <2> QED
      BY <1>1, <2>3, Zenon
  <1>3. \A l \in A : l.priority \in 0 .. 255
    BY LocatorFields, Zenon
  <1>4. \A q \in 0 .. 255 : p <= q /\ q <= p => q = p
    BY <1>1
  <1> QED
    BY <1>1, <1>2, <1>3, <1>4, Zenon DEF Top

LEMMA UnusedIsLast ==
    \A p, q \in 0 .. 255 : p <= q /\ q # UNUSED_RLOC_PRIORITY => p # UNUSED_RLOC_PRIORITY
  BY DEF UNUSED_RLOC_PRIORITY

\* select_best_priority_locators, for the locators of a family.
LEMMA FamilyBest ==
    ASSUME NEW map \in Seq(Locators), NEW afi, OneOfEach(map, afi), NEW best,
           best = select_best_priority_locators(fb_locators_classify_in_4_6(map, afi)),
           NEW A, A = Candidates(map, {afi})
    PROVE  /\ A = {} => best.priority = UNUSED_RLOC_PRIORITY
           /\ A # {} => best.priority # UNUSED_RLOC_PRIORITY /\ Finest(best.locators, A, best.priority)
  <1>1. PICK C : C = fb_locators_classify_in_4_6(map, afi)
    BY Zenon
  <1>2. C \in Seq(Locators) /\ Distinct(C) /\ \A l : In(l, C) <=> In(l, map) /\ l.afi = afi
    BY <1>1, ClassifiedIn
  <1>3. SelectedOf(best, First(C, Len(C)))
    BY <1>1, <1>2, SelectedIn
  <1>4. \A l : In(l, C) <=> l \in First(C, Len(C))
    BY Zenon DEF In, First
  <1>5. \A l : In(l, C) => l \in Locators
    BY <1>2 DEF In
  <1>6. /\ best \in Selections /\ Distinct(best.locators)
        /\ \A l : In(l, best.locators) <=> In(l, C) /\ Usable(l) /\ l.priority = best.priority
        /\ \A l : In(l, C) /\ Usable(l) => best.priority <= l.priority
        /\ best.priority # UNUSED_RLOC_PRIORITY => \E l : In(l, best.locators)
    BY <1>3, <1>4, Zenon DEF SelectedOf
  <1>7. \A l : l \in A <=> In(l, C) /\ Usable(l)
    BY <1>2, <1>5, Zenon DEF Candidates
  <1>8. best.priority \in 0 .. 255 /\ best.locators \in Seq(Locators)
    BY <1>6 DEF Selections
  <1>9. CASE A = {}
    BY <1>6, <1>7, <1>9, Zenon
  <1>10. CASE A # {}
    <2>1. PICK l : l \in A
      BY <1>10, Zenon
    <2>2. l.priority \in 0 .. 255 /\ l.priority # UNUSED_RLOC_PRIORITY /\ best.priority <= l.priority
      BY <1>5, <1>6, <1>7, <2>1, LocatorFields, Zenon DEF Usable
    <2>3. best.priority # UNUSED_RLOC_PRIORITY
      BY <1>8, <2>2, UnusedIsLast, Zenon
    <2>4. best.locators # <<>>
      BY <1>6, <2>3, InEmpty, Zenon
    <2>5. Finest(best.locators, A, best.priority)
      BY <1>6, <1>7, <1>8, <2>4, Zenon DEF Finest
    <2> QED
      BY <1>10, <2>3, <2>5, Zenon
  <1> QED
    BY <1>9, <1>10, Zenon

\* The vector of the best locators serves them all.
LEMMA VectorServes ==
    ASSUME NEW A, A \subseteq Locators, NEW p, NEW L, Finest(L, A, p), NEW s, Summed(s, L),
           NEW h, Factor(h, L),
           NEW total, total = s[Len(L)], NEW v, v = set_balancing_vector(L, total, h)
    PROVE  Serves(v, A)
  <1>1. L \in Seq(Locators) /\ L # <<>> /\ Distinct(L)
    BY Zenon DEF Finest
  <1>2. /\ v.null = FALSE /\ v.length \in Nat /\ v.length # 0
        /\ v.cells \in Seq(Locators) /\ Len(v.cells) = v.length
        /\ \A n \in 1 .. v.length : In(v.cells[n], L)
    <2>1. h \in Nat /\ \A l : In(l, L) => Divides(h, l.weight)
      BY Zenon DEF Factor
    <2> QED
      BY <1>1, <2>1, VectorFilled, Zenon
  <1>3. PICK T : T = Top(A)
    BY Zenon
  <1>4. \A l : In(l, L) <=> l \in T
    BY <1>3, FinestTop, Zenon
  <1>5. Fair(v, T)
    BY <1>1, <1>4, VectorFair
  <1>6. \A n \in 1 .. v.length : v.cells[n] \in A /\ \A j \in A : v.cells[n].priority <= j.priority
    BY <1>2, Zenon DEF Finest
  <1> QED
    BY <1>2, <1>3, <1>5, <1>6, Zenon DEF Serves

LEMMA FactorIs ==
    ASSUME NEW L \in Seq(Locators), L # <<>>, NEW h, h = tmp_hcf(L)
    PROVE  h \in Weights /\ Factor(h, L)
  <1>1. h \in Weights /\ \A l : In(l, L) => Divides(h, l.weight)
    BY FactorDivides, Zenon
  <1>2. \A c \in Nat : (\A l : In(l, L) => Divides(c, l.weight)) => Divides(c, h)
    BY FactorGreatest, Zenon
  <1> QED
    BY <1>1, <1>2, WeightsAreNat, Zenon DEF Factor

LEMMA FamilyServes ==
    ASSUME NEW A, A \subseteq Locators, NEW p, NEW L, Finest(L, A, p), NEW v,
           v = set_balancing_vector(L, total_weight(L), tmp_hcf(L))
    PROVE  Serves(v, A)
  <1>1. L \in Seq(Locators) /\ L # <<>>
    BY Zenon DEF Finest
  <1>2. PICK s : Summed(s, L) /\ total_weight(L) = s[Len(L)]
    BY <1>1, TotalLoop, Zenon
  <1>3. PICK h : h = tmp_hcf(L)
    BY Zenon
  <1>4. Factor(h, L)
    BY <1>1, <1>3, FactorIs, Zenon
  <1>5. PICK total : total = s[Len(L)]
    BY Zenon
  <1>6. v = set_balancing_vector(L, total, h)
    BY <1>2, <1>3, <1>5, Zenon
  <1> QED
    BY <1>2, <1>4, <1>5, <1>6, VectorServes

\* The vector of a family, or none.
ServesOrNone(v, A) == IF A = {} THEN v = NoVector ELSE Serves(v, A)

LEMMA FinestEither ==
    ASSUME NEW A, NEW B, NEW p, NEW q, p <= q, NEW L, Finest(L, A, p), NEW M, Finest(M, B, q),
           A \subseteq Locators, B \subseteq Locators
    PROVE  /\ p < q => Finest(L, A \cup B, p)
           /\ p = q /\ A \cap B = {} => Finest(L \o M, A \cup B, p)
  <1>1. /\ L \in Seq(Locators) /\ L # <<>> /\ Distinct(L) /\ p \in 0 .. 255
        /\ \A l : In(l, L) <=> l \in A /\ l.priority = p
        /\ \A j \in A : p <= j.priority
        /\ M \in Seq(Locators) /\ M # <<>> /\ Distinct(M) /\ q \in 0 .. 255
        /\ \A l : In(l, M) <=> l \in B /\ l.priority = q
        /\ \A j \in B : q <= j.priority
    BY Zenon DEF Finest
  <1>2. \A j \in A \cup B : p <= j.priority
    <2>1. \A r \in 0 .. 255 : q <= r => p <= r
      BY <1>1
    <2>2. \A j \in B : j.priority \in 0 .. 255
      BY LocatorFields, Zenon
    <2> QED
      BY <1>1, <2>1, <2>2, Zenon
  <1>3. ASSUME p < q PROVE Finest(L, A \cup B, p)
    <2>1. \A r \in 0 .. 255 : q <= r => r # p
      BY <1>1, <1>3
    <2>2. \A j \in B : j.priority # p
      BY <1>1, <2>1, LocatorFields, Zenon
    <2> QED
      BY <1>1, <1>2, <2>2, Zenon DEF Finest
  <1>4. ASSUME p = q, A \cap B = {} PROVE Finest(L \o M, A \cup B, p)
    <2>1. PICK C : C = L \o M
      BY Zenon
    <2>2. C \in Seq(Locators) /\ C # <<>>
      BY <1>1, <2>1
    <2>3. \A l : In(l, C) <=> In(l, L) \/ In(l, M)
      BY <1>1, <2>1, InConcat, Zenon
    <2>4. \A l : ~(In(l, L) /\ In(l, M))
      BY <1>1, <1>4, Zenon
    <2>5. Distinct(C)
      BY <1>1, <2>1, <2>4, DistinctConcat, Zenon
    <2> QED
      BY <1>1, <1>2, <1>4, <2>1, <2>2, <2>3, <2>5, Zenon DEF Finest
  <1> QED
    BY <1>3, <1>4, Zenon

\* The vector of both families.
LEMMA MixedServes ==
    ASSUME NEW A, A \subseteq Locators, NEW B, B \subseteq Locators, A \cap B = {},
           NEW p, NEW L, Finest(L, A, p), NEW M, Finest(M, B, p), NEW v,
           v = set_balancing_vector(L \o M, total_weight(L) + total_weight(M),
                                    highest_common_factor(tmp_hcf(L), tmp_hcf(M)))
    PROVE  Serves(v, A \cup B)
  <1>1. L \in Seq(Locators) /\ L # <<>> /\ M \in Seq(Locators) /\ M # <<>> /\ p <= p
    <2>1. \A r \in 0 .. 255 : r <= r
      OBVIOUS
    <2> QED
      BY <2>1, Zenon DEF Finest
  <1>2. PICK s : Summed(s, L) /\ total_weight(L) = s[Len(L)]
    BY <1>1, TotalLoop, Zenon
  <1>3. PICK t : Summed(t, M) /\ total_weight(M) = t[Len(M)]
    BY <1>1, TotalLoop, Zenon
  <1>4. PICK f : Summed(f, L \o M) /\ f[Len(L \o M)] = s[Len(L)] + t[Len(M)]
    BY <1>1, <1>2, <1>3, SumConcat
  <1>5. PICK g, h, x : g = tmp_hcf(L) /\ h = tmp_hcf(M) /\ x = highest_common_factor(g, h)
    BY Zenon
  <1>6. g \in Weights /\ Factor(g, L) /\ h \in Weights /\ Factor(h, M)
    BY <1>1, <1>5, FactorIs, Zenon
  <1>7. x \in Weights /\ Divides(x, g) /\ Divides(x, h)
    BY <1>5, <1>6, CommonFactor, Zenon
  <1>8. x \in Nat /\ g \in Nat /\ h \in Nat
    BY <1>6, <1>7, WeightsAreNat, Zenon
  <1>9. PICK C : C = L \o M
    BY Zenon
  <1>10. Finest(C, A \cup B, p)
    BY <1>1, <1>9, FinestEither, Zenon
  <1>11. ASSUME NEW l, In(l, C) PROVE Divides(x, l.weight)
    <2>1. In(l, L) \/ In(l, M)
      BY <1>1, <1>9, <1>11, InConcat, Zenon
    <2>2. l.weight \in Nat
      <3>1. l \in A \cup B
        BY <1>10, <1>11, Zenon DEF Finest
      <3> QED
        BY <3>1, LocatorFields, Zenon
    <2>3. \/ Divides(g, l.weight)
          \/ Divides(h, l.weight)
      BY <1>6, <2>1, Zenon DEF Factor
    <2> QED
      BY <1>7, <1>8, <2>2, <2>3, DividesTrans, Zenon
  <1>12. ASSUME NEW c \in Nat, \A l : In(l, C) => Divides(c, l.weight) PROVE Divides(c, x)
    <2>1. \A l : In(l, L) \/ In(l, M) => Divides(c, l.weight)
      BY <1>1, <1>9, <1>12, InConcat, Zenon
    <2>2. Divides(c, g) /\ Divides(c, h)
      BY <1>6, <2>1, Zenon DEF Factor
    <2> QED
      BY <1>5, <1>6, <2>2, GreatestFactor, Zenon
  <1>13. Factor(x, C)
    BY <1>8, <1>11, <1>12, Zenon DEF Factor
  <1>14. PICK total : total = f[Len(C)]
    BY Zenon
  <1>15. v = set_balancing_vector(C, total, x) /\ Summed(f, C)
    BY <1>2, <1>3, <1>4, <1>5, <1>9, <1>14, Zenon
  <1> QED
    <2>1. A \cup B \subseteq Locators
      OBVIOUS
    <2> QED
      BY <1>10, <1>13, <1>14, <1>15, <2>1, VectorServes

Ip4(map) == Candidates(map, {AF_INET})
Ip6(map) == Candidates(map, {AF_INET6})

\* The vectors b are those of the mapping.
Vectors(b, map) ==
    /\ ServesOrNone(b.v4, Ip4(map))
    /\ ServesOrNone(b.v6, Ip6(map))
    /\ IF Ip4(map) = {} \/ Ip6(map) = {} THEN b.mixed = NoVector
       ELSE Serves(b.mixed, Ip4(map) \cup Ip6(map))

LEMMA Balancing ==
    ASSUME NEW map \in Seq(Locators), OneOfEach(map, AF_INET), OneOfEach(map, AF_INET6),
           NEW b, b = balancing_vectors_calculate(map)
    PROVE  Vectors(b, map)
  <1>1. PICK x, y : /\ x = select_best_priority_locators(fb_locators_classify_in_4_6(map, AF_INET))
                    /\ y = select_best_priority_locators(fb_locators_classify_in_4_6(map, AF_INET6))
    BY Zenon
  <1>2. PICK A, B : A = Ip4(map) /\ B = Ip6(map)
    BY Zenon
  <1> DEFINE v4 == IF x.priority = UNUSED_RLOC_PRIORITY THEN NoVector
                   ELSE set_balancing_vector(x.locators, total_weight(x.locators), tmp_hcf(x.locators))
             v6 == IF y.priority = UNUSED_RLOC_PRIORITY THEN NoVector
                   ELSE set_balancing_vector(y.locators, total_weight(y.locators), tmp_hcf(y.locators))
             mixed ==
                IF v4.null \/ v6.null THEN NoVector
                ELSE IF x.priority < y.priority THEN v4
                ELSE IF x.priority > y.priority THEN v6
                ELSE set_balancing_vector(
                        x.locators \o y.locators, total_weight(x.locators) + total_weight(y.locators),
                        highest_common_factor(tmp_hcf(x.locators), tmp_hcf(y.locators)))
  <1>3. b = [v4 |-> v4, v6 |-> v6, mixed |-> mixed]
    <2>1. AF_INET # AF_INET6
      BY DEF AF_INET, AF_INET6
    <2> QED
      BY <1>1, <2>1, Zenon DEF balancing_vectors_calculate, get_hcf_locators_weight
  <1>4. b.v4 = v4 /\ b.v6 = v6 /\ b.mixed = mixed
    <2> HIDE DEF v4, v6, mixed
    <2> QED
      BY <1>3
  <1>5. NoVector.null = TRUE
    BY DEF NoVector
  <1>6. A \subseteq Locators /\ B \subseteq Locators /\ A \cap B = {}
    <2>1. AF_INET # AF_INET6
      BY DEF AF_INET, AF_INET6
    <2>2. /\ \A l \in A : l \in Locators /\ l.afi = AF_INET
          /\ \A l \in B : l \in Locators /\ l.afi = AF_INET6
      BY <1>2, Zenon DEF Ip4, Ip6, Candidates
    <2> QED
      BY <2>1, <2>2, Zenon
  <1>7. /\ A = {} => x.priority = UNUSED_RLOC_PRIORITY
        /\ A # {} => x.priority # UNUSED_RLOC_PRIORITY /\ Finest(x.locators, A, x.priority)
    BY <1>1, <1>2, FamilyBest DEF Ip4
  <1>8. /\ B = {} => y.priority = UNUSED_RLOC_PRIORITY
        /\ B # {} => y.priority # UNUSED_RLOC_PRIORITY /\ Finest(y.locators, B, y.priority)
    BY <1>1, <1>2, FamilyBest DEF Ip6
  <1>9. ServesOrNone(v4, A)
    BY <1>6, <1>7, FamilyServes, Zenon DEF ServesOrNone
  <1>10. ServesOrNone(v6, B)
    BY <1>6, <1>8, FamilyServes, Zenon DEF ServesOrNone
  <1>11. CASE A = {} \/ B = {}
    <2>1. v4.null \/ v6.null
      BY <1>5, <1>9, <1>10, <1>11, Zenon DEF ServesOrNone
    <2> QED
      BY <1>2, <1>4, <1>9, <1>10, <1>11, <2>1, Zenon DEF Vectors
  <1>12. CASE A # {} /\ B # {}
    <2>1. /\ Finest(x.locators, A, x.priority) /\ Finest(y.locators, B, y.priority)
          /\ v4 = set_balancing_vector(x.locators, total_weight(x.locators), tmp_hcf(x.locators))
          /\ v6 = set_balancing_vector(y.locators, total_weight(y.locators), tmp_hcf(y.locators))
      BY <1>7, <1>8, <1>12, Zenon
    <2>2. ~v4.null /\ ~v6.null
      BY <1>9, <1>10, <1>12, Zenon DEF ServesOrNone, Serves
    <2>3. PICK p, q, L, M : p = x.priority /\ q = y.priority /\ L = x.locators /\ M = y.locators
      BY Zenon
    <2>4. Finest(L, A, p) /\ Finest(M, B, q) /\ p \in 0 .. 255 /\ q \in 0 .. 255
      BY <2>1, <2>3, Zenon DEF Finest
    <2>5. p > q \/ p < q \/ p = q
      BY <2>4, Priorities, Zenon
    <2>6. ASSUME p < q PROVE Serves(mixed, A \cup B)
      <3>1. p <= q
        BY <2>4, <2>6, Priorities, Zenon
      <3>2. Finest(L, A \cup B, p)
        BY <1>6, <2>4, <2>6, <3>1, FinestEither, Zenon
      <3>3. Serves(v4, A \cup B)
        BY <1>6, <2>1, <2>3, <3>2, FamilyServes, Zenon
      <3>4. mixed = v4
        BY <2>2, <2>3, <2>6, Zenon
      <3> QED
        BY <3>3, <3>4, Zenon
    <2>7. ASSUME p > q PROVE Serves(mixed, A \cup B)
      <3>1. q <= p /\ q < p /\ ~(p < q)
        BY <2>4, <2>7
      <3>2. Finest(M, B \cup A, q)
        BY <1>6, <2>4, <3>1, FinestEither, Zenon
      <3>3. Serves(v6, B \cup A)
        BY <1>6, <2>1, <2>3, <3>2, FamilyServes, Zenon
      <3>4. mixed = v6
        BY <2>2, <2>3, <2>7, <3>1, Zenon
      <3>5. A \cup B = B \cup A
        OBVIOUS
      <3> QED
        BY <3>3, <3>4, <3>5, Zenon
    <2>8. ASSUME p = q PROVE Serves(mixed, A \cup B)
      <3>1. ~(p < q) /\ ~(p > q)
        BY <2>4, <2>8
      <3>2. mixed = set_balancing_vector(L \o M, total_weight(L) + total_weight(M),
                                         highest_common_factor(tmp_hcf(L), tmp_hcf(M)))
        BY <2>2, <2>3, <3>1, Zenon
      <3>3. PICK w : w = mixed
        BY Zenon
      <3> HIDE DEF mixed
      <3>4. Serves(w, A \cup B)
        BY <1>6, <2>4, <2>8, <3>2, <3>3, MixedServes
      <3> QED
        BY <3>3, <3>4, Zenon
    <2>9. Serves(mixed, A \cup B)
      BY <2>5, <2>6, <2>7, <2>8, Zenon
    <2> QED
      BY <1>2, <1>4, <1>9, <1>10, <1>12, <2>9, Zenon DEF Vectors
  <1> QED
    BY <1>11, <1>12, Zenon

=============================================================================
