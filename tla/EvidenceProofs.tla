----------------------------- MODULE EvidenceProofs -----------------------------
(***************************************************************************)
(* What the operators of EvidenceChain promise, for every model: the first *)
(* gate that does not pass decides; a set in ascending order and the       *)
(* elements picked out of a sequence; the coordinates of a set of layers,  *)
(* of which what both sides, or one of them, captured are again the        *)
(* coordinates of a set of layers; what a reader that passes has checked;  *)
(* what the comparisons of layers and of stages return.                    *)
(***************************************************************************)
EXTENDS EvidenceChain, TLAPS, FiniteSetTheorems, SequenceTheorems, WellFoundedInduction

-------------------------------------------------------------------------------
(* Gates. *)
LEMMA FirstInExists ==
    ASSUME NEW S, S \subseteq Nat, S # {}
    PROVE  FirstIn(S) \in S /\ \A n \in S : FirstIn(S) <= n
<1> DEFINE R == OpToRel(<, Nat)
<1>1. \E n \in S : \A m \in S : ~(<<m, n>> \in R)
  <2> HIDE DEF R
  <2>1. IsWellFoundedOn(R, Nat)
    BY NatLessThanWellFounded DEF R
  <2> QED
    BY <2>1, WFMin
<1>2. \A n, m \in Nat : m < n => <<m, n>> \in R
  BY DEF OpToRel
<1>3. \E n \in S : \A m \in S : n <= m
  <2> HIDE DEF R
  <2>1. PICK n \in S : \A m \in S : ~(<<m, n>> \in R)
    BY <1>1
  <2>2. \A m \in S : ~(m < n)
    BY <2>1, <1>2
  <2> QED
    BY <2>2
<1> QED
  BY <1>3 DEF FirstIn

LEMMA FirstOfIs ==
    ASSUME NEW s, DOMAIN s \subseteq Nat
    PROVE  \/ /\ FirstOf(s) = Passed
              /\ \A i \in DOMAIN s : s[i] = Passed
           \/ \E i \in DOMAIN s :
                 /\ FirstOf(s) = s[i] /\ s[i] # Passed
                 /\ \A j \in DOMAIN s : j < i => s[j] = Passed
<1> DEFINE refused == {i \in DOMAIN s : s[i] # Passed}
<1>1. CASE refused = {}
  BY <1>1 DEF FirstOf
<1>2. CASE refused # {}
  <2> DEFINE first == FirstIn(refused)
  <2>1. first \in refused /\ \A j \in refused : first <= j
    <3>1. refused \subseteq Nat
      OBVIOUS
    <3> HIDE DEF refused
    <3> QED
      BY <1>2, <3>1, FirstInExists
  <2>2. FirstOf(s) = s[first]
    BY <1>2 DEF FirstOf
  <2> HIDE DEF first
  <2>3. \A j \in DOMAIN s : j < first => j \notin refused
    BY <2>1
  <2> QED
    BY <2>1, <2>2, <2>3
<1> QED
  BY <1>1, <1>2

LEMMA FirstRefusalIs ==
    ASSUME NEW gates, DOMAIN gates \subseteq Nat
    PROVE  \/ /\ FirstRefusal(gates) = Passed
              /\ \A i \in DOMAIN gates : gates[i].passes
           \/ \E i \in DOMAIN gates :
                 /\ FirstRefusal(gates) = gates[i].refusal /\ ~gates[i].passes
                 /\ \A j \in DOMAIN gates : j < i => gates[j].passes
<1> DEFINE failing == {i \in DOMAIN gates : ~gates[i].passes}
<1>1. CASE failing = {}
  BY <1>1 DEF FirstRefusal
<1>2. CASE failing # {}
  <2> DEFINE first == FirstIn(failing)
  <2>1. first \in failing /\ \A j \in failing : first <= j
    <3>1. failing \subseteq Nat
      OBVIOUS
    <3> HIDE DEF failing
    <3> QED
      BY <1>2, <3>1, FirstInExists
  <2>2. FirstRefusal(gates) = gates[first].refusal
    BY <1>2 DEF FirstRefusal
  <2> HIDE DEF first
  <2>3. \A j \in DOMAIN gates : j < first => j \notin failing
    BY <2>1
  <2> QED
    BY <2>1, <2>2, <2>3
<1> QED
  BY <1>1, <1>2

(* The same for the sequences the readers are made of: the first gate that *)
(* does not pass decides.                                                  *)
LEMMA FirstOf2 ==
    ASSUME NEW a, NEW b
    PROVE  FirstOf(<<a, b>>) =
           IF a # Passed THEN a
           ELSE b
<1> DEFINE s == <<a, b>>
<1>1. DOMAIN s = 1 .. 2
  OBVIOUS
<1>2. /\ s[1] = a /\ s[2] = b
  OBVIOUS
<1> HIDE DEF s
<1>3. \A i \in 1 .. 2 : i \in {1, 2}
  OBVIOUS
<1> QED
  BY <1>1, <1>2, <1>3, FirstOfIs DEF s

LEMMA FirstOf3 ==
    ASSUME NEW a, NEW b, NEW c
    PROVE  FirstOf(<<a, b, c>>) =
           IF a # Passed THEN a
           ELSE IF b # Passed THEN b
           ELSE c
<1> DEFINE s == <<a, b, c>>
<1>1. DOMAIN s = 1 .. 3
  OBVIOUS
<1>2. /\ s[1] = a /\ s[2] = b /\ s[3] = c
  OBVIOUS
<1> HIDE DEF s
<1>3. \A i \in 1 .. 3 : i \in {1, 2, 3}
  OBVIOUS
<1> QED
  BY <1>1, <1>2, <1>3, FirstOfIs DEF s

LEMMA FirstOf4 ==
    ASSUME NEW a, NEW b, NEW c, NEW d
    PROVE  FirstOf(<<a, b, c, d>>) =
           IF a # Passed THEN a
           ELSE IF b # Passed THEN b
           ELSE IF c # Passed THEN c
           ELSE d
<1> DEFINE s == <<a, b, c, d>>
<1>1. DOMAIN s = 1 .. 4
  OBVIOUS
<1>2. /\ s[1] = a /\ s[2] = b /\ s[3] = c /\ s[4] = d
  OBVIOUS
<1> HIDE DEF s
<1>3. \A i \in 1 .. 4 : i \in {1, 2, 3, 4}
  OBVIOUS
<1> QED
  BY <1>1, <1>2, <1>3, FirstOfIs DEF s

LEMMA FirstOf5 ==
    ASSUME NEW a, NEW b, NEW c, NEW d, NEW e
    PROVE  FirstOf(<<a, b, c, d, e>>) =
           IF a # Passed THEN a
           ELSE IF b # Passed THEN b
           ELSE IF c # Passed THEN c
           ELSE IF d # Passed THEN d
           ELSE e
<1> DEFINE s == <<a, b, c, d, e>>
<1>1. DOMAIN s = 1 .. 5
  OBVIOUS
<1>2. /\ s[1] = a /\ s[2] = b /\ s[3] = c /\ s[4] = d /\ s[5] = e
  OBVIOUS
<1> HIDE DEF s
<1>3. \A i \in 1 .. 5 : i \in {1, 2, 3, 4, 5}
  OBVIOUS
<1> QED
  BY <1>1, <1>2, <1>3, FirstOfIs DEF s

LEMMA FirstOf7 ==
    ASSUME NEW a, NEW b, NEW c, NEW d, NEW e, NEW f, NEW g
    PROVE  FirstOf(<<a, b, c, d, e, f, g>>) =
           IF a # Passed THEN a
           ELSE IF b # Passed THEN b
           ELSE IF c # Passed THEN c
           ELSE IF d # Passed THEN d
           ELSE IF e # Passed THEN e
           ELSE IF f # Passed THEN f
           ELSE g
<1> DEFINE s == <<a, b, c, d, e, f, g>>
<1>1. DOMAIN s = 1 .. 7
  OBVIOUS
<1>2. /\ s[1] = a /\ s[2] = b /\ s[3] = c /\ s[4] = d /\ s[5] = e /\ s[6] = f
      /\ s[7] = g
  OBVIOUS
<1> HIDE DEF s
<1>3. \A i \in 1 .. 7 : i \in {1, 2, 3, 4, 5, 6, 7}
  OBVIOUS
<1> QED
  BY <1>1, <1>2, <1>3, FirstOfIs DEF s

LEMMA FirstRefusal1 ==
    ASSUME NEW a
    PROVE  FirstRefusal(<<a>>) =
           IF ~a.passes THEN a.refusal
           ELSE Passed
<1> DEFINE s == <<a>>
<1>1. DOMAIN s = 1 .. 1
  OBVIOUS
<1>2. /\ s[1] = a
  OBVIOUS
<1> HIDE DEF s
<1>3. \A i \in 1 .. 1 : i \in {1}
  OBVIOUS
<1> QED
  BY <1>1, <1>2, <1>3, FirstRefusalIs DEF s

LEMMA FirstRefusal2 ==
    ASSUME NEW a, NEW b
    PROVE  FirstRefusal(<<a, b>>) =
           IF ~a.passes THEN a.refusal
           ELSE IF ~b.passes THEN b.refusal
           ELSE Passed
<1> DEFINE s == <<a, b>>
<1>1. DOMAIN s = 1 .. 2
  OBVIOUS
<1>2. /\ s[1] = a /\ s[2] = b
  OBVIOUS
<1> HIDE DEF s
<1>3. \A i \in 1 .. 2 : i \in {1, 2}
  OBVIOUS
<1> QED
  BY <1>1, <1>2, <1>3, FirstRefusalIs DEF s

LEMMA FirstRefusal3 ==
    ASSUME NEW a, NEW b, NEW c
    PROVE  FirstRefusal(<<a, b, c>>) =
           IF ~a.passes THEN a.refusal
           ELSE IF ~b.passes THEN b.refusal
           ELSE IF ~c.passes THEN c.refusal
           ELSE Passed
<1> DEFINE s == <<a, b, c>>
<1>1. DOMAIN s = 1 .. 3
  OBVIOUS
<1>2. /\ s[1] = a /\ s[2] = b /\ s[3] = c
  OBVIOUS
<1> HIDE DEF s
<1>3. \A i \in 1 .. 3 : i \in {1, 2, 3}
  OBVIOUS
<1> QED
  BY <1>1, <1>2, <1>3, FirstRefusalIs DEF s

LEMMA FirstRefusal5 ==
    ASSUME NEW a, NEW b, NEW c, NEW d, NEW e
    PROVE  FirstRefusal(<<a, b, c, d, e>>) =
           IF ~a.passes THEN a.refusal
           ELSE IF ~b.passes THEN b.refusal
           ELSE IF ~c.passes THEN c.refusal
           ELSE IF ~d.passes THEN d.refusal
           ELSE IF ~e.passes THEN e.refusal
           ELSE Passed
<1> DEFINE s == <<a, b, c, d, e>>
<1>1. DOMAIN s = 1 .. 5
  OBVIOUS
<1>2. /\ s[1] = a /\ s[2] = b /\ s[3] = c /\ s[4] = d /\ s[5] = e
  OBVIOUS
<1> HIDE DEF s
<1>3. \A i \in 1 .. 5 : i \in {1, 2, 3, 4, 5}
  OBVIOUS
<1> QED
  BY <1>1, <1>2, <1>3, FirstRefusalIs DEF s

LEMMA FirstRefusal7 ==
    ASSUME NEW a, NEW b, NEW c, NEW d, NEW e, NEW f, NEW g
    PROVE  FirstRefusal(<<a, b, c, d, e, f, g>>) =
           IF ~a.passes THEN a.refusal
           ELSE IF ~b.passes THEN b.refusal
           ELSE IF ~c.passes THEN c.refusal
           ELSE IF ~d.passes THEN d.refusal
           ELSE IF ~e.passes THEN e.refusal
           ELSE IF ~f.passes THEN f.refusal
           ELSE IF ~g.passes THEN g.refusal
           ELSE Passed
<1> DEFINE s == <<a, b, c, d, e, f, g>>
<1>1. DOMAIN s = 1 .. 7
  OBVIOUS
<1>2. /\ s[1] = a /\ s[2] = b /\ s[3] = c /\ s[4] = d /\ s[5] = e /\ s[6] = f
      /\ s[7] = g
  OBVIOUS
<1> HIDE DEF s
<1>3. \A i \in 1 .. 7 : i \in {1, 2, 3, 4, 5, 6, 7}
  OBVIOUS
<1> QED
  BY <1>1, <1>2, <1>3, FirstRefusalIs DEF s

LEMMA FirstRefusal8 ==
    ASSUME NEW a, NEW b, NEW c, NEW d, NEW e, NEW f, NEW g, NEW h
    PROVE  FirstRefusal(<<a, b, c, d, e, f, g, h>>) =
           IF ~a.passes THEN a.refusal
           ELSE IF ~b.passes THEN b.refusal
           ELSE IF ~c.passes THEN c.refusal
           ELSE IF ~d.passes THEN d.refusal
           ELSE IF ~e.passes THEN e.refusal
           ELSE IF ~f.passes THEN f.refusal
           ELSE IF ~g.passes THEN g.refusal
           ELSE IF ~h.passes THEN h.refusal
           ELSE Passed
<1> DEFINE s == <<a, b, c, d, e, f, g, h>>
<1>1. DOMAIN s = 1 .. 8
  OBVIOUS
<1>2. /\ s[1] = a /\ s[2] = b /\ s[3] = c /\ s[4] = d /\ s[5] = e /\ s[6] = f
      /\ s[7] = g /\ s[8] = h
  OBVIOUS
<1> HIDE DEF s
<1>3. \A i \in 1 .. 8 : i \in {1, 2, 3, 4, 5, 6, 7, 8}
  OBVIOUS
<1> QED
  BY <1>1, <1>2, <1>3, FirstRefusalIs DEF s

LEMMA FirstRefusal11 ==
    ASSUME NEW a, NEW b, NEW c, NEW d, NEW e, NEW f, NEW g, NEW h, NEW l, NEW m, NEW n
    PROVE  FirstRefusal(<<a, b, c, d, e, f, g, h, l, m, n>>) =
           IF ~a.passes THEN a.refusal
           ELSE IF ~b.passes THEN b.refusal
           ELSE IF ~c.passes THEN c.refusal
           ELSE IF ~d.passes THEN d.refusal
           ELSE IF ~e.passes THEN e.refusal
           ELSE IF ~f.passes THEN f.refusal
           ELSE IF ~g.passes THEN g.refusal
           ELSE IF ~h.passes THEN h.refusal
           ELSE IF ~l.passes THEN l.refusal
           ELSE IF ~m.passes THEN m.refusal
           ELSE IF ~n.passes THEN n.refusal
           ELSE Passed
<1> DEFINE s == <<a, b, c, d, e, f, g, h, l, m, n>>
<1>1. DOMAIN s = 1 .. 11
  OBVIOUS
<1>2. /\ s[1] = a /\ s[2] = b /\ s[3] = c /\ s[4] = d /\ s[5] = e /\ s[6] = f
      /\ s[7] = g /\ s[8] = h /\ s[9] = l /\ s[10] = m /\ s[11] = n
  OBVIOUS
<1> HIDE DEF s
<1>3. \A i \in 1 .. 11 : i \in {1, 2, 3, 4, 5, 6, 7, 8, 9, 10, 11}
  OBVIOUS
<1> QED
  BY <1>1, <1>2, <1>3, FirstRefusalIs DEF s
-------------------------------------------------------------------------------
(* Ascending and Picked. *)
Below(set, x) == {y \in set : y < x}

LEMMA RankOf ==
    ASSUME NEW S \in SUBSET Int, IsFiniteSet(S), NEW x \in S
    PROVE  /\ IsFiniteSet(Below(S, x))
           /\ Cardinality(Below(S, x)) \in 0 .. Cardinality(S) - 1
           /\ \A y \in S : y < x => Cardinality(Below(S, y)) < Cardinality(Below(S, x))
<1>1. \A T \in SUBSET S : IsFiniteSet(T) /\ Cardinality(T) \in Nat
  BY FS_Subset, FS_CardinalityType
<1>2. \A T \in SUBSET S, U \in SUBSET S :
         T \subseteq U /\ T # U => Cardinality(T) < Cardinality(U)
  <2> SUFFICES ASSUME NEW T \in SUBSET S, NEW U \in SUBSET S, T \subseteq U, T # U
               PROVE  Cardinality(T) < Cardinality(U)
    OBVIOUS
  <2>1. Cardinality(T) <= Cardinality(U) /\ Cardinality(U) # Cardinality(T)
    BY <1>1, FS_Subset
  <2> QED
    BY <1>1, <2>1
<1>3. Below(S, x) \in SUBSET S /\ x \notin Below(S, x)
  BY DEF Below
<1>4. \A y \in S : y < x => /\ Below(S, y) \subseteq Below(S, x)
                            /\ y \in Below(S, x) /\ y \notin Below(S, y)
                            /\ Below(S, y) \in SUBSET S
  <2> SUFFICES ASSUME NEW y \in S, y < x
               PROVE  /\ Below(S, y) \subseteq Below(S, x)
                      /\ y \in Below(S, x) /\ y \notin Below(S, y)
                      /\ Below(S, y) \in SUBSET S
    OBVIOUS
  <2>1. x \in Int /\ y \in Int /\ \A z \in S : z \in Int
    OBVIOUS
  <2>2. \A z \in S : z < y => z < x
    BY <2>1
  <2>3. ~(y < y)
    BY <2>1
  <2> QED
    BY <2>2, <2>3 DEF Below
<1>5. Cardinality(Below(S, x)) < Cardinality(S)
  <2>1. Below(S, x) # S
    BY <1>3
  <2> QED
    BY <1>2, <1>3, <2>1
<1>6. \A y \in S : y < x => Cardinality(Below(S, y)) < Cardinality(Below(S, x))
  <2> SUFFICES ASSUME NEW y \in S, y < x
               PROVE  Cardinality(Below(S, y)) < Cardinality(Below(S, x))
    OBVIOUS
  <2>1. Below(S, y) # Below(S, x)
    BY <1>4
  <2> QED
    BY <1>2, <1>3, <1>4, <2>1
<1>7. Cardinality(Below(S, x)) \in Nat /\ Cardinality(S) \in Nat
  BY <1>1, <1>3
<1> QED
  BY <1>1, <1>3, <1>5, <1>6, <1>7

\* Ascending lists the set, each element once, each after the smaller ones.
LEMMA AscendingIs ==
    ASSUME NEW S \in SUBSET Int, IsFiniteSet(S)
    PROVE  /\ Cardinality(S) \in Nat
           /\ Ascending(S) \in [1 .. Cardinality(S) -> S]
           /\ \A x \in S : \E n \in 1 .. Cardinality(S) : Ascending(S)[n] = x
           /\ \A m, n \in 1 .. Cardinality(S) : m < n => Ascending(S)[m] < Ascending(S)[n]
<1> DEFINE N == Cardinality(S)
           rank == [x \in S |-> Cardinality(Below(S, x))]
<1>1. N \in Nat
  BY FS_CardinalityType
<1>2. rank \in [S -> 0 .. N - 1]
  BY RankOf
<1>3. \A x, y \in S : x < y => rank[x] < rank[y]
  BY RankOf
<1>4. \A x, y \in S : rank[x] = rank[y] => x = y
  <2> HIDE DEF rank, N
  <2> SUFFICES ASSUME NEW x \in S, NEW y \in S, rank[x] = rank[y], x # y PROVE FALSE
    OBVIOUS
  <2>1. rank[x] \in Int /\ rank[y] \in Int
    BY <1>1, <1>2
  <2>2. x < y \/ y < x
    OBVIOUS
  <2> QED
    BY <1>3, <2>1, <2>2
<1>5. rank \in Injection(S, 0 .. N - 1)
  <2> HIDE DEF rank
  <2> QED
    BY <1>2, <1>4 DEF Injection, IsInjective
<1>6. rank \in Surjection(S, 0 .. N - 1)
  <2>1. IsFiniteSet(0 .. N - 1) /\ Cardinality(0 .. N - 1) = N
    BY <1>1, FS_Interval
  <2> HIDE DEF rank
  <2> QED
    BY <1>5, <2>1, FS_Injection
<1>7. \A n \in 1 .. N : \E x \in S : rank[x] = n - 1
  <2> HIDE DEF rank
  <2>1. \A n \in 1 .. N : n - 1 \in 0 .. N - 1
    BY <1>1
  <2> QED
    BY <1>6, <2>1 DEF Surjection
<1>8. \A n \in 1 .. N : Ascending(S)[n] \in S /\ rank[Ascending(S)[n]] = n - 1
  <2> SUFFICES ASSUME NEW n \in 1 .. N
               PROVE  Ascending(S)[n] \in S /\ rank[Ascending(S)[n]] = n - 1
    OBVIOUS
  <2>1. Ascending(S)[n] = CHOOSE x \in S : rank[x] = n - 1
    BY DEF Ascending, Below
  <2> HIDE DEF rank
  <2> QED
    BY <1>7, <2>1
<1>9. Ascending(S) \in [1 .. N -> S]
  BY <1>8 DEF Ascending
<1> HIDE DEF rank
<1>10. \A x \in S : \E n \in 1 .. N : Ascending(S)[n] = x
  <2> SUFFICES ASSUME NEW x \in S PROVE \E n \in 1 .. N : Ascending(S)[n] = x
    OBVIOUS
  <2>1. rank[x] \in 0 .. N - 1 /\ rank[x] + 1 \in 1 .. N
    BY <1>1, <1>2
  <2>2. rank[Ascending(S)[rank[x] + 1]] = rank[x] + 1 - 1
    BY <1>8, <2>1
  <2>3. rank[x] + 1 - 1 = rank[x]
    BY <2>1
  <2>4. Ascending(S)[rank[x] + 1] = x
    BY <1>4, <1>8, <2>1, <2>2, <2>3
  <2> QED
    BY <2>1, <2>4
<1>11. \A m, n \in 1 .. N : m < n => Ascending(S)[m] < Ascending(S)[n]
  <2> SUFFICES ASSUME NEW m \in 1 .. N, NEW n \in 1 .. N, m < n
               PROVE  Ascending(S)[m] < Ascending(S)[n]
    OBVIOUS
  <2>1. rank[Ascending(S)[m]] < rank[Ascending(S)[n]]
    BY <1>1, <1>8
  <2> DEFINE x == Ascending(S)[m]
             y == Ascending(S)[n]
  <2>2. x \in S /\ y \in S /\ rank[x] \in Int /\ rank[y] \in Int
    BY <1>1, <1>2, <1>8
  <2>3. rank[x] < rank[y]
    BY <2>1
  <2> HIDE DEF x, y
  <2>4. x \in Int /\ y \in Int
    BY <2>2
  <2>5. x # y /\ ~(y < x)
    BY <1>3, <2>2, <2>3
  <2>6. x < y
    BY <2>4, <2>5
  <2> QED
    BY <2>6 DEF x, y
<1> QED
  BY <1>1, <1>9, <1>10, <1>11

\* It is the only one.
LEMMA AscendingIsUnique ==
    ASSUME NEW n \in Nat, NEW f \in [1 .. n -> Int],
           \A i, j \in 1 .. n : i < j => f[i] < f[j]
    PROVE  LET S == {f[i] : i \in 1 .. n} IN
           IsFiniteSet(S) /\ Cardinality(S) = n /\ Ascending(S) = f
<1> DEFINE S == {f[i] : i \in 1 .. n}
           a == Ascending(S)
<1>1. \A i, j \in 1 .. n : f[i] = f[j] => i = j
  <2> SUFFICES ASSUME NEW i \in 1 .. n, NEW j \in 1 .. n, f[i] = f[j], i # j PROVE FALSE
    OBVIOUS
  <2>1. f[i] \in Int /\ f[j] \in Int /\ (i < j \/ j < i)
    OBVIOUS
  <2>2. f[i] < f[j] \/ f[j] < f[i]
    BY <2>1
  <2> QED
    BY <2>1, <2>2
<1>2. f \in Bijection(1 .. n, S)
  BY <1>1 DEF Bijection, Injection, Surjection, IsInjective
<1>3. IsFiniteSet(S) /\ Cardinality(S) = n
  <2>1. ExistsBijection(1 .. n, S)
    BY <1>2 DEF ExistsBijection
  <2> HIDE DEF S
  <2> QED
    BY <2>1, FS_NatBijection, FS_CountingElements
<1>4. S \in SUBSET Int
  OBVIOUS
<1>5. \A i \in 1 .. n : Cardinality(Below(S, f[i])) = i - 1
  <2> SUFFICES ASSUME NEW i \in 1 .. n PROVE Cardinality(Below(S, f[i])) = i - 1
    OBVIOUS
  <2> DEFINE g == [j \in 1 .. i - 1 |-> f[j]]
             T == Below(S, f[i])
  <2>1. \A j \in 1 .. n : f[j] < f[i] <=> j < i
    <3> SUFFICES ASSUME NEW j \in 1 .. n PROVE f[j] < f[i] <=> j < i
      OBVIOUS
    <3>1. f[i] \in Int /\ f[j] \in Int /\ (i < j \/ j < i \/ i = j)
      OBVIOUS
    <3>2. i < j => f[i] < f[j]
      OBVIOUS
    <3> QED
      BY <3>1, <3>2
  <2>2. T = {f[j] : j \in 1 .. i - 1}
    <3>1. \A y \in T : \E j \in 1 .. i - 1 : y = f[j]
      <4> SUFFICES ASSUME NEW y \in T PROVE \E j \in 1 .. i - 1 : y = f[j]
        OBVIOUS
      <4>1. PICK j \in 1 .. n : y = f[j] /\ y < f[i]
        BY DEF Below
      <4> QED
        BY <2>1, <4>1
    <3>2. \A j \in 1 .. i - 1 : f[j] \in T
      BY <2>1 DEF Below
    <3> QED
      BY <3>1, <3>2 DEF Below
  <2>3. g \in Bijection(1 .. i - 1, T)
    <3>1. \A j \in 1 .. i - 1 : j \in 1 .. n
      OBVIOUS
    <3> HIDE DEF T
    <3> QED
      BY <1>1, <2>2, <3>1 DEF Bijection, Injection, Surjection, IsInjective
  <2> HIDE DEF T, g
  <2>4. ExistsBijection(1 .. i - 1, T) /\ i - 1 \in Nat
    BY <2>3 DEF ExistsBijection
  <2>5. Cardinality(T) = i - 1
    BY <2>4, FS_CountingElements
  <2> QED
    BY <2>5 DEF T
<1>6. \A x, y \in S : Cardinality(Below(S, x)) = Cardinality(Below(S, y)) => x = y
  <2> HIDE DEF S
  <2> SUFFICES ASSUME NEW x \in S, NEW y \in S, x # y,
                      Cardinality(Below(S, x)) = Cardinality(Below(S, y))
               PROVE FALSE
    OBVIOUS
  <2>1. x < y \/ y < x
    BY <1>4
  <2>2. Cardinality(Below(S, x)) \in Int
    BY <1>3, <1>4, RankOf
  <2> QED
    BY <1>3, <1>4, <2>1, <2>2, RankOf
<1>7. \A i \in 1 .. n : a[i] = f[i]
  <2> SUFFICES ASSUME NEW i \in 1 .. n PROVE a[i] = f[i]
    OBVIOUS
  <2>1. a[i] = CHOOSE x \in S : Cardinality(Below(S, x)) = i - 1
    BY <1>3 DEF Ascending, Below
  <2>2. f[i] \in S
    OBVIOUS
  <2> HIDE DEF S, a
  <2> QED
    BY <1>5, <1>6, <2>1, <2>2
<1> HIDE DEF S
<1>8. a \in [1 .. n -> S]
  BY <1>3, <1>4, AscendingIs
<1> HIDE DEF a
<1>9. a = f
  BY <1>7, <1>8
<1> QED
  BY <1>3, <1>9 DEF S, a

\* Picking the positions of a subset out of a set in ascending order gives the
\* subset in ascending order.
LEMMA PickedAscends ==
    ASSUME NEW S \in SUBSET Int, IsFiniteSet(S), NEW T \in SUBSET S
    PROVE  LET I == {i \in 1 .. Cardinality(S) : Ascending(S)[i] \in T} IN
           /\ Cardinality(T) \in Nat /\ Cardinality(I) = Cardinality(T)
           /\ Ascending(I) \in [1 .. Cardinality(T) -> I]
           /\ \A n \in 1 .. Cardinality(T) : Ascending(S)[Ascending(I)[n]] = Ascending(T)[n]
<1> DEFINE N == Cardinality(S)
           a == Ascending(S)
           I == {i \in 1 .. N : a[i] \in T}
           M == Cardinality(I)
           b == Ascending(I)
           f == [n \in 1 .. M |-> a[b[n]]]
<1>1. /\ N \in Nat /\ a \in [1 .. N -> S]
      /\ \A x \in S : \E n \in 1 .. N : a[n] = x
      /\ \A m, n \in 1 .. N : m < n => a[m] < a[n]
  BY AscendingIs
<1>2. I \in SUBSET Int /\ IsFiniteSet(I) /\ I \subseteq 1 .. N
  <2>1. I \in SUBSET (1 .. N)
    OBVIOUS
  <2>2. IsFiniteSet(1 .. N)
    BY <1>1, FS_Interval
  <2> HIDE DEF I, N, a
  <2>3. IsFiniteSet(I)
    BY <2>1, <2>2, FS_Subset
  <2>4. \A i \in 1 .. N : i \in Int
    BY <1>1
  <2> QED
    BY <2>1, <2>3, <2>4
<1>3. \A i \in I : i \in 1 .. N /\ a[i] \in T
  OBVIOUS
<1>4. \A i \in 1 .. N : a[i] \in T => i \in I
  OBVIOUS
<1> HIDE DEF I, a, N
<1>5. /\ M \in Nat /\ b \in [1 .. M -> I]
      /\ \A i \in I : \E n \in 1 .. M : b[n] = i
      /\ \A m, n \in 1 .. M : m < n => b[m] < b[n]
  BY <1>2, AscendingIs
<1> HIDE DEF M, b
<1>6. f \in [1 .. M -> Int]
  BY <1>1, <1>3, <1>5
<1>7. \A m, n \in 1 .. M : m < n => f[m] < f[n]
  BY <1>1, <1>3, <1>5
<1>8. {f[n] : n \in 1 .. M} = T
  <2>1. \A x \in T : \E n \in 1 .. M : f[n] = x
    <3> SUFFICES ASSUME NEW x \in T PROVE \E n \in 1 .. M : f[n] = x
      OBVIOUS
    <3>1. PICK i \in 1 .. N : a[i] = x
      BY <1>1
    <3>2. PICK n \in 1 .. M : b[n] = i
      BY <1>4, <1>5, <3>1
    <3> QED
      BY <3>1, <3>2
  <2>2. \A n \in 1 .. M : f[n] \in T
    BY <1>3, <1>5
  <2> QED
    BY <2>1, <2>2
<1> HIDE DEF f
<1>9. Cardinality(T) = M /\ Ascending(T) = f
  BY <1>5, <1>6, <1>7, <1>8, AscendingIsUnique
<1>10. \A n \in 1 .. M : a[b[n]] = Ascending(T)[n]
  BY <1>9 DEF f
<1> QED
  BY <1>5, <1>9, <1>10 DEF N, a, I, M, b
-------------------------------------------------------------------------------
(* The coordinates of a set of layers. *)
LEMMA LayersAreFinite ==
    ASSUME NEW S \in SUBSET Layers
    PROVE  S \in SUBSET Int /\ IsFiniteSet(S) /\ Cardinality(S) \in Nat
<1>1. IsFiniteSet(Layers) /\ Layers \subseteq Int
  <2>1. 0 \in Int /\ LayerCount - 1 \in Int
    BY EvidenceChainAssumption
  <2> QED
    BY <2>1, FS_Interval DEF Layers
<1>2. IsFiniteSet(S) /\ S \in SUBSET Int
  BY <1>1, FS_Subset
<1> QED
  BY <1>2, FS_CardinalityType

LEMMA LayersAtIs ==
    ASSUME NEW S \in SUBSET Layers
    PROVE  LET at == LayersAt(S) IN
           /\ Cardinality(S) \in Nat /\ DOMAIN at = 1 .. Cardinality(S)
           /\ at \in [1 .. Cardinality(S) -> {LayerAt(l) : l \in S}]
           /\ \A i \in 1 .. Cardinality(S) : at[i] = LayerAt(at[i].layer) /\ at[i].layer \in S
           /\ \A l \in S : \E i \in 1 .. Cardinality(S) : at[i].layer = l
           /\ \A i, j \in 1 .. Cardinality(S) : i < j => at[i].layer < at[j].layer
           /\ \A i \in 1 .. Cardinality(S) : at[i].layer = Ascending(S)[i]
<1> DEFINE N == Cardinality(S)
           at == LayersAt(S)
           a == Ascending(S)
<1>1. S \in SUBSET Int /\ IsFiniteSet(S) /\ N \in Nat
  BY LayersAreFinite
<1>2. /\ a \in [1 .. N -> S]
      /\ \A x \in S : \E n \in 1 .. N : a[n] = x
      /\ \A m, n \in 1 .. N : m < n => a[m] < a[n]
  BY <1>1, AscendingIs
<1>3. at = [i \in 1 .. N |-> LayerAt(a[i])]
  BY DEF LayersAt
<1> HIDE DEF at, a, N
<1>4. \A l : LayerAt(l).layer = l
  BY DEF LayerAt
<1>5. \A i \in 1 .. N : at[i].layer = a[i] /\ at[i] = LayerAt(a[i]) /\ a[i] \in S
  BY <1>2, <1>3, <1>4
<1>6. at \in [1 .. N -> {LayerAt(l) : l \in S}]
  BY <1>3, <1>5
<1>7. /\ \A l \in S : \E i \in 1 .. N : at[i].layer = l
      /\ \A i, j \in 1 .. N : i < j => at[i].layer < at[j].layer
      /\ \A i \in 1 .. N : at[i] = LayerAt(at[i].layer) /\ at[i].layer \in S
  BY <1>2, <1>5
<1> QED
  BY <1>1, <1>5, <1>6, <1>7 DEF at, a, N

LEMMA KeyOfLayer ==
    \A l : LogicalKey(LayerAt(l)) = <<Step, l>> /\ LayerAt(l).layer = l
BY DEF LogicalKey, LayerAt

LEMMA KeysOfLayers ==
    ASSUME NEW S \in SUBSET Layers
    PROVE  Keys(LayersAt(S)) = {<<Step, l>> : l \in S}
<1> DEFINE at == LayersAt(S)
           N == Cardinality(S)
<1>1. /\ N \in Nat /\ DOMAIN at = 1 .. N
      /\ \A i \in 1 .. N : at[i] = LayerAt(at[i].layer) /\ at[i].layer \in S
      /\ \A l \in S : \E i \in 1 .. N : at[i].layer = l
  BY LayersAtIs
<1>2. Keys(at) = {LogicalKey(at[i]) : i \in 1 .. N}
  BY <1>1 DEF Keys
<1> HIDE DEF at, N
<1>3. \A i \in 1 .. N : LogicalKey(at[i]) = <<Step, at[i].layer>>
  BY <1>1, KeyOfLayer
<1> QED
  BY <1>1, <1>2, <1>3 DEF at

LEMMA PickedLayers ==
    ASSUME NEW S \in SUBSET Layers, NEW T \in SUBSET S
    PROVE  LET at == LayersAt(S) IN
           Picked(at, {i \in DOMAIN at : at[i].layer \in T}) = LayersAt(T)
<1> DEFINE at == LayersAt(S)
           N == Cardinality(S)
           I == {i \in 1 .. N : Ascending(S)[i] \in T}
           M == Cardinality(T)
<1>1. S \in SUBSET Int /\ IsFiniteSet(S)
  BY LayersAreFinite
<1>2. /\ M \in Nat /\ Cardinality(I) = M /\ Ascending(I) \in [1 .. M -> I]
      /\ \A n \in 1 .. M : Ascending(S)[Ascending(I)[n]] = Ascending(T)[n]
  BY <1>1, PickedAscends
<1>3. /\ DOMAIN at = 1 .. N
      /\ \A i \in 1 .. N : at[i].layer = Ascending(S)[i] /\ at[i] = LayerAt(at[i].layer)
  BY LayersAtIs
<1>4. {i \in DOMAIN at : at[i].layer \in T} = I
  <2> HIDE DEF at, N
  <2> QED
    BY <1>3
<1>5. \A i \in I : i \in 1 .. N
  OBVIOUS
<1>6. Picked(at, I) = [n \in 1 .. M |-> at[Ascending(I)[n]]]
  <2> HIDE DEF at, I, M
  <2> QED
    BY <1>2 DEF Picked
<1>7. LayersAt(T) = [n \in 1 .. M |-> LayerAt(Ascending(T)[n])]
  BY DEF LayersAt
<1> HIDE DEF at, I, N, M
<1>8. \A n \in 1 .. M : at[Ascending(I)[n]] = LayerAt(Ascending(T)[n])
  <2> SUFFICES ASSUME NEW n \in 1 .. M
               PROVE  at[Ascending(I)[n]] = LayerAt(Ascending(T)[n])
    OBVIOUS
  <2>1. Ascending(I)[n] \in 1 .. N
    BY <1>2, <1>5
  <2> QED
    BY <1>2, <1>3, <2>1
<1>9. Picked(at, I) = LayersAt(T)
  BY <1>6, <1>7, <1>8
<1> QED
  BY <1>4, <1>9 DEF at

\* What one side captured, of what the other captured: an intersection and a
\* difference of sets of layers.
LEMMA WithKeysOfLayers ==
    ASSUME NEW A \in SUBSET Layers, NEW B \in SUBSET Layers
    PROVE  /\ WithKeys(LayersAt(A), Keys(LayersAt(B))) = LayersAt(A \cap B)
           /\ WithoutKeys(LayersAt(A), Keys(LayersAt(B))) = LayersAt(A \ B)
<1> DEFINE at == LayersAt(A)
           N == Cardinality(A)
<1>1. /\ DOMAIN at = 1 .. N
      /\ \A i \in 1 .. N : at[i] = LayerAt(at[i].layer) /\ at[i].layer \in A
  BY LayersAtIs
<1>2. Keys(LayersAt(B)) = {<<Step, l>> : l \in B}
  BY KeysOfLayers
<1> HIDE DEF at, N
<1>3. \A i \in DOMAIN at : LogicalKey(at[i]) \in Keys(LayersAt(B)) <=> at[i].layer \in B
  <2> SUFFICES ASSUME NEW i \in DOMAIN at
               PROVE  LogicalKey(at[i]) \in Keys(LayersAt(B)) <=> at[i].layer \in B
    OBVIOUS
  <2>1. LogicalKey(at[i]) = <<Step, at[i].layer>>
    BY <1>1, KeyOfLayer
  <2> QED
    BY <1>2, <2>1
<1>4. {i \in DOMAIN at : LogicalKey(at[i]) \in Keys(LayersAt(B))} =
      {i \in DOMAIN at : at[i].layer \in A \cap B}
  BY <1>1, <1>3
<1>5. {i \in DOMAIN at : LogicalKey(at[i]) \notin Keys(LayersAt(B))} =
      {i \in DOMAIN at : at[i].layer \in A \ B}
  BY <1>1, <1>3
<1>6. A \cap B \in SUBSET A /\ A \ B \in SUBSET A
  OBVIOUS
<1>7. /\ Picked(at, {i \in DOMAIN at : at[i].layer \in A \cap B}) = LayersAt(A \cap B)
      /\ Picked(at, {i \in DOMAIN at : at[i].layer \in A \ B}) = LayersAt(A \ B)
  BY <1>6, PickedLayers DEF at
<1> QED
  BY <1>4, <1>5, <1>7 DEF WithKeys, WithoutKeys, at

\* What a file says of the layers a side captured.
LEMMA LayerLayoutIs ==
    ASSUME NEW captured, NEW kind
    PROVE  LET layout == OddLayout(LayerLayout(captured), kind) IN
           /\ layout.captured \in {LayersAt(captured), Reverse(LayersAt(captured))}
           /\ kind # "reordered" => layout.captured = LayersAt(captured)
           /\ \/ /\ layout.requested = LayersAt(Layers)
                 /\ DOMAIN layout.missing = DOMAIN LayersAt(Layers \ captured)
                 /\ \A i \in DOMAIN layout.missing :
                       /\ layout.missing[i].coordinate = LayersAt(Layers \ captured)[i]
                       /\ kind # "missing_captured" => layout.missing[i].state = "not_captured"
              \/ /\ layout.requested = LayersAt(captured)
                 /\ layout.missing = <<>>
<1> DEFINE all == LayersAt(Layers)
           at  == LayersAt(captured)
           rest == LayersAt(Layers \ captured)
           not == NotCaptured(rest)
           written == LayerLayout(captured)
           layout == OddLayout(written, kind)
<1> SUFFICES /\ layout.captured \in {at, Reverse(at)}
             /\ kind # "reordered" => layout.captured = at
             /\ \/ /\ layout.requested = all
                   /\ DOMAIN layout.missing = DOMAIN rest
                   /\ \A i \in DOMAIN layout.missing :
                         /\ layout.missing[i].coordinate = rest[i]
                         /\ kind # "missing_captured" => layout.missing[i].state = "not_captured"
                \/ layout.requested = at /\ layout.missing = <<>>
  OBVIOUS
<1>1. written = [supported |-> TRUE, step |-> Step, total |-> LayerCount, requested |-> all,
                 captured |-> at, missing |-> not, contract |-> Contract]
  BY DEF LayerLayout
<1>2. not = [i \in DOMAIN rest |-> [coordinate |-> rest[i], state |-> "not_captured"]]
  BY DEF NotCaptured
<1> HIDE DEF all, at, rest, not, written
<1>3. CASE kind = "missing_captured"
  <2>1. layout = [written EXCEPT !.missing = [i \in DOMAIN @ |-> [@[i] EXCEPT !.state = "captured"]]]
    BY <1>3 DEF OddLayout
  <2>2. layout.missing = [i \in DOMAIN not |-> [not[i] EXCEPT !.state = "captured"]]
    BY <1>1, <2>1
  <2>3. layout.captured = at /\ layout.requested = all
    BY <1>1, <2>1
  <2>4. \A i \in DOMAIN not : layout.missing[i].coordinate = rest[i]
    BY <1>2, <2>2
  <2> HIDE DEF layout
  <2> QED
    BY <1>2, <1>3, <2>2, <2>3, <2>4
<1>4. CASE kind = "reordered"
  <2>1. layout = [written EXCEPT !.captured = Reverse(@)]
    BY <1>4 DEF OddLayout
  <2>2. layout.captured = Reverse(at) /\ layout.requested = all /\ layout.missing = not
    BY <1>1, <2>1
  <2> HIDE DEF layout
  <2> QED
    BY <1>2, <1>4, <2>2
<1>5. CASE kind = "requests_captured"
  <2>1. layout = [written EXCEPT !.requested = written.captured, !.missing = <<>>]
    BY <1>5 DEF OddLayout
  <2>2. layout.captured = at /\ layout.requested = at /\ layout.missing = <<>>
    BY <1>1, <2>1
  <2> HIDE DEF layout
  <2> QED
    BY <1>5, <2>2
<1>6. CASE kind \notin {"missing_captured", "reordered", "requests_captured"}
  <2>1. layout.captured = at /\ layout.requested = all /\ layout.missing = not
    BY <1>1, <1>6 DEF OddLayout
  <2> HIDE DEF layout
  <2> QED
    BY <1>2, <1>6, <2>1
<1> QED
  BY <1>3, <1>4, <1>5, <1>6

\* The order of coordinates: no key twice, each after the one before it.
LEMMA OrderIs ==
    ASSUME NEW cs, DOMAIN cs \subseteq Nat
    PROVE  InOrder(cs) <=>
             \A i \in DOMAIN cs : /\ LogicalKey(cs[i]) \notin Keys(SubSeq(cs, 1, i - 1))
                                  /\ i = 1 \/ Precedes(cs[i - 1], cs[i])
<1> DEFINE wrong == "checkpoint_alignment_inconsistent"
           twice(i) == Gate(LogicalKey(cs[i]) \notin Keys(SubSeq(cs, 1, i - 1)),
                            wrong, "duplicate_checkpoint_coordinate")
           after(i) == Gate(i = 1 \/ Precedes(cs[i - 1], cs[i]), wrong, wrong)
           at(i) == FirstRefusal(<<twice(i), after(i)>>)
           s == [i \in DOMAIN cs |-> at(i)]
<1>1. CoordinateOrder(cs) = FirstOf(s)
  BY DEF CoordinateOrder
<1>2. \A i : /\ twice(i).passes <=> LogicalKey(cs[i]) \notin Keys(SubSeq(cs, 1, i - 1))
             /\ after(i).passes <=> i = 1 \/ Precedes(cs[i - 1], cs[i])
             /\ twice(i).refusal # Passed /\ after(i).refusal # Passed
  BY DEF Gate, Passed
<1> HIDE DEF twice, after
<1>3. \A i : at(i) = Passed <=> twice(i).passes /\ after(i).passes
  BY <1>2, FirstRefusal2
<1> HIDE DEF at
<1>4. FirstOf(s) = Passed <=> \A i \in DOMAIN cs : at(i) = Passed
  BY FirstOfIs
<1> QED
  BY <1>1, <1>2, <1>3, <1>4 DEF InOrder

LEMMA PrefixIs ==
    ASSUME NEW s, NEW N \in Nat, NEW V, s \in [1 .. N -> V], NEW n \in 0 .. N
    PROVE  SubSeq(s, 1, n) = [i \in 1 .. n |-> s[i]] /\ Len(SubSeq(s, 1, n)) = n
           /\ Len(s) = N
OBVIOUS

LEMMA LayersAreInOrder ==
    ASSUME NEW S \in SUBSET Layers
    PROVE  InOrder(LayersAt(S))
<1> DEFINE at == LayersAt(S)
           N == Cardinality(S)
           V == {LayerAt(l) : l \in S}
<1>1. /\ N \in Nat /\ DOMAIN at = 1 .. N /\ at \in [1 .. N -> V]
      /\ \A i \in 1 .. N : at[i] = LayerAt(at[i].layer) /\ at[i].layer \in S
      /\ \A i, j \in 1 .. N : i < j => at[i].layer < at[j].layer
  BY LayersAtIs
<1>2. S \subseteq Int
  BY LayersAreFinite
<1> HIDE DEF at, N, V
<1>3. \A i \in 1 .. N : LogicalKey(at[i]) = <<Step, at[i].layer>> /\ at[i].step = Step
  BY <1>1, KeyOfLayer DEF LayerAt
<1>4. ASSUME NEW i \in 1 .. N
      PROVE  LogicalKey(at[i]) \notin Keys(SubSeq(at, 1, i - 1))
  <2>1. i - 1 \in 0 .. N /\ \A j \in 1 .. i - 1 : j \in 1 .. N /\ j < i
    BY <1>1
  <2>2. SubSeq(at, 1, i - 1) = [j \in 1 .. i - 1 |-> at[j]]
    BY <1>1, <2>1, PrefixIs
  <2>3. \A j \in 1 .. i - 1 : LogicalKey(at[j]) # LogicalKey(at[i])
    <3> SUFFICES ASSUME NEW j \in 1 .. i - 1, LogicalKey(at[j]) = LogicalKey(at[i])
                 PROVE  FALSE
      OBVIOUS
    <3>1. at[j].layer < at[i].layer /\ at[j].layer \in Int
      BY <1>1, <1>2, <2>1
    <3>2. <<Step, at[j].layer>> = <<Step, at[i].layer>>
      BY <1>3, <2>1
    <3> QED
      BY <3>1, <3>2
  <2> QED
    BY <2>2, <2>3 DEF Keys
<1>5. ASSUME NEW i \in 1 .. N
      PROVE  i = 1 \/ Precedes(at[i - 1], at[i])
  <2> SUFFICES ASSUME i # 1 PROVE Precedes(at[i - 1], at[i])
    OBVIOUS
  <2>1. i - 1 \in 1 .. N /\ i - 1 < i
    BY <1>1
  <2> QED
    BY <1>1, <1>3, <2>1 DEF Precedes
<1>6. DOMAIN at \subseteq Nat
  BY <1>1
<1> QED
  BY <1>1, <1>4, <1>5, <1>6, OrderIs DEF at

\* The other way round, two layers are out of order.
LEMMA ReversedLayers ==
    ASSUME NEW S \in SUBSET Layers, InOrder(Reverse(LayersAt(S)))
    PROVE  Reverse(LayersAt(S)) = LayersAt(S)
<1> DEFINE at == LayersAt(S)
           N == Cardinality(S)
           V == {LayerAt(l) : l \in S}
           back == Reverse(at)
<1>1. /\ N \in Nat /\ DOMAIN at = 1 .. N /\ at \in [1 .. N -> V]
      /\ \A i \in 1 .. N : at[i] = LayerAt(at[i].layer) /\ at[i].layer \in S
      /\ \A i, j \in 1 .. N : i < j => at[i].layer < at[j].layer
  BY LayersAtIs
<1>2. S \subseteq Int
  BY LayersAreFinite
<1>3. \A l, m : Precedes(LayerAt(l), LayerAt(m)) /\ l \in Int /\ m \in Int => l < m
  BY DEF Precedes, LayerAt, Step
<1> HIDE DEF at, N, V
<1>4. Len(at) = N
  BY <1>1
<1>5. back = [i \in 1 .. N |-> at[N - i + 1]]
  BY <1>1, <1>4 DEF Reverse
<1> HIDE DEF back
<1>6. ~(N >= 2)
  <2> SUFFICES ASSUME N >= 2 PROVE FALSE
    OBVIOUS
  <2>1. DOMAIN back \subseteq Nat /\ 2 \in DOMAIN back
    BY <1>1, <1>5
  <2>2. Precedes(back[2 - 1], back[2])
    BY <2>1, OrderIs DEF at, back
  <2>3. back[2 - 1] = at[N] /\ back[2] = at[N - 1]
    BY <1>1, <1>5
  <2>4. N \in 1 .. N /\ N - 1 \in 1 .. N /\ N - 1 < N
    BY <1>1
  <2>5. Precedes(LayerAt(at[N].layer), LayerAt(at[N - 1].layer))
    BY <1>1, <2>2, <2>3, <2>4
  <2>6. at[N].layer \in Int /\ at[N - 1].layer \in Int /\ at[N - 1].layer < at[N].layer
    BY <1>1, <1>2, <2>4
  <2>7. at[N].layer < at[N - 1].layer
    BY <1>3, <2>5, <2>6
  <2> QED
    BY <2>6, <2>7
<1>7. \A i \in 1 .. N : N - i + 1 = i
  BY <1>1, <1>6
<1>8. back = [i \in 1 .. N |-> at[i]]
  BY <1>5, <1>7
<1> QED
  BY <1>1, <1>8 DEF at, back
-------------------------------------------------------------------------------
(* What the files of a run say. *)
\* What a generation of runs may be.
IsRun(r) ==
    /\ r.captured \in [Sides -> SUBSET Layers]
    /\ r.stages \in [Sides -> SUBSET StageIds]
    /\ r.onset.layer \in Layers /\ r.onset.stage \in 0 .. StageCount
    /\ r.target \in Layers \cup {Absent}

\* What a trace says, whatever is odd about it.
LEMMA TraceIs ==
    ASSUME NEW r, NEW s
    PROVE  LET kind  == KindAt(r, s)
               trace == TraceOf(r, s)
           IN  /\ trace.set = <<r.generation, s>>
               /\ trace.kind = IF kind = "trace_kind" THEN "other" ELSE "layer_trace"
               /\ trace.payload = IF kind = "payload" THEN "tensor_values" ELSE "none"
               /\ trace.manifest = OddManifest(Manifest(r), kind)
               /\ trace.layout = OddLayout(LayerLayout(r.captured[s]), kind)
               /\ trace.summaries =
                    WithLast(LayerSummaries(r, s), LAMBDA x : OddSummary(x, kind))
               /\ trace.intra = OddStages(IF r.target = Absent THEN None ELSE StageBlock(r, s), kind)
BY DEF TraceOf, WrittenTrace

LEMMA SummariesAre ==
    ASSUME NEW r, IsRun(r), NEW s \in Sides
    PROVE  LET at == LayersAt(r.captured[s])
               summaries == TraceOf(r, s).summaries
               digest(i) == DigestOf(LayerDiffers(r.onset, s, at[i].layer))
           IN  /\ DOMAIN summaries = DOMAIN at
               /\ \A i \in DOMAIN at :
                     /\ summaries[i].coordinate = at[i]
                     /\ summaries[i].digest \in {digest(i), "missing"}
                     /\ KindAt(r, s) = "none" =>
                           /\ summaries[i].digest = digest(i)
                           /\ summaries[i].wellformed /\ summaries[i].shape = "hidden"
<1> DEFINE at == LayersAt(r.captured[s])
           kind == KindAt(r, s)
           digest(i) == DigestOf(LayerDiffers(r.onset, s, at[i].layer))
           written == LayerSummaries(r, s)
           summaries == TraceOf(r, s).summaries
           N == Cardinality(r.captured[s])
           says(x, i) == /\ x.coordinate = at[i] /\ x.digest \in {digest(i), "missing"}
                         /\ kind = "none" => /\ x.digest = digest(i)
                                             /\ x.wellformed /\ x.shape = "hidden"
<1> SUFFICES DOMAIN summaries = DOMAIN at /\ \A i \in DOMAIN at : says(summaries[i], i)
  OBVIOUS
<1>1. N \in Nat /\ DOMAIN at = 1 .. N
  <2>1. r.captured[s] \in SUBSET Layers
    BY DEF IsRun
  <2> QED
    BY <2>1, LayersAtIs
<1>2. written = [i \in DOMAIN at |-> [coordinate |-> at[i], shape |-> "hidden",
                                      wellformed |-> TRUE, digest |-> digest(i)]]
  BY DEF LayerSummaries
<1>3. summaries = IF written = <<>> THEN written
                  ELSE [written EXCEPT ![Len(written)] = OddSummary(@, kind)]
  BY TraceIs DEF WithLast
<1>4. \A i \in DOMAIN at : OddSummary([coordinate |-> at[i], shape |-> "hidden",
                                       wellformed |-> TRUE, digest |-> digest(i)], kind).coordinate = at[i]
  BY DEF OddSummary
<1>5. \A i \in DOMAIN at : OddSummary([coordinate |-> at[i], shape |-> "hidden",
                                       wellformed |-> TRUE, digest |-> digest(i)], kind).digest
                             \in {digest(i), "missing"}
  BY DEF OddSummary
<1>6. kind = "none" => \A x : OddSummary(x, kind) = x
  BY DEF OddSummary
<1> HIDE DEF at, kind, digest, written, summaries, N
<1>7. DOMAIN written = 1 .. N
  BY <1>1, <1>2
<1>8. DOMAIN summaries = 1 .. N
  BY <1>3, <1>7
<1>9. ASSUME NEW i \in 1 .. N PROVE says(summaries[i], i)
  <2>1. says(written[i], i)
    BY <1>1, <1>2, <1>9
  <2>2. says(OddSummary(written[i], kind), i)
    <3>1. written[i] = [coordinate |-> at[i], shape |-> "hidden",
                        wellformed |-> TRUE, digest |-> digest(i)]
      BY <1>1, <1>2
    <3>2. kind = "none" => OddSummary(written[i], kind) = written[i]
      BY <1>6
    <3> QED
      BY <1>1, <1>4, <1>5, <2>1, <3>1, <3>2
  <2>3. summaries[i] \in {written[i], OddSummary(written[i], kind)}
    BY <1>3, <1>7
  <2> HIDE DEF says
  <2> QED
    BY <2>1, <2>2, <2>3
<1> QED
  BY <1>1, <1>8, <1>9
-------------------------------------------------------------------------------
(* What Pass 3 makes of the files of a run. *)
\* The refusals of Pass 3: a reader passes, or its status is one of these.
Refusals3 == {"comparison_blocked_by_pass2", "source_binding_inconsistent",
              "unsupported_checkpoint_layout", "checkpoint_alignment_inconsistent",
              "checkpoint_summary_malformed", "comparison_policy_unavailable"}

Stops3(answer) == answer = Passed \/ answer.status \in Refusals3

LEMMA PassedStops3 == Stops3(Passed)
BY DEF Stops3

LEMMA GateStops3 ==
    \A passes, reason :
       /\ Stops3(Gate(passes, "comparison_blocked_by_pass2", reason).refusal)
       /\ Stops3(Gate(passes, "source_binding_inconsistent", reason).refusal)
       /\ Stops3(Gate(passes, "unsupported_checkpoint_layout", reason).refusal)
       /\ Stops3(Gate(passes, "checkpoint_alignment_inconsistent", reason).refusal)
       /\ Stops3(Gate(passes, "checkpoint_summary_malformed", reason).refusal)
       /\ Stops3(Gate(passes, "comparison_policy_unavailable", reason).refusal)
BY DEF Gate, Stops3, Refusals3, Passed

LEMMA Pass2Stops ==
    ASSUME NEW pass2, NEW artifact
    PROVE  Stops3(FirstOf(<< TypedPass2Ready(pass2), Pass2ArtifactCoheres(pass2, artifact) >>))
<1>1. Stops3(TypedPass2Ready(pass2))
  <2> DEFINE ready == /\ pass2.status = "reproduction_verified"
                      /\ pass2.generated >= 0
                      /\ pass2.step = pass2.generated + 1
  <2>1. TypedPass2Ready(pass2) =
          FirstRefusal(<< Gate(pass2.tier # RequestOnly,
                               "comparison_blocked_by_pass2", "reproduction_request_only"),
                          Gate(ready, "comparison_blocked_by_pass2", "pass2_not_ready") >>)
    BY DEF TypedPass2Ready
  <2> HIDE DEF ready
  <2> QED
    BY ONLY <2>1, GateStops3, PassedStops3, FirstRefusal2
<1>2. Stops3(Pass2ArtifactCoheres(pass2, artifact))
  BY ONLY GateStops3, PassedStops3, FirstRefusal2 DEF Pass2ArtifactCoheres
<1> QED
  BY ONLY <1>1, <1>2, FirstOf2

LEMMA BindingStops ==
    ASSUME NEW pass2, NEW reports, NEW traces
    PROVE  Stops3(BothSourceBindings(pass2, reports, traces))
<1>1. \A side, report : Stops3(ReportIsBound(pass2, side, report))
  BY ONLY GateStops3, PassedStops3, FirstRefusal1 DEF ReportIsBound
<1>2. \A report, trace : Stops3(RunReportBinding(pass2, report, trace))
  BY ONLY GateStops3, PassedStops3, FirstRefusal7 DEF RunReportBinding
<1>3. \A passes, reason : Stops3(FirstRefusal(<<Gate(passes, "source_binding_inconsistent", reason)>>))
  BY ONLY GateStops3, PassedStops3, FirstRefusal1
<1> DEFINE named == \A s \in Sides : SelectedSources(pass2)[s] # None
           isNamed == FirstRefusal(<<Gate(named, "source_binding_inconsistent",
                                          "binding_metadata_missing")>>)
<1>4. BothSourceBindings(pass2, reports, traces) =
        FirstOf(<< isNamed, ReportIsBound(pass2, "reference", reports["reference"]),
                   ReportIsBound(pass2, "candidate", reports["candidate"]),
                   RunReportBinding(pass2, reports["reference"], traces["reference"]),
                   RunReportBinding(pass2, reports["candidate"], traces["candidate"]) >>)
  BY DEF BothSourceBindings
<1> HIDE DEF named
<1>5. Stops3(isNamed)
  BY ONLY <1>3
<1> HIDE DEF isNamed
<1> QED
  BY ONLY <1>1, <1>2, <1>4, <1>5, FirstOf5

LEMMA OrderStops == ASSUME NEW cs, DOMAIN cs \subseteq Nat PROVE Stops3(CoordinateOrder(cs))
<1> DEFINE wrong == "checkpoint_alignment_inconsistent"
           twice(i) == Gate(LogicalKey(cs[i]) \notin Keys(SubSeq(cs, 1, i - 1)),
                            wrong, "duplicate_checkpoint_coordinate")
           after(i) == Gate(i = 1 \/ Precedes(cs[i - 1], cs[i]), wrong, wrong)
           at(i) == FirstRefusal(<<twice(i), after(i)>>)
           s == [i \in DOMAIN cs |-> at(i)]
<1>1. CoordinateOrder(cs) = FirstOf(s)
  BY DEF CoordinateOrder
<1>2. \A i : Stops3(twice(i).refusal) /\ Stops3(after(i).refusal)
  BY GateStops3
<1> HIDE DEF twice, after
<1>3. \A i : Stops3(at(i))
  BY ONLY <1>2, PassedStops3, FirstRefusal2
<1> HIDE DEF at
<1> QED
  BY <1>1, <1>3, PassedStops3, FirstOfIs

LEMMA EachStops ==
    ASSUME NEW s, DOMAIN s \subseteq Nat, \A i \in DOMAIN s : Stops3(s[i])
    PROVE  Stops3(FirstOf(s))
BY PassedStops3, FirstOfIs

\* The sequences of a trace are sequences: their positions are numbers.
IsTrace(trace) ==
    /\ DOMAIN trace.layout.requested \subseteq Nat
    /\ DOMAIN trace.layout.captured \subseteq Nat
    /\ DOMAIN trace.layout.missing \subseteq Nat
    /\ DOMAIN trace.summaries \subseteq Nat

LEMMA NormalizeStops ==
    ASSUME NEW trace, IsTrace(trace)
    PROVE  Stops3(NormalizeLayerTrace(trace))
<1>1. Stops3(LayoutIsSupported(trace))
  BY ONLY GateStops3, PassedStops3, FirstRefusal3 DEF LayoutIsSupported
<1>2. Stops3(ContractIsKnown(trace))
  BY ONLY GateStops3, PassedStops3, FirstRefusal3 DEF ContractIsKnown
<1>3. \A summary : Stops3(SummaryIsRead(summary))
  BY ONLY GateStops3, PassedStops3, FirstRefusal3 DEF SummaryIsRead
<1>4. Stops3(EachInTurn(trace.summaries, SummaryIsRead))
  <2> DEFINE each == [i \in DOMAIN trace.summaries |-> SummaryIsRead(trace.summaries[i])]
  <2>1. Stops3(FirstOf(each))
    BY <1>3, EachStops DEF IsTrace
  <2> QED
    BY <2>1 DEF EachInTurn
<1>5. Stops3(CoverageIsDeclared(trace.layout))
  <2> DEFINE layout == trace.layout
             missing == [i \in DOMAIN layout.missing |-> layout.missing[i].coordinate]
             parts == /\ Keys(layout.captured) \cap Keys(missing) = {}
                      /\ Keys(layout.requested) = Keys(layout.captured) \cup Keys(missing)
                      /\ \A i \in DOMAIN layout.requested :
                            layout.requested[i].layer < layout.total
             steps == \A i \in DOMAIN layout.requested : layout.requested[i].step = layout.step
             declared == FirstRefusal(
                << Gate(parts, "checkpoint_summary_malformed", "checkpoint_summary_malformed"),
                   Gate(steps, "checkpoint_alignment_inconsistent",
                        "checkpoint_alignment_inconsistent") >>)
  <2>1. CoverageIsDeclared(layout) =
          FirstOf(<< CoordinateOrder(layout.requested), CoordinateOrder(layout.captured),
                     CoordinateOrder(missing), declared >>)
    BY DEF CoverageIsDeclared
  <2>2. /\ Stops3(CoordinateOrder(layout.requested)) /\ Stops3(CoordinateOrder(layout.captured))
        /\ Stops3(CoordinateOrder(missing))
    BY OrderStops DEF IsTrace
  <2> HIDE DEF missing, parts, steps
  <2>3. Stops3(declared)
    BY ONLY GateStops3, PassedStops3, FirstRefusal2
  <2> HIDE DEF declared
  <2> QED
    BY ONLY <2>1, <2>2, <2>3, FirstOf4
<1>6. Stops3(SummariesAreCaptured(trace))
  <2> DEFINE at == [i \in DOMAIN trace.summaries |-> trace.summaries[i].coordinate]
             same == Keys(at) = Keys(trace.layout.captured)
             equal == at = trace.layout.captured
             captured == FirstRefusal(
                << Gate(same, "checkpoint_summary_malformed", "checkpoint_summary_malformed"),
                   Gate(equal, "checkpoint_alignment_inconsistent",
                        "checkpoint_alignment_inconsistent") >>)
  <2>1. SummariesAreCaptured(trace) = FirstOf(<< CoordinateOrder(at), captured >>)
    BY DEF SummariesAreCaptured
  <2>2. Stops3(CoordinateOrder(at))
    BY OrderStops DEF IsTrace
  <2> HIDE DEF at, same, equal
  <2>3. Stops3(captured)
    BY ONLY GateStops3, PassedStops3, FirstRefusal2
  <2> HIDE DEF captured
  <2> QED
    BY ONLY <2>1, <2>2, <2>3, FirstOf2
<1> QED
  BY ONLY <1>1, <1>2, <1>4, <1>5, <1>6, FirstOf5 DEF NormalizeLayerTrace

\* A trace that is accepted says what its run captured, in order, and its
\* summaries say where the run differs.
LEMMA NormalizeSays ==
    ASSUME NEW trace, IsTrace(trace), NormalizeLayerTrace(trace) = Passed
    PROVE  /\ InOrder(trace.layout.captured)
           /\ \A i \in DOMAIN trace.summaries : trace.summaries[i].digest # "missing"
<1>1. /\ CoverageIsDeclared(trace.layout) = Passed
      /\ EachInTurn(trace.summaries, SummaryIsRead) = Passed
  BY ONLY NormalizeLayerTrace(trace) = Passed, FirstOf5 DEF NormalizeLayerTrace
<1>2. CoordinateOrder(trace.layout.captured) = Passed
  <2> DEFINE layout == trace.layout
             missing == [i \in DOMAIN layout.missing |-> layout.missing[i].coordinate]
             declared == FirstRefusal(
                << Gate(/\ Keys(layout.captured) \cap Keys(missing) = {}
                        /\ Keys(layout.requested) = Keys(layout.captured) \cup Keys(missing)
                        /\ \A i \in DOMAIN layout.requested :
                               layout.requested[i].layer < layout.total,
                        "checkpoint_summary_malformed", "checkpoint_summary_malformed"),
                   Gate(\A i \in DOMAIN layout.requested :
                           layout.requested[i].step = layout.step,
                        "checkpoint_alignment_inconsistent",
                        "checkpoint_alignment_inconsistent") >>)
  <2>1. CoverageIsDeclared(layout) =
          FirstOf(<< CoordinateOrder(layout.requested), CoordinateOrder(layout.captured),
                     CoordinateOrder(missing), declared >>)
    BY DEF CoverageIsDeclared
  <2> HIDE DEF missing, declared
  <2> QED
    BY ONLY <1>1, <2>1, FirstOf4
<1>3. \A summary : SummaryIsRead(summary) = Passed => summary.digest # "missing"
  <2>1. \A passes, status, reason : Gate(passes, status, reason).passes <=> passes
    BY DEF Gate
  <2>2. \A reason : Gate(FALSE, "comparison_policy_unavailable", reason).refusal # Passed
    BY DEF Gate, Passed
  <2> SUFFICES ASSUME NEW summary, summary.digest = "missing"
               PROVE  SummaryIsRead(summary) # Passed
    OBVIOUS
  <2> DEFINE a == Gate(summary.wellformed,
                       "checkpoint_summary_malformed", "checkpoint_summary_malformed")
             b == Gate(summary.digest # "missing",
                       "comparison_policy_unavailable", "summary_field_missing")
             c == Gate(summary.digest # Malformed,
                       "comparison_policy_unavailable", "checkpoint_digest_incompatible")
  <2>3. ~b.passes /\ b.refusal # Passed /\ a.refusal # Passed
    BY DEF Gate, Passed
  <2>4. SummaryIsRead(summary) = FirstRefusal(<<a, b, c>>)
    BY DEF SummaryIsRead
  <2> HIDE DEF a, b, c
  <2> QED
    BY ONLY <2>3, <2>4, FirstRefusal3
<1>4. \A i \in DOMAIN trace.summaries : SummaryIsRead(trace.summaries[i]) = Passed
  <2> DEFINE each == [i \in DOMAIN trace.summaries |-> SummaryIsRead(trace.summaries[i])]
  <2>1. FirstOf(each) = Passed
    BY <1>1 DEF EachInTurn
  <2>2. \A i \in DOMAIN each : each[i] = Passed
    BY <2>1, FirstOfIs DEF IsTrace
  <2> QED
    BY <2>2
<1> QED
  BY <1>2, <1>3, <1>4 DEF InOrder

\* What a run captured, as the trace of a side says it, and what of it differs.
TraceSays(r, s) ==
    LET trace == TraceOf(r, s)
        at    == LayersAt(r.captured[s])
    IN  /\ trace.layout.captured = at
        /\ DOMAIN trace.summaries = DOMAIN at
        /\ \A i \in DOMAIN at :
              /\ trace.summaries[i].coordinate = at[i]
              /\ trace.summaries[i].digest = DigestOf(LayerDiffers(r.onset, s, at[i].layer))

LEMMA TraceIsTrace ==
    ASSUME NEW r, IsRun(r), NEW s \in Sides
    PROVE  IsTrace(TraceOf(r, s))
<1> DEFINE trace == TraceOf(r, s)
           kind == KindAt(r, s)
           layout == OddLayout(LayerLayout(r.captured[s]), kind)
<1>1. /\ r.captured[s] \in SUBSET Layers /\ Layers \in SUBSET Layers
      /\ Layers \ r.captured[s] \in SUBSET Layers
  BY DEF IsRun
<1>2. \A S \in SUBSET Layers : /\ DOMAIN LayersAt(S) = 1 .. Cardinality(S)
                              /\ Cardinality(S) \in Nat
  BY LayersAtIs
<1>3. DOMAIN trace.summaries = DOMAIN LayersAt(r.captured[s])
  BY SummariesAre
<1>4. trace.layout = layout
  BY TraceIs
<1>5. \A n \in Nat : 1 .. n \subseteq Nat
  OBVIOUS
<1>6. \A S \in SUBSET Layers : DOMAIN Reverse(LayersAt(S)) = 1 .. Len(LayersAt(S))
                              /\ Len(LayersAt(S)) = Cardinality(S)
  <2> SUFFICES ASSUME NEW S \in SUBSET Layers
               PROVE  DOMAIN Reverse(LayersAt(S)) = 1 .. Len(LayersAt(S))
                      /\ Len(LayersAt(S)) = Cardinality(S)
    OBVIOUS
  <2>1. DOMAIN LayersAt(S) = 1 .. Cardinality(S) /\ Cardinality(S) \in Nat
        /\ LayersAt(S) \in [1 .. Cardinality(S) -> {LayerAt(l) : l \in S}]
    BY LayersAtIs
  <2> HIDE DEF layout
  <2> QED
    BY <2>1 DEF Reverse
<1>7. /\ layout.captured \in {LayersAt(r.captured[s]), Reverse(LayersAt(r.captured[s]))}
      /\ \/ /\ layout.requested = LayersAt(Layers)
            /\ DOMAIN layout.missing = DOMAIN LayersAt(Layers \ r.captured[s])
         \/ /\ layout.requested = LayersAt(r.captured[s])
            /\ layout.missing = <<>>
  BY LayerLayoutIs
<1> HIDE DEF layout, trace
<1>8. DOMAIN layout.captured \subseteq Nat
  BY <1>1, <1>2, <1>5, <1>6, <1>7
<1>9. DOMAIN layout.requested \subseteq Nat /\ DOMAIN layout.missing \subseteq Nat
  BY <1>1, <1>2, <1>5, <1>7
<1>10. DOMAIN trace.summaries \subseteq Nat
  BY <1>1, <1>2, <1>3, <1>5
<1> QED
  BY <1>4, <1>8, <1>9, <1>10 DEF IsTrace, trace

LEMMA AcceptedTraceSays ==
    ASSUME NEW r, IsRun(r), NEW s \in Sides, NormalizeLayerTrace(TraceOf(r, s)) = Passed
    PROVE  TraceSays(r, s)
<1> DEFINE trace == TraceOf(r, s)
           at == LayersAt(r.captured[s])
           layout == OddLayout(LayerLayout(r.captured[s]), KindAt(r, s))
<1>1. r.captured[s] \in SUBSET Layers
  BY DEF IsRun
<1>2. /\ InOrder(trace.layout.captured)
      /\ \A i \in DOMAIN trace.summaries : trace.summaries[i].digest # "missing"
  BY TraceIsTrace, NormalizeSays
<1>3. layout.captured \in {at, Reverse(at)}
  BY LayerLayoutIs
<1>4. trace.layout = layout
  BY TraceIs
<1>5. trace.layout.captured = at
  <2> HIDE DEF layout, trace, at
  <2>1. trace.layout.captured \in {at, Reverse(at)}
    BY <1>3, <1>4
  <2> QED
    BY <1>1, <1>2, <2>1, ReversedLayers DEF at
<1>6. /\ DOMAIN trace.summaries = DOMAIN at
      /\ \A i \in DOMAIN at :
            /\ trace.summaries[i].coordinate = at[i]
            /\ trace.summaries[i].digest \in
                  {DigestOf(LayerDiffers(r.onset, s, at[i].layer)), "missing"}
  BY SummariesAre
<1> HIDE DEF trace, at, layout
<1>7. \A i \in DOMAIN at :
         trace.summaries[i].digest = DigestOf(LayerDiffers(r.onset, s, at[i].layer))
  BY <1>2, <1>6
<1> QED
  BY <1>5, <1>6, <1>7 DEF TraceSays, trace, at

LEMMA SummaryIs ==
    ASSUME NEW r, IsRun(r), NEW s \in Sides, TraceSays(r, s), NEW l \in r.captured[s]
    PROVE  /\ SummaryAt(TraceOf(r, s), LogicalKey(LayerAt(l))).digest =
                 DigestOf(LayerDiffers(r.onset, s, l))
<1> DEFINE trace == TraceOf(r, s)
           set == r.captured[s]
           at == LayersAt(set)
           N == Cardinality(set)
           i == CHOOSE i \in DOMAIN trace.summaries :
                    LogicalKey(trace.summaries[i].coordinate) = LogicalKey(LayerAt(l))
<1>1. set \in SUBSET Layers
  BY DEF IsRun
<1>2. /\ DOMAIN at = 1 .. N
      /\ \A j \in 1 .. N : at[j] = LayerAt(at[j].layer)
      /\ \E j \in 1 .. N : at[j].layer = l
  <2>1. l \in set
    OBVIOUS
  <2> HIDE DEF set
  <2> QED
    BY <1>1, <2>1, LayersAtIs
<1>3. /\ DOMAIN trace.summaries = DOMAIN at
      /\ \A j \in DOMAIN at :
            /\ trace.summaries[j].coordinate = at[j]
            /\ trace.summaries[j].digest = DigestOf(LayerDiffers(r.onset, s, at[j].layer))
  BY DEF TraceSays
<1>4. SummaryAt(trace, LogicalKey(LayerAt(l))) = trace.summaries[i]
  BY DEF SummaryAt
<1>5. i \in 1 .. N /\ LogicalKey(at[i]) = LogicalKey(LayerAt(l))
  <2> HIDE DEF trace, at, N
  <2>1. \E j \in DOMAIN trace.summaries :
           LogicalKey(trace.summaries[j].coordinate) = LogicalKey(LayerAt(l))
    BY <1>2, <1>3
  <2> QED
    BY <1>2, <1>3, <2>1
<1> HIDE DEF trace, at, N, i, set
<1>6. at[i].layer = l
  <2>1. LogicalKey(at[i]) = <<Step, at[i].layer>> /\ LogicalKey(LayerAt(l)) = <<Step, l>>
    BY <1>2, <1>5, KeyOfLayer
  <2>2. <<Step, at[i].layer>> = <<Step, l>>
    BY <1>5, <2>1
  <2> QED
    BY <2>2
<1>7. trace.summaries[i].digest = DigestOf(LayerDiffers(r.onset, s, l))
  BY <1>2, <1>3, <1>5, <1>6
<1> QED
  BY <1>4, <1>7 DEF trace

LEMMA EquivalentIs ==
    ASSUME NEW r, IsRun(r), TraceSays(r, "reference"), TraceSays(r, "candidate"),
           NEW l \in CommonLayers(r)
    PROVE  Equivalent(TraceOf(r, "reference"), TraceOf(r, "candidate"), LayerAt(l))
             <=> ~LayerDiffers(r.onset, "candidate", l)
<1>1. l \in r.captured["reference"] /\ l \in r.captured["candidate"]
  BY DEF CommonLayers
<1>2. /\ SummaryAt(TraceOf(r, "reference"), LogicalKey(LayerAt(l))).digest =
           DigestOf(LayerDiffers(r.onset, "reference", l))
      /\ SummaryAt(TraceOf(r, "candidate"), LogicalKey(LayerAt(l))).digest =
           DigestOf(LayerDiffers(r.onset, "candidate", l))
  BY <1>1, SummaryIs DEF Sides
<1>3. ~LayerDiffers(r.onset, "reference", l)
  BY DEF LayerDiffers
<1> QED
  BY <1>2, <1>3 DEF Equivalent, DigestOf

\* The coverage is that of what the two sides captured.
LEMMA CoverageIs ==
    ASSUME NEW r, IsRun(r), TraceSays(r, "reference"), TraceSays(r, "candidate")
    PROVE  LET ref  == TraceOf(r, "reference")
               cand == TraceOf(r, "candidate")
               coverage == CoverageOf(ref, cand)
               A == r.captured["reference"]
               B == r.captured["candidate"]
           IN  /\ coverage.requested = [reference |-> ref.layout.requested,
                                        candidate |-> cand.layout.requested]
               /\ coverage.missing = [reference |-> ref.layout.missing,
                                      candidate |-> cand.layout.missing]
               /\ coverage.captured = [reference |-> LayersAt(A), candidate |-> LayersAt(B)]
               /\ coverage.only = [reference |-> LayersAt(A \ B), candidate |-> LayersAt(B \ A)]
               /\ coverage.common = LayersAt(CommonLayers(r))
               /\ coverage.comparable = LayersAt(CommonLayers(r))
<1> DEFINE ref  == TraceOf(r, "reference")
           cand == TraceOf(r, "candidate")
           A == r.captured["reference"]
           B == r.captured["candidate"]
<1>1. A \in SUBSET Layers /\ B \in SUBSET Layers
  BY DEF IsRun, Sides
<1>2. ref.layout.captured = LayersAt(A) /\ cand.layout.captured = LayersAt(B)
  BY DEF TraceSays
<1>3. CommonLayers(r) = A \cap B
  BY DEF CommonLayers
<1> HIDE DEF ref, cand, A, B
<1>4. /\ WithKeys(LayersAt(A), Keys(LayersAt(B))) = LayersAt(A \cap B)
      /\ WithoutKeys(LayersAt(A), Keys(LayersAt(B))) = LayersAt(A \ B)
      /\ WithoutKeys(LayersAt(B), Keys(LayersAt(A))) = LayersAt(B \ A)
  BY <1>1, WithKeysOfLayers
<1>5. LET coverage == CoverageOf(ref, cand) IN
      /\ coverage.requested = [reference |-> ref.layout.requested,
                               candidate |-> cand.layout.requested]
      /\ coverage.missing = [reference |-> ref.layout.missing,
                             candidate |-> cand.layout.missing]
      /\ coverage.captured = [reference |-> LayersAt(A), candidate |-> LayersAt(B)]
      /\ coverage.only = [reference |-> LayersAt(A \ B), candidate |-> LayersAt(B \ A)]
      /\ coverage.common = LayersAt(CommonLayers(r))
      /\ coverage.comparable = LayersAt(CommonLayers(r))
  BY <1>2, <1>3, <1>4 DEF CoverageOf
<1> QED
  BY <1>5 DEF ref, cand, A, B

\* The first layer in which the runs differ.
LEMMA FoundInIs ==
    ASSUME NEW r, IsRun(r)
    PROVE  /\ CommonLayers(r) \in SUBSET Layers
           /\ FoundIn(r) = Absent <=> Differing(r) = {}
           /\ FoundIn(r) # Absent => /\ FoundIn(r) \in Differing(r)
                                     /\ \A m \in Differing(r) : FoundIn(r) <= m
<1>1. CommonLayers(r) \in SUBSET Layers
  BY DEF CommonLayers, IsRun, Sides
<1>2. Differing(r) \subseteq Layers
  BY <1>1 DEF Differing
<1>3. Layers \subseteq Nat /\ Absent \notin Layers
  BY EvidenceChainAssumption DEF Layers, Absent
<1>4. ASSUME Differing(r) # {}
      PROVE  FoundIn(r) \in Differing(r) /\ \A m \in Differing(r) : FoundIn(r) <= m
  <2>1. \E l \in Differing(r) : \A m \in Differing(r) : l <= m
    <3>1. Differing(r) \subseteq Nat
      BY <1>2, <1>3
    <3> QED
      BY <1>4, <3>1, FirstInExists
  <2>2. FoundIn(r) = CHOOSE l \in Differing(r) : \A m \in Differing(r) : l <= m
    BY <1>4 DEF FoundIn
  <2> QED
    BY <2>1, <2>2
<1>5. Differing(r) = {} => FoundIn(r) = Absent
  BY DEF FoundIn
<1> QED
  BY <1>1, <1>2, <1>3, <1>4, <1>5

LEMMA ComparisonsAre ==
    ASSUME NEW r, IsRun(r), TraceSays(r, "reference"), TraceSays(r, "candidate")
    PROVE  LET at == LayersAt(CommonLayers(r))
               items == Comparisons(TraceOf(r, "reference"), TraceOf(r, "candidate"), at)
               n == Len(items)
           IN  /\ n \in 0 .. Cardinality(CommonLayers(r)) /\ DOMAIN items = 1 .. n
               /\ CommonLayers(r) # {} => n >= 1
               /\ \A i \in 1 .. n : 
                     /\ items[i].coordinate = at[i]
                     /\ items[i].equivalent <=> ~LayerDiffers(r.onset, "candidate", at[i].layer)
               /\ \A i \in 1 .. n : i < n => items[i].equivalent
               /\ FoundIn(r) = Absent => /\ n = Cardinality(CommonLayers(r))
                                         /\ \A i \in 1 .. n : items[i].equivalent
               /\ FoundIn(r) # Absent => /\ n >= 1 /\ ~items[n].equivalent
                                         /\ FoundIn(r) = at[n].layer
<1> DEFINE C == CommonLayers(r)
           N == Cardinality(C)
           at == LayersAt(C)
           ref == TraceOf(r, "reference")
           cand == TraceOf(r, "candidate")
           differs(i) == LayerDiffers(r.onset, "candidate", at[i].layer)
           listed == [i \in DOMAIN at |-> [coordinate |-> at[i],
                                            equivalent |-> Equivalent(ref, cand, at[i])]]
           differing == {i \in DOMAIN listed : ~listed[i].equivalent}
           items == Comparisons(ref, cand, at)
           n == Len(items)
<1>1. C \in SUBSET Layers
  BY FoundInIs
<1>2. /\ N \in Nat /\ DOMAIN at = 1 .. N /\ (C # {} => N >= 1)
      /\ \A i \in 1 .. N : at[i] = LayerAt(at[i].layer) /\ at[i].layer \in C
      /\ \A l \in C : \E i \in 1 .. N : at[i].layer = l
      /\ \A i, j \in 1 .. N : i < j => at[i].layer < at[j].layer
  <2> HIDE DEF C
  <2> QED
    BY <1>1, LayersAtIs
<1>3. \A i \in 1 .. N : Equivalent(ref, cand, at[i]) <=> ~differs(i)
  <2> SUFFICES ASSUME NEW i \in 1 .. N
               PROVE  Equivalent(ref, cand, at[i]) <=> ~differs(i)
    OBVIOUS
  <2>1. at[i] = LayerAt(at[i].layer) /\ at[i].layer \in C
    BY <1>2
  <2>2. Equivalent(ref, cand, LayerAt(at[i].layer)) <=> ~differs(i)
    <3> HIDE DEF at
    <3> QED
      BY <2>1, EquivalentIs
  <2> HIDE DEF at
  <2> QED
    BY <2>1, <2>2
<1>4. items = IF differing = {} THEN listed ELSE SubSeq(listed, 1, FirstIn(differing))
  BY DEF Comparisons
<1>5. Differing(r) = {l \in C : LayerDiffers(r.onset, "candidate", l)}
  BY DEF Differing
<1> HIDE DEF C, N, at, ref, cand, items
<1>6. /\ listed = [i \in 1 .. N |-> listed[i]] /\ DOMAIN listed = 1 .. N
      /\ \A i \in 1 .. N : /\ listed[i].coordinate = at[i]
                           /\ listed[i].equivalent <=> ~differs(i)
  BY <1>2, <1>3
<1>7. differing \subseteq Nat /\ differing = {i \in 1 .. N : differs(i)}
  BY <1>2, <1>6
<1> HIDE DEF listed, differs, differing
<1>8. CASE differing = {}
  <2>1. items = listed /\ n = N /\ DOMAIN items = 1 .. N
    BY <1>2, <1>4, <1>6, <1>8
  <2>2. \A i \in 1 .. N : ~differs(i)
    BY <1>7, <1>8
  <2>3. Differing(r) = {}
    BY <1>2, <1>5, <2>2 DEF differs
  <2>4. FoundIn(r) = Absent
    BY <2>3, FoundInIs
  <2> QED
    BY <1>2, <1>6, <2>1, <2>2, <2>4 DEF C, N, at, items, ref, cand, differs
<1>9. CASE differing # {}
  <2> DEFINE first == FirstIn(differing)
  <2>1. first \in differing /\ \A i \in differing : first <= i
    BY <1>7, <1>9, FirstInExists
  <2>2. items = SubSeq(listed, 1, first)
    BY <1>4, <1>9
  <2> HIDE DEF first
  <2>3. first \in 1 .. N /\ differs(first) /\ \A i \in 1 .. N : i < first => ~differs(i)
    BY <1>2, <1>7, <2>1
  <2>4. items = [i \in 1 .. first |-> listed[i]] /\ n = first
    BY <1>2, <1>6, <2>2, <2>3
  <2>5. \A i \in 1 .. n : items[i].coordinate = at[i] /\ (items[i].equivalent <=> ~differs(i))
    BY <1>2, <1>6, <2>3, <2>4
  <2>6. at[first].layer \in Differing(r)
    BY <1>2, <1>5, <2>3 DEF differs
  <2>7. \A l \in Differing(r) : at[first].layer <= l
    <3> SUFFICES ASSUME NEW l \in Differing(r) PROVE at[first].layer <= l
      OBVIOUS
    <3>1. PICK i \in 1 .. N : at[i].layer = l
      BY <1>2, <1>5
    <3>2. differs(i)
      BY <1>5, <3>1 DEF differs
    <3>3. ~(i < first)
      BY <2>3, <3>2
    <3>4. at[first].layer \in Int /\ at[i].layer \in Int
      BY <1>1, <1>2, <2>3, LayersAreFinite
    <3>5. i = first \/ first < i
      BY <2>3, <3>3
    <3>6. first < i => at[first].layer < at[i].layer
      BY <1>2, <2>3
    <3> QED
      BY <3>1, <3>4, <3>5, <3>6
  <2>8. FoundIn(r) # Absent /\ FoundIn(r) = at[first].layer
    <3>1. FoundIn(r) # Absent /\ FoundIn(r) \in Differing(r) /\ \A m \in Differing(r) : FoundIn(r) <= m
      BY <2>6, FoundInIs
    <3>2. FoundIn(r) <= at[first].layer /\ at[first].layer <= FoundIn(r)
      BY <2>6, <2>7, <3>1
    <3>3. Differing(r) \subseteq Int
      BY <1>1, <1>5, LayersAreFinite
    <3> QED
      BY <2>6, <3>1, <3>2, <3>3
  <2> QED
    BY <1>2, <2>3, <2>4, <2>5, <2>8 DEF C, N, at, items, ref, cand, differs
<1> QED
  BY <1>8, <1>9

\* The fields of a result of Pass 3.
Fields3 == {"status", "disposition", "reasons", "pass2", "coherent", "evidence", "sources",
            "bound", "step", "coverage", "comparisons", "last", "mismatch", "layer",
            "interval", "decision", "warnings"}

\* A result that is no comparison says nothing of a layer.
SaysNothing(x) ==
    /\ DOMAIN x = Fields3 /\ x.disposition = "blocked"
    /\ x.comparisons = <<>> /\ x.last = None /\ x.mismatch = None
    /\ x.layer = Absent /\ x.interval = None /\ x.decision = NoDecision

RefusedAt(x, refusal, step) ==
    /\ SaysNothing(x) /\ x.status = refusal.status /\ x.reasons = <<refusal.reason>>
    /\ x.step = step /\ x.coverage = NoCoverage

IsUnbound(x, pass2) ==
    /\ x.bound = FALSE /\ x.evidence \in {None, Pass2Evidence(pass2)}
    /\ \A s \in Sides : x.sources[s] = None

\* What it keeps of Pass 2 and of its sources, when it is bound to them.
IsBound(x, pass2, reports, traces) ==
    /\ x.pass2 = pass2 /\ x.coherent = TRUE /\ x.evidence = Pass2Evidence(pass2)
    /\ x.bound = TRUE /\ \A s \in Sides :
          x.sources[s] = SourceBinding(SourceRoles(pass2)[s], reports[s], traces[s])

LEMMA BlockedFields ==
    ASSUME NEW pass2, NEW reports, NEW traces, NEW refusal
    PROVE  LET blocked == Blocked(pass2, refusal)
               inherited == WithPass2(blocked, pass2)
               bound == WithSources(inherited, pass2, reports, traces)
           IN  /\ RefusedAt(blocked, refusal, pass2.step)
               /\ RefusedAt(inherited, refusal, pass2.step)
               /\ RefusedAt(bound, refusal, pass2.step)
               /\ IsUnbound(blocked, pass2) /\ IsUnbound(inherited, pass2)
               /\ IsBound(bound, pass2, reports, traces)
               /\ bound.warnings = pass2.warnings
<1> DEFINE blocked   == Blocked(pass2, refusal)
           inherited == WithPass2(blocked, pass2)
           bound     == WithSources(inherited, pass2, reports, traces)
<1>1. /\ RefusedAt(blocked, refusal, pass2.step) /\ IsUnbound(blocked, pass2)
      /\ blocked.warnings = pass2.warnings
  BY DEF Blocked, RefusedAt, SaysNothing, Fields3, IsUnbound, NoBindings, Sides
<1> HIDE DEF blocked
<1>2. /\ RefusedAt(inherited, refusal, pass2.step) /\ IsUnbound(inherited, pass2)
      /\ inherited.pass2 = pass2 /\ inherited.coherent = TRUE
      /\ inherited.evidence = Pass2Evidence(pass2) /\ inherited.warnings = pass2.warnings
  BY <1>1 DEF WithPass2, RefusedAt, SaysNothing, Fields3, IsUnbound
<1> HIDE DEF inherited
<1>3. /\ RefusedAt(bound, refusal, pass2.step)
      /\ bound.pass2 = pass2 /\ bound.coherent = TRUE
      /\ bound.evidence = Pass2Evidence(pass2) /\ bound.bound = TRUE
      /\ bound.warnings = pass2.warnings
      /\ \A s \in Sides :
           bound.sources[s] = SourceBinding(SourceRoles(pass2)[s], reports[s], traces[s])
  BY <1>2 DEF WithSources, RefusedAt, SaysNothing, Fields3
<1> HIDE DEF bound
<1> QED
  BY <1>1, <1>2, <1>3 DEF IsBound, blocked, inherited, bound

LEMMA ComparedFields ==
    ASSUME NEW b, SaysNothing(b), NEW coverage, NEW items
    PROVE  LET x == Compared(b, coverage, items)
               n == Len(items)
               at == items[n].coordinate
               before == IF n = 1 THEN None ELSE items[n - 1].coordinate
           IN  /\ DOMAIN x = Fields3
               /\ x.pass2 = b.pass2 /\ x.coherent = b.coherent /\ x.evidence = b.evidence
               /\ x.sources = b.sources /\ x.bound = b.bound /\ x.step = b.step
               /\ x.warnings = b.warnings
               /\ x.coverage = coverage /\ x.comparisons = items /\ x.decision = Tier1
               /\ x.reasons = <<x.status>> \o AsymmetryOf(coverage)
               /\ IF items[n].equivalent
                  THEN /\ x.status = "no_mismatch_in_captured_coverage"
                       /\ x.disposition = "exploratory_localization_only"
                       /\ x.last = at /\ x.mismatch = None /\ x.interval = None
                       /\ x.layer = Absent
                  ELSE /\ x.status = "observable_mismatch_found"
                       /\ x.disposition = "suspect_interval_available"
                       /\ x.last = before /\ x.mismatch = at /\ x.layer = at.layer
                       /\ x.interval = Interval(before, at)
<1> DEFINE x == Compared(b, coverage, items)
           n == Len(items)
           at == items[n].coordinate
           before == IF n = 1 THEN None ELSE items[n - 1].coordinate
           last == IF items[n].equivalent THEN at ELSE before
           scoped == [b EXCEPT !.coverage = coverage, !.comparisons = items,
                               !.last = last, !.decision = Tier1]
           reasons(status) == <<status>> \o AsymmetryOf(coverage)
           mismatch == "observable_mismatch_found"
           none == "no_mismatch_in_captured_coverage"
<1>1. x = IF ~items[n].equivalent
          THEN [scoped EXCEPT !.status = mismatch, !.disposition = "suspect_interval_available",
                  !.reasons = reasons(mismatch),
                  !.mismatch = at, !.layer = at.layer, !.interval = Interval(last, at)]
          ELSE [scoped EXCEPT !.status = none, !.disposition = "exploratory_localization_only",
                  !.reasons = reasons(none)]
  BY DEF Compared
<1>2. /\ DOMAIN scoped = Fields3
      /\ scoped.pass2 = b.pass2 /\ scoped.coherent = b.coherent
      /\ scoped.evidence = b.evidence /\ scoped.sources = b.sources
      /\ scoped.bound = b.bound /\ scoped.step = b.step /\ scoped.warnings = b.warnings
      /\ scoped.coverage = coverage /\ scoped.comparisons = items /\ scoped.decision = Tier1
      /\ scoped.last = last /\ scoped.mismatch = None /\ scoped.interval = None
      /\ scoped.layer = Absent
  BY DEF SaysNothing, Fields3
<1> HIDE DEF scoped, x
<1> QED
  BY <1>1, <1>2 DEF Fields3, x

\* What Pass 3 makes of the files of a run: no comparison, or what is there of the
\* layers both sides captured.
Bothsay(r) == TraceSays(r, "reference") /\ TraceSays(r, "candidate")

CoverageFrom(r) == CoverageOf(TraceOf(r, "reference"), TraceOf(r, "candidate"))

Compares(r) == Comparisons(TraceOf(r, "reference"), TraceOf(r, "candidate"),
                           LayersAt(CommonLayers(r)))

IsRefused3(r, x) ==
    /\ x.status \in Refusals3 \cup {"insufficient_common_coverage"} /\ SaysNothing(x)
    /\ \/ x.coverage = NoCoverage
       \/ Bothsay(r) /\ x.coverage = CoverageFrom(r)

IsCompared(r, x) ==
    LET items  == Compares(r)
        n      == Len(items)
        at     == items[n].coordinate
        before == IF n = 1 THEN None ELSE items[n - 1].coordinate
    IN  /\ Bothsay(r) /\ CommonLayers(r) # {} /\ Pass2Of(r).tier # RequestOnly
        /\ DOMAIN x = Fields3 /\ x.bound = TRUE
        /\ x.coverage = CoverageFrom(r) /\ x.comparisons = items /\ x.decision = Tier1
        /\ IF FoundIn(r) = Absent
           THEN /\ x.status = "no_mismatch_in_captured_coverage"
                /\ x.disposition = "exploratory_localization_only"
                /\ x.last = at /\ x.mismatch = None /\ x.interval = None
                /\ x.layer = Absent
           ELSE /\ x.status = "observable_mismatch_found"
                /\ x.disposition = "suspect_interval_available"
                /\ x.last = before /\ x.mismatch = at /\ x.layer = at.layer
                /\ x.interval = Interval(before, at)

Reports(r) == [s \in Sides |-> ReportOf(r, s)]
Traces(r)  == [s \in Sides |-> TraceOf(r, s)]

ResultSays(r, x) ==
    /\ IsRefused3(r, x) \/ IsCompared(r, x)
    /\ x.step = Pass2Of(r).step
    /\ \/ IsUnbound(x, Pass2Of(r))
       \/ IsBound(x, Pass2Of(r), Reports(r), Traces(r))
    /\ x.reasons # <<>> /\ IsInjective(x.reasons)

\* The reasons Pass 3 puts together.
Texts == {"observable_mismatch_found", "no_mismatch_in_captured_coverage",
          "insufficient_common_coverage", "reference_checkpoint_missing",
          "candidate_checkpoint_missing", "asymmetric_coverage"}

\* A sequence of different texts none of which is in others.
AreDistinct(s, others) ==
    /\ s \in Seq(Texts) /\ s # <<>> /\ IsInjective(s)
    /\ \A i \in DOMAIN s : s[i] \notin others

LEMMA OneText ==
    ASSUME NEW S, NEW a \in S
    PROVE  /\ <<a>> \in Seq(S) /\ Len(<<a>>) = 1
           /\ DOMAIN <<a>> = 1 .. 1 /\ <<a>>[1] = a
OBVIOUS

LEMMA LastOfMore ==
    ASSUME NEW n \in Nat, NEW t, NEW s, NEW u,
           \A i \in 1 .. n + 1 : t[i] = IF i <= n THEN s[i] ELSE u[i - n]
    PROVE  t[n + 1] = u[1]
<1> DEFINE k == n + 1
<1>1. k \in 1 .. n + 1 /\ ~(k <= n) /\ k - n = 1
  OBVIOUS
<1> HIDE DEF k
<1>2. t[k] = u[k - n]
  BY <1>1
<1> QED
  BY <1>1, <1>2 DEF k

LEMMA OneMoreIsDistinct ==
    ASSUME NEW a \in Texts, NEW others, a \notin others, NEW s, AreDistinct(s, {a} \cup others),
           NEW may \in {<<>>, <<a>>}
    PROVE  AreDistinct(s \o may, others)
<1>1. s \in Seq(Texts) /\ Len(s) \in Nat /\ DOMAIN s = 1 .. Len(s) /\ Len(s) >= 1
  BY LenProperties, EmptySeq DEF AreDistinct
<1>2. CASE may = <<>>
  <2>1. s \o may = s
    BY <1>1, <1>2, ConcatEmptySeq
  <2> QED
    BY <2>1 DEF AreDistinct
<1>3. CASE may = <<a>>
  <2> DEFINE u == <<a>>
             t == s \o u
             n == Len(s)
  <2>0. n \in Nat
    BY <1>1
  <2>1. /\ t \in Seq(Texts) /\ Len(t) = n + 1
        /\ \A i \in 1 .. n + 1 : t[i] = IF i <= n THEN s[i] ELSE u[i - n]
    <3>1. <<a>> \in Seq(Texts) /\ Len(<<a>>) = 1
      BY OneText
    <3> QED
      BY <1>1, <3>1, ConcatProperties DEF u
  <2>2. /\ DOMAIN t = 1 .. n + 1 /\ t # <<>>
        /\ \A i \in 1 .. n : t[i] = s[i]
        /\ t[n + 1] = a
    <3> HIDE DEF t, n, u
    <3>1. DOMAIN t = 1 .. n + 1 /\ t # <<>>
      BY <2>0, <2>1, LenProperties, EmptySeq
    <3>2. \A i \in 1 .. n : t[i] = s[i]
      BY <2>0, <2>1
    <3>3. t[n + 1] = u[1]
      BY <2>0, <2>1, LastOfMore
    <3> QED
      BY <3>1, <3>2, <3>3, OneText DEF u
  <2> HIDE DEF t
  <2>3. \A i \in 1 .. n + 1 : i \in 1 .. n \/ i = n + 1
    BY <1>1
  <2>4. /\ \A i, j \in 1 .. n : s[i] = s[j] => i = j
        /\ \A i \in 1 .. n : s[i] # a /\ s[i] \notin others
    BY <1>1 DEF AreDistinct, IsInjective
  <2> HIDE DEF n
  <2>5. \A i, j \in 1 .. n + 1 : t[i] = t[j] => i = j
    BY <2>2, <2>3, <2>4
  <2>6. \A i \in 1 .. n + 1 : t[i] \notin others
    BY <2>2, <2>3, <2>4
  <2> QED
    BY <1>3, <2>1, <2>2, <2>5, <2>6 DEF AreDistinct, IsInjective, t
<1> QED
  BY <1>2, <1>3

LEMMA ReasonIsDistinct ==
    ASSUME NEW a \in Texts, NEW others, a \notin others
    PROVE  AreDistinct(<<a>>, others)
<1> DEFINE s == <<a>>
<1>1. s \in Seq(Texts) /\ DOMAIN s = 1 .. 1 /\ s[1] = a /\ s # <<>>
  BY ONLY OneText, EmptySeq
<1> HIDE DEF s
<1>2. \A i \in 1 .. 1 : i = 1
  OBVIOUS
<1>3. IsInjective(s) /\ \A i \in DOMAIN s : s[i] \notin others
  BY <1>1, <1>2 DEF IsInjective
<1> QED
  BY <1>1, <1>3 DEF AreDistinct, s

LEMMA CompleteIsDistinct ==
    ASSUME NEW e \in Complete, NEW coverage
    PROVE  AreDistinct(<<e>> \o AsymmetryOf(coverage), {})
<1> DEFINE d == "asymmetric_coverage"
<1>1. AsymmetryOf(coverage) \in {<<>>, <<d>>}
  BY DEF AsymmetryOf
<1>2. e # d /\ e \in Texts /\ d \in Texts
  BY DEF Complete, Texts
<1> HIDE DEF d
<1>3. AreDistinct(<<e>>, {d} \cup {})
  <2>1. e \notin {d} \cup {}
    BY <1>2
  <2> QED
    BY <1>2, <2>1, ReasonIsDistinct
<1> QED
  BY <1>1, <1>2, <1>3, OneMoreIsDistinct

LEMMA InsufficientIsDistinct ==
    ASSUME NEW coverage
    PROVE  AreDistinct(InsufficientReasons(coverage), {})
<1> DEFINE a == "insufficient_common_coverage"
           b == "reference_checkpoint_missing"
           c == "candidate_checkpoint_missing"
           d == "asymmetric_coverage"
           asymmetry == AsymmetryOf(coverage)
           first == IF coverage.captured["reference"] = <<>> THEN <<b>> ELSE <<>>
           second == IF coverage.captured["candidate"] = <<>> THEN <<c>> ELSE <<>>
<1>1. asymmetry \in {<<>>, <<d>>} /\ first \in {<<>>, <<b>>} /\ second \in {<<>>, <<c>>}
  BY DEF AsymmetryOf
<1>2. InsufficientReasons(coverage) = <<a>> \o first \o second \o asymmetry
  BY DEF InsufficientReasons
<1>3. /\ a # b /\ a # c /\ a # d /\ b # c /\ b # d /\ c # d
      /\ a \in Texts /\ b \in Texts /\ c \in Texts /\ d \in Texts
  BY DEF Texts
<1> HIDE DEF a, b, c, d, asymmetry, first, second
<1>4. AreDistinct(<<a>>, {b} \cup {c, d})
  <2>1. a \notin {b} \cup {c, d}
    BY <1>3
  <2> QED
    BY <1>3, <2>1, ReasonIsDistinct
<1>5. AreDistinct(<<a>> \o first, {c, d})
  BY <1>1, <1>3, <1>4, OneMoreIsDistinct
<1>6. {c, d} = {c} \cup {d} /\ {d} = {d} \cup {}
  OBVIOUS
<1>7. AreDistinct(<<a>> \o first \o second, {d})
  BY <1>1, <1>3, <1>5, <1>6, OneMoreIsDistinct
<1>8. AreDistinct(<<a>> \o first \o second \o asymmetry, {})
  BY <1>1, <1>3, <1>6, <1>7, OneMoreIsDistinct
<1> QED
  BY <1>2, <1>8

LEMMA OneReasonIsDistinct == \A a : <<a>> # <<>> /\ IsInjective(<<a>>)
BY DEF IsInjective

LEMMA GateAPasses ==
    ASSUME NEW pass2, TypedPass2Ready(pass2) = Passed
    PROVE  pass2.tier # RequestOnly
<1> SUFFICES ASSUME pass2.tier = RequestOnly PROVE TypedPass2Ready(pass2) # Passed
  OBVIOUS
<1> DEFINE a == Gate(pass2.tier # RequestOnly,
                     "comparison_blocked_by_pass2", "reproduction_request_only")
           b == Gate(/\ pass2.status = "reproduction_verified"
                     /\ pass2.generated >= 0
                     /\ pass2.step = pass2.generated + 1,
                     "comparison_blocked_by_pass2", "pass2_not_ready")
<1>1. ~a.passes /\ a.refusal # Passed
  BY DEF Gate, Passed
<1>2. TypedPass2Ready(pass2) = FirstRefusal(<<a, b>>)
  BY DEF TypedPass2Ready
<1> HIDE DEF a, b
<1> QED
  BY ONLY <1>1, <1>2, FirstRefusal2

LEMMA RefusalSays ==
    ASSUME NEW r, NEW x, NEW refusal, Stops3(refusal), refusal # Passed,
           RefusedAt(x, refusal, Pass2Of(r).step),
           IsUnbound(x, Pass2Of(r)) \/ IsBound(x, Pass2Of(r), Reports(r), Traces(r))
    PROVE  ResultSays(r, x)
<1>1. IsRefused3(r, x)
  BY DEF IsRefused3, Stops3, RefusedAt
<1>2. x.reasons # <<>> /\ IsInjective(x.reasons)
  BY OneReasonIsDistinct DEF RefusedAt
<1>3. x.step = Pass2Of(r).step
  BY DEF RefusedAt
<1> QED
  BY <1>1, <1>2, <1>3 DEF ResultSays

LEMMA LocalizationSays ==
    ASSUME NEW r, IsRun(r)
    PROVE  ResultSays(r, LocalizeLayers(Pass2Of(r), Pass2Of(r), Reports(r), Traces(r)))
<1> DEFINE pass2 == Pass2Of(r)
           reports == Reports(r)
           traces == Traces(r)
           ref  == TraceOf(r, "reference")
           cand == TraceOf(r, "candidate")
           gateA == FirstOf(<< TypedPass2Ready(pass2), Pass2ArtifactCoheres(pass2, pass2) >>)
           gateB == BothSourceBindings(pass2, reports, traces)
           gateC == FirstOf(<< NormalizeLayerTrace(ref), NormalizeLayerTrace(cand) >>)
           coverage == CoverageOf(ref, cand)
           items == Comparisons(ref, cand, coverage.comparable)
           blocked(refusal) == Blocked(pass2, refusal)
           inherited(refusal) == WithPass2(blocked(refusal), pass2)
           bound(refusal) == WithSources(inherited(refusal), pass2, reports, traces)
           none  == [status |-> "insufficient_common_coverage", reason |-> "none"]
           apart == [status |-> "checkpoint_alignment_inconsistent",
                     reason |-> "checkpoint_alignment_inconsistent"]
           x == LocalizeLayers(pass2, pass2, reports, traces)
<1>1. traces["reference"] = ref /\ traces["candidate"] = cand
  BY DEF Sides, Traces
<1>2. x = IF gateA # Passed THEN blocked(gateA)
          ELSE IF gateB # Passed THEN inherited(gateB)
          ELSE IF gateC # Passed THEN bound(gateC)
          ELSE IF coverage.common = <<>>
               THEN [bound(none) EXCEPT !.coverage = coverage,
                                        !.reasons = InsufficientReasons(coverage)]
          ELSE IF ~Aligned(ref, cand, coverage)
               THEN [bound(apart) EXCEPT !.coverage = coverage, !.warnings = OneMore(@)]
          ELSE Compared(bound(Passed), coverage, items)
  BY <1>1 DEF LocalizeLayers
<1>3. IsTrace(ref) /\ IsTrace(cand)
  BY TraceIsTrace DEF Sides
<1>4. Stops3(gateA) /\ Stops3(gateB) /\ Stops3(gateC)
  <2>1. Stops3(gateA)
    BY Pass2Stops
  <2>2. Stops3(gateB)
    BY BindingStops
  <2>3. Stops3(NormalizeLayerTrace(ref)) /\ Stops3(NormalizeLayerTrace(cand))
    BY <1>3, NormalizeStops
  <2>4. Stops3(gateC)
    BY ONLY <2>3, FirstOf2
  <2> QED
    BY <2>1, <2>2, <2>4
<1>5. gateC = Passed => Bothsay(r)
  <2> SUFFICES ASSUME FirstOf(<< NormalizeLayerTrace(ref), NormalizeLayerTrace(cand) >>) = Passed
               PROVE  Bothsay(r)
    OBVIOUS
  <2>1. NormalizeLayerTrace(ref) = Passed /\ NormalizeLayerTrace(cand) = Passed
    BY FirstOf2
  <2> QED
    BY <2>1, AcceptedTraceSays DEF Bothsay, Sides
<1>6. gateA = Passed => pass2.tier # RequestOnly
  <2> SUFFICES ASSUME FirstOf(<< TypedPass2Ready(pass2), Pass2ArtifactCoheres(pass2, pass2) >>)
                        = Passed
               PROVE  pass2.tier # RequestOnly
    OBVIOUS
  <2> HIDE DEF pass2
  <2>1. TypedPass2Ready(pass2) = Passed
    BY FirstOf2
  <2> QED
    BY <2>1, GateAPasses
<1>7. \A refusal :
         /\ RefusedAt(blocked(refusal), refusal, pass2.step)
         /\ RefusedAt(inherited(refusal), refusal, pass2.step)
         /\ RefusedAt(bound(refusal), refusal, pass2.step)
         /\ IsUnbound(blocked(refusal), pass2) /\ IsUnbound(inherited(refusal), pass2)
         /\ IsBound(bound(refusal), pass2, reports, traces)
  <2> HIDE DEF pass2, reports, traces
  <2> QED
    BY BlockedFields
<1>8. Bothsay(r) => /\ coverage.common = LayersAt(CommonLayers(r))
                    /\ coverage.comparable = LayersAt(CommonLayers(r))
  BY CoverageIs DEF Bothsay
<1> HIDE DEF gateA, gateB, gateC, blocked, inherited, bound
<1>9. CASE gateA # Passed
  <2>1. x = blocked(gateA)
    BY <1>2, <1>9
  <2> QED
    BY <1>4, <1>7, <1>9, <2>1, RefusalSays
<1>10. CASE gateA = Passed /\ gateB # Passed
  <2>1. x = inherited(gateB)
    BY <1>2, <1>10
  <2> QED
    BY <1>4, <1>7, <1>10, <2>1, RefusalSays
<1>11. CASE gateA = Passed /\ gateB = Passed /\ gateC # Passed
  <2>1. x = bound(gateC)
    BY <1>2, <1>11
  <2> QED
    BY <1>4, <1>7, <1>11, <2>1, RefusalSays
<1>12. CASE gateA = Passed /\ gateB = Passed /\ gateC = Passed
  <2>1. Bothsay(r) /\ pass2.tier # RequestOnly
    BY <1>5, <1>6, <1>12
  <2>2. coverage = CoverageFrom(r)
    BY DEF CoverageFrom
  <2> DEFINE b == bound(none)
             c == bound(apart)
             d == bound(Passed)
  <2>3. /\ SaysNothing(b) /\ b.step = pass2.step /\ IsBound(b, pass2, reports, traces)
        /\ SaysNothing(c) /\ c.step = pass2.step /\ IsBound(c, pass2, reports, traces)
        /\ SaysNothing(d) /\ d.step = pass2.step /\ IsBound(d, pass2, reports, traces)
        /\ b.status = "insufficient_common_coverage"
        /\ c.status = "checkpoint_alignment_inconsistent"
        /\ c.reasons = <<"checkpoint_alignment_inconsistent">>
    BY <1>7 DEF RefusedAt
  <2>4. x = IF coverage.common = <<>>
            THEN [b EXCEPT !.coverage = coverage, !.reasons = InsufficientReasons(coverage)]
            ELSE IF ~Aligned(ref, cand, coverage)
                 THEN [c EXCEPT !.coverage = coverage, !.warnings = OneMore(@)]
            ELSE Compared(d, coverage, items)
    BY <1>2, <1>12
  <2> HIDE DEF b, c, d, x, ref, cand, pass2, reports, traces
  <2>5. CASE coverage.common = <<>>
    <3>1. x = [b EXCEPT !.coverage = coverage, !.reasons = InsufficientReasons(coverage)]
      BY <2>4, <2>5
    <3> HIDE DEF coverage
    <3>2. /\ SaysNothing(x) /\ x.step = pass2.step /\ IsBound(x, pass2, reports, traces)
          /\ x.status = "insufficient_common_coverage" /\ x.coverage = coverage
          /\ x.reasons = InsufficientReasons(coverage)
      BY <2>3, <3>1 DEF SaysNothing, Fields3, IsBound
    <3> QED
      BY <2>1, <2>2, <3>2, InsufficientIsDistinct
         DEF ResultSays, IsRefused3, AreDistinct, x, pass2, reports, traces
  <2>6. CASE coverage.common # <<>> /\ ~Aligned(ref, cand, coverage)
    <3>1. x = [c EXCEPT !.coverage = coverage, !.warnings = OneMore(@)]
      BY <2>4, <2>6
    <3> HIDE DEF coverage
    <3>2. /\ SaysNothing(x) /\ x.step = pass2.step /\ IsBound(x, pass2, reports, traces)
          /\ x.status = "checkpoint_alignment_inconsistent" /\ x.coverage = coverage
          /\ x.reasons = <<"checkpoint_alignment_inconsistent">>
      BY <2>3, <3>1 DEF SaysNothing, Fields3, IsBound
    <3> QED
      BY <2>1, <2>2, <3>2, OneReasonIsDistinct
         DEF ResultSays, IsRefused3, Refusals3, x, pass2, reports, traces
  <2>7. CASE coverage.common # <<>> /\ Aligned(ref, cand, coverage)
    <3> DEFINE n == Len(items)
               at == items[n].coordinate
               before == IF n = 1 THEN None ELSE items[n - 1].coordinate
    <3>1. x = Compared(d, coverage, items)
      BY <2>4, <2>7
    <3>2. items = Compares(r)
      BY <1>8, <2>1 DEF Compares, ref, cand
    <3> HIDE DEF coverage, items
    <3>3. /\ DOMAIN x = Fields3 /\ x.step = pass2.step /\ IsBound(x, pass2, reports, traces)
          /\ x.coverage = coverage /\ x.comparisons = items /\ x.decision = Tier1
          /\ x.reasons = <<x.status>> \o AsymmetryOf(coverage)
          /\ IF items[n].equivalent
             THEN /\ x.status = "no_mismatch_in_captured_coverage"
                  /\ x.disposition = "exploratory_localization_only"
                  /\ x.last = at /\ x.mismatch = None /\ x.interval = None
                  /\ x.layer = Absent
             ELSE /\ x.status = "observable_mismatch_found"
                  /\ x.disposition = "suspect_interval_available"
                  /\ x.last = before /\ x.mismatch = at /\ x.layer = at.layer
                  /\ x.interval = Interval(before, at)
      <4>1. LET y == Compared(d, coverage, items) IN
            /\ DOMAIN y = Fields3
            /\ y.pass2 = d.pass2 /\ y.coherent = d.coherent /\ y.evidence = d.evidence
            /\ y.sources = d.sources /\ y.bound = d.bound /\ y.step = d.step
            /\ y.warnings = d.warnings
            /\ y.coverage = coverage /\ y.comparisons = items /\ y.decision = Tier1
            /\ y.reasons = <<y.status>> \o AsymmetryOf(coverage)
            /\ IF items[n].equivalent
               THEN /\ y.status = "no_mismatch_in_captured_coverage"
                    /\ y.disposition = "exploratory_localization_only"
                    /\ y.last = at /\ y.mismatch = None /\ y.interval = None
                    /\ y.layer = Absent
               ELSE /\ y.status = "observable_mismatch_found"
                    /\ y.disposition = "suspect_interval_available"
                    /\ y.last = before /\ y.mismatch = at /\ y.layer = at.layer
                    /\ y.interval = Interval(before, at)
        BY <2>3, ComparedFields
      <4> HIDE DEF n, at, before
      <4> QED
        BY <2>3, <3>1, <4>1 DEF IsBound
    <3>4. CommonLayers(r) # {}
      <4>1. LayersAt({}) = <<>>
        BY FS_EmptySet DEF LayersAt
      <4> QED
        BY <1>8, <2>1, <2>7, <4>1
    <3>5. items[n].equivalent <=> FoundIn(r) = Absent
      <4>1. /\ n \in 0 .. Cardinality(CommonLayers(r)) /\ n >= 1
            /\ FoundIn(r) = Absent => \A i \in 1 .. n : items[i].equivalent
            /\ FoundIn(r) # Absent => ~items[n].equivalent
        BY <2>1, <3>2, <3>4, ComparisonsAre DEF Bothsay, Compares
      <4>2. n \in 1 .. n
        BY <4>1
      <4> QED
        BY <4>1, <4>2
    <3>6. x.bound = TRUE
      BY <3>3 DEF IsBound
    <3>7. IsCompared(r, x)
      BY <2>1, <2>2, <3>2, <3>3, <3>4, <3>5, <3>6 DEF IsCompared, pass2
    <3>8. x.reasons # <<>> /\ IsInjective(x.reasons)
      <4>1. x.status \in Complete
        BY <3>3 DEF Complete
      <4> QED
        BY <3>3, <4>1, CompleteIsDistinct DEF AreDistinct
    <3> QED
      BY <3>3, <3>7, <3>8 DEF ResultSays, x, pass2, reports, traces
  <2> QED
    BY <2>5, <2>6, <2>7
<1> QED
  BY <1>9, <1>10, <1>11, <1>12
-------------------------------------------------------------------------------
(* The readers of gates 1 to 5: a refusal names a reason of its status, and a *)
(* reader passes just when its gates do.                                     *)
LineageStatuses == {"comparison_blocked_by_pass3"}
KindStatuses    == {"unsupported_parent", "not_applicable", "comparison_blocked_by_pass3"}
DriftStatuses   == {"parent_revalidation_inconsistent"}
SourceStatuses  == {"source_binding_inconsistent", "unsupported_parent",
                    "parent_revalidation_inconsistent"}

ClassifiedAs(answer, statuses) ==
    answer = Passed \/ (answer.status \in statuses /\ answer.reason \in ReasonsOf(answer.status))

IsGate(gate, condition, statuses) ==
    /\ gate.passes <=> condition
    /\ gate.refusal # Passed /\ ClassifiedAs(gate.refusal, statuses)

LEMMA PassedIsClassified == \A statuses : ClassifiedAs(Passed, statuses)
BY DEF ClassifiedAs

LEMMA DemandsAre ==
    \A c : /\ IsGate(Demand(c, "parent_status_blocked"), c, LineageStatuses)
           /\ IsGate(Demand(c, "parent_typed_artifact_incoherent"), c, LineageStatuses)
           /\ IsGate(Demand(c, "parent_comparisons_truncated"), c, LineageStatuses)
           /\ IsGate(Demand(c, "parent_localization_incoherent"), c, LineageStatuses)
           /\ IsGate(Demand(c, "parent_upstream_evidence_incoherent"), c, LineageStatuses)
BY DEF Demand, Gate, IsGate, ClassifiedAs, LineageStatuses, ReasonsOf, Passed

LEMMA KindGatesAre ==
    \A c : /\ IsGate(Gate(c, "unsupported_parent", "parent_contract_or_family_unsupported"),
                     c, KindStatuses)
           /\ IsGate(Gate(c, "unsupported_parent", "parent_digest_policy_unsupported"),
                     c, KindStatuses)
           /\ IsGate(Gate(c, "unsupported_parent", "parent_phase_unsupported"), c, KindStatuses)
           /\ IsGate(Gate(c, "not_applicable", "parent_has_no_observed_mismatch"),
                     c, KindStatuses)
           /\ IsGate(Demand(c, "parent_status_blocked"), c, KindStatuses)
           /\ IsGate(Demand(c, "parent_upstream_evidence_incoherent"), c, KindStatuses)
BY DEF Demand, Gate, IsGate, ClassifiedAs, KindStatuses, ReasonsOf, Passed

LEMMA DriftGatesAre ==
    \A c : /\ IsGate(Gate(c, "parent_revalidation_inconsistent",
                          "discovery_rebound_layer_changed"), c, DriftStatuses)
           /\ IsGate(Gate(c, "parent_revalidation_inconsistent",
                          "discovery_rebound_semantics_changed"), c, DriftStatuses)
BY DEF Gate, IsGate, ClassifiedAs, DriftStatuses, ReasonsOf, Passed

LEMMA SourceGatesAre ==
    \A c : /\ IsGate(Gate(c, "source_binding_inconsistent", "source_role_mismatch"),
                     c, SourceStatuses)
           /\ IsGate(Gate(c, "source_binding_inconsistent", "trace_sha_mismatch"),
                     c, SourceStatuses)
           /\ IsGate(Gate(c, "source_binding_inconsistent", "run_report_binding_mismatch"),
                     c, SourceStatuses)
           /\ IsGate(Gate(c, "source_binding_inconsistent", "semantic_manifest_binding_mismatch"),
                     c, SourceStatuses)
           /\ IsGate(Gate(c, "source_binding_inconsistent", "artifact_set_binding_mismatch"),
                     c, SourceStatuses)
           /\ IsGate(Gate(c, "source_binding_inconsistent", "runtime_capture_identity_mismatch"),
                     c, SourceStatuses)
           /\ IsGate(Gate(c, "unsupported_parent", "parent_contract_or_family_unsupported"),
                     c, SourceStatuses)
           /\ IsGate(Gate(c, "parent_revalidation_inconsistent",
                          "discovery_rebound_semantics_changed"), c, SourceStatuses)
BY DEF Gate, IsGate, ClassifiedAs, SourceStatuses, ReasonsOf, Passed

LEMMA CoverageReads ==
    ASSUME NEW raw
    PROVE  /\ ClassifiedAs(CoverageAndLocalization(raw), LineageStatuses)
           /\ CoverageAndLocalization(raw) = Passed <=>
                /\ CoverageIsCoherent(raw.coverage)
                /\ raw.status \in Complete => \A s \in Sides : raw.coverage.requested[s] # <<>>
                /\ /\ ~raw.comparisons.truncated /\ raw.comparisons.total = raw.comparisons.serialized
                   /\ raw.comparisons.serialized = Len(raw.comparisons.items)
                /\ ItemsAreComparable(raw.comparisons.items, raw.coverage.comparable)
                /\ LocalizationIsCoherent(raw)
<1> DEFINE coherent == CoverageIsCoherent(raw.coverage)
           requested == raw.status \in Complete => \A s \in Sides : raw.coverage.requested[s] # <<>>
           whole == /\ ~raw.comparisons.truncated /\ raw.comparisons.total = raw.comparisons.serialized
                    /\ raw.comparisons.serialized = Len(raw.comparisons.items)
           comparable == ItemsAreComparable(raw.comparisons.items, raw.coverage.comparable)
           localized == LocalizationIsCoherent(raw)
           a == Demand(coherent, "parent_localization_incoherent")
           b == Demand(requested, "parent_localization_incoherent")
           c == Demand(whole, "parent_comparisons_truncated")
           d == Demand(comparable, "parent_localization_incoherent")
           e == Demand(localized, "parent_localization_incoherent")
<1>1. CoverageAndLocalization(raw) = FirstRefusal(<<a, b, c, d, e>>)
  BY DEF CoverageAndLocalization
<1> HIDE DEF coherent, requested, whole, comparable, localized
<1>2. /\ IsGate(a, coherent, LineageStatuses)
      /\ IsGate(b, requested, LineageStatuses)
      /\ IsGate(c, whole, LineageStatuses)
      /\ IsGate(d, comparable, LineageStatuses)
      /\ IsGate(e, localized, LineageStatuses)
  BY DemandsAre
<1> HIDE DEF a, b, c, d, e
<1>3. /\ ClassifiedAs(CoverageAndLocalization(raw), LineageStatuses)
      /\ CoverageAndLocalization(raw) = Passed <=> coherent /\ requested /\ whole /\ comparable /\ localized
  BY ONLY <1>1, <1>2, PassedIsClassified, FirstRefusal5 DEF IsGate
<1> QED
  BY <1>3 DEF coherent, requested, whole, comparable, localized

LEMMA IdentityReads ==
    ASSUME NEW raw
    PROVE  /\ ClassifiedAs(IdentityAndEvidence(raw), LineageStatuses)
           /\ IdentityAndEvidence(raw) = Passed <=>
                /\ raw.status \in Complete => raw.pass2 # None
                /\ raw.step >= 0
                /\ raw.status \in Complete => EvidenceIsUsable(raw)
                /\ raw.status \in Complete => \A s \in Sides : raw.sources[s] # None
                /\ raw.status \in Complete => raw.decision # NoDecision
                /\ raw.reasons # <<>> /\ IsInjective(raw.reasons)
                /\ raw.disposition = DispositionOfPass3(raw.status)
<1> DEFINE named == raw.status \in Complete => raw.pass2 # None
           numbered == raw.step >= 0
           usable == raw.status \in Complete => EvidenceIsUsable(raw)
           sourced == raw.status \in Complete => \A s \in Sides : raw.sources[s] # None
           decided == raw.status \in Complete => raw.decision # NoDecision
           reasoned == raw.reasons # <<>> /\ IsInjective(raw.reasons)
           disposed == raw.disposition = DispositionOfPass3(raw.status)
           a == Demand(named, "parent_upstream_evidence_incoherent")
           b == Demand(numbered, "parent_localization_incoherent")
           c == Demand(usable, "parent_upstream_evidence_incoherent")
           d == Demand(sourced, "parent_upstream_evidence_incoherent")
           e == Demand(decided, "parent_typed_artifact_incoherent")
           f == Demand(reasoned, "parent_typed_artifact_incoherent")
           h == Demand(disposed, "parent_typed_artifact_incoherent")
<1>1. IdentityAndEvidence(raw) = FirstRefusal(<<a, b, c, d, e, f, h>>)
  BY DEF IdentityAndEvidence
<1> HIDE DEF named, numbered, usable, sourced, decided, reasoned, disposed
<1>2. /\ IsGate(a, named, LineageStatuses)
      /\ IsGate(b, numbered, LineageStatuses)
      /\ IsGate(c, usable, LineageStatuses)
      /\ IsGate(d, sourced, LineageStatuses)
      /\ IsGate(e, decided, LineageStatuses)
      /\ IsGate(f, reasoned, LineageStatuses)
      /\ IsGate(h, disposed, LineageStatuses)
  BY DemandsAre
<1> HIDE DEF a, b, c, d, e, f, h
<1>3. /\ ClassifiedAs(IdentityAndEvidence(raw), LineageStatuses)
      /\ IdentityAndEvidence(raw) = Passed <=> named /\ numbered /\ usable /\ sourced /\ decided /\ reasoned /\ disposed
  BY ONLY <1>1, <1>2, PassedIsClassified, FirstRefusal7 DEF IsGate
<1> QED
  BY <1>3 DEF named, numbered, usable, sourced, decided, reasoned, disposed

LEMMA RepresentationReads ==
    ASSUME NEW raw
    PROVE  /\ ClassifiedAs(Representation(raw), LineageStatuses)
           /\ Representation(raw) = Passed <=>
                /\ IdentityAndEvidence(raw) = Passed
                /\ CoverageAndLocalization(raw) = Passed
<1>1. /\ ClassifiedAs(IdentityAndEvidence(raw), LineageStatuses)
      /\ ClassifiedAs(CoverageAndLocalization(raw), LineageStatuses)
  BY CoverageReads, IdentityReads
<1> QED
  BY ONLY <1>1, FirstOf2 DEF Representation

LEMMA MatchReads ==
    ASSUME NEW given, NEW g
    PROVE  /\ ClassifiedAs(FirstRefusal(<< Demand(given.artifact[g] = SerializePass3(given.result[g]),
                                            "parent_typed_artifact_incoherent") >>), LineageStatuses)
           /\ FirstRefusal(<< Demand(given.artifact[g] = SerializePass3(given.result[g]),
                                            "parent_typed_artifact_incoherent") >>) = Passed <=>
                /\ given.artifact[g] = SerializePass3(given.result[g])
<1> DEFINE same == given.artifact[g] = SerializePass3(given.result[g])
           a == Demand(same, "parent_typed_artifact_incoherent")
<1>1. FirstRefusal(<< Demand(given.artifact[g] = SerializePass3(given.result[g]),
                                            "parent_typed_artifact_incoherent") >>) = FirstRefusal(<<a>>)
  OBVIOUS
<1> HIDE DEF same
<1>2. /\ IsGate(a, same, LineageStatuses)
  BY DemandsAre
<1> HIDE DEF a
<1>3. /\ ClassifiedAs(FirstRefusal(<< Demand(given.artifact[g] = SerializePass3(given.result[g]),
                                            "parent_typed_artifact_incoherent") >>), LineageStatuses)
      /\ FirstRefusal(<< Demand(given.artifact[g] = SerializePass3(given.result[g]),
                                            "parent_typed_artifact_incoherent") >>) = Passed <=> same
  BY ONLY <1>1, <1>2, PassedIsClassified, FirstRefusal1 DEF IsGate
<1> QED
  BY <1>3 DEF same

LEMMA ArtifactCoherenceReads ==
    ASSUME NEW given, NEW g
    PROVE  /\ ClassifiedAs(ArtifactCoherence(given, g), LineageStatuses)
           /\ ArtifactCoherence(given, g) = Passed <=>
                /\ given.artifact[g] = SerializePass3(given.result[g])
                /\ Representation(given.artifact[g]) = Passed
<1> DEFINE match == FirstRefusal(<< Demand(given.artifact[g] = SerializePass3(given.result[g]),
                                           "parent_typed_artifact_incoherent") >>)
<1>1. ArtifactCoherence(given, g) = FirstOf(<<match, Representation(given.artifact[g])>>)
  BY DEF ArtifactCoherence
<1>2. /\ ClassifiedAs(match, LineageStatuses)
      /\ match = Passed <=> given.artifact[g] = SerializePass3(given.result[g])
  BY MatchReads
<1>3. ClassifiedAs(Representation(given.artifact[g]), LineageStatuses)
  BY RepresentationReads
<1> HIDE DEF match
<1> QED
  BY ONLY <1>1, <1>2, <1>3, FirstOf2

LEMMA Pass2BindingReads ==
    ASSUME NEW raw, NEW pass2
    PROVE  /\ ClassifiedAs(Pass2Binding(raw, pass2), LineageStatuses)
           /\ Pass2Binding(raw, pass2) = Passed <=>
                /\ BindsPass2(raw, pass2)
<1> DEFINE binds == BindsPass2(raw, pass2)
           a == Demand(binds, "parent_upstream_evidence_incoherent")
<1>1. Pass2Binding(raw, pass2) = FirstRefusal(<<a>>)
  BY DEF Pass2Binding
<1> HIDE DEF binds
<1>2. /\ IsGate(a, binds, LineageStatuses)
  BY DemandsAre
<1> HIDE DEF a
<1>3. /\ ClassifiedAs(Pass2Binding(raw, pass2), LineageStatuses)
      /\ Pass2Binding(raw, pass2) = Passed <=> binds
  BY ONLY <1>1, <1>2, PassedIsClassified, FirstRefusal1 DEF IsGate
<1> QED
  BY <1>3 DEF binds

LEMMA ParentBindingReads ==
    ASSUME NEW raw
    PROVE  /\ ClassifiedAs(ParentBinding(raw), LineageStatuses)
           /\ ParentBinding(raw) = Passed <=>
                /\ raw.pass2 # None /\ \A s \in Sides : raw.sources[s] # None
<1> DEFINE names == raw.pass2 # None /\ \A s \in Sides : raw.sources[s] # None
           a == Demand(names, "parent_upstream_evidence_incoherent")
<1>1. ParentBinding(raw) = FirstRefusal(<<a>>)
  BY DEF ParentBinding
<1> HIDE DEF names
<1>2. /\ IsGate(a, names, LineageStatuses)
  BY DemandsAre
<1> HIDE DEF a
<1>3. /\ ClassifiedAs(ParentBinding(raw), LineageStatuses)
      /\ ParentBinding(raw) = Passed <=> names
  BY ONLY <1>1, <1>2, PassedIsClassified, FirstRefusal1 DEF IsGate
<1> QED
  BY <1>3 DEF names

LEMMA Gate3Reads ==
    ASSUME NEW discovery, NEW authoritative
    PROVE  /\ ClassifiedAs(Gate3(discovery, authoritative), KindStatuses)
           /\ Gate3(discovery, authoritative) = Passed <=>
                /\ authoritative.status # "unsupported_checkpoint_layout"
                /\ authoritative.status # "comparison_policy_unavailable"
                /\ authoritative.status # "no_mismatch_in_captured_coverage"
                /\ authoritative.status = "observable_mismatch_found"
                /\ PolicyIsKnown(authoritative)
                /\ authoritative.step # 0
                /\ discovery.status = "observable_mismatch_found" /\ PolicyIsKnown(discovery)
<1> DEFINE layout == authoritative.status # "unsupported_checkpoint_layout"
           policy == authoritative.status # "comparison_policy_unavailable"
           differs == authoritative.status # "no_mismatch_in_captured_coverage"
           found == authoritative.status = "observable_mismatch_found"
           known == PolicyIsKnown(authoritative)
           decodes == authoritative.step # 0
           confirmed == discovery.status = "observable_mismatch_found" /\ PolicyIsKnown(discovery)
           a == Gate(layout, "unsupported_parent", "parent_contract_or_family_unsupported")
           b == Gate(policy, "unsupported_parent", "parent_digest_policy_unsupported")
           c == Gate(differs, "not_applicable", "parent_has_no_observed_mismatch")
           d == Demand(found, "parent_status_blocked")
           e == Gate(known, "unsupported_parent", "parent_digest_policy_unsupported")
           f == Gate(decodes, "unsupported_parent", "parent_phase_unsupported")
           h == Demand(confirmed, "parent_upstream_evidence_incoherent")
<1>1. Gate3(discovery, authoritative) = FirstRefusal(<<a, b, c, d, e, f, h>>)
  BY DEF Gate3
<1> HIDE DEF layout, policy, differs, found, known, decodes, confirmed
<1>2. /\ IsGate(a, layout, KindStatuses)
      /\ IsGate(b, policy, KindStatuses)
      /\ IsGate(c, differs, KindStatuses)
      /\ IsGate(d, found, KindStatuses)
      /\ IsGate(e, known, KindStatuses)
      /\ IsGate(f, decodes, KindStatuses)
      /\ IsGate(h, confirmed, KindStatuses)
  BY KindGatesAre
<1> HIDE DEF a, b, c, d, e, f, h
<1>3. /\ ClassifiedAs(Gate3(discovery, authoritative), KindStatuses)
      /\ Gate3(discovery, authoritative) = Passed <=> layout /\ policy /\ differs /\ found /\ known /\ decodes /\ confirmed
  BY ONLY <1>1, <1>2, PassedIsClassified, FirstRefusal7 DEF IsGate
<1> QED
  BY <1>3 DEF layout, policy, differs, found, known, decodes, confirmed

LEMMA DriftReads ==
    ASSUME NEW discovery, NEW authoritative
    PROVE  /\ ClassifiedAs(Drift(discovery, authoritative), DriftStatuses)
           /\ Drift(discovery, authoritative) = Passed <=>
                /\ discovery.layer = authoritative.layer
                /\ discovery.step = authoritative.step
                /\ discovery.coverage.requested = authoritative.coverage.requested
                /\ discovery.decision = authoritative.decision
                /\ [tier |-> discovery.evidence.tier, step |-> discovery.evidence.step,
                    generated |-> discovery.evidence.generated]
                   = [tier |-> authoritative.evidence.tier, step |-> authoritative.evidence.step,
                      generated |-> authoritative.evidence.generated]
<1> DEFINE layer == discovery.layer = authoritative.layer
           step == discovery.step = authoritative.step
           request == discovery.coverage.requested = authoritative.coverage.requested
           decision == discovery.decision = authoritative.decision
           basis == [tier |-> discovery.evidence.tier, step |-> discovery.evidence.step,
                     generated |-> discovery.evidence.generated]
                    = [tier |-> authoritative.evidence.tier, step |-> authoritative.evidence.step,
                       generated |-> authoritative.evidence.generated]
           a == Gate(layer, "parent_revalidation_inconsistent", "discovery_rebound_layer_changed")
           b == Gate(step, "parent_revalidation_inconsistent", "discovery_rebound_semantics_changed")
           c == Gate(request, "parent_revalidation_inconsistent", "discovery_rebound_semantics_changed")
           d == Gate(decision, "parent_revalidation_inconsistent", "discovery_rebound_semantics_changed")
           e == Gate(basis, "parent_revalidation_inconsistent", "discovery_rebound_semantics_changed")
<1>1. Drift(discovery, authoritative) = FirstRefusal(<<a, b, c, d, e>>)
  BY DEF Drift
<1> HIDE DEF layer, step, request, decision, basis
<1>2. /\ IsGate(a, layer, DriftStatuses)
      /\ IsGate(b, step, DriftStatuses)
      /\ IsGate(c, request, DriftStatuses)
      /\ IsGate(d, decision, DriftStatuses)
      /\ IsGate(e, basis, DriftStatuses)
  BY DriftGatesAre
<1> HIDE DEF a, b, c, d, e
<1>3. /\ ClassifiedAs(Drift(discovery, authoritative), DriftStatuses)
      /\ Drift(discovery, authoritative) = Passed <=> layer /\ step /\ request /\ decision /\ basis
  BY ONLY <1>1, <1>2, PassedIsClassified, FirstRefusal5 DEF IsGate
<1> QED
  BY <1>3 DEF layer, step, request, decision, basis

LEMMA BindSourceReads ==
    ASSUME NEW given, NEW g, NEW s
    PROVE  LET recorded == given.artifact[g].sources[s]
               step     == given.artifact[g].step
               report   == given.report[g][s]
               trace    == given.trace[g][s]
           IN  /\ ClassifiedAs(BindSource(given, g, s), SourceStatuses)
               /\ BindSource(given, g, s) = Passed <=>
                    /\ RoleIsOf(recorded.role, s)
                    /\ trace.kind = "layer_trace"
                    /\ report.kind = "run_report"
                    /\ report = recorded.report
                    /\ trace = recorded.trace
                    /\ report.manifest = trace.manifest /\ report.manifest = recorded.manifest
                    /\ /\ None \notin {report.set, trace.set}
                       /\ report.set = trace.set /\ report.set = recorded.set
                    /\ report.manifest.family = Family
                    /\ report.manifest.precision # Malformed
                    /\ report.manifest.step = step /\ trace.layout.step = step
                    /\ CaptureIsOf(g, report.manifest, given.artifact[g].layer)
<1> DEFINE recorded == given.artifact[g].sources[s]
           step     == given.artifact[g].step
           report   == given.report[g][s]
           trace    == given.trace[g][s]
           roles == RoleIsOf(recorded.role, s)
           traced == trace.kind = "layer_trace"
           reported == report.kind = "run_report"
           isReport == report = recorded.report
           isTrace == trace = recorded.trace
           manifests == report.manifest = trace.manifest /\ report.manifest = recorded.manifest
           sets == /\ None \notin {report.set, trace.set}
                   /\ report.set = trace.set /\ report.set = recorded.set
           family == report.manifest.family = Family
           precision == report.manifest.precision # Malformed
           atStep == report.manifest.step = step /\ trace.layout.step = step
           captures == CaptureIsOf(g, report.manifest, given.artifact[g].layer)
           a == Gate(roles, "source_binding_inconsistent", "source_role_mismatch")
           b == Gate(traced, "source_binding_inconsistent", "trace_sha_mismatch")
           c == Gate(reported, "source_binding_inconsistent", "run_report_binding_mismatch")
           d == Gate(isReport, "source_binding_inconsistent", "run_report_binding_mismatch")
           e == Gate(isTrace, "source_binding_inconsistent", "trace_sha_mismatch")
           f == Gate(manifests, "source_binding_inconsistent", "semantic_manifest_binding_mismatch")
           h == Gate(sets, "source_binding_inconsistent", "artifact_set_binding_mismatch")
           l == Gate(family, "unsupported_parent", "parent_contract_or_family_unsupported")
           m == Gate(precision, "source_binding_inconsistent", "runtime_capture_identity_mismatch")
           n == Gate(atStep, "source_binding_inconsistent", "runtime_capture_identity_mismatch")
           o == Gate(captures, "source_binding_inconsistent", "runtime_capture_identity_mismatch")
<1>1. BindSource(given, g, s) = FirstRefusal(<<a, b, c, d, e, f, h, l, m, n, o>>)
  BY DEF BindSource
<1> HIDE DEF roles, traced, reported, isReport, isTrace, manifests, sets, family, precision, atStep, captures
<1>2. /\ IsGate(a, roles, SourceStatuses)
      /\ IsGate(b, traced, SourceStatuses)
      /\ IsGate(c, reported, SourceStatuses)
      /\ IsGate(d, isReport, SourceStatuses)
      /\ IsGate(e, isTrace, SourceStatuses)
      /\ IsGate(f, manifests, SourceStatuses)
      /\ IsGate(h, sets, SourceStatuses)
      /\ IsGate(l, family, SourceStatuses)
      /\ IsGate(m, precision, SourceStatuses)
      /\ IsGate(n, atStep, SourceStatuses)
      /\ IsGate(o, captures, SourceStatuses)
  BY SourceGatesAre
<1> HIDE DEF a, b, c, d, e, f, h, l, m, n, o
<1>3. /\ ClassifiedAs(BindSource(given, g, s), SourceStatuses)
      /\ BindSource(given, g, s) = Passed <=> roles /\ traced /\ reported /\ isReport /\ isTrace /\ manifests /\ sets /\ family /\ precision /\ atStep /\ captures
  BY ONLY <1>1, <1>2, PassedIsClassified, FirstRefusal11 DEF IsGate
<1> QED
  BY <1>3 DEF roles, traced, reported, isReport, isTrace, manifests, sets, family, precision, atStep, captures

LEMMA PrecisionReads ==
    ASSUME NEW given, NEW g
    PROVE  /\ ClassifiedAs(FirstRefusal(
                 << Gate(given.report[g]["reference"].manifest.precision =
                         given.report[g]["candidate"].manifest.precision,
                         "source_binding_inconsistent", "runtime_capture_identity_mismatch") >>), SourceStatuses)
           /\ FirstRefusal(
                 << Gate(given.report[g]["reference"].manifest.precision =
                         given.report[g]["candidate"].manifest.precision,
                         "source_binding_inconsistent", "runtime_capture_identity_mismatch") >>) = Passed <=>
                /\ given.report[g]["reference"].manifest.precision =
                   given.report[g]["candidate"].manifest.precision
<1> DEFINE same == given.report[g]["reference"].manifest.precision =
                   given.report[g]["candidate"].manifest.precision
           a == Gate(same, "source_binding_inconsistent", "runtime_capture_identity_mismatch")
<1>1. FirstRefusal(
                 << Gate(given.report[g]["reference"].manifest.precision =
                         given.report[g]["candidate"].manifest.precision,
                         "source_binding_inconsistent", "runtime_capture_identity_mismatch") >>) = FirstRefusal(<<a>>)
  OBVIOUS
<1> HIDE DEF same
<1>2. /\ IsGate(a, same, SourceStatuses)
  BY SourceGatesAre
<1> HIDE DEF a
<1>3. /\ ClassifiedAs(FirstRefusal(
                 << Gate(given.report[g]["reference"].manifest.precision =
                         given.report[g]["candidate"].manifest.precision,
                         "source_binding_inconsistent", "runtime_capture_identity_mismatch") >>), SourceStatuses)
      /\ FirstRefusal(
                 << Gate(given.report[g]["reference"].manifest.precision =
                         given.report[g]["candidate"].manifest.precision,
                         "source_binding_inconsistent", "runtime_capture_identity_mismatch") >>) = Passed <=> same
  BY ONLY <1>1, <1>2, PassedIsClassified, FirstRefusal1 DEF IsGate
<1> QED
  BY <1>3 DEF same

LEMMA BindGenerationReads ==
    ASSUME NEW given, NEW g
    PROVE  /\ ClassifiedAs(BindGeneration(given, g), SourceStatuses)
           /\ BindGeneration(given, g) = Passed <=>
                /\ \A s \in Sides : BindSource(given, g, s) = Passed
                /\ given.report[g]["reference"].manifest.precision =
                   given.report[g]["candidate"].manifest.precision
<1> DEFINE same == given.report[g]["reference"].manifest.precision =
                   given.report[g]["candidate"].manifest.precision
           precision == FirstRefusal(
              << Gate(given.report[g]["reference"].manifest.precision =
                      given.report[g]["candidate"].manifest.precision,
                      "source_binding_inconsistent", "runtime_capture_identity_mismatch") >>)
           bound(s) == BindSource(given, g, s)
<1>1. BindGeneration(given, g) = FirstOf(<<bound("reference"), bound("candidate"), precision>>)
  BY DEF BindGeneration
<1>2. ClassifiedAs(precision, SourceStatuses) /\ (precision = Passed <=> same)
  BY PrecisionReads
<1>3. \A s : ClassifiedAs(bound(s), SourceStatuses)
  BY BindSourceReads
<1>4. (\A s \in Sides : bound(s) = Passed) <=>
        bound("reference") = Passed /\ bound("candidate") = Passed
  BY DEF Sides
<1> HIDE DEF same, precision, bound
<1>5. /\ ClassifiedAs(BindGeneration(given, g), SourceStatuses)
      /\ BindGeneration(given, g) = Passed <=> (\A s \in Sides : bound(s) = Passed) /\ same
  BY ONLY <1>1, <1>2, <1>3, <1>4, FirstOf3
<1> QED
  BY <1>5 DEF bound, same

LEMMA CrossGenerationReads ==
    ASSUME NEW given, NEW s
    PROVE  /\ ClassifiedAs(CrossGeneration(given, s), SourceStatuses)
           /\ CrossGeneration(given, s) = Passed <=>
                /\ /\ given.trace["discovery"][s] # given.trace["authoritative"][s]
                   /\ given.report["discovery"][s] # given.report["authoritative"][s]
                /\ Shared(given.report["discovery"][s].manifest)
                   = Shared(given.report["authoritative"][s].manifest)
<1> DEFINE distinct == /\ given.trace["discovery"][s] # given.trace["authoritative"][s]
                       /\ given.report["discovery"][s] # given.report["authoritative"][s]
           shared == Shared(given.report["discovery"][s].manifest)
                     = Shared(given.report["authoritative"][s].manifest)
           a == Gate(distinct, "source_binding_inconsistent", "runtime_capture_identity_mismatch")
           b == Gate(shared, "parent_revalidation_inconsistent", "discovery_rebound_semantics_changed")
<1>1. CrossGeneration(given, s) = FirstRefusal(<<a, b>>)
  BY DEF CrossGeneration
<1> HIDE DEF distinct, shared
<1>2. /\ IsGate(a, distinct, SourceStatuses)
      /\ IsGate(b, shared, SourceStatuses)
  BY SourceGatesAre
<1> HIDE DEF a, b
<1>3. /\ ClassifiedAs(CrossGeneration(given, s), SourceStatuses)
      /\ CrossGeneration(given, s) = Passed <=> distinct /\ shared
  BY ONLY <1>1, <1>2, PassedIsClassified, FirstRefusal2 DEF IsGate
<1> QED
  BY <1>3 DEF distinct, shared

LEMMA SourcesReads ==
    ASSUME NEW given
    PROVE  /\ ClassifiedAs(Sources(given), SourceStatuses)
           /\ Sources(given) = Passed <=>
                /\ \A g \in Generations : BindGeneration(given, g) = Passed
                /\ \A s \in Sides : CrossGeneration(given, s) = Passed
<1> DEFINE bound(g) == BindGeneration(given, g)
           cross(s) == CrossGeneration(given, s)
<1>1. Sources(given) = FirstOf(<< bound("authoritative"), bound("discovery"),
                                  cross("reference"), cross("candidate") >>)
  BY DEF Sources
<1>2. /\ \A g : ClassifiedAs(bound(g), SourceStatuses)
      /\ \A s : ClassifiedAs(cross(s), SourceStatuses)
  BY BindGenerationReads, CrossGenerationReads
<1>3. /\ (\A g \in Generations : bound(g) = Passed) <=>
           bound("authoritative") = Passed /\ bound("discovery") = Passed
      /\ (\A s \in Sides : cross(s) = Passed) <=>
           cross("reference") = Passed /\ cross("candidate") = Passed
  BY DEF Generations, Sides
<1> HIDE DEF bound, cross
<1>4. /\ ClassifiedAs(Sources(given), SourceStatuses)
      /\ Sources(given) = Passed <=> /\ \A g \in Generations : bound(g) = Passed
                                     /\ \A s \in Sides : cross(s) = Passed
  BY ONLY <1>1, <1>2, <1>3, FirstOf4
<1> QED
  BY <1>4 DEF bound, cross

LEMMA LineageReads ==
    ASSUME NEW given
    PROVE  /\ ClassifiedAs(Lineage(given), LineageStatuses)
           /\ Lineage(given) = Passed <=>
                /\ \A g \in Generations : /\ ArtifactCoherence(given, g) = Passed
                                          /\ ParentBinding(given.artifact[g]) = Passed
                /\ given.artifact["authoritative"].status \notin BlockedByPass3
                /\ Pass2Binding(given.artifact["authoritative"],
                                given.pass2["authoritative"]) = Passed
                /\ \/ given.pass2["discovery"] = None
                   \/ Pass2Binding(given.artifact["discovery"],
                                   given.pass2["discovery"]) = Passed
<1> DEFINE discovery     == given.artifact["discovery"]
           authoritative == given.artifact["authoritative"]
           blocked == authoritative.status \notin BlockedByPass3
           gate    == Demand(blocked, "parent_status_blocked")
           status  == FirstRefusal(<<gate>>)
           absent  == given.pass2["discovery"] = None
           binds   == Pass2Binding(discovery, given.pass2["discovery"])
           pass2   == IF absent THEN Passed ELSE binds
           coheres(g) == ArtifactCoherence(given, g)
           bound   == Pass2Binding(authoritative, given.pass2["authoritative"])
           parent(g) == ParentBinding(given.artifact[g])
<1>1. Lineage(given) =
        FirstOf(<< coheres("discovery"), coheres("authoritative"), status, bound, pass2,
                   parent("discovery"), parent("authoritative") >>)
  BY DEF Lineage
<1>2. ClassifiedAs(status, LineageStatuses) /\ (status = Passed <=> blocked)
  <2> HIDE DEF blocked
  <2>1. IsGate(gate, blocked, LineageStatuses)
    BY DemandsAre
  <2> HIDE DEF gate
  <2> QED
    BY ONLY <2>1, PassedIsClassified, FirstRefusal1 DEF IsGate
<1>3. /\ \A g : ClassifiedAs(coheres(g), LineageStatuses)
      /\ \A g : ClassifiedAs(parent(g), LineageStatuses)
      /\ ClassifiedAs(bound, LineageStatuses) /\ ClassifiedAs(binds, LineageStatuses)
  BY ArtifactCoherenceReads, ParentBindingReads, Pass2BindingReads
<1>4. /\ ClassifiedAs(pass2, LineageStatuses)
      /\ pass2 = Passed <=> absent \/ binds = Passed
  BY <1>3, PassedIsClassified
<1>5. (\A g \in Generations : coheres(g) = Passed /\ parent(g) = Passed) <=>
        /\ coheres("discovery") = Passed /\ coheres("authoritative") = Passed
        /\ parent("discovery") = Passed /\ parent("authoritative") = Passed
  BY DEF Generations
<1> HIDE DEF blocked, status, absent, binds, pass2, coheres, bound, parent
<1>6. /\ ClassifiedAs(Lineage(given), LineageStatuses)
      /\ Lineage(given) = Passed <=>
           /\ \A g \in Generations : coheres(g) = Passed /\ parent(g) = Passed
           /\ blocked /\ bound = Passed /\ (absent \/ binds = Passed)
  BY ONLY <1>1, <1>2, <1>3, <1>4, <1>5, FirstOf7
<1> QED
  BY <1>6 DEF blocked, absent, binds, coheres, bound, parent

-------------------------------------------------------------------------------
(* The readers of gates 6 to 8: a refusal names a reason of its status, and a *)
(* reader passes just when its gates do.                                     *)
StageStatuses == {"source_binding_inconsistent", "unsupported_intra_layer_layout",
                  "checkpoint_summary_malformed", "checkpoint_alignment_inconsistent"}
ComparisonStatuses == {"checkpoint_alignment_inconsistent", "comparison_policy_unavailable"}

LEMMA StageGatesAre ==
    \A c : /\ IsGate(Gate(c, "source_binding_inconsistent", "trace_sha_mismatch"),
                     c, StageStatuses)
           /\ IsGate(Gate(c, "unsupported_intra_layer_layout",
                          "intra_layout_or_taxonomy_unsupported"), c, StageStatuses)
           /\ IsGate(Gate(c, "unsupported_intra_layer_layout",
                          "requested_stage_set_unsupported"), c, StageStatuses)
           /\ IsGate(SummaryDemand(c, "coverage_partition_malformed"), c, StageStatuses)
           /\ IsGate(SummaryDemand(c, "duplicate_or_out_of_order_coordinate"), c, StageStatuses)
           /\ IsGate(SummaryDemand(c, "digest_field_malformed"), c, StageStatuses)
           /\ IsGate(SummaryDemand(c, "summary_field_malformed"), c, StageStatuses)
           /\ IsGate(SummaryDemand(c, "prohibited_payload_present"), c, StageStatuses)
BY DEF SummaryDemand, Gate, IsGate, ClassifiedAs, StageStatuses, ReasonsOf, Passed

LEMMA AlignmentGatesAre ==
    \A c : /\ IsGate(Gate(c, "checkpoint_alignment_inconsistent", "step_alignment_mismatch"),
                     c, StageStatuses)
           /\ IsGate(Gate(c, "checkpoint_alignment_inconsistent", "layer_alignment_mismatch"),
                     c, StageStatuses)
           /\ IsGate(Gate(c, "checkpoint_alignment_inconsistent",
                          "phase_or_position_alignment_mismatch"), c, StageStatuses)
BY DEF Gate, IsGate, ClassifiedAs, StageStatuses, ReasonsOf, Passed

LEMMA ComparisonGatesAre ==
    \A c : /\ IsGate(Gate(c, "checkpoint_alignment_inconsistent",
                          "shape_or_count_alignment_mismatch"), c, ComparisonStatuses)
           /\ IsGate(Gate(c, "checkpoint_alignment_inconsistent",
                          "dtype_or_precision_alignment_mismatch"), c, ComparisonStatuses)
           /\ IsGate(Gate(c, "comparison_policy_unavailable", "digest_contract_unknown"),
                     c, ComparisonStatuses)
BY DEF Gate, IsGate, ClassifiedAs, ComparisonStatuses, ReasonsOf, Passed

LEMMA NoStagesReads ==
    /\ ClassifiedAs(StageLayout(None), StageStatuses)
    /\ StageLayout(None) # Passed
<1> DEFINE a == Gate(FALSE, "unsupported_intra_layer_layout",
                     "intra_layout_or_taxonomy_unsupported")
<1>1. StageLayout(None) = FirstRefusal(<<a>>)
  BY DEF StageLayout
<1>2. IsGate(a, FALSE, StageStatuses)
  BY StageGatesAre
<1> HIDE DEF a
<1> QED
  BY ONLY <1>1, <1>2, FirstRefusal1 DEF IsGate

LEMMA TraceIdentityReads ==
    ASSUME NEW outcomeGiven, NEW s, NEW trace
    PROVE  /\ ClassifiedAs(TraceIdentity(outcomeGiven, s, trace), StageStatuses)
           /\ TraceIdentity(outcomeGiven, s, trace) = Passed <=>
                /\ trace = outcomeGiven.bindings[s].trace
<1> DEFINE same == trace = outcomeGiven.bindings[s].trace
           a == Gate(same, "source_binding_inconsistent", "trace_sha_mismatch")
<1>1. TraceIdentity(outcomeGiven, s, trace) = FirstRefusal(<<a>>)
  BY DEF TraceIdentity
<1> HIDE DEF same
<1>2. /\ IsGate(a, same, StageStatuses)
  BY StageGatesAre
<1> HIDE DEF a
<1>3. /\ ClassifiedAs(TraceIdentity(outcomeGiven, s, trace), StageStatuses)
      /\ TraceIdentity(outcomeGiven, s, trace) = Passed <=> same
  BY ONLY <1>1, <1>2, PassedIsClassified, FirstRefusal1 DEF IsGate
<1> QED
  BY <1>3 DEF same

LEMMA LayoutReads ==
    ASSUME NEW intra, intra # None
    PROVE  /\ ClassifiedAs(StageLayout(intra), StageStatuses)
           /\ StageLayout(intra) = Passed <=>
                /\ intra.supported
                /\ intra.step >= 1 /\ intra.layer >= 0 /\ intra.position >= 0
                /\ StagesInOrder(intra.requested) /\ StagesInOrder(intra.captured)
                /\ \A i \in DOMAIN intra.missing : intra.missing[i].state # "captured"
                /\ StagesInOrder(CoordinatesOf(intra.missing))
                /\ intra.requested = RequestedStages(intra.step, intra.layer, intra.position)
                /\ intra.contract # Malformed
                /\ IsStagePartition(intra.requested, intra.captured, intra.missing)
<1> DEFINE known == intra.supported
           placed == intra.step >= 1 /\ intra.layer >= 0 /\ intra.position >= 0
           ordered == StagesInOrder(intra.requested) /\ StagesInOrder(intra.captured)
           missed == \A i \in DOMAIN intra.missing : intra.missing[i].state # "captured"
           others == StagesInOrder(CoordinatesOf(intra.missing))
           whole == intra.requested = RequestedStages(intra.step, intra.layer, intra.position)
           digested == intra.contract # Malformed
           parted == IsStagePartition(intra.requested, intra.captured, intra.missing)
           a == Gate(known, "unsupported_intra_layer_layout",
                     "intra_layout_or_taxonomy_unsupported")
           b == SummaryDemand(placed, "coverage_partition_malformed")
           c == SummaryDemand(ordered, "duplicate_or_out_of_order_coordinate")
           d == SummaryDemand(missed, "coverage_partition_malformed")
           e == SummaryDemand(others, "duplicate_or_out_of_order_coordinate")
           f == Gate(whole, "unsupported_intra_layer_layout", "requested_stage_set_unsupported")
           h == SummaryDemand(digested, "digest_field_malformed")
           l == SummaryDemand(parted, "coverage_partition_malformed")
<1>1. StageLayout(intra) = FirstRefusal(<<a, b, c, d, e, f, h, l>>)
  BY DEF StageLayout
<1> HIDE DEF known, placed, ordered, missed, others, whole, digested, parted
<1>2. /\ IsGate(a, known, StageStatuses)
      /\ IsGate(b, placed, StageStatuses)
      /\ IsGate(c, ordered, StageStatuses)
      /\ IsGate(d, missed, StageStatuses)
      /\ IsGate(e, others, StageStatuses)
      /\ IsGate(f, whole, StageStatuses)
      /\ IsGate(h, digested, StageStatuses)
      /\ IsGate(l, parted, StageStatuses)
  BY StageGatesAre
<1> HIDE DEF a, b, c, d, e, f, h, l
<1>3. /\ ClassifiedAs(StageLayout(intra), StageStatuses)
      /\ StageLayout(intra) = Passed <=> known /\ placed /\ ordered /\ missed /\ others /\ whole /\ digested /\ parted
  BY ONLY <1>1, <1>2, PassedIsClassified, FirstRefusal8 DEF IsGate
<1> QED
  BY <1>3 DEF known, placed, ordered, missed, others, whole, digested, parted

LEMMA TargetReads ==
    ASSUME NEW intra, NEW target
    PROVE  /\ ClassifiedAs(StageTarget(intra, target), StageStatuses)
           /\ StageTarget(intra, target) = Passed <=>
                /\ intra.step = target.step
                /\ intra.layer = target.layer
<1> DEFINE step == intra.step = target.step
           layer == intra.layer = target.layer
           a == Gate(step, "checkpoint_alignment_inconsistent", "step_alignment_mismatch")
           b == Gate(layer, "checkpoint_alignment_inconsistent", "layer_alignment_mismatch")
<1>1. StageTarget(intra, target) = FirstRefusal(<<a, b>>)
  BY DEF StageTarget
<1> HIDE DEF step, layer
<1>2. /\ IsGate(a, step, StageStatuses)
      /\ IsGate(b, layer, StageStatuses)
  BY AlignmentGatesAre
<1> HIDE DEF a, b
<1>3. /\ ClassifiedAs(StageTarget(intra, target), StageStatuses)
      /\ StageTarget(intra, target) = Passed <=> step /\ layer
  BY ONLY <1>1, <1>2, PassedIsClassified, FirstRefusal2 DEF IsGate
<1> QED
  BY <1>3 DEF step, layer

LEMMA LayoutsRead ==
    ASSUME NEW proceeding, NEW traces
    PROVE  LET ref  == traces["reference"].intra
               cand == traces["candidate"].intra
           IN  /\ ClassifiedAs(StageLayouts(proceeding, traces), StageStatuses)
               /\ StageLayouts(proceeding, traces) = Passed <=>
                    /\ StageLayout(ref) = Passed /\ StageLayout(cand) = Passed
                    /\ ref.requested = cand.requested
                    /\ StageTarget(ref, proceeding.target) = Passed
                    /\ StageTarget(cand, proceeding.target) = Passed
<1> DEFINE ref  == traces["reference"].intra
           cand == traces["candidate"].intra
           a == StageLayout(ref)
           b == StageLayout(cand)
           same == ref.requested = cand.requested
           g == Gate(same, "unsupported_intra_layer_layout", "requested_stage_set_unsupported")
           c == FirstRefusal(<<g>>)
           d == StageTarget(ref, proceeding.target)
           e == StageTarget(cand, proceeding.target)
           layouts == FirstOf(<<a, b>>)
           targets == FirstOf(<<c, d, e>>)
           answer == StageLayouts(proceeding, traces)
<1>1. answer = IF layouts # Passed THEN layouts ELSE targets
  BY DEF StageLayouts
<1>2. ClassifiedAs(a, StageStatuses) /\ ClassifiedAs(b, StageStatuses)
  BY LayoutReads, NoStagesReads
<1>3. ClassifiedAs(d, StageStatuses) /\ ClassifiedAs(e, StageStatuses)
  BY TargetReads
<1>4. ClassifiedAs(c, StageStatuses) /\ (c = Passed <=> same)
  <2> HIDE DEF same
  <2>1. IsGate(g, same, StageStatuses)
    BY StageGatesAre
  <2> HIDE DEF g
  <2> QED
    BY ONLY <2>1, FirstRefusal1, PassedIsClassified DEF IsGate, c
<1>5. /\ layouts = (IF a # Passed THEN a ELSE b)
      /\ targets = (IF c # Passed THEN c ELSE IF d # Passed THEN d ELSE e)
  <2> HIDE DEF a, b, c, d, e
  <2> QED
    BY FirstOf2, FirstOf3
<1> HIDE DEF a, b, c, d, e, layouts, targets, answer, same
<1>6. /\ ClassifiedAs(answer, StageStatuses)
      /\ answer = Passed <=> /\ a = Passed /\ b = Passed /\ same /\ d = Passed /\ e = Passed
  BY ONLY <1>1, <1>2, <1>3, <1>4, <1>5
<1> QED
  BY <1>6 DEF a, b, d, e, same, answer

LEMMA EntryReads ==
    ASSUME NEW entry
    PROVE  /\ ClassifiedAs(StageEntry(entry), StageStatuses)
           /\ StageEntry(entry) = Passed <=>
                /\ entry.wellformed
                /\ entry.phase = StagePhase
                /\ entry.digest # Malformed
<1> DEFINE wellformed == entry.wellformed
           phased == entry.phase = StagePhase
           digested == entry.digest # Malformed
           a == SummaryDemand(wellformed, "summary_field_malformed")
           b == Gate(phased, "checkpoint_alignment_inconsistent",
                     "phase_or_position_alignment_mismatch")
           c == SummaryDemand(digested, "digest_field_malformed")
<1>1. StageEntry(entry) = FirstRefusal(<<a, b, c>>)
  BY DEF StageEntry
<1> HIDE DEF wellformed, phased, digested
<1>2. /\ IsGate(a, wellformed, StageStatuses)
      /\ IsGate(b, phased, StageStatuses)
      /\ IsGate(c, digested, StageStatuses)
  BY StageGatesAre, AlignmentGatesAre
<1> HIDE DEF a, b, c
<1>3. /\ ClassifiedAs(StageEntry(entry), StageStatuses)
      /\ StageEntry(entry) = Passed <=> wellformed /\ phased /\ digested
  BY ONLY <1>1, <1>2, PassedIsClassified, FirstRefusal3 DEF IsGate
<1> QED
  BY <1>3 DEF wellformed, phased, digested

LEMMA EntriesRead ==
    ASSUME NEW intra, DOMAIN intra.entries \subseteq Nat
    PROVE  /\ ClassifiedAs(StageEntries(intra), StageStatuses)
           /\ StageEntries(intra) = Passed <=>
                /\ intra.payload = "none" /\ intra.wellformed
                /\ \A i \in DOMAIN intra.entries : StageEntry(intra.entries[i]) = Passed
                /\ StagesInOrder(CoordinatesOf(intra.entries))
                /\ CoordinatesOf(intra.entries) = intra.captured
<1> DEFINE at == CoordinatesOf(intra.entries)
           bare == intra.payload = "none"
           wellformed == intra.wellformed
           ordered == StagesInOrder(at)
           same == at = intra.captured
           f == SummaryDemand(bare, "prohibited_payload_present")
           g == SummaryDemand(wellformed, "summary_field_malformed")
           h == SummaryDemand(ordered, "duplicate_or_out_of_order_coordinate")
           l == SummaryDemand(same, "coverage_partition_malformed")
           a == FirstRefusal(<<f, g>>)
           each == [i \in DOMAIN intra.entries |-> StageEntry(intra.entries[i])]
           b == FirstOf(each)
           c == FirstRefusal(<<h, l>>)
           answer == StageEntries(intra)
           all == \A i \in DOMAIN intra.entries : StageEntry(intra.entries[i]) = Passed
<1>1. answer = FirstOf(<<a, b, c>>)
  BY DEF StageEntries, EachInTurn
<1>2. ClassifiedAs(a, StageStatuses) /\ (a = Passed <=> bare /\ wellformed)
  <2> HIDE DEF bare, wellformed
  <2>1. IsGate(f, bare, StageStatuses) /\ IsGate(g, wellformed, StageStatuses)
    BY StageGatesAre
  <2> HIDE DEF f, g
  <2> QED
    BY ONLY <2>1, FirstRefusal2, PassedIsClassified DEF IsGate, a
<1>3. ClassifiedAs(c, StageStatuses) /\ (c = Passed <=> ordered /\ same)
  <2> HIDE DEF ordered, same
  <2>1. IsGate(h, ordered, StageStatuses) /\ IsGate(l, same, StageStatuses)
    BY StageGatesAre
  <2> HIDE DEF h, l
  <2> QED
    BY ONLY <2>1, FirstRefusal2, PassedIsClassified DEF IsGate, c
<1>4. ClassifiedAs(b, StageStatuses) /\ (b = Passed <=> all)
  <2>1. DOMAIN each = DOMAIN intra.entries
        /\ \A i \in DOMAIN each : each[i] = StageEntry(intra.entries[i])
    OBVIOUS
  <2>2. \A i \in DOMAIN each : ClassifiedAs(each[i], StageStatuses)
    BY EntryReads
  <2> HIDE DEF each
  <2>3. \/ b = Passed /\ \A i \in DOMAIN each : each[i] = Passed
        \/ \E i \in DOMAIN each : b = each[i] /\ each[i] # Passed
    BY <2>1, FirstOfIs
  <2> HIDE DEF b
  <2> QED
    BY <2>1, <2>2, <2>3, PassedIsClassified
<1> HIDE DEF a, b, c, bare, wellformed, ordered, same, all, answer
<1>5. answer = (IF a # Passed THEN a ELSE IF b # Passed THEN b ELSE c)
  BY <1>1, FirstOf3
<1>6. /\ ClassifiedAs(answer, StageStatuses)
      /\ answer = Passed <=> bare /\ wellformed /\ all /\ ordered /\ same
  BY ONLY <1>2, <1>3, <1>4, <1>5
<1> QED
  BY <1>6 DEF answer, bare, wellformed, all, ordered, same

LEMMA ParseReads ==
    ASSUME NEW proceeding, NEW traces,
           \A s \in Sides : traces[s].intra # None =>
                                DOMAIN traces[s].intra.entries \subseteq Nat
    PROVE  /\ ClassifiedAs(ParseStages(proceeding, traces), StageStatuses)
           /\ ParseStages(proceeding, traces) = Passed <=>
                /\ \A s \in Sides : TraceIdentity(proceeding, s, traces[s]) = Passed
                /\ StageLayouts(proceeding, traces) = Passed
                /\ \A s \in Sides : StageEntries(traces[s].intra) = Passed
<1> DEFINE a == TraceIdentity(proceeding, "reference", traces["reference"])
           b == TraceIdentity(proceeding, "candidate", traces["candidate"])
           identities == FirstOf(<<a, b>>)
           layouts == StageLayouts(proceeding, traces)
           c == StageEntries(traces["reference"].intra)
           d == StageEntries(traces["candidate"].intra)
           entries == FirstOf(<<c, d>>)
           answer == ParseStages(proceeding, traces)
<1>1. answer = IF identities # Passed THEN identities ELSE IF layouts # Passed THEN layouts
               ELSE entries
  BY DEF ParseStages
<1>2. ClassifiedAs(a, StageStatuses) /\ ClassifiedAs(b, StageStatuses)
  BY TraceIdentityReads
<1>3. ClassifiedAs(layouts, StageStatuses)
  BY LayoutsRead
<1>4. layouts = Passed => ClassifiedAs(c, StageStatuses) /\ ClassifiedAs(d, StageStatuses)
  <2> SUFFICES ASSUME layouts = Passed
               PROVE  ClassifiedAs(c, StageStatuses) /\ ClassifiedAs(d, StageStatuses)
    OBVIOUS
  <2>1. StageLayout(traces["reference"].intra) = Passed
        /\ StageLayout(traces["candidate"].intra) = Passed
    BY LayoutsRead
  <2>2. traces["reference"].intra # None /\ traces["candidate"].intra # None
    BY <2>1, NoStagesReads
  <2>3. /\ DOMAIN traces["reference"].intra.entries \subseteq Nat
        /\ DOMAIN traces["candidate"].intra.entries \subseteq Nat
    BY <2>2 DEF Sides
  <2> QED
    BY <2>3, EntriesRead
<1>5. /\ identities = (IF a # Passed THEN a ELSE b)
      /\ entries = (IF c # Passed THEN c ELSE d)
  <2> HIDE DEF a, b, c, d
  <2> QED
    BY FirstOf2
<1>6. /\ (\A s \in Sides : TraceIdentity(proceeding, s, traces[s]) = Passed)
           <=> a = Passed /\ b = Passed
      /\ (\A s \in Sides : StageEntries(traces[s].intra) = Passed) <=> c = Passed /\ d = Passed
  BY DEF Sides
<1> HIDE DEF a, b, c, d, identities, entries, layouts, answer
<1>7. /\ ClassifiedAs(answer, StageStatuses)
      /\ answer = Passed <=> /\ a = Passed /\ b = Passed /\ layouts = Passed
                             /\ c = Passed /\ d = Passed
  BY ONLY <1>1, <1>2, <1>3, <1>4, <1>5
<1> QED
  BY <1>6, <1>7 DEF answer, layouts

LEMMA AlignmentReads ==
    ASSUME NEW reference, NEW candidate, NEW coordinate
    PROVE  /\ ClassifiedAs(StageAlignment(reference, candidate, coordinate), ComparisonStatuses)
           /\ StageAlignment(reference, candidate, coordinate) = Passed <=>
                /\ EntryAt(reference, coordinate).shape = EntryAt(candidate, coordinate).shape
                /\ EntryAt(reference, coordinate).precision
                   = EntryAt(candidate, coordinate).precision
<1> DEFINE shaped == EntryAt(reference, coordinate).shape = EntryAt(candidate, coordinate).shape
           precise == EntryAt(reference, coordinate).precision
                      = EntryAt(candidate, coordinate).precision
           a == Gate(shaped, "checkpoint_alignment_inconsistent", "shape_or_count_alignment_mismatch")
           b == Gate(precise, "checkpoint_alignment_inconsistent",
                     "dtype_or_precision_alignment_mismatch")
<1>1. StageAlignment(reference, candidate, coordinate) = FirstRefusal(<<a, b>>)
  BY DEF StageAlignment
<1> HIDE DEF shaped, precise
<1>2. /\ IsGate(a, shaped, ComparisonStatuses)
      /\ IsGate(b, precise, ComparisonStatuses)
  BY ComparisonGatesAre
<1> HIDE DEF a, b
<1>3. /\ ClassifiedAs(StageAlignment(reference, candidate, coordinate), ComparisonStatuses)
      /\ StageAlignment(reference, candidate, coordinate) = Passed <=> shaped /\ precise
  BY ONLY <1>1, <1>2, PassedIsClassified, FirstRefusal2 DEF IsGate
<1> QED
  BY <1>3 DEF shaped, precise

LEMMA PolicyReads ==
    ASSUME NEW reference, NEW candidate
    PROVE  /\ ClassifiedAs(StagePolicy(reference, candidate), ComparisonStatuses)
           /\ StagePolicy(reference, candidate) = Passed <=>
                /\ reference.contract = StageDigest /\ candidate.contract = StageDigest
<1> DEFINE known == reference.contract = StageDigest /\ candidate.contract = StageDigest
           a == Gate(known, "comparison_policy_unavailable", "digest_contract_unknown")
<1>1. StagePolicy(reference, candidate) = FirstRefusal(<<a>>)
  BY DEF StagePolicy
<1> HIDE DEF known
<1>2. /\ IsGate(a, known, ComparisonStatuses)
  BY ComparisonGatesAre
<1> HIDE DEF a
<1>3. /\ ClassifiedAs(StagePolicy(reference, candidate), ComparisonStatuses)
      /\ StagePolicy(reference, candidate) = Passed <=> known
  BY ONLY <1>1, <1>2, PassedIsClassified, FirstRefusal1 DEF IsGate
<1> QED
  BY <1>3 DEF known

-------------------------------------------------------------------------------
(* The stages of one layer in their order, and what is picked out of them.   *)
LEMMA PickedIs ==
    ASSUME NEW N \in Nat, NEW cs, DOMAIN cs = 1 .. N, NEW P \in SUBSET (1 .. N)
    PROVE  LET M == Cardinality(P)
               a == Ascending(P)
           IN  /\ M \in Nat /\ Picked(cs, P) = [m \in 1 .. M |-> cs[a[m]]]
               /\ \A m \in 1 .. M : a[m] \in P /\ a[m] \in 1 .. N
               /\ \A p \in P : \E m \in 1 .. M : a[m] = p
               /\ \A l, m \in 1 .. M : l < m => a[l] < a[m]
<1> DEFINE M == Cardinality(P)
           a == Ascending(P)
<1>1. P \in SUBSET Int /\ IsFiniteSet(P)
  <2>1. IsFiniteSet(1 .. N)
    BY FS_Interval
  <2>2. \A i \in 1 .. N : i \in Int
    OBVIOUS
  <2> QED
    BY <2>1, <2>2, FS_Subset
<1>2. /\ M \in Nat /\ a \in [1 .. M -> P]
      /\ \A x \in P : \E n \in 1 .. M : a[n] = x
      /\ \A m, n \in 1 .. M : m < n => a[m] < a[n]
  BY <1>1, AscendingIs
<1>3. Picked(cs, P) = [m \in DOMAIN a |-> cs[a[m]]]
  BY DEF Picked
<1> HIDE DEF a, M
<1> QED
  BY <1>2, <1>3 DEF a, M

IsStages(cs, intra) ==
    \E N \in Nat :
      /\ cs = [i \in 1 .. N |-> cs[i]]
      /\ \A i \in 1 .. N :
            /\ cs[i].stage \in StageIds
            /\ cs[i] = StageCoordinate(intra.step, intra.layer, intra.position, cs[i].stage)
      /\ \A i, j \in 1 .. N : i < j => cs[i].stage < cs[j].stage

LEMMA PickedStages ==
    ASSUME NEW intra, NEW cs, IsStages(cs, intra), NEW P \in SUBSET DOMAIN cs
    PROVE  IsStages(Picked(cs, P), intra)
<1>1. PICK N \in Nat :
        /\ cs = [i \in 1 .. N |-> cs[i]]
        /\ \A i \in 1 .. N :
            /\ cs[i].stage \in StageIds
            /\ cs[i] = StageCoordinate(intra.step, intra.layer, intra.position, cs[i].stage)
        /\ \A i, j \in 1 .. N : i < j => cs[i].stage < cs[j].stage
  BY DEF IsStages
<1> DEFINE M == Cardinality(P)
           a == Ascending(P)
           picked == Picked(cs, P)
<1>2. DOMAIN cs = 1 .. N
  BY <1>1
<1>3. /\ M \in Nat /\ picked = [m \in 1 .. M |-> cs[a[m]]]
      /\ \A m \in 1 .. M : a[m] \in 1 .. N
      /\ \A l, m \in 1 .. M : l < m => a[l] < a[m]
  BY <1>2, PickedIs
<1> HIDE DEF M, a, picked
<1>4. picked = [m \in 1 .. M |-> picked[m]] /\ \A m \in 1 .. M : picked[m] = cs[a[m]]
  BY <1>3
<1>5. \A m \in 1 .. M :
        /\ picked[m].stage \in StageIds
        /\ picked[m] = StageCoordinate(intra.step, intra.layer, intra.position,
                                       picked[m].stage)
  BY <1>1, <1>3, <1>4
<1>6. \A l, m \in 1 .. M : l < m => picked[l].stage < picked[m].stage
  BY <1>1, <1>3, <1>4
<1>7. IsStages(picked, intra)
  BY <1>3, <1>4, <1>5, <1>6 DEF IsStages
<1> QED
  BY <1>7 DEF picked

LEMMA RequestedAre ==
    ASSUME NEW intra
    PROVE  IsStages(RequestedStages(intra.step, intra.layer, intra.position), intra)
<1> DEFINE cs == RequestedStages(intra.step, intra.layer, intra.position)
<1>1. StageCount \in Nat
  BY StageCountAssumption
<1>2. cs = [i \in 1 .. StageCount |->
              StageCoordinate(intra.step, intra.layer, intra.position, i - 1)]
  BY DEF RequestedStages
<1> HIDE DEF cs
<1>3. \A i \in 1 .. StageCount : cs[i].stage = i - 1 /\ i - 1 \in StageIds
  BY <1>1, <1>2 DEF StageCoordinate, StageIds
<1>4. \A i \in 1 .. StageCount :
        cs[i] = StageCoordinate(intra.step, intra.layer, intra.position, cs[i].stage)
  BY <1>2, <1>3
<1>5. cs = [i \in 1 .. StageCount |-> cs[i]]
  BY <1>2
<1>6. \A i, j \in 1 .. StageCount : i < j => cs[i].stage < cs[j].stage
  BY <1>1, <1>3
<1>7. IsStages(cs, intra)
  BY <1>1, <1>3, <1>4, <1>5, <1>6 DEF IsStages
<1> QED
  BY <1>7 DEF cs

\* A layout that is accepted names stages of its layer, in their order.
LEMMA CapturedAre ==
    ASSUME NEW intra, intra # None, StageLayout(intra) = Passed
    PROVE  /\ intra.requested = RequestedStages(intra.step, intra.layer, intra.position)
           /\ IsStages(intra.captured, intra)
           /\ \A kept : IsStages(OnlyThose(intra.captured, kept), intra)
<1>1. /\ intra.requested = RequestedStages(intra.step, intra.layer, intra.position)
      /\ IsStagePartition(intra.requested, intra.captured, intra.missing)
  BY LayoutReads
<1>2. IsStages(intra.requested, intra)
  BY <1>1, RequestedAre
<1>3. \A cs, kept : IsStages(cs, intra) => IsStages(OnlyThose(cs, kept), intra)
  <2> SUFFICES ASSUME NEW cs, NEW kept, IsStages(cs, intra)
               PROVE  IsStages(OnlyThose(cs, kept), intra)
    OBVIOUS
  <2> DEFINE P == {i \in DOMAIN cs : cs[i] \in kept}
  <2>1. P \in SUBSET DOMAIN cs
    OBVIOUS
  <2>2. OnlyThose(cs, kept) = Picked(cs, P)
    BY DEF OnlyThose
  <2> HIDE DEF P
  <2> QED
    BY <2>1, <2>2, PickedStages
<1>4. intra.captured = OnlyThose(intra.requested, ToSet(intra.captured))
  BY <1>1 DEF IsStagePartition
<1>5. IsStages(intra.captured, intra)
  BY <1>2, <1>3, <1>4
<1> QED
  BY <1>1, <1>3, <1>5

\* What stages in their order are: the one before precedes, each is one object.
LEMMA StagesSay ==
    ASSUME NEW intra, NEW cs, IsStages(cs, intra), intra.step \in Int, intra.layer \in Int
    PROVE  /\ Len(cs) \in Nat /\ DOMAIN cs = 1 .. Len(cs)
           /\ cs # <<>> => Len(cs) >= 1
           /\ \A i \in DOMAIN cs :
                /\ cs[i] # None /\ cs[i].stage \in StageIds /\ cs[i].stage \in Int
                /\ cs[i].step = intra.step /\ cs[i].layer = intra.layer
           /\ \A i, j \in DOMAIN cs : i < j => /\ cs[i].stage < cs[j].stage
                                               /\ StagePrecedes(cs[i], cs[j])
<1>1. PICK N \in Nat :
        /\ cs = [i \in 1 .. N |-> cs[i]]
        /\ \A i \in 1 .. N :
            /\ cs[i].stage \in StageIds
            /\ cs[i] = StageCoordinate(intra.step, intra.layer, intra.position, cs[i].stage)
        /\ \A i, j \in 1 .. N : i < j => cs[i].stage < cs[j].stage
  BY DEF IsStages
<1>2. Len(cs) = N /\ DOMAIN cs = 1 .. N
  BY <1>1
<1>3. \A c : /\ StageCoordinate(intra.step, intra.layer, intra.position, c) # None
             /\ StageCoordinate(intra.step, intra.layer, intra.position, c).step = intra.step
             /\ StageCoordinate(intra.step, intra.layer, intra.position, c).layer = intra.layer
  BY DEF StageCoordinate, None
<1>4. \A i \in 1 .. N : /\ cs[i] # None /\ cs[i].stage \in StageIds
                        /\ cs[i].step = intra.step /\ cs[i].layer = intra.layer
  BY <1>1, <1>3
<1>5. StageIds \subseteq Int
  BY StageCountAssumption DEF StageIds
<1>6. \A i, j \in 1 .. N : i < j => StagePrecedes(cs[i], cs[j])
  BY <1>1, <1>4 DEF StagePrecedes
<1>7. cs # <<>> => N >= 1
  BY <1>1
<1> QED
  BY <1>1, <1>2, <1>4, <1>5, <1>6, <1>7

-------------------------------------------------------------------------------
(* The constructor of Pass4Result accepts what gates 6 to 8 build of an      *)
(* outcome that proceeds.                                                   *)
IsProceeding(o) ==
    /\ o.parent # None /\ o.parent.classification = "eligible"
    /\ o.parent.localization.mismatch # None
    /\ \A s \in Sides : o.bindings[s] # None
    /\ o.target.step = o.parent.step /\ o.target.layer = o.parent.layer
    /\ o.target.step \in Nat \ {0} /\ o.target.layer \in Nat

\* What a refusal of gate 8 keeps: the target, and what was captured.
IsCovered(o, stages) ==
    /\ stages.target # NoTarget /\ stages.coverage # None
    /\ stages.target.step = o.target.step /\ stages.target.layer = o.target.layer
    /\ stages.coverage.requested =
         RequestedStages(stages.target.step, stages.target.layer, stages.target.position)

ComparesNothing(stages) ==
    /\ stages.comparisons = <<>> /\ stages.interval = None /\ stages.mismatch = None
    /\ stages.closing = None /\ stages.last = None

RefusalsOfStages == StageStatuses \cup ComparisonStatuses \cup
    {"insufficient_common_intra_layer_coverage"}

LEMMA Pass4ResultIs ==
    ASSUME NEW o, NEW refusal, NEW stages
    PROVE  LET x == Pass4Result(o, refusal, stages) IN
           /\ x.status = refusal.status /\ x.reasons = <<refusal.reason>>
           /\ x.disposition = DispositionOf(refusal.status)
           /\ x.parent = o.parent /\ x.bindings = o.bindings /\ x.stages = stages
BY DEF Pass4Result

LEMMA OneReasonIs ==
    \A reason : /\ IsInjective(<<reason>>) /\ <<reason>>[1] = reason
                /\ ToSet(<<reason>>) = {reason}
<1> SUFFICES ASSUME NEW reason
             PROVE  /\ IsInjective(<<reason>>) /\ <<reason>>[1] = reason
                    /\ ToSet(<<reason>>) = {reason}
  OBVIOUS
<1>1. IsInjective(<<reason>>) /\ <<reason>>[1] = reason
  BY OneReasonIsDistinct
<1>2. DOMAIN <<reason>> = {1}
  OBVIOUS
<1>3. ToSet(<<reason>>) = {<<reason>>[i] : i \in DOMAIN <<reason>>}
  BY DEF ToSet
<1> QED
  BY <1>1, <1>2, <1>3

LEMMA OneMoreReason == \A a, b : Append(<<a>>, b) = <<a, b>>
<1> SUFFICES ASSUME NEW a, NEW b PROVE Append(<<a>>, b) = <<a, b>>
  OBVIOUS
<1> DEFINE S == {a, b}
<1>1. <<a>> \in Seq(S) /\ b \in S /\ Len(<<a>>) = 1
  OBVIOUS
<1>2. /\ Append(<<a>>, b) \in Seq(S) /\ Len(Append(<<a>>, b)) = 2
      /\ Append(<<a>>, b)[1] = a /\ Append(<<a>>, b)[2] = b
  BY <1>1, AppendProperties
<1>3. /\ <<a, b>> \in Seq(S) /\ Len(<<a, b>>) = 2
      /\ <<a, b>>[1] = a /\ <<a, b>>[2] = b
  OBVIOUS
<1> HIDE DEF S
<1>4. \A i \in 1 .. 2 : i = 1 \/ i = 2
  OBVIOUS
<1> QED
  BY <1>2, <1>3, <1>4, SeqEqual

LEMMA UnlocalizedIsValid ==
    ASSUME NEW o, IsProceeding(o), NEW refusal, refusal.status \in RefusalsOfStages,
           refusal.reason \in ReasonsOf(refusal.status),
           NEW stages, ComparesNothing(stages),
           \/ /\ stages = NoStages /\ refusal.status \notin AfterCoverage
           \/ /\ IsCovered(o, stages) /\ refusal.status \notin BeforeCoverage
              /\ (refusal.status = "insufficient_common_intra_layer_coverage") =
                 (stages.coverage.common = <<>>)
    PROVE  Pass4ResultIsValid(Pass4Result(o, refusal, stages))
<1> DEFINE x == Pass4Result(o, refusal, stages)
           status == refusal.status
<1>1. /\ x.status = status /\ x.reasons = <<refusal.reason>>
      /\ x.disposition = DispositionOf(status)
      /\ x.parent = o.parent /\ x.bindings = o.bindings /\ x.stages = stages
  BY Pass4ResultIs
<1>2. NoStages.target = NoTarget /\ NoStages.coverage = None
  BY DEF NoStages
<1> HIDE DEF x
<1>3. /\ status \notin Localizations /\ status \notin ParentFailures
      /\ Classification(status) = "eligible"
      /\ refusal.reason # "asymmetric_coverage_retained"
      /\ status \in AfterCoverage =>
           status \notin BeforeCoverage /\ status # "source_binding_inconsistent"
      /\ status = "source_binding_inconsistent" => status \in BeforeCoverage
  BY DEF RefusalsOfStages, StageStatuses, ComparisonStatuses, Localizations, ParentFailures, Classification,
         AfterCoverage, BeforeCoverage, ReasonsOf
<1>4. StatusIsCoherent(x)
  <2>1. /\ IsInjective(x.reasons) /\ x.reasons[1] = refusal.reason
        /\ "asymmetric_coverage_retained" \notin ToSet(x.reasons)
    BY <1>1, <1>3, OneReasonIs
  <2> QED
    BY <1>1, <2>1 DEF StatusIsCoherent
<1>5. KeepsItsEvidence(x)
  <2>1. /\ o.parent # None /\ \A s \in Sides : o.bindings[s] # None
    BY DEF IsProceeding
  <2>2. \/ /\ stages.target = NoTarget /\ stages.coverage = None /\ status \notin AfterCoverage
        \/ /\ stages.target # NoTarget /\ stages.coverage # None
           /\ status \notin BeforeCoverage
    BY <1>2 DEF IsCovered
  <2>3. /\ status # "observable_intra_layer_mismatch_found"
        /\ status # "mismatch_bounded_to_inherited_closing_boundary"
    BY <1>3 DEF Localizations
  <2> QED
    BY <1>1, <1>3, <2>1, <2>2, <2>3 DEF KeepsItsEvidence, ComparesNothing
<1>6. x.parent # None => x.parent.classification = Classification(x.status)
  BY <1>1, <1>3 DEF IsProceeding
<1>7. CoverageIsOfTarget(x)
  <2>1. stages.coverage # None => IsCovered(o, stages)
           /\ (status = "insufficient_common_intra_layer_coverage") =
              (stages.coverage.common = <<>>)
    BY <1>2
  <2> QED
    BY <1>1, <2>1 DEF CoverageIsOfTarget, IsCovered, IsProceeding
<1> QED
  BY <1>1, <1>3, <1>4, <1>5, <1>6, <1>7 DEF Pass4ResultIsValid, x

LEMMA ComparedStages ==
    ASSUME NEW reference, NEW candidate, NEW common, NEW n \in Nat, DOMAIN common = 1 .. n,
           Len(common) = n, common = [i \in 1 .. n |-> common[i]]
    PROVE  LET compared == StageComparisons(reference, candidate, common) IN
           /\ DOMAIN compared = 1 .. n /\ Len(compared) = n
           /\ CoordinatesOf(compared) = common
           /\ \A i \in 1 .. n : /\ compared[i].coordinate = common[i]
                                /\ compared[i].equivalent <=>
                                     EntryAt(reference, common[i]).digest
                                     = EntryAt(candidate, common[i]).digest
<1> DEFINE compared == StageComparisons(reference, candidate, common)
<1>1. compared = [i \in 1 .. n |->
        [coordinate |-> common[i],
         equivalent |-> EntryAt(reference, common[i]).digest
                      = EntryAt(candidate, common[i]).digest]]
  BY DEF StageComparisons
<1> HIDE DEF compared
<1>2. DOMAIN compared = 1 .. n /\ Len(compared) = n
  BY <1>1
<1>3. \A i \in 1 .. n : /\ compared[i].coordinate = common[i]
                        /\ compared[i].equivalent <=>
                             EntryAt(reference, common[i]).digest
                             = EntryAt(candidate, common[i]).digest
  BY <1>1
<1>4. CoordinatesOf(compared) = [i \in 1 .. n |-> common[i]]
  BY <1>2, <1>3 DEF CoordinatesOf
<1> QED
  BY <1>2, <1>3, <1>4 DEF compared

\* What a localization says, field by field.
LocalizedSays(o, at, x) ==
    LET common   == at.coverage.comparable
        compared == x.stages.comparisons
        n        == Len(common)
        differing == {i \in DOMAIN compared : ~compared[i].equivalent}
        first    == FirstIn(differing)
        parentMismatch == o.parent.localization.mismatch
    IN  /\ x.parent = o.parent /\ x.bindings = o.bindings
        /\ x.disposition = "suspect_interval_available"
        /\ x.stages.target = at.target /\ x.stages.coverage = at.coverage
        /\ DOMAIN compared = 1 .. n /\ Len(compared) = n /\ CoordinatesOf(compared) = common
        /\ \A i \in 1 .. n : compared[i].coordinate = common[i]
        /\ x.stages.interval =
             StageInterval(x.stages.last, x.stages.mismatch, common, parentMismatch)
        /\ \/ /\ differing = {}
              /\ x.status = "mismatch_bounded_to_inherited_closing_boundary"
              /\ x.stages.mismatch = None /\ x.stages.last = common[n]
              /\ x.stages.closing = parentMismatch
           \/ /\ differing # {} /\ first \in 1 .. n /\ \A i \in differing : first <= i
              /\ x.status = "observable_intra_layer_mismatch_found"
              /\ x.stages.mismatch = common[first]
              /\ x.stages.last = IF first = 1 THEN None ELSE common[first - 1]
              /\ x.stages.closing = None
        /\ x.reasons \in {<<r>> : r \in ReasonsOf(x.status)} \cup
             {<<r, "asymmetric_coverage_retained">> : r \in ReasonsOf(x.status)}
        /\ "asymmetric_coverage_retained" \in ToSet(x.reasons) =>
             AsymmetricStages(at.coverage)

StageFields == {"target", "coverage", "comparisons", "mismatch", "last", "closing", "interval"}

LEMMA LocalizationIs ==
    ASSUME NEW o, NEW at, DOMAIN at = StageFields, NEW reference, NEW candidate,
           NEW n \in Nat, n >= 1, DOMAIN at.coverage.comparable = 1 .. n,
           Len(at.coverage.comparable) = n,
           at.coverage.comparable = [i \in 1 .. n |-> at.coverage.comparable[i]]
    PROVE  LET x == Localized(o, at, reference, candidate) IN
           /\ LocalizedSays(o, at, x)
           /\ x.stages.comparisons =
                StageComparisons(reference, candidate, at.coverage.comparable)
<1> DEFINE common    == at.coverage.comparable
           compared  == StageComparisons(reference, candidate, common)
           differing == {i \in DOMAIN compared : ~compared[i].equivalent}
           first     == FirstIn(differing)
           mismatch  == IF differing = {} THEN None ELSE compared[first].coordinate
           last      == IF differing = {} THEN compared[Len(compared)].coordinate
                        ELSE IF first = 1 THEN None ELSE compared[first - 1].coordinate
           parentMismatch == o.parent.localization.mismatch
           closing   == IF differing = {} THEN parentMismatch ELSE None
           interval  == StageInterval(last, mismatch, common, parentMismatch)
           stages == [at EXCEPT !.comparisons = compared, !.mismatch = mismatch, !.last = last,
                                !.closing = closing, !.interval = interval]
           found == IF differing = {}
                    THEN [status |-> "mismatch_bounded_to_inherited_closing_boundary",
                          reason |-> "no_local_mismatch_before_inherited_boundary"]
                    ELSE [status |-> "observable_intra_layer_mismatch_found",
                          reason |-> "local_digest_mismatch"]
           y == Pass4Result(o, found, stages)
           x == Localized(o, at, reference, candidate)
           asymmetric == AsymmetricStages(at.coverage)
<1>1. x = IF asymmetric THEN [y EXCEPT !.reasons = Append(@, "asymmetric_coverage_retained")]
          ELSE y
  BY DEF Localized
<1>2. /\ DOMAIN compared = 1 .. n /\ Len(compared) = n /\ CoordinatesOf(compared) = common
      /\ \A i \in 1 .. n : compared[i].coordinate = common[i]
  BY ComparedStages
<1>3. differing # {} => first \in differing /\ \A i \in differing : first <= i
  <2> HIDE DEF compared
  <2>1. differing \subseteq Nat
    BY <1>2
  <2> HIDE DEF differing
  <2> QED
    BY <2>1, FirstInExists
<1>4. differing \subseteq 1 .. n
  BY <1>2
<1> HIDE DEF compared, differing
<1>5. /\ differing = {} => mismatch = None /\ last = common[n] /\ closing = parentMismatch
      /\ differing # {} => /\ mismatch = common[first] /\ closing = None
                           /\ last = IF first = 1 THEN None ELSE common[first - 1]
                           /\ first \in 1 .. n
  <2>1. n \in 1 .. n
    OBVIOUS
  <2> HIDE DEF first
  <2>2. differing # {} => first \in 1 .. n
    BY <1>3, <1>4
  <2>3. differing # {} => (first # 1 => first - 1 \in 1 .. n)
    BY <2>2
  <2> QED
    BY <1>2, <2>1, <2>2, <2>3
<1> HIDE DEF mismatch, last, closing, first
<1>6. /\ stages.target = at.target /\ stages.coverage = at.coverage
      /\ stages.comparisons = compared /\ stages.mismatch = mismatch /\ stages.last = last
      /\ stages.closing = closing /\ stages.interval = interval
  <2> HIDE DEF interval
  <2> QED
    BY DEF StageFields
<1> HIDE DEF stages
<1>7. /\ y.status = found.status /\ y.reasons = <<found.reason>>
      /\ y.disposition = DispositionOf(found.status)
      /\ y.parent = o.parent /\ y.bindings = o.bindings /\ y.stages = stages
      /\ DOMAIN y = {"status", "reasons", "disposition", "parent", "bindings", "stages"}
  <2> HIDE DEF found
  <2> QED
    BY DEF Pass4Result
<1>8. /\ found.reason \in ReasonsOf(found.status)
      /\ DispositionOf(found.status) = "suspect_interval_available"
      /\ found.reason # "asymmetric_coverage_retained"
      /\ found.status = IF differing = {} THEN "mismatch_bounded_to_inherited_closing_boundary"
                        ELSE "observable_intra_layer_mismatch_found"
  BY DEF DispositionOf, ReasonsOf
<1> HIDE DEF found, y, x
<1>9. Append(<<found.reason>>, "asymmetric_coverage_retained")
      = <<found.reason, "asymmetric_coverage_retained">>
  BY OneMoreReason
<1>10. /\ x.status = found.status /\ x.disposition = DispositionOf(found.status)
       /\ x.parent = o.parent /\ x.bindings = o.bindings /\ x.stages = stages
       /\ x.reasons = IF asymmetric THEN <<found.reason, "asymmetric_coverage_retained">>
                      ELSE <<found.reason>>
  <2> HIDE DEF asymmetric
  <2> QED
    BY <1>1, <1>7, <1>9
<1>11. /\ x.reasons \in {<<r>> : r \in ReasonsOf(x.status)} \cup
             {<<r, "asymmetric_coverage_retained">> : r \in ReasonsOf(x.status)}
       /\ "asymmetric_coverage_retained" \in ToSet(x.reasons) => asymmetric
  <2>1. ~asymmetric => "asymmetric_coverage_retained" \notin ToSet(x.reasons)
    BY <1>8, <1>10, OneReasonIs
  <2> HIDE DEF asymmetric
  <2> QED
    BY <1>8, <1>10, <2>1
<1>12. x.stages.comparisons = compared
  BY <1>6, <1>10
<1>13. differing = {i \in DOMAIN x.stages.comparisons : ~x.stages.comparisons[i].equivalent}
       /\ first = FirstIn(differing)
  BY <1>12 DEF differing, first
<1>14. LocalizedSays(o, at, x)
  <2> HIDE DEF asymmetric
  <2>1. /\ x.parent = o.parent /\ x.bindings = o.bindings
        /\ x.disposition = "suspect_interval_available"
        /\ x.stages.target = at.target /\ x.stages.coverage = at.coverage
        /\ x.stages.interval =
             StageInterval(x.stages.last, x.stages.mismatch, common, parentMismatch)
    BY <1>6, <1>8, <1>10 DEF interval
  <2>2. \/ /\ differing = {}
           /\ x.status = "mismatch_bounded_to_inherited_closing_boundary"
           /\ x.stages.mismatch = None /\ x.stages.last = common[n]
           /\ x.stages.closing = parentMismatch
        \/ /\ differing # {} /\ first \in 1 .. n /\ \A i \in differing : first <= i
           /\ x.status = "observable_intra_layer_mismatch_found"
           /\ x.stages.mismatch = common[first]
           /\ x.stages.last = IF first = 1 THEN None ELSE common[first - 1]
           /\ x.stages.closing = None
    BY <1>3, <1>5, <1>6, <1>8, <1>10
  <2>3. AsymmetricStages(at.coverage) <=> asymmetric
    BY DEF asymmetric
  <2> QED
    BY <1>2, <1>11, <1>12, <1>13, <2>1, <2>2, <2>3 DEF LocalizedSays
<1> QED
  BY <1>12, <1>14 DEF x, compared

\* The constructor finds in a localization what it finds in its comparisons.
LEMMA LocalizedIsValid ==
    ASSUME NEW o, IsProceeding(o), NEW at, IsCovered(o, at),
           NEW intra, intra.step \in Int, intra.layer \in Int,
           IsStages(at.coverage.comparable, intra), at.coverage.comparable # <<>>,
           at.coverage.common # <<>>,
           NEW x, LocalizedSays(o, at, x)
    PROVE  Pass4ResultIsValid(x)
<1> DEFINE common    == at.coverage.comparable
           compared  == x.stages.comparisons
           n         == Len(common)
           differing == {i \in DOMAIN compared : ~compared[i].equivalent}
           first     == FirstIn(differing)
           parentMismatch == o.parent.localization.mismatch
           mismatch  == x.stages.mismatch
           last      == x.stages.last
           interval  == x.stages.interval
<1>1. /\ n \in Nat /\ n >= 1 /\ DOMAIN common = 1 .. n
      /\ \A i \in 1 .. n : common[i] # None
      /\ \A i, j \in 1 .. n : i < j => StagePrecedes(common[i], common[j])
  <2>1. IsStages(common, intra) /\ common # <<>>
    OBVIOUS
  <2> HIDE DEF common
  <2> QED
    BY <2>1, StagesSay
<1>2. /\ x.parent = o.parent /\ x.bindings = o.bindings
      /\ x.disposition = "suspect_interval_available"
      /\ x.stages.target = at.target /\ x.stages.coverage = at.coverage
      /\ DOMAIN compared = 1 .. n /\ Len(compared) = n /\ CoordinatesOf(compared) = common
      /\ \A i \in 1 .. n : compared[i].coordinate = common[i]
      /\ interval = StageInterval(last, mismatch, common, parentMismatch)
      /\ \/ /\ differing = {}
            /\ x.status = "mismatch_bounded_to_inherited_closing_boundary"
            /\ mismatch = None /\ last = common[n]
            /\ x.stages.closing = parentMismatch
         \/ /\ differing # {} /\ first \in 1 .. n /\ \A i \in differing : first <= i
            /\ x.status = "observable_intra_layer_mismatch_found"
            /\ mismatch = common[first]
            /\ last = IF first = 1 THEN None ELSE common[first - 1]
            /\ x.stages.closing = None
      /\ x.reasons \in {<<r>> : r \in ReasonsOf(x.status)} \cup
           {<<r, "asymmetric_coverage_retained">> : r \in ReasonsOf(x.status)}
      /\ "asymmetric_coverage_retained" \in ToSet(x.reasons) => AsymmetricStages(at.coverage)
  BY DEF LocalizedSays
<1>3. /\ o.parent # None /\ o.parent.classification = "eligible" /\ parentMismatch # None
      /\ \A s \in Sides : o.bindings[s] # None
      /\ o.target.step = o.parent.step /\ o.target.layer = o.parent.layer
  BY DEF IsProceeding
<1>4. /\ at.target # NoTarget /\ at.coverage # None
      /\ at.target.step = o.target.step /\ at.target.layer = o.target.layer
      /\ at.coverage.requested =
           RequestedStages(at.target.step, at.target.layer, at.target.position)
  BY DEF IsCovered
<1>5. /\ interval # None /\ interval.last = last /\ interval.mismatch = mismatch
      /\ interval.parent = IF mismatch = None THEN parentMismatch ELSE None
      /\ interval.missing = StagesBetween(IF last = None THEN 0 ELSE last.stage + 1,
                              IF mismatch = None THEN StageCount ELSE mismatch.stage, common)
  <2>1. \A a, b, c, d :
          /\ StageInterval(a, b, c, d) # None
          /\ StageInterval(a, b, c, d).last = a /\ StageInterval(a, b, c, d).mismatch = b
          /\ StageInterval(a, b, c, d).parent = IF b = None THEN d ELSE None
          /\ StageInterval(a, b, c, d).missing =
               StagesBetween(IF a = None THEN 0 ELSE a.stage + 1,
                             IF b = None THEN StageCount ELSE b.stage, c)
    BY DEF StageInterval, None
  <2>2. interval = StageInterval(last, mismatch, common, parentMismatch)
    BY <1>2
  <2> HIDE DEF common, compared, n, differing, first, parentMismatch, mismatch, last, interval
  <2> QED
    BY <2>1, <2>2
<1> HIDE DEF common, compared, n, differing, first, parentMismatch, mismatch, last, interval
<1>6. n \in 1 .. n /\ common[n] # None
  BY <1>1
<1>7. \/ /\ differing = {} /\ mismatch = None /\ last # None
         /\ x.status = "mismatch_bounded_to_inherited_closing_boundary"
      \/ /\ differing # {} /\ mismatch # None
         /\ first \in 1 .. n
         /\ x.status = "observable_intra_layer_mismatch_found"
  BY <1>1, <1>2, <1>6
<1>8. /\ x.status \in Localizations /\ x.status \in AfterCoverage
      /\ x.status \notin BeforeCoverage /\ x.status \notin ParentFailures
      /\ x.status # "source_binding_inconsistent" /\ x.status # "comparison_blocked_by_pass3"
      /\ x.status # "insufficient_common_intra_layer_coverage"
      /\ Classification(x.status) = "eligible"
      /\ DispositionOf(x.status) = "suspect_interval_available"
      /\ "asymmetric_coverage_retained" \notin ReasonsOf(x.status)
  BY <1>7 DEF Localizations, AfterCoverage, BeforeCoverage, ParentFailures, Classification,
              DispositionOf, ReasonsOf
<1>9. StatusIsCoherent(x)
  <2>1. IsInjective(x.reasons) /\ x.reasons[1] \in ReasonsOf(x.status)
    <3>1. CASE \E r \in ReasonsOf(x.status) : x.reasons = <<r>>
      BY <3>1, OneReasonIs
    <3>2. CASE \E r \in ReasonsOf(x.status) : x.reasons = <<r, "asymmetric_coverage_retained">>
      <4>1. PICK r \in ReasonsOf(x.status) : x.reasons = <<r, "asymmetric_coverage_retained">>
        BY <3>2
      <4>2. r # "asymmetric_coverage_retained"
        BY <1>8
      <4>3. x.reasons[1] = r
        BY <4>1
      <4> QED
        BY <4>1, <4>2, <4>3 DEF IsInjective
    <3> QED
      BY <1>2, <3>1, <3>2
  <2> QED
    BY <1>2, <1>8, <2>1 DEF StatusIsCoherent
<1>10. KeepsItsEvidence(x)
  <2>1. compared # <<>>
    BY <1>1, <1>2
  <2>2. /\ x.status = "observable_intra_layer_mismatch_found" <=> mismatch # None
        /\ x.status = "mismatch_bounded_to_inherited_closing_boundary"
             <=> x.stages.closing # None
    BY <1>2, <1>3, <1>7
  <2> QED
    BY <1>2, <1>3, <1>4, <1>5, <1>8, <2>1, <2>2
       DEF KeepsItsEvidence, compared, mismatch, interval
<1>11. CoverageIsOfTarget(x)
  BY <1>2, <1>3, <1>4, <1>8 DEF CoverageIsOfTarget
<1>12. ComparisonIsExact(x)
  <2>1. first # 1 /\ first \in 1 .. n => first - 1 \in 1 .. n /\ first - 1 < first
    BY <1>1
  <2>2. last # None /\ mismatch # None => StagePrecedes(last, mismatch)
    BY <1>1, <1>2, <1>7, <2>1
  <2>3. mismatch # None => mismatch \in ToSet(common)
    <3>1. \A i \in 1 .. n : common[i] \in ToSet(common)
      BY <1>1 DEF ToSet
    <3> QED
      BY <1>2, <1>7, <3>1
  <2>4. StageIntervalIsExact(interval, common, mismatch, parentMismatch)
    BY <1>5, <2>2, <2>3 DEF StageIntervalIsExact
  <2>5. IF mismatch # None
        THEN /\ differing # {} /\ mismatch = compared[first].coordinate
             /\ last = IF first = 1 THEN None ELSE compared[first - 1].coordinate
        ELSE /\ differing = {}
             /\ last = compared[Len(compared)].coordinate
             /\ x.stages.closing = parentMismatch
    BY <1>2, <1>6, <1>7, <2>1
  <2>6. /\ differing = {i \in DOMAIN x.stages.comparisons : ~x.stages.comparisons[i].equivalent}
        /\ first = FirstIn(differing)
    BY DEF differing, first, compared
  <2>7. /\ x.stages.coverage.comparable = common /\ x.stages.comparisons = compared
        /\ x.stages.interval = interval /\ x.stages.mismatch = mismatch
        /\ x.stages.last = last /\ x.parent.localization.mismatch = parentMismatch
    BY <1>2 DEF common, compared, interval, mismatch, last, parentMismatch
  <2> QED
    BY <1>2, <1>5, <2>4, <2>5, <2>6, <2>7 DEF ComparisonIsExact
<1> QED
  BY <1>2, <1>3, <1>8, <1>9, <1>10, <1>11, <1>12 DEF Pass4ResultIsValid

CommonStages(traces) == OnlyThose(traces["reference"].intra.captured,
                                  ToSet(traces["candidate"].intra.captured))

StagesAlign(traces) ==
    \A i \in DOMAIN CommonStages(traces) :
        StageAlignment(traces["reference"].intra, traces["candidate"].intra,
                       CommonStages(traces)[i]) = Passed

\* Gate 8: what it answers, and that the constructor accepts it.
LEMMA LocalizeReads ==
    ASSUME NEW o, IsProceeding(o), NEW traces, StageLayouts(o, traces) = Passed
    PROVE  LET ref  == traces["reference"].intra
               cand == traces["candidate"].intra
               x    == LocalizeStages(o, traces)
               common == CommonStages(traces)
           IN  /\ Pass4ResultIsValid(x)
               /\ ref # None /\ cand # None /\ IsStages(common, ref)
               /\ ref.step = o.target.step /\ ref.layer = o.target.layer
               /\ cand.step = o.target.step /\ cand.layer = o.target.layer
               /\ \/ /\ common = <<>>
                     /\ x.status = "insufficient_common_intra_layer_coverage"
                  \/ /\ common # <<>> /\ x.status \notin Localizations
                     /\ x.status \in RefusalsOfStages
                     /\ ~StagesAlign(traces) \/ StagePolicy(ref, cand) # Passed
                  \/ /\ common # <<>>
                     /\ StagesAlign(traces) /\ StagePolicy(ref, cand) = Passed
                     /\ \E at : /\ LocalizedSays(o, at, x)
                                /\ at.coverage.comparable = common
                                /\ at.coverage.common = common
                                /\ at.target.step = o.target.step
                                /\ at.target.layer = o.target.layer
                                /\ x.stages.comparisons = StageComparisons(ref, cand, common)
<1> DEFINE ref  == traces["reference"].intra
           cand == traces["candidate"].intra
           x    == LocalizeStages(o, traces)
           common   == CommonStages(traces)
           captured == StageCoverage(ref, cand, <<>>)
           coverage == StageCoverage(ref, cand, captured.common)
           target   == [step |-> o.target.step, layer |-> o.target.layer,
                        precision |-> o.target.precision, position |-> ref.position]
           each     == [i \in DOMAIN common |-> StageAlignment(ref, cand, common[i])]
           aligned  == FirstOf(each)
           policy   == StagePolicy(ref, cand)
           at(found) == [NoStages EXCEPT !.target = target, !.coverage = found]
           insufficient == [status |-> "insufficient_common_intra_layer_coverage",
                            reason |-> "no_common_captured_coordinates"]
<1>1. /\ ref # None /\ cand # None /\ StageLayout(ref) = Passed /\ StageLayout(cand) = Passed
      /\ ref.step = o.target.step /\ ref.layer = o.target.layer
      /\ cand.step = o.target.step /\ cand.layer = o.target.layer
  BY LayoutsRead, NoStagesReads, TargetReads
<1>2. /\ ref.requested = RequestedStages(ref.step, ref.layer, ref.position)
      /\ IsStages(common, ref)
  BY <1>1, CapturedAre DEF CommonStages
<1>3. /\ captured.common = common /\ captured.requested = ref.requested
      /\ coverage.common = common /\ coverage.requested = ref.requested
      /\ coverage.comparable = common
      /\ captured # None /\ coverage # None
  BY DEF StageCoverage, CommonStages, None
<1>4. x = IF common = <<>> THEN Pass4Result(o, insufficient, at(captured))
          ELSE IF aligned # Passed THEN Pass4Result(o, aligned, at(captured))
          ELSE IF policy # Passed THEN Pass4Result(o, policy, at(coverage))
          ELSE Localized(o, at(coverage), ref, cand)
  <2>1. captured.common = common
    BY <1>3
  <2>2. EachInTurn(captured.common, LAMBDA c : StageAlignment(ref, cand, c)) = aligned
    BY <2>1 DEF EachInTurn
  <2> HIDE DEF aligned, common, captured
  <2> QED
    BY <2>1, <2>2 DEF LocalizeStages, captured
<1>5. ClassifiedAs(policy, ComparisonStatuses)
  BY PolicyReads
<1>6. /\ ClassifiedAs(aligned, ComparisonStatuses)
      /\ aligned = Passed <=> StagesAlign(traces)
  <2>1. DOMAIN each = DOMAIN common
        /\ \A i \in DOMAIN each : each[i] = StageAlignment(ref, cand, common[i])
    OBVIOUS
  <2>2. \A i \in DOMAIN each : ClassifiedAs(each[i], ComparisonStatuses)
    BY AlignmentReads
  <2>3. DOMAIN common \subseteq Nat
    BY <1>2 DEF IsStages
  <2>4. StagesAlign(traces) <=> \A i \in DOMAIN common : StageAlignment(ref, cand, common[i]) = Passed
    BY DEF StagesAlign
  <2> HIDE DEF each, common
  <2>5. \/ aligned = Passed /\ \A i \in DOMAIN each : each[i] = Passed
        \/ \E i \in DOMAIN each : aligned = each[i] /\ each[i] # Passed
    BY <2>1, <2>3, FirstOfIs
  <2> HIDE DEF aligned
  <2> QED
    BY <2>1, <2>2, <2>4, <2>5, PassedIsClassified
<1>7. target.step = o.target.step /\ target.layer = o.target.layer
      /\ target.position = ref.position
  OBVIOUS
<1>8. target # NoTarget
  <2>1. target.step # Absent
    BY <1>7 DEF IsProceeding, Absent
  <2>2. NoTarget.step = Absent
    BY DEF NoTarget
  <2> QED
    BY <2>1, <2>2
<1>9. \A found : /\ at(found).target = target /\ at(found).coverage = found
                 /\ ComparesNothing(at(found)) /\ DOMAIN at(found) = StageFields
  <2> HIDE DEF target
  <2> QED
    BY DEF NoStages, ComparesNothing, StageFields
<1>10. /\ insufficient.status = "insufficient_common_intra_layer_coverage"
       /\ insufficient.status \in RefusalsOfStages
       /\ insufficient.reason \in ReasonsOf(insufficient.status)
       /\ insufficient.status \notin BeforeCoverage /\ insufficient.status \notin Localizations
  BY DEF RefusalsOfStages, ReasonsOf, BeforeCoverage, ParentFailures, Localizations
<1> DEFINE a == at(captured)
           b == at(coverage)
<1>11. /\ a.target = target /\ a.coverage = captured
       /\ b.target = target /\ b.coverage = coverage
       /\ ComparesNothing(a) /\ ComparesNothing(b) /\ DOMAIN b = StageFields
  BY <1>9
<1> HIDE DEF a, b, insufficient, captured, coverage, aligned, policy, target, x, each
<1>12. IsCovered(o, a) /\ IsCovered(o, b)
  BY <1>1, <1>2, <1>3, <1>7, <1>8, <1>11 DEF IsCovered
<1>13. CASE common = <<>>
  <2>1. x = Pass4Result(o, insufficient, a)
    BY <1>4, <1>13 DEF a
  <2>2. x.status = "insufficient_common_intra_layer_coverage"
    BY <1>10, <2>1, Pass4ResultIs
  <2>3. Pass4ResultIsValid(x)
    BY <1>3, <1>10, <1>11, <1>12, <1>13, <2>1, UnlocalizedIsValid
  <2> QED
    BY <1>1, <1>2, <1>13, <2>2, <2>3 DEF x
<1>14. ASSUME common # <<>>, NEW refusal, NEW stages, refusal # Passed,
              ClassifiedAs(refusal, ComparisonStatuses),
              x = Pass4Result(o, refusal, stages), stages \in {a, b}
       PROVE  /\ Pass4ResultIsValid(x) /\ x.status \notin Localizations
              /\ x.status \in RefusalsOfStages
  <2>1. /\ refusal.status \in ComparisonStatuses
        /\ refusal.reason \in ReasonsOf(refusal.status)
    BY <1>14 DEF ClassifiedAs
  <2>2. /\ refusal.status \in RefusalsOfStages /\ refusal.status \notin BeforeCoverage
        /\ refusal.status # "insufficient_common_intra_layer_coverage"
        /\ refusal.status \notin Localizations
    BY <2>1 DEF RefusalsOfStages, ComparisonStatuses, BeforeCoverage, ParentFailures, Localizations
  <2>3. x.status = refusal.status
    BY <1>14, Pass4ResultIs
  <2>4. /\ ComparesNothing(stages) /\ IsCovered(o, stages)
        /\ stages.coverage.common = common
    BY <1>3, <1>11, <1>12, <1>14
  <2>5. Pass4ResultIsValid(Pass4Result(o, refusal, stages))
    BY <1>14, <2>1, <2>2, <2>4, UnlocalizedIsValid
  <2> QED
    BY <1>14, <2>2, <2>3, <2>5
<1>15. CASE common # <<>> /\ aligned # Passed
  <2>1. x = Pass4Result(o, aligned, a)
    BY <1>4, <1>15 DEF a
  <2>2. /\ Pass4ResultIsValid(x) /\ x.status \notin Localizations
        /\ x.status \in RefusalsOfStages
    BY <1>6, <1>14, <1>15, <2>1
  <2> QED
    BY <1>1, <1>2, <1>6, <1>15, <2>2 DEF x
<1>16. CASE common # <<>> /\ aligned = Passed /\ policy # Passed
  <2>1. x = Pass4Result(o, policy, b)
    BY <1>4, <1>16 DEF b
  <2>2. /\ Pass4ResultIsValid(x) /\ x.status \notin Localizations
        /\ x.status \in RefusalsOfStages
    BY <1>5, <1>14, <1>16, <2>1
  <2> QED
    BY <1>1, <1>2, <1>16, <2>2 DEF x, policy
<1>17. CASE common # <<>> /\ aligned = Passed /\ policy = Passed
  <2>1. x = Localized(o, b, ref, cand)
    BY <1>4, <1>17 DEF b
  <2>2. b.coverage.comparable = common /\ b.coverage.common = common
    BY <1>3, <1>11
  <2>3. PICK n \in Nat : common = [i \in 1 .. n |-> common[i]]
    BY <1>2 DEF IsStages
  <2>4. DOMAIN common = 1 .. n /\ Len(common) = n /\ n >= 1
    BY <1>17, <2>3
  <2>5. /\ LocalizedSays(o, b, Localized(o, b, ref, cand))
        /\ Localized(o, b, ref, cand).stages.comparisons = StageComparisons(ref, cand, common)
    <3> HIDE DEF common, ref, cand
    <3> QED
      BY <1>11, <2>2, <2>3, <2>4, LocalizationIs
  <2>6. ref.step \in Int /\ ref.layer \in Int
    BY <1>1 DEF IsProceeding
  <2>7. Pass4ResultIsValid(x)
    BY <1>2, <1>12, <1>17, <2>1, <2>2, <2>5, <2>6, LocalizedIsValid
  <2>8. b.target.step = o.target.step /\ b.target.layer = o.target.layer
    BY <1>7, <1>11
  <2> QED
    BY <1>1, <1>2, <1>6, <1>17, <2>1, <2>2, <2>5, <2>7, <2>8 DEF x, policy
<1> QED
  BY <1>13, <1>15, <1>16, <1>17

-------------------------------------------------------------------------------
(* What the files of a run say of the stages of its target.                  *)
LEMMA StagesAreFinite ==
    ASSUME NEW S \in SUBSET StageIds
    PROVE  /\ S \in SUBSET Int /\ IsFiniteSet(S) /\ Cardinality(S) \in Nat
<1>1. IsFiniteSet(StageIds) /\ StageIds \subseteq Int
  <2>1. 0 \in Int /\ StageCount - 1 \in Int
    BY StageCountAssumption
  <2> QED
    BY <2>1, FS_Interval DEF StageIds
<1>2. IsFiniteSet(S) /\ S \in SUBSET Int
  BY <1>1, FS_Subset
<1> QED
  BY <1>2, FS_CardinalityType

LEMMA StagesAtIs ==
    ASSUME NEW r, NEW S \in SUBSET StageIds
    PROVE  LET at == StagesAt(r, S)
               N  == Cardinality(S)
           IN  /\ N \in Nat /\ at = [i \in 1 .. N |-> at[i]] /\ DOMAIN at = 1 .. N
               /\ \A i \in 1 .. N :
                     /\ at[i].stage = Ascending(S)[i] /\ at[i].stage \in S
                     /\ at[i] = StageCoordinate(Step, r.target, 0, at[i].stage)
               /\ \A c \in S : \E i \in 1 .. N : at[i].stage = c
               /\ \A i, j \in 1 .. N : i < j => at[i].stage < at[j].stage
<1> DEFINE N == Cardinality(S)
           at == StagesAt(r, S)
           a == Ascending(S)
<1>1. S \in SUBSET Int /\ IsFiniteSet(S) /\ N \in Nat
  BY StagesAreFinite
<1>2. /\ a \in [1 .. N -> S]
      /\ \A x \in S : \E n \in 1 .. N : a[n] = x
      /\ \A m, n \in 1 .. N : m < n => a[m] < a[n]
  BY <1>1, AscendingIs
<1>3. at = [i \in 1 .. N |-> StageCoordinate(Step, r.target, 0, a[i])]
  BY DEF StagesAt
<1> HIDE DEF at, a, N
<1>4. \A c : StageCoordinate(Step, r.target, 0, c).stage = c
  BY DEF StageCoordinate
<1>5. \A i \in 1 .. N : /\ at[i].stage = a[i] /\ a[i] \in S
                        /\ at[i] = StageCoordinate(Step, r.target, 0, a[i])
  BY <1>2, <1>3, <1>4
<1>6. at = [i \in 1 .. N |-> at[i]] /\ DOMAIN at = 1 .. N
  BY <1>3
<1>7. \A i \in 1 .. N : /\ at[i].stage = a[i] /\ at[i].stage \in S
                        /\ at[i] = StageCoordinate(Step, r.target, 0, at[i].stage)
  BY <1>5
<1>8. /\ \A c \in S : \E i \in 1 .. N : at[i].stage = c
      /\ \A i, j \in 1 .. N : i < j => at[i].stage < at[j].stage
  BY <1>2, <1>5
<1> QED
  BY <1>1, <1>6, <1>7, <1>8 DEF at, a, N

IntraFields == {"supported", "step", "layer", "position", "requested", "captured", "missing",
                "contract", "payload", "wellformed", "entries"}

\* A stage entry that is odd says as much of its digest as before, or nothing.
LEMMA OddEntryIs ==
    ASSUME NEW entry, NEW kind,
           DOMAIN entry = {"coordinate", "phase", "shape", "precision", "wellformed", "digest"}
    PROVE  /\ OddEntry(entry, kind).coordinate = entry.coordinate
           /\ OddEntry(entry, kind).digest \in {entry.digest, Malformed}
           /\ kind = "none" => OddEntry(entry, kind) = entry
BY DEF OddEntry

\* Whatever is odd about a trace, an entry that has a digest has that of the
\* stage it names.
LEMMA IntraIs ==
    ASSUME NEW r, IsRun(r), NEW s \in Sides
    PROVE  LET intra == TraceOf(r, s).intra
               at    == StagesAt(r, r.stages[s])
               N     == Cardinality(r.stages[s])
           IN  intra # None =>
                 /\ r.target # Absent /\ intra.captured = at
                 /\ DOMAIN intra.entries = 1 .. N /\ N \in Nat
                 /\ \A i \in 1 .. N :
                      intra.entries[i].digest \in
                        {DigestOf(StageDiffers(r.onset, s, r.target,
                                               intra.entries[i].coordinate.stage)), Malformed}
<1> DEFINE intra == TraceOf(r, s).intra
           kind  == KindAt(r, s)
           at    == StagesAt(r, r.stages[s])
           N     == Cardinality(r.stages[s])
           digest(i) == DigestOf(StageDiffers(r.onset, s, r.target, at[i].stage))
           block == StageBlock(r, s)
           entry(i) == [coordinate |-> at[i], phase |-> StagePhase, shape |-> "hidden",
                        precision |-> "fp32", wellformed |-> TRUE, digest |-> digest(i)]
           says(x) == x.digest \in {DigestOf(StageDiffers(r.onset, s, r.target,
                                                          x.coordinate.stage)), Malformed}
<1> SUFFICES ASSUME intra # None
             PROVE  /\ r.target # Absent /\ intra.captured = at
                    /\ DOMAIN intra.entries = 1 .. N /\ N \in Nat
                    /\ \A i \in 1 .. N : says(intra.entries[i])
  OBVIOUS
<1>1. intra = OddStages(IF r.target = Absent THEN None ELSE block, kind)
  BY TraceIs
<1>2. r.target # Absent
  <2>1. OddStages(None, kind) = None
    BY DEF OddStages
  <2> HIDE DEF intra, block, kind
  <2> QED
    BY <1>1, <2>1
<1>3. r.stages[s] \in SUBSET StageIds
  BY DEF IsRun
<1>4. N \in Nat /\ DOMAIN at = 1 .. N
  BY <1>3, StagesAtIs
<1>5. /\ DOMAIN block = IntraFields /\ block.captured = at
      /\ block.entries = [i \in DOMAIN at |-> entry(i)]
  BY DEF StageBlock, IntraFields
<1> DEFINE written == block.entries
           last == WithLast(written, LAMBDA e : OddEntry(e, kind))
<1>6. /\ intra.captured = block.captured
      /\ intra.entries \in {written, Reverse(written), last}
  <2> HIDE DEF block, last
  <2>1. block # None
    BY <1>5 DEF IntraFields, None
  <2>2. intra = OddStages(block, kind) /\ intra # None
    BY <1>1, <1>2
  <2> HIDE DEF intra
  <2>3. OddStages(block, kind) =
        IF block = None \/ kind = "no_stages" THEN None ELSE
        CASE kind = "stage_layout"   -> [block EXCEPT !.supported = FALSE]
          [] kind = "stage_step"     -> [block EXCEPT !.step = Step + 1]
          [] kind = "stage_position" ->
                [block EXCEPT !.position = 1, !.requested = RequestedStages(Step, block.layer, 1)]
          [] kind = "stage_request"  -> [block EXCEPT !.requested = block.captured, !.missing = <<>>]
          [] kind = "stage_contract" -> [block EXCEPT !.contract = "other"]
          [] kind = "stage_payload"  -> [block EXCEPT !.payload = "values"]
          [] kind = "stage_order"    -> [block EXCEPT !.entries = Reverse(@)]
          [] kind = "stage_missing"  -> [block EXCEPT !.missing = <<>>]
          [] OTHER -> [block EXCEPT !.entries = last]
    BY DEF OddStages, last
  <2> QED
    BY <1>5, <2>1, <2>2, <2>3 DEF IntraFields
<1>7. \A i : /\ DOMAIN entry(i) = {"coordinate", "phase", "shape", "precision", "wellformed",
                                   "digest"}
             /\ entry(i).coordinate = at[i] /\ entry(i).digest = digest(i)
  OBVIOUS
<1>8. \A i : says(entry(i)) /\ says(OddEntry(entry(i), kind))
  <2> SUFFICES ASSUME NEW i PROVE says(entry(i)) /\ says(OddEntry(entry(i), kind))
    OBVIOUS
  <2>1. OddEntry(entry(i), kind).coordinate = at[i]
        /\ OddEntry(entry(i), kind).digest \in {digest(i), Malformed}
    <3> HIDE DEF entry, digest
    <3> QED
      BY <1>7, OddEntryIs
  <2>2. entry(i).coordinate = at[i] /\ entry(i).digest = digest(i)
    OBVIOUS
  <2> HIDE DEF entry
  <2> QED
    BY <2>1, <2>2
<1> HIDE DEF says, entry, at, N
<1>9. DOMAIN written = 1 .. N /\ \A i \in 1 .. N : written[i] = entry(i)
  BY <1>4, <1>5
<1> HIDE DEF intra, block
<1>10. CASE intra.entries = written
  BY <1>2, <1>4, <1>5, <1>6, <1>8, <1>9, <1>10
<1>11. CASE intra.entries = Reverse(written)
  <2> HIDE DEF written
  <2>1. Len(written) = N
    <3>1. written = [i \in 1 .. N |-> entry(i)]
      BY <1>4, <1>5 DEF written
    <3> QED
      BY <1>4, <3>1
  <2>2. intra.entries = [i \in 1 .. N |-> written[N - i + 1]]
    BY <1>11, <2>1 DEF Reverse
  <2>3. \A i \in 1 .. N : N - i + 1 \in 1 .. N
    BY <1>4
  <2>4. DOMAIN intra.entries = 1 .. N /\ \A i \in 1 .. N : intra.entries[i] = entry(N - i + 1)
    BY <1>9, <2>2, <2>3
  <2> QED
    BY <1>2, <1>4, <1>5, <1>6, <1>8, <2>4
<1>12. CASE intra.entries = last
  <2>1. last = IF written = <<>> THEN written
               ELSE [written EXCEPT ![Len(written)] = OddEntry(@, kind)]
    BY DEF WithLast
  <2> HIDE DEF written, last
  <2>2. DOMAIN last = 1 .. N
    BY <1>9, <2>1
  <2>3. \A i \in 1 .. N : last[i] \in {written[i], OddEntry(written[i], kind)}
    BY <1>9, <2>1
  <2>4. \A i \in 1 .. N : says(last[i])
    BY <1>8, <1>9, <2>3
  <2> QED
    BY <1>2, <1>4, <1>5, <1>6, <1>12, <2>2, <2>4
<1> QED
  BY <1>6, <1>10, <1>11, <1>12 DEF says, at, N

-------------------------------------------------------------------------------
(* The entries that are compared: each has the digest of the stage it names.  *)
LEMMA EntryAtIs ==
    ASSUME NEW intra, NEW N \in Nat, DOMAIN intra.entries = 1 .. N,
           CoordinatesOf(intra.entries) = intra.captured, NEW c \in ToSet(intra.captured)
    PROVE  \E i \in 1 .. N : /\ EntryAt(intra, c) = intra.entries[i]
                             /\ intra.entries[i].coordinate = c
<1> DEFINE pick == CHOOSE i \in DOMAIN intra.entries : intra.entries[i].coordinate = c
<1>1. \E i \in DOMAIN intra.entries : intra.entries[i].coordinate = c
  BY DEF ToSet, CoordinatesOf
<1>2. pick \in DOMAIN intra.entries /\ intra.entries[pick].coordinate = c
  BY <1>1
<1>3. EntryAt(intra, c) = intra.entries[pick]
  BY DEF EntryAt
<1> HIDE DEF pick
<1> QED
  BY <1>2, <1>3

LEMMA DigestAtIs ==
    ASSUME NEW r, IsRun(r), NEW s \in Sides, TraceOf(r, s).intra # None,
           StageEntries(TraceOf(r, s).intra) = Passed,
           NEW c \in ToSet(TraceOf(r, s).intra.captured)
    PROVE  EntryAt(TraceOf(r, s).intra, c).digest
             = DigestOf(StageDiffers(r.onset, s, r.target, c.stage))
<1> DEFINE intra == TraceOf(r, s).intra
           N     == Cardinality(r.stages[s])
<1>1. /\ DOMAIN intra.entries = 1 .. N /\ N \in Nat
      /\ \A i \in 1 .. N :
           intra.entries[i].digest \in
             {DigestOf(StageDiffers(r.onset, s, r.target,
                                    intra.entries[i].coordinate.stage)), Malformed}
  BY IntraIs
<1> HIDE DEF intra, N
<1>2. DOMAIN intra.entries \subseteq Nat
  BY <1>1
<1>3. /\ \A i \in 1 .. N : StageEntry(intra.entries[i]) = Passed
      /\ CoordinatesOf(intra.entries) = intra.captured
  <2>1. StageEntries(intra) = Passed
    BY DEF intra
  <2> QED
    BY <1>1, <1>2, <2>1, EntriesRead
<1>4. \A i \in 1 .. N : intra.entries[i].digest # Malformed
  BY <1>3, EntryReads
<1>5. c \in ToSet(intra.captured)
  BY DEF intra
<1>6. PICK i \in 1 .. N : /\ EntryAt(intra, c) = intra.entries[i]
                          /\ intra.entries[i].coordinate = c
  BY <1>1, <1>3, <1>5, EntryAtIs
<1>7. EntryAt(intra, c).digest = DigestOf(StageDiffers(r.onset, s, r.target, c.stage))
  BY <1>1, <1>4, <1>6
<1> QED
  BY <1>7 DEF intra

LEMMA CommonAre ==
    ASSUME NEW cs, NEW N \in Nat, DOMAIN cs = 1 .. N, NEW kept
    PROVE  \A i \in DOMAIN OnlyThose(cs, kept) :
              OnlyThose(cs, kept)[i] \in ToSet(cs) \cap kept
<1> DEFINE P == {i \in 1 .. N : cs[i] \in kept}
           M == Cardinality(P)
           a == Ascending(P)
<1>1. OnlyThose(cs, kept) = Picked(cs, P)
  BY DEF OnlyThose
<1>2. P \in SUBSET (1 .. N)
  OBVIOUS
<1>3. \A p \in P : cs[p] \in kept /\ cs[p] \in ToSet(cs)
  BY DEF ToSet
<1> HIDE DEF P
<1>4. /\ Picked(cs, P) = [m \in 1 .. M |-> cs[a[m]]]
      /\ \A m \in 1 .. M : a[m] \in P
  BY <1>2, PickedIs
<1> HIDE DEF M, a
<1> QED
  BY <1>1, <1>3, <1>4

-------------------------------------------------------------------------------
(* What Pass 4 accepts of the artifact of Pass 3, read the other way: what   *)
(* Pass 3 writes is accepted.                                                *)
LEMMA EmptyLayers ==
    LayersAt({}) = <<>> /\ CoordinatesOf(<<>>) = <<>>
<1>1. LayersAt({}) = <<>>
  BY FS_EmptySet DEF LayersAt
<1>2. DOMAIN <<>> = {}
  OBVIOUS
<1>3. CoordinatesOf(<<>>) = <<>>
  BY <1>2 DEF CoordinatesOf
<1> QED
  BY <1>1, <1>3

LEMMA SomeLayers ==
    ASSUME NEW S \in SUBSET Layers, S # {}
    PROVE  LayersAt(S) # <<>>
<1> DEFINE at == LayersAt(S)
<1>1. \A l \in S : \E i \in DOMAIN at : at[i].layer = l
  BY LayersAtIs
<1>2. DOMAIN at # {}
  BY <1>1
<1>3. DOMAIN <<>> = {}
  OBVIOUS
<1> QED
  BY <1>2, <1>3

\* The coordinates of a layout are split in two, whichever of the two ways it is
\* written in.
LEMMA LayersArePartitioned ==
    ASSUME NEW C \in SUBSET Layers, NEW requested, NEW missing,
           \/ /\ requested = LayersAt(Layers)
              /\ DOMAIN missing = DOMAIN LayersAt(Layers \ C)
              /\ \A i \in DOMAIN missing :
                    /\ missing[i].coordinate = LayersAt(Layers \ C)[i]
                    /\ missing[i].state = "not_captured"
           \/ /\ requested = LayersAt(C) /\ missing = <<>>
    PROVE  IsPartition(requested, LayersAt(C), missing)
<1>1. /\ C \cap C = C /\ C \ C = {} /\ Layers \cap C = C
      /\ Layers \in SUBSET Layers /\ Layers \ C \in SUBSET Layers /\ {} \in SUBSET Layers
  OBVIOUS
<1>2. \E A \in SUBSET Layers : /\ requested = LayersAt(A) /\ A \cap C = C
                               /\ CoordinatesOf(missing) = LayersAt(A \ C)
                               /\ \A i \in DOMAIN missing : missing[i].state # "captured"
  <2>1. CASE requested = LayersAt(C) /\ missing = <<>>
    <3>1. CoordinatesOf(missing) = LayersAt(C \ C) /\ DOMAIN missing = {}
      BY <1>1, <2>1, EmptyLayers
    <3> QED
      BY <1>1, <2>1, <3>1
  <2>2. CASE /\ requested = LayersAt(Layers)
             /\ DOMAIN missing = DOMAIN LayersAt(Layers \ C)
             /\ \A i \in DOMAIN missing :
                   /\ missing[i].coordinate = LayersAt(Layers \ C)[i]
                   /\ missing[i].state = "not_captured"
    <3> DEFINE rest == LayersAt(Layers \ C)
    <3>1. rest = [i \in DOMAIN rest |-> rest[i]]
      BY DEF LayersAt
    <3>2. CoordinatesOf(missing) = [i \in DOMAIN missing |-> missing[i].coordinate]
      BY DEF CoordinatesOf
    <3> HIDE DEF rest
    <3>3. CoordinatesOf(missing) = rest
      BY <2>2, <3>1, <3>2 DEF rest
    <3> QED
      BY <1>1, <2>2, <3>3 DEF rest
  <2> QED
    BY <2>1, <2>2
<1>3. PICK A \in SUBSET Layers : /\ requested = LayersAt(A) /\ A \cap C = C
                                 /\ CoordinatesOf(missing) = LayersAt(A \ C)
                                 /\ \A i \in DOMAIN missing : missing[i].state # "captured"
  BY <1>2
<1>4. /\ WithKeys(requested, Keys(LayersAt(C))) = LayersAt(C)
      /\ WithoutKeys(requested, Keys(LayersAt(C))) = CoordinatesOf(missing)
  BY <1>3, WithKeysOfLayers
<1>5. InOrder(requested) /\ InOrder(LayersAt(C)) /\ InOrder(CoordinatesOf(missing))
  <2>1. A \ C \in SUBSET Layers
    OBVIOUS
  <2> QED
    BY <1>3, <2>1, LayersAreInOrder
<1> QED
  BY <1>3, <1>4, <1>5 DEF IsPartition

LEMMA CoverageCoheres ==
    ASSUME NEW A \in SUBSET Layers, NEW B \in SUBSET Layers, NEW coverage,
           coverage.captured["reference"] = LayersAt(A),
           coverage.captured["candidate"] = LayersAt(B),
           coverage.only["reference"] = LayersAt(A \ B),
           coverage.only["candidate"] = LayersAt(B \ A),
           coverage.common = LayersAt(A \cap B), coverage.comparable = LayersAt(A \cap B),
           \A s \in Sides : IsPartition(coverage.requested[s], coverage.captured[s],
                                        coverage.missing[s])
    PROVE  CoverageIsCoherent(coverage)
<1>1. A \cap B \in SUBSET Layers /\ (A \cap B) \cap (A \cap B) = A \cap B
  OBVIOUS
<1>2. InOrder(coverage.common) /\ InOrder(coverage.comparable)
  BY <1>1, LayersAreInOrder
<1>3. /\ coverage.common = WithKeys(LayersAt(A), Keys(LayersAt(B)))
      /\ coverage.only["reference"] = WithoutKeys(LayersAt(A), Keys(LayersAt(B)))
      /\ coverage.only["candidate"] = WithoutKeys(LayersAt(B), Keys(LayersAt(A)))
  BY WithKeysOfLayers
<1>4. coverage.comparable = WithKeys(coverage.common, Keys(coverage.comparable))
  BY <1>1, WithKeysOfLayers
<1> QED
  BY <1>2, <1>3, <1>4 DEF CoverageIsCoherent

LEMMA NoCoverageCoheres == CoverageIsCoherent(NoCoverage)
<1>1. {} \in SUBSET Layers /\ {} \ {} = {} /\ {} \cap {} = {}
  OBVIOUS
<1>2. IsPartition(<<>>, <<>>, <<>>)
  BY <1>1, EmptyLayers, LayersArePartitioned
<1>3. /\ \A s \in Sides : /\ NoCoverage.requested[s] = <<>> /\ NoCoverage.captured[s] = <<>>
                          /\ NoCoverage.missing[s] = <<>> /\ NoCoverage.only[s] = <<>>
      /\ NoCoverage.common = <<>> /\ NoCoverage.comparable = <<>>
  BY DEF NoCoverage, Sides
<1>4. "reference" \in Sides /\ "candidate" \in Sides
  BY DEF Sides
<1> QED
  BY <1>1, <1>2, <1>3, <1>4, EmptyLayers, CoverageCoheres

\* What a layer trace says of the coverage of its side, when no file calls a missing
\* coordinate captured.
LEMMA LayoutIsPartitioned ==
    ASSUME NEW r, IsRun(r), r.fault.kind # "missing_captured", NEW s \in Sides, TraceSays(r, s)
    PROVE  LET layout == TraceOf(r, s).layout IN
           /\ r.captured[s] \in SUBSET Layers
           /\ layout.requested \in {LayersAt(Layers), LayersAt(r.captured[s])}
           /\ IsPartition(layout.requested, LayersAt(r.captured[s]), layout.missing)
<1> DEFINE layout == TraceOf(r, s).layout
           captured == r.captured[s]
<1>1. KindAt(r, s) # "missing_captured"
  BY DEF KindAt
<1>2. captured \in SUBSET Layers
  BY DEF IsRun
<1>3. layout = OddLayout(LayerLayout(captured), KindAt(r, s))
  BY TraceIs
<1>4. \/ /\ layout.requested = LayersAt(Layers)
         /\ DOMAIN layout.missing = DOMAIN LayersAt(Layers \ captured)
         /\ \A i \in DOMAIN layout.missing :
               /\ layout.missing[i].coordinate = LayersAt(Layers \ captured)[i]
               /\ layout.missing[i].state = "not_captured"
      \/ /\ layout.requested = LayersAt(captured) /\ layout.missing = <<>>
  <2> HIDE DEF layout, captured
  <2> QED
    BY <1>1, <1>3, LayerLayoutIs
<1> HIDE DEF layout, captured
<1>5. IsPartition(layout.requested, LayersAt(captured), layout.missing)
  BY <1>2, <1>4, LayersArePartitioned
<1> QED
  BY <1>2, <1>4, <1>5 DEF layout, captured

LEMMA CoverageOfCoheres ==
    ASSUME NEW r, IsRun(r), r.fault.kind # "missing_captured", Bothsay(r)
    PROVE  /\ CoverageIsCoherent(CoverageFrom(r))
           /\ CommonLayers(r) # {} => \A s \in Sides : CoverageFrom(r).requested[s] # <<>>
<1> DEFINE coverage == CoverageFrom(r)
           A == r.captured["reference"]
           B == r.captured["candidate"]
           ref  == TraceOf(r, "reference").layout
           cand == TraceOf(r, "candidate").layout
<1>1. /\ coverage.requested = [reference |-> ref.requested, candidate |-> cand.requested]
      /\ coverage.missing = [reference |-> ref.missing, candidate |-> cand.missing]
      /\ coverage.captured = [reference |-> LayersAt(A), candidate |-> LayersAt(B)]
      /\ coverage.only = [reference |-> LayersAt(A \ B), candidate |-> LayersAt(B \ A)]
      /\ coverage.common = LayersAt(CommonLayers(r))
      /\ coverage.comparable = LayersAt(CommonLayers(r))
  BY CoverageIs DEF Bothsay, CoverageFrom
<1>2. CommonLayers(r) = A \cap B /\ Layers # {}
  <2>1. 0 \in Layers
    BY EvidenceChainAssumption DEF Layers
  <2>2. CommonLayers(r) = A \cap B
    BY DEF CommonLayers
  <2> QED
    BY <2>1, <2>2
<1>3. /\ A \in SUBSET Layers /\ B \in SUBSET Layers
      /\ ref.requested \in {LayersAt(Layers), LayersAt(A)}
      /\ cand.requested \in {LayersAt(Layers), LayersAt(B)}
      /\ IsPartition(ref.requested, LayersAt(A), ref.missing)
      /\ IsPartition(cand.requested, LayersAt(B), cand.missing)
  BY LayoutIsPartitioned DEF Bothsay, Sides
<1> HIDE DEF coverage, A, B, ref, cand
<1>4. \A s \in Sides : IsPartition(coverage.requested[s], coverage.captured[s],
                                   coverage.missing[s])
  BY <1>1, <1>3 DEF Sides
<1>5. CoverageIsCoherent(coverage)
  <2>1. /\ coverage.captured["reference"] = LayersAt(A)
        /\ coverage.captured["candidate"] = LayersAt(B)
        /\ coverage.only["reference"] = LayersAt(A \ B)
        /\ coverage.only["candidate"] = LayersAt(B \ A)
    BY <1>1
  <2>2. coverage.common = LayersAt(A \cap B) /\ coverage.comparable = LayersAt(A \cap B)
    BY <1>1, <1>2
  <2> QED
    BY <1>3, <1>4, <2>1, <2>2, CoverageCoheres
<1>6. ASSUME CommonLayers(r) # {}
      PROVE  \A s \in Sides : coverage.requested[s] # <<>>
  <2>1. A # {} /\ B # {}
    BY <1>2, <1>6
  <2>2. LayersAt(A) # <<>> /\ LayersAt(B) # <<>> /\ LayersAt(Layers) # <<>>
    BY <1>2, <1>3, <2>1, SomeLayers
  <2> QED
    BY <1>1, <1>3, <2>2 DEF Sides
<1> QED
  BY <1>5, <1>6 DEF coverage

-------------------------------------------------------------------------------
(* Genuine files: Pass 3 accepts them. *)
IsGenuine(r) == IsRun(r) /\ r.fault = NoFault

LEMMA GatePasses ==
    \A condition, status, reason : condition => Gate(condition, status, reason).passes
BY DEF Gate

LEMMA GenuineFiles ==
    ASSUME NEW r, r.fault = NoFault, NEW s \in Sides
    PROVE  /\ KindAt(r, s) = "none"
           /\ LET report == ReportOf(r, s) IN
              /\ report.kind = "run_report" /\ report.set = <<r.generation, s>>
              /\ report.manifest = Manifest(r)
           /\ LET trace == TraceOf(r, s) IN
              /\ trace.kind = "layer_trace" /\ trace.set = <<r.generation, s>>
              /\ trace.payload = "none" /\ trace.manifest = Manifest(r)
              /\ trace.layout = LayerLayout(r.captured[s])
              /\ trace.intra = OddStages(IF r.target = Absent THEN None ELSE StageBlock(r, s),
                                         "none")
<1>1. KindAt(r, s) = "none"
  BY DEF KindAt, NoFault, Sides
<1>2. \A x : OddManifest(x, "none") = x /\ OddLayout(x, "none") = x
  BY DEF OddManifest, OddLayout
<1>3. /\ ReportOf(r, s).kind = "run_report" /\ ReportOf(r, s).set = <<r.generation, s>>
      /\ ReportOf(r, s).manifest = Manifest(r)
  BY <1>1, <1>2 DEF ReportOf, WrittenReport
<1> DEFINE written == IF r.target = Absent THEN None ELSE StageBlock(r, s)
           trace == TraceOf(r, s)
<1>4. /\ trace.set = <<r.generation, s>>
      /\ trace.kind = IF KindAt(r, s) = "trace_kind" THEN "other" ELSE "layer_trace"
      /\ trace.payload = IF KindAt(r, s) = "payload" THEN "tensor_values" ELSE "none"
      /\ trace.manifest = OddManifest(Manifest(r), KindAt(r, s))
      /\ trace.layout = OddLayout(LayerLayout(r.captured[s]), KindAt(r, s))
      /\ trace.intra = OddStages(written, KindAt(r, s))
  BY TraceIs
<1> HIDE DEF written, trace
<1>5. /\ trace.kind = "layer_trace" /\ trace.set = <<r.generation, s>>
      /\ trace.payload = "none" /\ trace.manifest = Manifest(r)
      /\ trace.layout = LayerLayout(r.captured[s])
      /\ trace.intra = OddStages(written, "none")
  BY <1>1, <1>2, <1>4
<1> QED
  BY <1>1, <1>3, <1>5 DEF written, trace

LEMMA GenuinePass2 ==
    ASSUME NEW r, r.fault = NoFault
    PROVE  LET pass2 == Pass2Of(r) IN
           /\ pass2.status = "reproduction_verified" /\ pass2.tier = Independent
           /\ pass2.generated = Step - 1 /\ pass2.step = Step
           /\ SelectedSources(pass2) = Reports(r)
           /\ SourceRoles(pass2) = [reference |-> "reference_reproduction",
                                    candidate |-> "candidate_reproduction"]
<1>1. r.fault.kind = "none"
  BY DEF NoFault
<1>2. /\ Pass2Of(r).status = "reproduction_verified" /\ Pass2Of(r).tier = Independent
      /\ Pass2Of(r).generated = Step - 1 /\ Pass2Of(r).step = Step
      /\ Pass2Of(r).reproduction = Reports(r)
  BY <1>1 DEF Pass2Of, Reports
<1> QED
  BY <1>2 DEF SelectedSources, SourceRoles

LEMMA GenuineLayout ==
    ASSUME NEW A \in SUBSET Layers
    PROVE  CoverageIsDeclared(LayerLayout(A)) = Passed
<1> DEFINE layout == LayerLayout(A)
           missing == [i \in DOMAIN layout.missing |-> layout.missing[i].coordinate]
           parts == /\ Keys(layout.captured) \cap Keys(missing) = {}
                    /\ Keys(layout.requested) = Keys(layout.captured) \cup Keys(missing)
                    /\ \A i \in DOMAIN layout.requested :
                          layout.requested[i].layer < layout.total
           steps == \A i \in DOMAIN layout.requested : layout.requested[i].step = layout.step
           a == Gate(parts, "checkpoint_summary_malformed", "checkpoint_summary_malformed")
           b == Gate(steps, "checkpoint_alignment_inconsistent",
                     "checkpoint_alignment_inconsistent")
<1>1. Layers \in SUBSET Layers /\ Layers \ A \in SUBSET Layers
  OBVIOUS
<1>2. /\ layout.requested = LayersAt(Layers) /\ layout.captured = LayersAt(A)
      /\ layout.step = Step /\ layout.total = LayerCount
      /\ layout.missing = NotCaptured(LayersAt(Layers \ A))
  BY DEF LayerLayout
<1>3. missing = LayersAt(Layers \ A)
  <2>1. \A cs : /\ DOMAIN NotCaptured(cs) = DOMAIN cs
                /\ \A i \in DOMAIN cs : NotCaptured(cs)[i].coordinate = cs[i]
    BY DEF NotCaptured
  <2>2. LayersAt(Layers \ A) = [i \in DOMAIN LayersAt(Layers \ A) |-> LayersAt(Layers \ A)[i]]
    BY DEF LayersAt
  <2> DEFINE at == LayersAt(Layers \ A)
  <2>3. missing = [i \in DOMAIN NotCaptured(at) |-> NotCaptured(at)[i].coordinate]
    BY <1>2
  <2> HIDE DEF missing, at
  <2>4. missing = [i \in DOMAIN at |-> at[i]]
    BY <2>1, <2>3
  <2> QED
    BY <2>2, <2>4 DEF at
<1>4. CoverageIsDeclared(layout) =
        FirstOf(<< CoordinateOrder(layout.requested), CoordinateOrder(layout.captured),
                   CoordinateOrder(missing), FirstRefusal(<<a, b>>) >>)
  BY DEF CoverageIsDeclared
<1> HIDE DEF layout, missing
<1>5. /\ CoordinateOrder(layout.requested) = Passed /\ CoordinateOrder(layout.captured) = Passed
      /\ CoordinateOrder(missing) = Passed
  BY <1>1, <1>2, <1>3, LayersAreInOrder DEF InOrder
<1>6. \A i \in DOMAIN LayersAt(Layers) : /\ LayersAt(Layers)[i].layer \in Layers
                                        /\ LayersAt(Layers)[i].step = Step
  <2>1. /\ DOMAIN LayersAt(Layers) = 1 .. Cardinality(Layers)
        /\ \A i \in 1 .. Cardinality(Layers) :
              /\ LayersAt(Layers)[i] = LayerAt(LayersAt(Layers)[i].layer)
              /\ LayersAt(Layers)[i].layer \in Layers
    BY <1>1, LayersAtIs
  <2>2. \A l : LayerAt(l).step = Step
    BY DEF LayerAt
  <2> QED
    BY <2>1, <2>2
<1>7. parts
  <2>1. /\ Keys(layout.captured) = {<<Step, l>> : l \in A}
        /\ Keys(missing) = {<<Step, l>> : l \in Layers \ A}
        /\ Keys(layout.requested) = {<<Step, l>> : l \in Layers}
    BY <1>1, <1>2, <1>3, KeysOfLayers
  <2>2. \A l, m : <<Step, l>> = <<Step, m>> => l = m
    OBVIOUS
  <2>3. Keys(layout.captured) \cap Keys(missing) = {}
    BY <2>1, <2>2
  <2>4. Keys(layout.requested) = Keys(layout.captured) \cup Keys(missing)
    BY <2>1
  <2>5. \A l \in Layers : l < LayerCount
    BY EvidenceChainAssumption DEF Layers
  <2> QED
    BY <1>2, <1>6, <2>3, <2>4, <2>5
<1>8. steps
  BY <1>2, <1>6
<1> HIDE DEF parts, steps
<1>9. a.passes /\ b.passes
  BY <1>7, <1>8, GatePasses
<1> HIDE DEF a, b
<1>10. FirstRefusal(<<a, b>>) = Passed
  BY <1>9, FirstRefusal2
<1> QED
  BY ONLY <1>4, <1>5, <1>10, FirstOf4 DEF layout

LEMMA GenuineTraceIsRead ==
    ASSUME NEW r, IsGenuine(r), NEW s \in Sides
    PROVE  NormalizeLayerTrace(TraceOf(r, s)) = Passed
<1> DEFINE trace == TraceOf(r, s)
           at == LayersAt(r.captured[s])
<1>1. IsRun(r) /\ r.fault = NoFault /\ r.captured[s] \in SUBSET Layers
  BY DEF IsGenuine, IsRun
<1>2. /\ KindAt(r, s) = "none" /\ trace.payload = "none" /\ trace.manifest = Manifest(r)
      /\ trace.layout = LayerLayout(r.captured[s])
  BY <1>1, GenuineFiles
<1>3. /\ DOMAIN trace.summaries = DOMAIN at /\ DOMAIN at \subseteq Nat
      /\ at = [i \in DOMAIN at |-> at[i]]
      /\ \A i \in DOMAIN at :
            /\ trace.summaries[i].coordinate = at[i] /\ trace.summaries[i].wellformed
            /\ trace.summaries[i].digest = DigestOf(LayerDiffers(r.onset, s, at[i].layer))
  <2>1. DOMAIN at = 1 .. Cardinality(r.captured[s]) /\ Cardinality(r.captured[s]) \in Nat
    BY <1>1, LayersAtIs
  <2>2. at = [i \in DOMAIN at |-> at[i]]
    BY DEF LayersAt
  <2>3. /\ DOMAIN trace.summaries = DOMAIN at
        /\ \A i \in DOMAIN at :
            /\ trace.summaries[i].coordinate = at[i] /\ trace.summaries[i].wellformed
            /\ trace.summaries[i].digest = DigestOf(LayerDiffers(r.onset, s, at[i].layer))
    BY <1>1, <1>2, SummariesAre
  <2> HIDE DEF at, trace
  <2> QED
    BY <2>1, <2>2, <2>3
<1>4. /\ trace.layout.supported /\ trace.layout.total > 0
      /\ trace.layout.contract = Contract /\ trace.layout.captured = at
  BY <1>2, EvidenceChainAssumption DEF LayerLayout
<1>5. trace.manifest.family = Family /\ trace.manifest.precision # Malformed
  BY <1>2 DEF Manifest, Malformed
<1> HIDE DEF trace, at
<1>6. LayoutIsSupported(trace) = Passed
  <2>1. trace.payload # "tensor_values"
    BY <1>2
  <2> DEFINE a == Gate(trace.payload # "tensor_values",
                       "checkpoint_summary_malformed", "checkpoint_summary_malformed")
             b == Gate(trace.layout.supported,
                       "unsupported_checkpoint_layout", "unsupported_checkpoint_layout")
             c == Gate(trace.layout.total > 0,
                       "checkpoint_summary_malformed", "checkpoint_summary_malformed")
  <2>2. a.passes
    BY <2>1, GatePasses
  <2>3. b.passes
    BY <1>4, GatePasses
  <2>4. c.passes
    <3> DEFINE some == trace.layout.total > 0
    <3>1. some
      BY <1>4
    <3> HIDE DEF some
    <3>2. Gate(some, "checkpoint_summary_malformed", "checkpoint_summary_malformed").passes
      BY <3>1, GatePasses
    <3> QED
      BY <3>2 DEF some
  <2>5. LayoutIsSupported(trace) = FirstRefusal(<<a, b, c>>)
    BY DEF LayoutIsSupported
  <2> HIDE DEF a, b, c
  <2> QED
    BY ONLY <2>2, <2>3, <2>4, <2>5, FirstRefusal3
<1>7. CoverageIsDeclared(trace.layout) = Passed
  BY <1>1, <1>2, GenuineLayout
<1>8. ContractIsKnown(trace) = Passed
  <2> DEFINE a == Gate(trace.layout.contract = Contract,
                       "comparison_policy_unavailable", "checkpoint_digest_incompatible")
             b == Gate(trace.manifest.family = Family,
                       "unsupported_checkpoint_layout", "unsupported_checkpoint_layout")
             c == Gate(trace.manifest.precision # Malformed,
                       "checkpoint_summary_malformed", "checkpoint_summary_malformed")
  <2>1. a.passes
    BY <1>4, GatePasses
  <2>2. b.passes
    BY <1>5, GatePasses
  <2>3. c.passes
    BY <1>5, GatePasses
  <2>4. ContractIsKnown(trace) = FirstRefusal(<<a, b, c>>)
    BY DEF ContractIsKnown
  <2> HIDE DEF a, b, c
  <2> QED
    BY ONLY <2>1, <2>2, <2>3, <2>4, FirstRefusal3
<1>9. EachInTurn(trace.summaries, SummaryIsRead) = Passed
  <2> DEFINE each == [i \in DOMAIN trace.summaries |-> SummaryIsRead(trace.summaries[i])]
  <2>1. ASSUME NEW i \in DOMAIN trace.summaries PROVE SummaryIsRead(trace.summaries[i]) = Passed
    <3> DEFINE summary == trace.summaries[i]
               a == Gate(summary.wellformed,
                         "checkpoint_summary_malformed", "checkpoint_summary_malformed")
               b == Gate(summary.digest # "missing",
                         "comparison_policy_unavailable", "summary_field_missing")
               c == Gate(summary.digest # Malformed,
                         "comparison_policy_unavailable", "checkpoint_digest_incompatible")
    <3>1. summary.wellformed /\ summary.digest # "missing" /\ summary.digest # Malformed
      <4>1. \A bits : DigestOf(bits) # "missing" /\ DigestOf(bits) # Malformed
        BY DEF DigestOf, Malformed
      <4> QED
        BY <1>3, <2>1, <4>1
    <3> HIDE DEF summary
    <3>2. a.passes
      BY <3>1, GatePasses
    <3>3. b.passes
      BY <3>1, GatePasses
    <3>4. c.passes
      BY <3>1, GatePasses
    <3>5. SummaryIsRead(summary) = FirstRefusal(<<a, b, c>>)
      BY DEF SummaryIsRead
    <3> HIDE DEF a, b, c
    <3>6. SummaryIsRead(summary) = Passed
      BY ONLY <3>2, <3>3, <3>4, <3>5, FirstRefusal3
    <3> QED
      BY <3>6 DEF summary
  <2>2. DOMAIN each \subseteq Nat /\ \A i \in DOMAIN each : each[i] = Passed
    BY <1>3, <2>1
  <2>3. EachInTurn(trace.summaries, SummaryIsRead) = FirstOf(each)
    BY DEF EachInTurn
  <2> HIDE DEF each
  <2> QED
    BY <2>2, <2>3, FirstOfIs
<1>10. SummariesAreCaptured(trace) = Passed
  <2> DEFINE coordinates == [i \in DOMAIN trace.summaries |-> trace.summaries[i].coordinate]
             same == Keys(coordinates) = Keys(trace.layout.captured)
             equal == coordinates = trace.layout.captured
             a == Gate(same, "checkpoint_summary_malformed", "checkpoint_summary_malformed")
             b == Gate(equal, "checkpoint_alignment_inconsistent",
                       "checkpoint_alignment_inconsistent")
  <2>1. SummariesAreCaptured(trace) = FirstOf(<< CoordinateOrder(coordinates),
                                                 FirstRefusal(<<a, b>>) >>)
    BY DEF SummariesAreCaptured
  <2>2. coordinates = at
    BY <1>3
  <2>3. CoordinateOrder(coordinates) = Passed
    BY <1>1, <2>2, LayersAreInOrder DEF InOrder, at
  <2> HIDE DEF coordinates
  <2>4. same /\ equal
    BY <1>4, <2>2
  <2> HIDE DEF same, equal
  <2>5. a.passes /\ b.passes
    BY <2>4, GatePasses
  <2> HIDE DEF a, b
  <2>6. FirstRefusal(<<a, b>>) = Passed
    BY <2>5, FirstRefusal2
  <2> QED
    BY ONLY <2>1, <2>3, <2>6, FirstOf2
<1>11. NormalizeLayerTrace(trace) = Passed
  BY ONLY <1>6, <1>7, <1>8, <1>9, <1>10, FirstOf5 DEF NormalizeLayerTrace
<1> QED
  BY <1>11 DEF trace


LEMMA GenuineGateA ==
    ASSUME NEW r, r.fault = NoFault
    PROVE  FirstOf(<< TypedPass2Ready(Pass2Of(r)),
                      Pass2ArtifactCoheres(Pass2Of(r), Pass2Of(r)) >>) = Passed
<1> DEFINE pass2 == Pass2Of(r)
           ready == /\ pass2.status = "reproduction_verified"
                    /\ pass2.generated >= 0
                    /\ pass2.step = pass2.generated + 1
           a == Gate(pass2.tier # RequestOnly,
                     "comparison_blocked_by_pass2", "reproduction_request_only")
           b == Gate(ready, "comparison_blocked_by_pass2", "pass2_not_ready")
           c == Gate(pass2.status # Malformed,
                     "comparison_blocked_by_pass2", "pass2_artifact_identity_inconsistent")
           d == Gate(pass2 = pass2,
                     "comparison_blocked_by_pass2", "pass2_object_artifact_inconsistent")
<1>1. /\ pass2.status = "reproduction_verified" /\ pass2.tier = Independent
      /\ pass2.generated = 1 /\ pass2.step = 2
  BY GenuinePass2 DEF Step
<1> HIDE DEF pass2
<1>2. ready /\ pass2.tier # RequestOnly /\ pass2.status # Malformed
  BY <1>1 DEF Independent, RequestOnly, Malformed
<1>3. /\ TypedPass2Ready(pass2) = FirstRefusal(<<a, b>>)
      /\ Pass2ArtifactCoheres(pass2, pass2) = FirstRefusal(<<c, d>>)
  BY DEF TypedPass2Ready, Pass2ArtifactCoheres
<1> HIDE DEF ready
<1>4. a.passes /\ b.passes
  BY <1>2, GatePasses
<1>5. c.passes /\ d.passes
  BY <1>2, GatePasses
<1> HIDE DEF a, b, c, d
<1>6. TypedPass2Ready(pass2) = Passed /\ Pass2ArtifactCoheres(pass2, pass2) = Passed
  BY ONLY <1>3, <1>4, <1>5, FirstRefusal2
<1>7. FirstOf(<< TypedPass2Ready(pass2), Pass2ArtifactCoheres(pass2, pass2) >>) = Passed
  BY ONLY <1>6, FirstOf2
<1> QED
  BY <1>7 DEF pass2

LEMMA GenuineReportIsBound ==
    ASSUME NEW r, r.fault = NoFault, NEW s \in Sides
    PROVE  RunReportBinding(Pass2Of(r), ReportOf(r, s), TraceOf(r, s)) = Passed
<1> DEFINE pass2 == Pass2Of(r)
           report == ReportOf(r, s)
           trace == TraceOf(r, s)
           whole == trace.kind = "layer_trace" /\ trace.set # None
           named == report.kind = "run_report" /\ report.set # None
           a == Gate(whole, "source_binding_inconsistent", "binding_metadata_missing")
           b == Gate(trace.layout.step # Absent,
                     "unsupported_checkpoint_layout", "unsupported_checkpoint_layout")
           c == Gate(trace.layout.step = pass2.step,
                     "checkpoint_alignment_inconsistent", "runtime_checkpoint_step_mismatch")
           d == Gate(named, "source_binding_inconsistent", "binding_metadata_missing")
           e == Gate(report.set = trace.set,
                     "source_binding_inconsistent", "artifact_set_id_inconsistent")
           f == Gate(report.manifest = trace.manifest,
                     "source_binding_inconsistent", "source_binding_inconsistent")
           g == Gate(report.manifest.step = pass2.step,
                     "checkpoint_alignment_inconsistent", "runtime_checkpoint_step_mismatch")
<1>1. /\ report.kind = "run_report" /\ report.set = <<r.generation, s>>
      /\ report.manifest = Manifest(r)
      /\ trace.kind = "layer_trace" /\ trace.set = <<r.generation, s>>
      /\ trace.manifest = Manifest(r) /\ trace.layout = LayerLayout(r.captured[s])
  BY GenuineFiles
<1>2. pass2.step = Step
  BY GenuinePass2
<1>3. RunReportBinding(pass2, report, trace) = FirstRefusal(<<a, b, c, d, e, f, g>>)
  BY DEF RunReportBinding
<1> HIDE DEF pass2, report, trace
<1>4. <<r.generation, s>> # None
  BY DEF None
<1>5. trace.layout.step = Step /\ Step # Absent /\ report.manifest.step = Step
  BY <1>1 DEF LayerLayout, Manifest, Step, Absent
<1>6. whole /\ named /\ report.set = trace.set /\ report.manifest = trace.manifest
  BY <1>1, <1>4
<1>7. /\ trace.layout.step # Absent /\ trace.layout.step = pass2.step
      /\ report.manifest.step = pass2.step
  BY <1>2, <1>5
<1> HIDE DEF whole, named
<1>8. a.passes /\ b.passes /\ c.passes /\ d.passes
  BY <1>6, <1>7, GatePasses
<1>9. e.passes /\ f.passes /\ g.passes
  BY <1>6, <1>7, GatePasses
<1> HIDE DEF a, b, c, d, e, f, g
<1>10. RunReportBinding(pass2, report, trace) = Passed
  BY ONLY <1>3, <1>8, <1>9, FirstRefusal7
<1> QED
  BY <1>10 DEF pass2, report, trace

LEMMA GenuineGateB ==
    ASSUME NEW r, r.fault = NoFault
    PROVE  BothSourceBindings(Pass2Of(r), Reports(r), Traces(r)) = Passed
<1> DEFINE pass2 == Pass2Of(r)
           reports == Reports(r)
           traces == Traces(r)
           there == \A s \in Sides : SelectedSources(pass2)[s] # None
           a == Gate(there, "source_binding_inconsistent", "binding_metadata_missing")
<1>1. /\ SelectedSources(pass2) = reports
      /\ \A s \in Sides : reports[s] = ReportOf(r, s) /\ traces[s] = TraceOf(r, s)
  BY GenuinePass2 DEF Reports, Traces
<1>2. \A s \in Sides : ReportOf(r, s) # None
  <2> SUFFICES ASSUME NEW s \in Sides
               PROVE  ReportOf(r, s) # None
    OBVIOUS
  <2> DEFINE set == IF KindAt(r, s) = "report_set" THEN <<"other">> ELSE WrittenReport(r, s).set
             manifest == OddManifest(WrittenReport(r, s).manifest, KindAt(r, s))
  <2>1. ReportOf(r, s) = [WrittenReport(r, s) EXCEPT !.set = set, !.manifest = manifest]
    BY DEF ReportOf
  <2> HIDE DEF set, manifest
  <2>2. ReportOf(r, s) = [kind |-> "run_report", set |-> set, manifest |-> manifest]
    BY <2>1 DEF WrittenReport
  <2>3. \A k, ls, m : [kind |-> k, set |-> ls, manifest |-> m] # None
    BY DEF None
  <2> QED
    BY <2>2, <2>3
<1>3. \A s \in Sides : RunReportBinding(pass2, reports[s], traces[s]) = Passed
  BY <1>1, GenuineReportIsBound
<1> HIDE DEF pass2, reports, traces
<1>4. \A s \in Sides : ReportIsBound(pass2, s, reports[s]) = Passed
  <2> SUFFICES ASSUME NEW s \in Sides
               PROVE  ReportIsBound(pass2, s, reports[s]) = Passed
    OBVIOUS
  <2> DEFINE b == Gate(reports[s] = SelectedSources(pass2)[s],
                       "source_binding_inconsistent", "run_report_canonical_sha_inconsistent")
  <2>1. b.passes
    BY <1>1, GatePasses
  <2>2. ReportIsBound(pass2, s, reports[s]) = FirstRefusal(<<b>>)
    BY DEF ReportIsBound
  <2> HIDE DEF b
  <2> QED
    BY ONLY <2>1, <2>2, FirstRefusal1
<1>5. a.passes
  BY <1>1, <1>2, GatePasses
<1>6. BothSourceBindings(pass2, reports, traces) =
        FirstOf(<< FirstRefusal(<<a>>),
                   ReportIsBound(pass2, "reference", reports["reference"]),
                   ReportIsBound(pass2, "candidate", reports["candidate"]),
                   RunReportBinding(pass2, reports["reference"], traces["reference"]),
                   RunReportBinding(pass2, reports["candidate"], traces["candidate"]) >>)
  BY DEF BothSourceBindings
<1> HIDE DEF a
<1>7. FirstRefusal(<<a>>) = Passed
  BY ONLY <1>5, FirstRefusal1
<1>8. "reference" \in Sides /\ "candidate" \in Sides
  BY DEF Sides
<1>9. /\ ReportIsBound(pass2, "reference", reports["reference"]) = Passed
      /\ ReportIsBound(pass2, "candidate", reports["candidate"]) = Passed
      /\ RunReportBinding(pass2, reports["reference"], traces["reference"]) = Passed
      /\ RunReportBinding(pass2, reports["candidate"], traces["candidate"]) = Passed
  BY <1>3, <1>4, <1>8
<1>10. BothSourceBindings(pass2, reports, traces) = Passed
  BY ONLY <1>6, <1>7, <1>9, FirstOf5
<1> QED
  BY <1>10 DEF pass2, reports, traces

LEMMA GenuineSummary ==
    ASSUME NEW r, IsGenuine(r), NEW s \in Sides, NEW l \in r.captured[s]
    PROVE  LET summary == SummaryAt(TraceOf(r, s), LogicalKey(LayerAt(l))) IN
           summary.shape = "hidden" /\ summary.coordinate = LayerAt(l)
<1> DEFINE trace == TraceOf(r, s)
           set == r.captured[s]
           at == LayersAt(set)
           N == Cardinality(set)
           i == CHOOSE i \in DOMAIN trace.summaries :
                    LogicalKey(trace.summaries[i].coordinate) = LogicalKey(LayerAt(l))
<1>1. IsRun(r) /\ set \in SUBSET Layers /\ r.fault = NoFault
  BY DEF IsGenuine, IsRun
<1>2. /\ DOMAIN at = 1 .. N
      /\ \A j \in 1 .. N : at[j] = LayerAt(at[j].layer)
      /\ \E j \in 1 .. N : at[j].layer = l
  <2>1. l \in set
    OBVIOUS
  <2> HIDE DEF set
  <2> QED
    BY <1>1, <2>1, LayersAtIs
<1>3. /\ DOMAIN trace.summaries = DOMAIN at
      /\ \A j \in DOMAIN at :
            /\ trace.summaries[j].coordinate = at[j]
            /\ trace.summaries[j].shape = "hidden"
  <2>1. KindAt(r, s) = "none"
    BY <1>1, GenuineFiles
  <2> QED
    BY <1>1, <2>1, SummariesAre
<1>4. SummaryAt(trace, LogicalKey(LayerAt(l))) = trace.summaries[i]
  BY DEF SummaryAt
<1>5. i \in 1 .. N /\ LogicalKey(at[i]) = LogicalKey(LayerAt(l))
  <2> HIDE DEF trace, at, N
  <2>1. \E j \in DOMAIN trace.summaries :
           LogicalKey(trace.summaries[j].coordinate) = LogicalKey(LayerAt(l))
    BY <1>2, <1>3
  <2> QED
    BY <1>2, <1>3, <2>1
<1> HIDE DEF trace, at, N, i, set
<1>6. at[i].layer = l
  <2>1. LogicalKey(at[i]) = <<Step, at[i].layer>> /\ LogicalKey(LayerAt(l)) = <<Step, l>>
    BY <1>2, <1>5, KeyOfLayer
  <2>2. <<Step, at[i].layer>> = <<Step, l>>
    BY <1>5, <2>1
  <2> QED
    BY <2>2
<1>7. trace.summaries[i].shape = "hidden" /\ trace.summaries[i].coordinate = LayerAt(l)
  BY <1>2, <1>3, <1>5, <1>6
<1> QED
  BY <1>4, <1>7 DEF trace

LEMMA GenuineSidesAlign ==
    ASSUME NEW r, IsGenuine(r), Bothsay(r)
    PROVE  Aligned(TraceOf(r, "reference"), TraceOf(r, "candidate"), CoverageFrom(r))
<1> DEFINE ref == TraceOf(r, "reference")
           cand == TraceOf(r, "candidate")
           common == LayersAt(CommonLayers(r))
<1>1. IsRun(r) /\ r.fault = NoFault /\ CommonLayers(r) \in SUBSET Layers
  BY FoundInIs DEF IsGenuine
<1>2. CoverageFrom(r).common = common
  BY <1>1, CoverageIs DEF Bothsay, CoverageFrom
<1>3. ref.manifest = cand.manifest
  BY <1>1, GenuineFiles DEF Sides
<1>4. ASSUME NEW i \in DOMAIN common
      PROVE  LET left  == SummaryAt(ref, LogicalKey(common[i]))
                 right == SummaryAt(cand, LogicalKey(common[i]))
             IN  /\ left.shape = right.shape
                 /\ left.coordinate.ordinal = right.coordinate.ordinal
  <2>1. PICK l \in CommonLayers(r) : common[i] = LayerAt(l)
    BY <1>1, <1>4, LayersAtIs
  <2>2. \A s \in Sides : l \in r.captured[s]
    BY <2>1 DEF CommonLayers, Sides
  <2>3. /\ SummaryAt(ref, LogicalKey(LayerAt(l))).shape = "hidden"
        /\ SummaryAt(ref, LogicalKey(LayerAt(l))).coordinate = LayerAt(l)
    BY <2>2, GenuineSummary DEF Sides
  <2>4. /\ SummaryAt(cand, LogicalKey(LayerAt(l))).shape = "hidden"
        /\ SummaryAt(cand, LogicalKey(LayerAt(l))).coordinate = LayerAt(l)
    BY <2>2, GenuineSummary DEF Sides
  <2> QED
    BY <2>1, <2>3, <2>4
<1> HIDE DEF ref, cand, common
<1>5. Aligned(ref, cand, CoverageFrom(r))
  BY <1>2, <1>3, <1>4 DEF Aligned
<1> QED
  BY <1>5 DEF ref, cand

\* What Pass 3 says of genuine files follows from what was captured.
LEMMA GenuineLocalization ==
    ASSUME NEW r, IsGenuine(r)
    PROVE  LET x == LocalizeLayers(Pass2Of(r), Pass2Of(r), Reports(r), Traces(r)) IN
           /\ ResultSays(r, x) /\ IsBound(x, Pass2Of(r), Reports(r), Traces(r))
           /\ CommonLayers(r) = {} =>
                 x.status = "insufficient_common_coverage" /\ x.comparisons = <<>>
           /\ CommonLayers(r) # {} => IsCompared(r, x)
           /\ x.warnings = "few"
<1> DEFINE pass2 == Pass2Of(r)
           reports == Reports(r)
           traces == Traces(r)
           ref  == TraceOf(r, "reference")
           cand == TraceOf(r, "candidate")
           gateA == FirstOf(<< TypedPass2Ready(pass2), Pass2ArtifactCoheres(pass2, pass2) >>)
           gateB == BothSourceBindings(pass2, reports, traces)
           gateC == FirstOf(<< NormalizeLayerTrace(ref), NormalizeLayerTrace(cand) >>)
           coverage == CoverageOf(ref, cand)
           items == Comparisons(ref, cand, coverage.comparable)
           blocked(refusal) == Blocked(pass2, refusal)
           inherited(refusal) == WithPass2(blocked(refusal), pass2)
           bound(refusal) == WithSources(inherited(refusal), pass2, reports, traces)
           none  == [status |-> "insufficient_common_coverage", reason |-> "none"]
           apart == [status |-> "checkpoint_alignment_inconsistent",
                     reason |-> "checkpoint_alignment_inconsistent"]
           x == LocalizeLayers(pass2, pass2, reports, traces)
<1>1. traces["reference"] = ref /\ traces["candidate"] = cand
  BY DEF Sides, Traces
<1>2. x = IF gateA # Passed THEN blocked(gateA)
          ELSE IF gateB # Passed THEN inherited(gateB)
          ELSE IF gateC # Passed THEN bound(gateC)
          ELSE IF coverage.common = <<>>
               THEN [bound(none) EXCEPT !.coverage = coverage,
                                        !.reasons = InsufficientReasons(coverage)]
          ELSE IF ~Aligned(ref, cand, coverage)
               THEN [bound(apart) EXCEPT !.coverage = coverage, !.warnings = OneMore(@)]
          ELSE Compared(bound(Passed), coverage, items)
  BY <1>1 DEF LocalizeLayers
<1>3. IsRun(r) /\ r.fault = NoFault /\ CommonLayers(r) \in SUBSET Layers
  BY FoundInIs DEF IsGenuine
<1>4. ResultSays(r, x)
  BY <1>3, LocalizationSays
<1>5. gateA = Passed
  BY <1>3, GenuineGateA
<1>6. gateB = Passed
  BY <1>3, GenuineGateB
<1>7. NormalizeLayerTrace(ref) = Passed /\ NormalizeLayerTrace(cand) = Passed
  BY GenuineTraceIsRead DEF Sides
<1>8. gateC = Passed
  BY ONLY <1>7, FirstOf2
<1>9. Bothsay(r)
  BY <1>3, <1>7, AcceptedTraceSays DEF Bothsay, Sides
<1>10. Aligned(ref, cand, coverage)
  <2>1. Aligned(ref, cand, CoverageFrom(r))
    BY <1>9, GenuineSidesAlign
  <2> QED
    BY <2>1 DEF CoverageFrom
<1>11. coverage.common = LayersAt(CommonLayers(r))
  BY <1>3, <1>9, CoverageIs DEF Bothsay
<1>12. /\ RefusedAt(bound(none), none, pass2.step) /\ RefusedAt(bound(Passed), Passed, pass2.step)
       /\ IsBound(bound(none), pass2, reports, traces)
       /\ IsBound(bound(Passed), pass2, reports, traces)
       /\ bound(none).warnings = "few" /\ bound(Passed).warnings = "few"
  <2>1. pass2.warnings = "few"
    BY <1>3 DEF Pass2Of, NoFault
  <2> HIDE DEF pass2, reports, traces
  <2> QED
    BY <2>1, BlockedFields
<1> HIDE DEF gateA, gateB, gateC, blocked, inherited, bound, x, ref, cand, pass2, reports, traces
<1> DEFINE b == bound(none)
           d == bound(Passed)
<1>13. /\ SaysNothing(b) /\ IsBound(b, pass2, reports, traces)
       /\ SaysNothing(d) /\ IsBound(d, pass2, reports, traces)
       /\ b.status = "insufficient_common_coverage"
       /\ b.warnings = "few" /\ d.warnings = "few"
  BY <1>12 DEF RefusedAt
<1>14. x = IF coverage.common = <<>>
           THEN [b EXCEPT !.coverage = coverage, !.reasons = InsufficientReasons(coverage)]
           ELSE Compared(d, coverage, items)
  BY <1>2, <1>5, <1>6, <1>8, <1>10
<1> HIDE DEF b, d, coverage, items
<1>15. CASE CommonLayers(r) = {}
  <2>1. coverage.common = <<>>
    BY <1>11, <1>15, EmptyLayers
  <2>2. x = [b EXCEPT !.coverage = coverage, !.reasons = InsufficientReasons(coverage)]
    BY <1>14, <2>1
  <2>3. /\ x.status = "insufficient_common_coverage" /\ x.comparisons = <<>>
        /\ IsBound(x, pass2, reports, traces) /\ x.warnings = "few"
    BY <1>13, <2>2 DEF SaysNothing, Fields3, IsBound
  <2> QED
    BY <1>4, <1>15, <2>3 DEF x, pass2, reports, traces
<1>16. CASE CommonLayers(r) # {}
  <2>1. coverage.common # <<>>
    BY <1>3, <1>11, <1>16, SomeLayers
  <2>2. x = Compared(d, coverage, items)
    BY <1>14, <2>1
  <2> DEFINE y == Compared(d, coverage, items)
  <2>3. /\ y.pass2 = d.pass2 /\ y.coherent = d.coherent /\ y.evidence = d.evidence
        /\ y.sources = d.sources /\ y.bound = d.bound /\ y.warnings = d.warnings
        /\ y.status \in Complete
    <3>1. LET n  == Len(items)
              at == items[n].coordinate
              before == IF n = 1 THEN None ELSE items[n - 1].coordinate
          IN  /\ DOMAIN y = Fields3
              /\ y.pass2 = d.pass2 /\ y.coherent = d.coherent /\ y.evidence = d.evidence
              /\ y.sources = d.sources /\ y.bound = d.bound /\ y.step = d.step
              /\ y.warnings = d.warnings
              /\ y.coverage = coverage /\ y.comparisons = items /\ y.decision = Tier1
              /\ y.reasons = <<y.status>> \o AsymmetryOf(coverage)
              /\ IF items[n].equivalent
                 THEN /\ y.status = "no_mismatch_in_captured_coverage"
                      /\ y.disposition = "exploratory_localization_only"
                      /\ y.last = at /\ y.mismatch = None /\ y.interval = None
                      /\ y.layer = Absent
                 ELSE /\ y.status = "observable_mismatch_found"
                      /\ y.disposition = "suspect_interval_available"
                      /\ y.last = before /\ y.mismatch = at /\ y.layer = at.layer
                      /\ y.interval = Interval(before, at)
      BY <1>13, ComparedFields
    <3> HIDE DEF y
    <3> QED
      BY <3>1 DEF Complete
  <2> HIDE DEF y
  <2>4. x = y
    BY <2>2 DEF y
  <2>5. /\ IsBound(x, pass2, reports, traces) /\ x.status \in Complete
        /\ x.warnings = "few"
    BY <1>13, <2>3, <2>4 DEF IsBound
  <2>6. ~IsRefused3(r, x)
    BY <2>5 DEF IsRefused3, Refusals3, Complete
  <2>7. IsCompared(r, x)
    BY <1>4, <2>6 DEF ResultSays
  <2> QED
    BY <1>4, <1>16, <2>5, <2>7 DEF x, pass2, reports, traces
<1> QED
  BY <1>15, <1>16


-------------------------------------------------------------------------------
(* Genuine stages: gates 6 and 7 accept them, and gate 8 compares them.       *)
StageAt(r, c) == StageCoordinate(Step, r.target, 0, c)

LEMMA PickedOfStages ==
    ASSUME NEW r, NEW S \in SUBSET StageIds, NEW T \in SUBSET S
    PROVE  LET at == StagesAt(r, S) IN
           Picked(at, {i \in DOMAIN at : at[i].stage \in T}) = StagesAt(r, T)
<1> DEFINE at == StagesAt(r, S)
           N == Cardinality(S)
           I == {i \in 1 .. N : Ascending(S)[i] \in T}
           M == Cardinality(T)
<1>1. S \in SUBSET Int /\ IsFiniteSet(S)
  BY StagesAreFinite
<1>2. /\ M \in Nat /\ Cardinality(I) = M /\ Ascending(I) \in [1 .. M -> I]
      /\ \A n \in 1 .. M : Ascending(S)[Ascending(I)[n]] = Ascending(T)[n]
  BY <1>1, PickedAscends
<1>3. /\ DOMAIN at = 1 .. N
      /\ \A i \in 1 .. N : at[i].stage = Ascending(S)[i] /\ at[i] = StageAt(r, at[i].stage)
  BY StagesAtIs DEF StageAt
<1>4. {i \in DOMAIN at : at[i].stage \in T} = I
  <2> HIDE DEF at, N
  <2> QED
    BY <1>3
<1>5. \A i \in I : i \in 1 .. N
  OBVIOUS
<1>6. Picked(at, I) = [n \in 1 .. M |-> at[Ascending(I)[n]]]
  <2> HIDE DEF at, I, M
  <2> QED
    BY <1>2 DEF Picked
<1>7. StagesAt(r, T) = [n \in 1 .. M |-> StageAt(r, Ascending(T)[n])]
  BY DEF StagesAt, StageAt
<1> HIDE DEF at, I, N, M
<1>8. \A n \in 1 .. M : at[Ascending(I)[n]] = StageAt(r, Ascending(T)[n])
  <2> SUFFICES ASSUME NEW n \in 1 .. M
               PROVE  at[Ascending(I)[n]] = StageAt(r, Ascending(T)[n])
    OBVIOUS
  <2>1. Ascending(I)[n] \in 1 .. N
    BY <1>2, <1>5
  <2> QED
    BY <1>2, <1>3, <2>1
<1>9. Picked(at, I) = StagesAt(r, T)
  BY <1>6, <1>7, <1>8
<1> QED
  BY <1>4, <1>9 DEF at

LEMMA SetOfStages ==
    ASSUME NEW r, NEW S \in SUBSET StageIds
    PROVE  \A c \in StageIds : StageAt(r, c) \in ToSet(StagesAt(r, S)) <=> c \in S
<1> DEFINE at == StagesAt(r, S)
           N == Cardinality(S)
<1>1. /\ DOMAIN at = 1 .. N
      /\ \A i \in 1 .. N : at[i].stage \in S /\ at[i] = StageAt(r, at[i].stage)
      /\ \A c \in S : \E i \in 1 .. N : at[i].stage = c
  BY StagesAtIs DEF StageAt
<1>2. \A c : StageAt(r, c).stage = c
  BY DEF StageAt, StageCoordinate
<1>3. ToSet(at) = {at[i] : i \in DOMAIN at}
  BY DEF ToSet
<1> HIDE DEF at, N
<1>4. \A c \in StageIds : StageAt(r, c) \in ToSet(at) <=> c \in S
  BY <1>1, <1>2, <1>3
<1> QED
  BY <1>4 DEF at

LEMMA OnlyStages ==
    ASSUME NEW r, NEW A \in SUBSET StageIds, NEW T \in SUBSET A, NEW kept,
           \A c \in A : StageAt(r, c) \in kept <=> c \in T
    PROVE  OnlyThose(StagesAt(r, A), kept) = StagesAt(r, T)
<1> DEFINE at == StagesAt(r, A)
           N == Cardinality(A)
<1>1. /\ DOMAIN at = 1 .. N
      /\ \A i \in 1 .. N : at[i].stage \in A /\ at[i] = StageAt(r, at[i].stage)
  BY StagesAtIs DEF StageAt
<1>2. Picked(at, {i \in DOMAIN at : at[i].stage \in T}) = StagesAt(r, T)
  BY PickedOfStages
<1>3. OnlyThose(at, kept) = Picked(at, {i \in DOMAIN at : at[i] \in kept})
  BY DEF OnlyThose
<1> HIDE DEF at, N
<1>4. {i \in DOMAIN at : at[i] \in kept} = {i \in DOMAIN at : at[i].stage \in T}
  BY <1>1
<1>5. OnlyThose(at, kept) = StagesAt(r, T)
  BY <1>2, <1>3, <1>4
<1> QED
  BY <1>5 DEF at

LEMMA RequestedIsAll ==
    ASSUME NEW r
    PROVE  RequestedStages(Step, r.target, 0) = StagesAt(r, StageIds)
<1> DEFINE f == [i \in 1 .. StageCount |-> i - 1]
           ids == {f[i] : i \in 1 .. StageCount}
<1>1. StageCount \in Nat
  BY StageCountAssumption
<1>2. f \in [1 .. StageCount -> Int] /\ \A i, j \in 1 .. StageCount : i < j => f[i] < f[j]
  BY <1>1
<1>3. Cardinality(ids) = StageCount /\ Ascending(ids) = f
  <2> HIDE DEF f
  <2> QED
    BY <1>1, <1>2, AscendingIsUnique
<1>4. ids = StageIds
  <2>1. \A c \in StageIds : c + 1 \in 1 .. StageCount /\ f[c + 1] = c
    BY <1>1 DEF StageIds
  <2>2. \A i \in 1 .. StageCount : f[i] \in StageIds
    BY <1>1 DEF StageIds
  <2> HIDE DEF f
  <2> QED
    BY <2>1, <2>2
<1>5. Cardinality(StageIds) = StageCount /\ Ascending(StageIds) = f
  BY <1>3, <1>4
<1>6. StagesAt(r, StageIds) = [i \in 1 .. StageCount |-> StageCoordinate(Step, r.target, 0, f[i])]
  <2> HIDE DEF f
  <2> QED
    BY <1>5 DEF StagesAt
<1> QED
  BY <1>6 DEF RequestedStages

LEMMA StagesAreInOrder ==
    ASSUME NEW r, r.target \in Int, NEW S \in SUBSET StageIds
    PROVE  StagesInOrder(StagesAt(r, S))
<1> DEFINE at == StagesAt(r, S)
           N == Cardinality(S)
<1>1. /\ N \in Nat /\ at = [i \in 1 .. N |-> at[i]] /\ DOMAIN at = 1 .. N
      /\ \A i \in 1 .. N : at[i].stage \in S /\ at[i] = StageAt(r, at[i].stage)
      /\ \A i, j \in 1 .. N : i < j => at[i].stage < at[j].stage
  BY StagesAtIs DEF StageAt
<1>2. S \subseteq Int
  BY StagesAreFinite
<1>3. \A c : StageAt(r, c).step = Step /\ StageAt(r, c).layer = r.target
             /\ StageAt(r, c).stage = c
  BY DEF StageAt, StageCoordinate
<1> HIDE DEF at, N
<1>4. Len(at) = N
  BY <1>1
<1>5. \A i \in 1 .. N : at[i].step = Step /\ at[i].layer = r.target /\ at[i].stage \in Int
  BY <1>1, <1>2, <1>3
<1>6. IsInjective(at)
  <2>1. \A i, j \in 1 .. N : at[i] = at[j] => i = j
    <3> SUFFICES ASSUME NEW i \in 1 .. N, NEW j \in 1 .. N, at[i] = at[j]
                 PROVE  i = j
      OBVIOUS
    <3>1. i \in Int /\ j \in Int /\ at[i].stage = at[j].stage
      BY <1>1
    <3>2. ~(i < j) /\ ~(j < i)
      BY <1>1, <1>5, <3>1
    <3> QED
      BY <3>1, <3>2
  <2> QED
    BY <1>1, <2>1 DEF IsInjective
<1>7. \A i \in 2 .. N : StagePrecedes(at[i - 1], at[i])
  <2> SUFFICES ASSUME NEW i \in 2 .. N PROVE StagePrecedes(at[i - 1], at[i])
    OBVIOUS
  <2>1. i \in 1 .. N /\ i - 1 \in 1 .. N /\ i - 1 < i
    BY <1>1
  <2>2. at[i - 1].stage < at[i].stage
    BY <1>1, <2>1
  <2> QED
    BY <1>5, <2>1, <2>2 DEF StagePrecedes
<1>8. StagesInOrder(at)
  BY <1>4, <1>6, <1>7 DEF StagesInOrder
<1> QED
  BY <1>8 DEF at


\* The entries of a block without a fault, one for each stage captured.
EntriesSay(r, s, at, entries) ==
    /\ DOMAIN entries = DOMAIN at
    /\ \A i \in DOMAIN at :
          /\ entries[i].coordinate = at[i] /\ entries[i].phase = StagePhase
          /\ entries[i].shape = "hidden" /\ entries[i].precision = "fp32"
          /\ entries[i].wellformed = TRUE
          /\ entries[i].digest = DigestOf(StageDiffers(r.onset, s, r.target, at[i].stage))

\* A genuine trace says of its stages what its run wrote.
LEMMA GenuineBlock ==
    ASSUME NEW r, IsGenuine(r), r.target # Absent, NEW s \in Sides
    PROVE  LET intra == TraceOf(r, s).intra
               at    == StagesAt(r, r.stages[s])
           IN  /\ intra # None /\ intra.supported = TRUE /\ intra.step = Step
               /\ intra.layer = r.target /\ intra.position = 0
               /\ intra.requested = RequestedStages(Step, r.target, 0) /\ intra.captured = at
               /\ intra.missing = NotCaptured(StagesAt(r, StageIds \ r.stages[s]))
               /\ intra.contract = StageDigest /\ intra.payload = "none"
               /\ intra.wellformed = TRUE
               /\ EntriesSay(r, s, at, intra.entries)
<1> DEFINE intra == TraceOf(r, s).intra
           at    == StagesAt(r, r.stages[s])
           block == StageBlock(r, s)
           digest(i) == DigestOf(StageDiffers(r.onset, s, r.target, at[i].stage))
           entry(i) == [coordinate |-> at[i], phase |-> StagePhase, shape |-> "hidden",
                        precision |-> "fp32", wellformed |-> TRUE, digest |-> digest(i)]
<1>1. r.fault = NoFault /\ r.stages[s] \in SUBSET StageIds
  BY DEF IsGenuine, IsRun
<1>2. intra = OddStages(IF r.target = Absent THEN None ELSE block, "none")
  BY <1>1, GenuineFiles
<1>3. /\ DOMAIN block = IntraFields /\ block.captured = at
      /\ block.supported = TRUE /\ block.step = Step /\ block.layer = r.target
      /\ block.position = 0
      /\ block.requested = RequestedStages(Step, r.target, 0)
      /\ block.missing = NotCaptured(StagesAt(r, StageIds \ r.stages[s]))
      /\ block.contract = StageDigest /\ block.payload = "none" /\ block.wellformed = TRUE
      /\ block.entries = [i \in DOMAIN at |-> entry(i)]
  BY DEF StageBlock, IntraFields
<1>4. DOMAIN at = 1 .. Cardinality(r.stages[s]) /\ Cardinality(r.stages[s]) \in Nat
  BY <1>1, StagesAtIs
<1> DEFINE written == block.entries
           last == WithLast(written, LAMBDA e : OddEntry(e, "none"))
<1>5. \A i : DOMAIN entry(i) = {"coordinate", "phase", "shape", "precision", "wellformed",
                                "digest"}
  OBVIOUS
<1>6. \A i : OddEntry(entry(i), "none") = entry(i)
  <2> HIDE DEF entry
  <2> QED
    BY <1>5, OddEntryIs
<1>7. /\ intra # None /\ DOMAIN intra = IntraFields
      /\ \A f \in IntraFields \ {"entries"} : intra[f] = block[f]
      /\ intra.entries = last
  <2> HIDE DEF block, last
  <2>1. block # None
    BY <1>3 DEF IntraFields, None
  <2>2. intra = OddStages(block, "none")
    BY <1>2
  <2> HIDE DEF intra
  <2>3. OddStages(block, "none") = IF block = None THEN None ELSE [block EXCEPT !.entries = last]
    BY DEF OddStages, last
  <2>4. intra = [block EXCEPT !.entries = last]
    BY <2>1, <2>2, <2>3
  <2>5. intra # None
    BY <1>3, <2>4 DEF IntraFields, None
  <2> QED
    BY <1>3, <2>4, <2>5 DEF IntraFields
<1>8. /\ intra.supported = TRUE /\ intra.step = Step
      /\ intra.layer = r.target /\ intra.position = 0
      /\ intra.requested = RequestedStages(Step, r.target, 0) /\ intra.captured = at
      /\ intra.missing = NotCaptured(StagesAt(r, StageIds \ r.stages[s]))
      /\ intra.contract = StageDigest /\ intra.payload = "none" /\ intra.wellformed = TRUE
  <2> HIDE DEF intra, block, at
  <2>1. {"supported", "step", "layer", "position", "requested", "captured", "missing",
         "contract", "payload", "wellformed"} \subseteq IntraFields \ {"entries"}
    BY DEF IntraFields
  <2> QED
    BY <1>3, <1>7, <2>1
<1>9. written = [i \in DOMAIN at |-> entry(i)]
  BY <1>3
<1>10. last = IF written = <<>> THEN written
              ELSE [written EXCEPT ![Len(written)] = OddEntry(@, "none")]
  BY DEF WithLast
<1>11. DOMAIN last = DOMAIN at /\ \A i \in DOMAIN at : last[i] = entry(i)
  <2> HIDE DEF intra, block, at, entry, written, last
  <2>1. DOMAIN written = DOMAIN at /\ \A i \in DOMAIN at : written[i] = entry(i)
    BY <1>9
  <2> QED
    BY <1>6, <1>10, <2>1
<1>12. \A i : /\ entry(i).coordinate = at[i] /\ entry(i).phase = StagePhase
              /\ entry(i).shape = "hidden" /\ entry(i).precision = "fp32"
              /\ entry(i).wellformed = TRUE /\ entry(i).digest = digest(i)
  OBVIOUS
<1> HIDE DEF entry, written, last, block, intra, at
<1>13. DOMAIN intra.entries = DOMAIN at /\ \A i \in DOMAIN at : intra.entries[i] = entry(i)
  BY <1>7, <1>11
<1>14. EntriesSay(r, s, at, intra.entries)
  BY <1>12, <1>13 DEF EntriesSay
<1> QED
  BY <1>7, <1>8, <1>14 DEF intra, at

LEMMA GenuineStageLayout ==
    ASSUME NEW r, IsGenuine(r), r.target # Absent, NEW s \in Sides
    PROVE  StageLayout(TraceOf(r, s).intra) = Passed
<1> DEFINE intra == TraceOf(r, s).intra
           A == r.stages[s]
           rest == StagesAt(r, StageIds \ A)
<1>1. A \in SUBSET StageIds /\ StageIds \ A \in SUBSET StageIds /\ StageIds \in SUBSET StageIds
      /\ r.target \in Layers /\ r.target \in Int /\ r.target >= 0
  BY EvidenceChainAssumption DEF IsGenuine, IsRun, Layers
<1>2. /\ intra # None /\ intra.supported = TRUE /\ intra.step = Step
      /\ intra.layer = r.target /\ intra.position = 0
      /\ intra.requested = StagesAt(r, StageIds) /\ intra.captured = StagesAt(r, A)
      /\ intra.requested = RequestedStages(Step, r.target, 0)
      /\ intra.missing = NotCaptured(rest) /\ intra.contract = StageDigest
  <2>1. /\ intra # None /\ intra.supported = TRUE /\ intra.step = Step
        /\ intra.layer = r.target /\ intra.position = 0
        /\ intra.captured = StagesAt(r, A)
        /\ intra.requested = RequestedStages(Step, r.target, 0)
        /\ intra.missing = NotCaptured(rest) /\ intra.contract = StageDigest
    BY GenuineBlock
  <2>2. RequestedStages(Step, r.target, 0) = StagesAt(r, StageIds)
    BY RequestedIsAll
  <2> HIDE DEF intra, A, rest
  <2> QED
    BY <2>1, <2>2
<1> HIDE DEF intra, A, rest
<1>3. /\ CoordinatesOf(intra.missing) = rest
      /\ \A i \in DOMAIN intra.missing : intra.missing[i].state # "captured"
  <2>1. rest = [i \in DOMAIN rest |-> rest[i]]
    BY DEF rest, StagesAt
  <2>2. NotCaptured(rest) = [i \in DOMAIN rest |-> [coordinate |-> rest[i],
                                                    state |-> "not_captured"]]
    BY DEF NotCaptured
  <2>3. CoordinatesOf(NotCaptured(rest)) = [i \in DOMAIN rest |-> rest[i]]
    BY <2>2 DEF CoordinatesOf
  <2> QED
    BY <1>2, <2>1, <2>2, <2>3
<1>4. /\ StagesInOrder(intra.requested) /\ StagesInOrder(intra.captured)
      /\ StagesInOrder(CoordinatesOf(intra.missing))
  BY <1>1, <1>2, <1>3, StagesAreInOrder DEF rest
<1>5. IsStagePartition(intra.requested, intra.captured, intra.missing)
  <2> DEFINE all == ToSet(StagesAt(r, StageIds))
             kept == ToSet(StagesAt(r, A))
  <2>1. /\ \A c \in StageIds : StageAt(r, c) \in all
        /\ \A c \in StageIds : StageAt(r, c) \in kept <=> c \in A
    BY <1>1, SetOfStages
  <2>2. kept \subseteq all
    <3>1. \A i \in DOMAIN StagesAt(r, A) : \E c \in StageIds : StagesAt(r, A)[i] = StageAt(r, c)
      BY <1>1, StagesAtIs DEF StageAt
    <3> QED
      BY <2>1, <3>1 DEF ToSet
  <2> HIDE DEF all, kept
  <2>3. OnlyThose(StagesAt(r, StageIds), kept) = StagesAt(r, A)
    BY <1>1, <2>1, OnlyStages
  <2>4. OnlyThose(StagesAt(r, StageIds), all \ kept) = rest
    <3>1. \A c \in StageIds : StageAt(r, c) \in all \ kept <=> c \in StageIds \ A
      BY <2>1
    <3> QED
      BY <1>1, <3>1, OnlyStages DEF rest
  <2> QED
    BY <1>2, <1>3, <2>2, <2>3, <2>4 DEF IsStagePartition, all, kept
<1>6. intra.step >= 1 /\ intra.layer >= 0 /\ intra.position >= 0
  BY <1>1, <1>2 DEF Step
<1>7. intra.contract # Malformed
  BY <1>2 DEF StageDigest, Malformed
<1>8. intra.requested = RequestedStages(intra.step, intra.layer, intra.position)
  BY <1>2
<1>9. StageLayout(intra) = Passed
  BY <1>2, <1>3, <1>4, <1>5, <1>6, <1>7, <1>8, LayoutReads
<1> QED
  BY <1>9 DEF intra

LEMMA GenuineStageEntries ==
    ASSUME NEW r, IsGenuine(r), r.target # Absent, NEW s \in Sides
    PROVE  /\ StageEntries(TraceOf(r, s).intra) = Passed
           /\ DOMAIN TraceOf(r, s).intra.entries \subseteq Nat
<1> DEFINE intra == TraceOf(r, s).intra
           A == r.stages[s]
           at == StagesAt(r, A)
<1>1. A \in SUBSET StageIds /\ r.target \in Int
  BY EvidenceChainAssumption DEF IsGenuine, IsRun, Layers
<1>2. /\ intra.captured = at /\ intra.payload = "none" /\ intra.wellformed = TRUE
      /\ EntriesSay(r, s, at, intra.entries)
  BY GenuineBlock
<1>3. at = [i \in DOMAIN at |-> at[i]] /\ DOMAIN at \subseteq Nat
  <2>1. DOMAIN at = 1 .. Cardinality(A) /\ Cardinality(A) \in Nat
    BY <1>1, StagesAtIs
  <2>2. at = [i \in DOMAIN at |-> at[i]]
    BY DEF StagesAt
  <2> QED
    BY <2>1, <2>2
<1>4. StagesInOrder(at)
  BY <1>1, StagesAreInOrder
<1> HIDE DEF intra, at, A
<1>5. CoordinatesOf(intra.entries) = at
  BY <1>2, <1>3 DEF EntriesSay, CoordinatesOf
<1>6. \A i \in DOMAIN intra.entries : StageEntry(intra.entries[i]) = Passed
  <2>1. \A b : DigestOf(b) # Malformed
    BY DEF DigestOf, Malformed
  <2> QED
    BY <1>2, <2>1, EntryReads DEF EntriesSay
<1>7. DOMAIN intra.entries \subseteq Nat
  BY <1>2, <1>3 DEF EntriesSay
<1>8. StageEntries(intra) = Passed
  BY <1>2, <1>4, <1>5, <1>6, <1>7, EntriesRead DEF EntriesSay
<1> QED
  BY <1>7, <1>8 DEF intra


LEMMA GenuineParse ==
    ASSUME NEW r, IsGenuine(r), r.target # Absent, NEW o,
           o.target.step = Step, o.target.layer = r.target,
           \A s \in Sides : o.bindings[s].trace = TraceOf(r, s)
    PROVE  /\ StageLayouts(o, Traces(r)) = Passed
           /\ ParseStages(o, Traces(r)) = Passed
<1> DEFINE traces == Traces(r)
           ref    == traces["reference"].intra
           cand   == traces["candidate"].intra
<1>1. "reference" \in Sides /\ "candidate" \in Sides
  BY DEF Sides
<1>2. \A s \in Sides : traces[s] = TraceOf(r, s)
  BY DEF Traces
<1>3. \A s \in Sides :
        /\ traces[s].intra.step = Step /\ traces[s].intra.layer = r.target
        /\ traces[s].intra.requested = RequestedStages(Step, r.target, 0)
  <2>1. \A s \in Sides :
          /\ TraceOf(r, s).intra.step = Step /\ TraceOf(r, s).intra.layer = r.target
          /\ TraceOf(r, s).intra.requested = RequestedStages(Step, r.target, 0)
    BY GenuineBlock
  <2> HIDE DEF traces
  <2> QED
    BY <1>2, <2>1
<1>4. \A s \in Sides : StageLayout(traces[s].intra) = Passed
  BY <1>2, GenuineStageLayout
<1>5. \A s \in Sides : /\ StageEntries(traces[s].intra) = Passed
                       /\ DOMAIN traces[s].intra.entries \subseteq Nat
  BY <1>2, GenuineStageEntries
<1>6. \A s \in Sides : traces[s] = o.bindings[s].trace
  BY <1>2
<1> HIDE DEF traces
<1>7. \A s \in Sides : StageTarget(traces[s].intra, o.target) = Passed
  BY <1>3, TargetReads
<1>8. StageLayouts(o, traces) = Passed
  <2>1. /\ StageLayout(ref) = Passed /\ StageLayout(cand) = Passed
        /\ ref.requested = cand.requested
        /\ StageTarget(ref, o.target) = Passed /\ StageTarget(cand, o.target) = Passed
    BY <1>1, <1>3, <1>4, <1>7
  <2> QED
    BY <2>1, LayoutsRead
<1>9. \A s \in Sides : TraceIdentity(o, s, traces[s]) = Passed
  BY <1>6, TraceIdentityReads
<1>10. ParseStages(o, traces) = Passed
  BY <1>5, <1>8, <1>9, ParseReads
<1> QED
  BY <1>8, <1>10 DEF traces

\* Both sides have captured the stages of the two sets, and no others.
LEMMA GenuineCommonStages ==
    ASSUME NEW r, IsGenuine(r), r.target # Absent
    PROVE  /\ CommonStages(Traces(r)) =
                StagesAt(r, r.stages["reference"] \cap r.stages["candidate"])
           /\ \A s \in Sides : \A i \in DOMAIN CommonStages(Traces(r)) :
                CommonStages(Traces(r))[i] \in ToSet(TraceOf(r, s).intra.captured)
<1> DEFINE A == r.stages["reference"]
           B == r.stages["candidate"]
           traces == Traces(r)
           common == CommonStages(traces)
<1>1. A \in SUBSET StageIds /\ B \in SUBSET StageIds
  BY DEF IsGenuine, IsRun, Sides
<1>2. /\ traces["reference"].intra.captured = StagesAt(r, A)
      /\ traces["candidate"].intra.captured = StagesAt(r, B)
  <2>1. \A s \in Sides : TraceOf(r, s).intra.captured = StagesAt(r, r.stages[s])
    BY GenuineBlock
  <2> QED
    BY <2>1 DEF Traces, Sides
<1>3. common = OnlyThose(StagesAt(r, A), ToSet(StagesAt(r, B)))
  BY <1>2 DEF CommonStages
<1>4. \A c \in A : StageAt(r, c) \in ToSet(StagesAt(r, B)) <=> c \in A \cap B
  <2>1. \A c \in StageIds : StageAt(r, c) \in ToSet(StagesAt(r, B)) <=> c \in B
    BY <1>1, SetOfStages
  <2> HIDE DEF A, B
  <2> QED
    BY <1>1, <2>1
<1>5. common = StagesAt(r, A \cap B)
  <2> HIDE DEF A, B, common
  <2>1. A \cap B \in SUBSET A
    OBVIOUS
  <2> QED
    BY <1>1, <1>3, <1>4, <2>1, OnlyStages
<1>6. ASSUME NEW s \in Sides, NEW i \in DOMAIN common
      PROVE  common[i] \in ToSet(TraceOf(r, s).intra.captured)
  <2>1. TraceOf(r, s).intra.captured = StagesAt(r, r.stages[s])
    BY GenuineBlock
  <2>2. r.stages[s] \in SUBSET StageIds /\ A \cap B \in SUBSET StageIds
        /\ A \cap B \subseteq r.stages[s]
    BY <1>1 DEF Sides
  <2>3. \E c \in A \cap B : common[i] = StageAt(r, c)
    <3> HIDE DEF A, B, common
    <3> QED
      BY <1>5, <1>6, <2>2, StagesAtIs DEF StageAt
  <2>4. \A c \in StageIds :
          StageAt(r, c) \in ToSet(StagesAt(r, r.stages[s])) <=> c \in r.stages[s]
    BY <2>2, SetOfStages
  <2> HIDE DEF A, B, common
  <2> QED
    BY <2>1, <2>2, <2>3, <2>4
<1> QED
  BY <1>5, <1>6

LEMMA GenuineStagesAlign ==
    ASSUME NEW r, IsGenuine(r), r.target # Absent
    PROVE  /\ StagesAlign(Traces(r))
           /\ StagePolicy(TraceOf(r, "reference").intra, TraceOf(r, "candidate").intra) = Passed
<1> DEFINE traces == Traces(r)
           common == CommonStages(traces)
<1>1. "reference" \in Sides /\ "candidate" \in Sides
  BY DEF Sides
<1>2. ASSUME NEW s \in Sides, NEW i \in DOMAIN common
      PROVE  /\ EntryAt(TraceOf(r, s).intra, common[i]).shape = "hidden"
             /\ EntryAt(TraceOf(r, s).intra, common[i]).precision = "fp32"
  <2> DEFINE intra == TraceOf(r, s).intra
             at == StagesAt(r, r.stages[s])
             N  == Cardinality(r.stages[s])
  <2>1. r.stages[s] \in SUBSET StageIds
    BY DEF IsGenuine, IsRun
  <2>2. N \in Nat /\ DOMAIN at = 1 .. N /\ at = [j \in 1 .. N |-> at[j]]
    BY <2>1, StagesAtIs
  <2>3. intra.captured = at /\ EntriesSay(r, s, at, intra.entries)
    BY GenuineBlock
  <2>4. common[i] \in ToSet(intra.captured)
    BY <1>2, GenuineCommonStages
  <2> HIDE DEF intra, at, N, common
  <2>5. DOMAIN intra.entries = 1 .. N /\ CoordinatesOf(intra.entries) = intra.captured
    BY <2>2, <2>3 DEF CoordinatesOf, EntriesSay
  <2>6. \E j \in 1 .. N : EntryAt(intra, common[i]) = intra.entries[j]
    BY <2>2, <2>4, <2>5, EntryAtIs
  <2>7. EntryAt(intra, common[i]).shape = "hidden" /\ EntryAt(intra, common[i]).precision = "fp32"
    BY <2>2, <2>3, <2>6 DEF EntriesSay
  <2> QED
    BY <2>7 DEF intra
<1>3. traces["reference"] = TraceOf(r, "reference") /\ traces["candidate"] = TraceOf(r, "candidate")
  BY <1>1 DEF Traces
<1>4. \A s \in Sides : TraceOf(r, s).intra.contract = StageDigest
  BY GenuineBlock
<1> HIDE DEF traces
<1>5. StagesAlign(traces)
  <2> HIDE DEF common
  <2>1. ASSUME NEW i \in DOMAIN common
        PROVE  StageAlignment(traces["reference"].intra, traces["candidate"].intra, common[i])
                 = Passed
    BY <1>1, <1>2, <1>3, <2>1, AlignmentReads
  <2> QED
    BY <2>1 DEF StagesAlign, common
<1>6. StagePolicy(TraceOf(r, "reference").intra, TraceOf(r, "candidate").intra) = Passed
  BY <1>1, <1>4, PolicyReads
<1> QED
  BY <1>5, <1>6 DEF traces
===============================================================================
