------------------------ MODULE KHashLfuCache_proofs ------------------------
(***************************************************************************)
(* KHashLfuCache and KLfuCache, for any keys, capacity, hash, number of    *)
(* slices and of calls.                                                    *)
(***************************************************************************)
EXTENDS KHashLfuCache, ListLemmas, FiniteSetTheorems

\* A cache by its members: nodeMap_, freqToFreqList_, minFreq_, curTotalNum_.
Cache(F, L, m, t) == [freq |-> F, list |-> L, minFreq |-> m, total |-> t]

\* The accesses that the frequencies stand for, so that their sum is a number
\* of elements.
Uses(F) == {e \in (DOMAIN F) \X Freqs : e[2] <= F[e[1]]}

Frequencies(F) ==
  /\ DOMAIN F \subseteq Keys /\ IsFiniteSet(DOMAIN F)
  /\ F \in [DOMAIN F -> Freqs]

\* A list holds the keys of its frequency, each once.
Listed(F, L) ==
  /\ L \in [Freqs -> Seq(Keys)]
  /\ \A f \in Freqs : Elements(L[f]) = {k \in DOMAIN F : F[k] = f} /\ Distinct(L[f])

\* curTotalNum_ is at least the sum of the frequencies (ageing does not lower it).
Counted(F, t) == t \in Nat /\ Cardinality(Uses(F)) <= t

Nodes(F, L, t) == Frequencies(F) /\ Listed(F, L) /\ Counted(F, t)

\* m is the least frequency.
Least(F, m) ==
  DOMAIN F # {} => (\E k \in DOMAIN F : F[k] = m) /\ \A k \in DOMAIN F : m <= F[k]

Bounded(F, n) == \A k \in DOMAIN F : F[k] <= n

\* One slice after n calls.
SliceInv(c, n) ==
  /\ c = Cache(c.freq, c.list, c.minFreq, c.total)
  /\ Nodes(c.freq, c.list, c.total)
  /\ Bounded(c.freq, n)
  /\ c.minFreq \in Nat /\ Least(c.freq, c.minFreq)
  /\ Cached(c) # {} => c.minFreq <= maxAverageNum_
  /\ Cardinality(Cached(c)) <= SliceSize

CacheInv ==
  /\ accesses \in 0 .. MaxAccesses
  /\ lfuSliceCaches_ = [s \in Slices |-> lfuSliceCaches_[s]]
  /\ \A s \in Slices : SliceInv(lfuSliceCaches_[s], accesses)

-----------------------------------------------------------------------------
(* Numbers and sets of numbers.                                            *)

LEMMA Parameters ==
  /\ MaxFreq \in Nat /\ INT8_MAX \in Nat /\ maxAverageNum_ \in Nat /\ maxAverageNum_ >= 2
  /\ INT8_MAX <= MaxFreq /\ MaxAccesses \in Nat /\ MaxAccesses <= MaxFreq
  /\ maxAverageNum_ \div 2 \in Nat /\ maxAverageNum_ \div 2 >= 1
  /\ maxAverageNum_ + 1 - maxAverageNum_ \div 2 < INT8_MAX
  /\ maxAverageNum_ + 1 - maxAverageNum_ \div 2 <= maxAverageNum_
BY IntAssumption, MaxFreqAssumption, AgeingInRange, AccessesAssumption

LEMMA MinIs ==
  ASSUME NEW S, NEW m \in S, S \subseteq Int, \A y \in S : m <= y
  PROVE  Min(S) = m
<1>1. \E x \in S : \A y \in S : x =< y
  OBVIOUS
<1>2. Min(S) \in S /\ \A y \in S : Min(S) <= y
  BY <1>1 DEF Min
<1>3. Min(S) <= m /\ m <= Min(S)
  BY <1>2
<1>4. Min(S) \in Int /\ m \in Int
  BY <1>2
<1> QED
  BY <1>3, <1>4

\* A set of natural numbers has a least one.
LEMMA MinExists ==
  ASSUME NEW S, S \subseteq Nat, S # {}
  PROVE  Min(S) \in S /\ \A y \in S : Min(S) <= y
<1>1. \E x \in S : \A y \in S : ~(<<y, x>> \in OpToRel(<, Nat))
  BY NatLessThanWellFounded, WFMin
<1>2. PICK x \in S : \A y \in S : ~(<<y, x>> \in OpToRel(<, Nat))
  BY <1>1
<1>3. \A y \in S : <<y, x>> \in OpToRel(<, Nat) <=> y < x
  BY DEF OpToRel
<1>4. \A y \in S : x <= y
  <2> SUFFICES ASSUME NEW y \in S PROVE x <= y
    OBVIOUS
  <2>1. ~(y < x)
    BY <1>2, <1>3
  <2>2. x \in Nat /\ y \in Nat
    OBVIOUS
  <2> QED
    BY <2>1, <2>2
<1>5. S \subseteq Int
  OBVIOUS
<1>6. Min(S) = x
  BY <1>4, <1>5, MinIs
<1> QED
  BY <1>4, <1>6

LEMMA AgedIs ==
  ASSUME NEW f \in Freqs
  PROVE  /\ Aged(f) \in Freqs /\ Aged(f) <= f
         /\ Aged(f) = 1 \/ Aged(f) = f - maxAverageNum_ \div 2
         /\ Aged(f) >= f - maxAverageNum_ \div 2
<1> DEFINE a == f - maxAverageNum_ \div 2
           S == {1, a}
<1>1. f \in Nat /\ f >= 1 /\ f <= MaxFreq /\ a \in Int /\ a < f /\ MaxFreq \in Nat
  BY Parameters DEF Freqs
<1>2. \E x \in S : \A y \in S : x >= y
  BY <1>1
<1>3. Max(S) \in S /\ \A y \in S : Max(S) >= y
  BY <1>2 DEF Max
<1> QED
  BY <1>1, <1>3 DEF Aged, Freqs

\* The average bounds the least: n keys of at least m make a sum of n * m.
LEMMA LeastBelowAverage ==
  ASSUME NEW n \in Nat, n # 0, NEW m \in Nat, NEW t \in Nat, NEW a \in Nat,
         n * m <= t, t \div n <= a
  PROVE  m <= a
<1> DEFINE q == t \div n
<1>1. q \in Nat /\ n * q <= t /\ t < n * (q + 1)
  OBVIOUS
<1>2. n * m < n * (q + 1) /\ q \in Nat
  BY <1>1
<1>3. m < q + 1
  <2> HIDE DEF q
  <2>1. SUFFICES ASSUME q + 1 <= m PROVE FALSE
    BY <1>2
  <2>2. n * (q + 1) <= n * m
    BY <1>2, <2>1
  <2>3. n * (q + 1) \in Nat /\ n * m \in Nat
    BY <1>2
  <2> QED
    BY <1>2, <2>2, <2>3
<1> QED
  BY <1>1, <1>3

-----------------------------------------------------------------------------
(* Lists.                                                                  *)

\* removeNode takes its node out of a list without repetition and nothing else.
LEMMA RemoveNodeIs ==
  ASSUME NEW s \in Seq(Keys), Distinct(s), NEW k \in Elements(s)
  PROVE  /\ RemoveNode(s, k) \in Seq(Keys)
         /\ Elements(RemoveNode(s, k)) = Elements(s) \ {k}
         /\ Distinct(RemoveNode(s, k))
<1> DEFINE n == Len(s)
<1>1. n \in Nat /\ DOMAIN s = 1 .. n
  BY LenProperties
<1>2. PICK p \in 1 .. n : s[p] = k
  BY <1>1 DEF Elements
<1>3. {i \in 1 .. n : s[i] = k} = {p}
  BY <1>2 DEF Distinct
<1>4. Min({p}) = p
  <2>1. \E x \in {p} : \A y \in {p} : x =< y
    BY <1>1
  <2>2. Min({p}) \in {p}
    BY <2>1 DEF Min
  <2> QED
    BY <2>2
<1>5. SelectInSeq(s, LAMBDA v : v = k) = p
  BY <1>3, <1>4 DEF SelectInSeq
<1> DEFINE a == SubSeq(s, 1, p - 1)
           b == SubSeq(s, p + 1, n)
           r == a \o b
<1>6. RemoveNode(s, k) = r
  BY <1>2, <1>5 DEF RemoveNode, RemoveFirst, RemoveAt
<1>7. /\ a \in Seq(Keys) /\ Len(a) = p - 1
      /\ \A i \in 1 .. (p - 1) : a[i] = s[i]
  OBVIOUS
<1>8. /\ b \in Seq(Keys) /\ Len(b) = n - p
      /\ \A i \in 1 .. (n - p) : b[i] = s[p + i]
  OBVIOUS
<1> HIDE DEF a, b
<1>9. /\ r \in Seq(Keys) /\ Len(r) = n - 1 /\ DOMAIN r = 1 .. (n - 1)
      /\ \A i \in 1 .. (n - 1) : r[i] = IF i < p THEN s[i] ELSE s[i + 1]
  <2>1. /\ r \in Seq(Keys) /\ Len(r) = Len(a) + Len(b)
        /\ \A i \in 1 .. Len(a) + Len(b) : r[i] = IF i <= Len(a) THEN a[i] ELSE b[i - Len(a)]
    BY <1>7, <1>8, ConcatProperties, Zenon
  <2>2. Len(r) = n - 1
    BY <1>1, <1>7, <1>8, <2>1
  <2>3. DOMAIN r = 1 .. (n - 1)
    BY <2>1, <2>2, LenProperties
  <2> HIDE DEF r
  <2>4. ASSUME NEW i \in 1 .. (n - 1)
        PROVE  r[i] = IF i < p THEN s[i] ELSE s[i + 1]
    <3>1. i \in 1 .. Len(a) + Len(b)
      BY <2>1, <2>2
    <3>2. CASE i < p
      <4>1. i \in 1 .. (p - 1) /\ i <= Len(a)
        BY <1>1, <1>7, <3>2
      <4> QED
        BY <1>7, <2>1, <3>1, <3>2, <4>1
    <3>3. CASE ~(i < p)
      <4>1. ~(i <= Len(a)) /\ i - Len(a) \in 1 .. (n - p) /\ p + (i - Len(a)) = i + 1
        BY <1>1, <1>7, <3>3
      <4> QED
        BY <1>8, <2>1, <3>1, <3>3, <4>1
    <3> QED
      BY <3>2, <3>3
  <2> QED
    BY <2>1, <2>2, <2>3, <2>4
<1> DEFINE at(i) == IF i < p THEN i ELSE i + 1
<1>10. /\ \A i \in 1 .. (n - 1) : at(i) \in 1 .. n /\ at(i) # p /\ r[i] = s[at(i)]
       /\ \A i, j \in 1 .. (n - 1) : i # j => at(i) # at(j)
       /\ \A i \in 1 .. n : i # p => \E j \in 1 .. (n - 1) : at(j) = i
  <2>1. \A i \in 1 .. (n - 1) : at(i) \in 1 .. n /\ at(i) # p
    BY <1>1
  <2>2. \A i \in 1 .. (n - 1) : r[i] = s[at(i)]
    BY <1>9
  <2>3. \A i, j \in 1 .. (n - 1) : i # j => at(i) # at(j)
    BY <1>1
  <2>4. ASSUME NEW i \in 1 .. n, i # p PROVE \E j \in 1 .. (n - 1) : at(j) = i
    <3>1. CASE i < p
      <4>1. i \in 1 .. (n - 1) /\ at(i) = i
        BY <1>1, <3>1
      <4> QED
        BY <4>1
    <3>2. CASE ~(i < p)
      <4>1. i - 1 \in 1 .. (n - 1) /\ at(i - 1) = i
        BY <1>1, <2>4, <3>2
      <4> QED
        BY <4>1
    <3> QED
      BY <3>1, <3>2
  <2> QED
    BY <2>1, <2>2, <2>3, <2>4
<1> HIDE DEF r, n, at
<1>11. \A i, j \in 1 .. n : i # j => s[i] # s[j]
  BY DEF Distinct, n
<1>12. Distinct(r)
  BY <1>9, <1>10, <1>11 DEF Distinct
<1>13. \A x : x \in Elements(r) <=> x \in Elements(s) \ {k}
  <2> SUFFICES ASSUME NEW x PROVE x \in Elements(r) <=> x \in Elements(s) /\ x # k
    OBVIOUS
  <2>1. x \in Elements(s) <=> \E i \in 1 .. n : x = s[i]
    BY <1>1 DEF Elements
  <2>2. x \in Elements(r) <=> \E i \in 1 .. (n - 1) : x = r[i]
    BY <1>9 DEF Elements
  <2>3. x \in Elements(r) => x \in Elements(s) /\ x # k
    BY <1>2, <1>10, <1>11, <2>1, <2>2
  <2>4. x \in Elements(s) /\ x # k => x \in Elements(r)
    BY <1>2, <1>10, <2>1, <2>2
  <2> QED
    BY <2>3, <2>4
<1>14. Elements(r) = Elements(s) \ {k}
  BY <1>13
<1> QED
  BY <1>6, <1>9, <1>12, <1>14

-----------------------------------------------------------------------------
(* The record.                                                             *)

LEMMA CacheIs ==
  ASSUME NEW F, NEW L, NEW m, NEW t
  PROVE  /\ Cache(F, L, m, t).freq = F /\ Cache(F, L, m, t).list = L
         /\ Cache(F, L, m, t).minFreq = m /\ Cache(F, L, m, t).total = t
         /\ Cached(Cache(F, L, m, t)) = DOMAIN F
BY DEF Cache, Cached

-----------------------------------------------------------------------------
(* A node leaves and joins: the map and the lists.                         *)

Without(F, k) == [j \in DOMAIN F \ {k} |-> F[j]]
With(F, k, f) == [j \in DOMAIN F \cup {k} |-> IF j = k THEN f ELSE F[j]]

LEMMA FrequenciesWithout ==
  ASSUME NEW F, Frequencies(F), NEW k
  PROVE  Frequencies(Without(F, k)) /\ DOMAIN Without(F, k) = DOMAIN F \ {k}
<1>1. DOMAIN Without(F, k) = DOMAIN F \ {k}
  BY DEF Without
<1>2. IsFiniteSet(DOMAIN F \ {k})
  BY FS_RemoveElement DEF Frequencies
<1>3. Without(F, k) \in [DOMAIN F \ {k} -> Freqs]
  BY DEF Frequencies, Without
<1> QED
  BY <1>1, <1>2, <1>3 DEF Frequencies

LEMMA FrequenciesWith ==
  ASSUME NEW F, Frequencies(F), NEW k \in Keys, NEW f \in Freqs
  PROVE  /\ Frequencies(With(F, k, f)) /\ DOMAIN With(F, k, f) = DOMAIN F \cup {k}
         /\ With(F, k, f)[k] = f
         /\ \A j \in DOMAIN F : j # k => With(F, k, f)[j] = F[j]
<1>1. DOMAIN With(F, k, f) = DOMAIN F \cup {k}
  BY DEF With
<1>2. IsFiniteSet(DOMAIN F \cup {k})
  BY FS_AddElement DEF Frequencies
<1>3. With(F, k, f) \in [DOMAIN F \cup {k} -> Freqs]
  BY DEF Frequencies, With
<1>4. /\ With(F, k, f)[k] = f
      /\ \A j \in DOMAIN F : j # k => With(F, k, f)[j] = F[j]
  BY DEF With
<1> QED
  BY <1>1, <1>2, <1>3, <1>4 DEF Frequencies

LEMMA ListedWithout ==
  ASSUME NEW F, NEW L, Frequencies(F), Listed(F, L), NEW k \in DOMAIN F
  PROVE  Listed(Without(F, k), [L EXCEPT ![F[k]] = RemoveNode(@, k)])
<1> DEFINE G == Without(F, k)
           M == [L EXCEPT ![F[k]] = RemoveNode(@, k)]
           h == F[k]
<1>1. /\ h \in Freqs /\ L \in [Freqs -> Seq(Keys)]
      /\ \A f \in Freqs : Elements(L[f]) = {j \in DOMAIN F : F[j] = f} /\ Distinct(L[f])
  BY DEF Frequencies, Listed
<1>2. L[h] \in Seq(Keys) /\ Distinct(L[h]) /\ k \in Elements(L[h])
  BY <1>1
<1>3. /\ RemoveNode(L[h], k) \in Seq(Keys) /\ Distinct(RemoveNode(L[h], k))
      /\ Elements(RemoveNode(L[h], k)) = Elements(L[h]) \ {k}
  BY <1>2, RemoveNodeIs
<1>4. /\ M \in [Freqs -> Seq(Keys)] /\ M[h] = RemoveNode(L[h], k)
      /\ \A f \in Freqs : f # h => M[f] = L[f]
  BY <1>1, <1>3
<1>5. DOMAIN G = DOMAIN F \ {k} /\ \A j \in DOMAIN G : G[j] = F[j]
  BY DEF Without
<1> HIDE DEF M, G
<1>6. ASSUME NEW f \in Freqs
      PROVE  Elements(M[f]) = {j \in DOMAIN G : G[j] = f} /\ Distinct(M[f])
  <2>1. CASE f = h
    BY <1>1, <1>3, <1>4, <1>5, <2>1
  <2>2. CASE f # h
    BY <1>1, <1>4, <1>5, <2>2
  <2> QED
    BY <2>1, <2>2
<1> QED
  BY <1>4, <1>6 DEF Listed, M, G

LEMMA ListedWith ==
  ASSUME NEW F, NEW L, Frequencies(F), Listed(F, L),
         NEW k \in Keys, k \notin DOMAIN F, NEW f \in Freqs
  PROVE  Listed(With(F, k, f), [L EXCEPT ![f] = AddNode(@, k)])
<1> DEFINE G == With(F, k, f)
           M == [L EXCEPT ![f] = AddNode(@, k)]
<1>1. /\ L \in [Freqs -> Seq(Keys)]
      /\ \A e \in Freqs : Elements(L[e]) = {j \in DOMAIN F : F[j] = e} /\ Distinct(L[e])
  BY DEF Listed
<1>2. L[f] \in Seq(Keys) /\ Distinct(L[f]) /\ \A e \in Elements(L[f]) : e # k
  BY <1>1
<1>3. /\ AddNode(L[f], k) \in Seq(Keys) /\ Distinct(AddNode(L[f], k))
      /\ Elements(AddNode(L[f], k)) = Elements(L[f]) \cup {k}
  BY <1>2, AppendSet, DistinctAppend, AppendProperties DEF AddNode
<1>4. /\ M \in [Freqs -> Seq(Keys)] /\ M[f] = AddNode(L[f], k)
      /\ \A e \in Freqs : e # f => M[e] = L[e]
  BY <1>1, <1>3
<1>5. DOMAIN G = DOMAIN F \cup {k} /\ G[k] = f /\ \A j \in DOMAIN F : G[j] = F[j]
  BY DEF With
<1> HIDE DEF M, G
<1>6. ASSUME NEW e \in Freqs
      PROVE  Elements(M[e]) = {j \in DOMAIN G : G[j] = e} /\ Distinct(M[e])
  <2>1. CASE e = f
    BY <1>1, <1>3, <1>4, <1>5, <2>1
  <2>2. CASE e # f
    BY <1>1, <1>4, <1>5, <2>2
  <2> QED
    BY <2>1, <2>2
<1> QED
  BY <1>4, <1>6 DEF Listed, M, G

-----------------------------------------------------------------------------
(* The sum of the frequencies.                                             *)

LEMMA UsesFinite ==
  ASSUME NEW F, Frequencies(F)
  PROVE  IsFiniteSet(Uses(F)) /\ Cardinality(Uses(F)) \in Nat
<1>1. IsFiniteSet(Freqs)
  BY Parameters, FS_Interval DEF Freqs
<1>2. IsFiniteSet((DOMAIN F) \X Freqs)
  BY <1>1, FS_Product DEF Frequencies
<1>3. Uses(F) \in SUBSET ((DOMAIN F) \X Freqs)
  BY DEF Uses
<1>4. IsFiniteSet(Uses(F))
  BY <1>2, <1>3, FS_Subset
<1> QED
  BY <1>4, FS_CardinalityType

\* One access more.
LEMMA UsesGrow ==
  ASSUME NEW F, Frequencies(F), NEW k \in Keys, NEW f \in Freqs,
         k \in DOMAIN F => f = F[k] + 1,
         k \notin DOMAIN F => f = 1
  PROVE  Cardinality(Uses(With(F, k, f))) = Cardinality(Uses(F)) + 1
<1> DEFINE G == With(F, k, f)
<1>1. DOMAIN G = DOMAIN F \cup {k} /\ G[k] = f /\ \A j \in DOMAIN F : j # k => G[j] = F[j]
  BY DEF With
<1> HIDE DEF G
<1>2. \A j \in DOMAIN F : F[j] \in Nat
  BY DEF Frequencies, Freqs
<1>3. \A j, i : <<j, i>> \in Uses(F) <=> j \in DOMAIN F /\ i \in Freqs /\ i <= F[j]
  BY DEF Uses
<1>4. \A j, i : <<j, i>> \in Uses(G) <=> j \in DOMAIN G /\ i \in Freqs /\ i <= G[j]
  BY DEF Uses
<1>5. \A i \in Freqs : i \in Nat /\ i >= 1
  BY DEF Freqs
<1>6. \A j, i : <<j, i>> \in Uses(G) <=> <<j, i>> \in Uses(F) \/ (j = k /\ i = f)
  <2> SUFFICES ASSUME NEW j, NEW i
               PROVE  <<j, i>> \in Uses(G) <=> <<j, i>> \in Uses(F) \/ (j = k /\ i = f)
    OBVIOUS
  <2>1. CASE j # k
    BY <1>1, <1>3, <1>4, <2>1
  <2>2. CASE j = k /\ k \in DOMAIN F
    BY <1>1, <1>2, <1>3, <1>4, <1>5, <2>2
  <2>3. CASE j = k /\ k \notin DOMAIN F
    BY <1>1, <1>3, <1>4, <1>5, <2>3
  <2> QED
    BY <2>1, <2>2, <2>3
<1>7. \A e \in Uses(F) \cup Uses(G) : e = <<e[1], e[2]>>
  BY DEF Uses
<1>8. Uses(G) = Uses(F) \cup {<<k, f>>}
  BY <1>6, <1>7
<1>9. <<k, f>> \notin Uses(F)
  BY <1>2, <1>3
<1> QED
  BY <1>8, <1>9, UsesFinite, FS_AddElement DEF G

\* The accesses to a key that leaves.
LEMMA UsesShrink ==
  ASSUME NEW F, Frequencies(F), NEW k \in DOMAIN F
  PROVE  Cardinality(Uses(Without(F, k))) = Cardinality(Uses(F)) - F[k]
<1> DEFINE G == Without(F, k)
           gone == {k} \X (1 .. F[k])
<1>1. DOMAIN G = DOMAIN F \ {k} /\ \A j \in DOMAIN G : G[j] = F[j]
  BY DEF Without
<1>2. F[k] \in Freqs /\ F[k] \in Nat /\ F[k] >= 1 /\ F[k] <= MaxFreq /\ MaxFreq \in Nat
  BY Parameters DEF Frequencies, Freqs
<1>3. IsFiniteSet(gone) /\ Cardinality(gone) = F[k]
  <2>1. IsFiniteSet({k}) /\ Cardinality({k}) = 1
    BY FS_Singleton
  <2>2. IsFiniteSet(1 .. F[k]) /\ Cardinality(1 .. F[k]) = F[k]
    BY <1>2, FS_Interval
  <2>3. IsFiniteSet(gone) /\ Cardinality(gone) = Cardinality({k}) * Cardinality(1 .. F[k])
    BY <2>1, <2>2, FS_Product, Zenon
  <2> QED
    BY <1>2, <2>1, <2>2, <2>3
<1>4. gone \subseteq Uses(F)
  BY <1>2 DEF Uses, Freqs
<1>5. Uses(G) = Uses(F) \ gone
  <2> HIDE DEF G
  <2>1. \A j, i : <<j, i>> \in Uses(F) <=> j \in DOMAIN F /\ i \in Freqs /\ i <= F[j]
    BY DEF Uses
  <2>2. \A j, i : <<j, i>> \in Uses(G) <=> j \in DOMAIN G /\ i \in Freqs /\ i <= G[j]
    BY DEF Uses
  <2>3. \A j, i : <<j, i>> \in gone <=> j = k /\ i \in 1 .. F[k]
    OBVIOUS
  <2>4. \A i \in Freqs : i <= F[k] <=> i \in 1 .. F[k]
    BY <1>2 DEF Freqs
  <2> HIDE DEF gone
  <2>5. \A j, i : <<j, i>> \in Uses(G) <=> <<j, i>> \in Uses(F) /\ <<j, i>> \notin gone
    <3> SUFFICES ASSUME NEW j, NEW i
                 PROVE  <<j, i>> \in Uses(G) <=> <<j, i>> \in Uses(F) /\ <<j, i>> \notin gone
      OBVIOUS
    <3>1. CASE j # k
      BY <1>1, <2>1, <2>2, <2>3, <3>1
    <3>2. CASE j = k
      BY <1>1, <2>1, <2>2, <2>3, <2>4, <3>2
    <3> QED
      BY <3>1, <3>2
  <2>6. \A e \in Uses(F) \cup Uses(G) : e = <<e[1], e[2]>>
    BY DEF Uses
  <2> QED
    BY <2>5, <2>6
<1> HIDE DEF G, gone
<1>6. Uses(F) \cap gone = gone
  BY <1>4
<1>7. Cardinality(Uses(F) \ gone) = Cardinality(Uses(F)) - Cardinality(Uses(F) \cap gone)
  BY UsesFinite, FS_Difference
<1> QED
  BY <1>3, <1>5, <1>6, <1>7 DEF G

\* Lower frequencies are no more accesses.
LEMMA UsesLess ==
  ASSUME NEW F, NEW G, Frequencies(F), Frequencies(G), DOMAIN G = DOMAIN F,
         \A k \in DOMAIN F : G[k] <= F[k]
  PROVE  Cardinality(Uses(G)) <= Cardinality(Uses(F))
<1>1. \A k \in DOMAIN F : F[k] \in Nat /\ G[k] \in Nat
  BY DEF Frequencies, Freqs
<1>2. \A i \in Freqs : i \in Nat
  BY DEF Freqs
<1>3. Uses(G) \in SUBSET Uses(F)
  <2> SUFFICES ASSUME NEW e \in Uses(G) PROVE e \in Uses(F)
    OBVIOUS
  <2>1. e \in (DOMAIN F) \X Freqs /\ e[1] \in DOMAIN F /\ e[2] \in Freqs /\ e[2] <= G[e[1]]
    BY DEF Uses
  <2>2. e[2] <= F[e[1]]
    BY <1>1, <1>2, <2>1
  <2> QED
    BY <2>1, <2>2 DEF Uses
<1> QED
  BY <1>3, UsesFinite, FS_Subset

\* Each key has at least the least frequency.
LEMMA UsesOfLeast ==
  ASSUME NEW F, Frequencies(F), DOMAIN F # {}, NEW m \in Nat, Least(F, m)
  PROVE  /\ Cardinality(DOMAIN F) \in Nat /\ Cardinality(DOMAIN F) # 0
         /\ Cardinality(DOMAIN F) * m <= Cardinality(Uses(F))
<1> DEFINE B == (DOMAIN F) \X (1 .. m)
<1>1. IsFiniteSet(DOMAIN F) /\ Cardinality(DOMAIN F) \in Nat /\ Cardinality(DOMAIN F) # 0
  BY FS_CardinalityType, FS_EmptySet DEF Frequencies
<1>2. PICK k \in DOMAIN F : F[k] = m
  BY DEF Least
<1>3. m \in Freqs /\ m <= MaxFreq /\ MaxFreq \in Nat /\ m >= 1
  BY <1>2, Parameters DEF Frequencies, Freqs
<1>4. IsFiniteSet(1 .. m) /\ Cardinality(1 .. m) = m
  BY <1>3, FS_Interval
<1>5. Cardinality(B) = Cardinality(DOMAIN F) * Cardinality(1 .. m)
  BY <1>1, <1>4, FS_Product, Zenon
<1>6. B \in SUBSET Uses(F)
  <2> SUFFICES ASSUME NEW j \in DOMAIN F, NEW i \in 1 .. m PROVE <<j, i>> \in Uses(F)
    OBVIOUS
  <2>1. m <= F[j] /\ F[j] \in Nat
    BY DEF Least, Frequencies, Freqs
  <2>2. i \in Freqs /\ i <= F[j]
    BY <1>3, <2>1 DEF Freqs
  <2> QED
    BY <2>2 DEF Uses
<1>7. Cardinality(B) <= Cardinality(Uses(F))
  BY <1>6, UsesFinite, FS_Subset, Zenon
<1> QED
  BY <1>1, <1>4, <1>5, <1>7

-----------------------------------------------------------------------------
(* Ageing.                                                                 *)

\* The orders of a finite set are the lists of its elements.
LEMMA OrderIs ==
  ASSUME NEW S, S \subseteq Keys, IsFiniteSet(S), NEW s \in SetToSeqs(S)
  PROVE  s \in Seq(Keys) /\ Elements(s) = S /\ Distinct(s)
<1> DEFINE n == Cardinality(S)
<1>1. n \in Nat
  BY FS_CardinalityType
<1>2. s \in [1 .. n -> S] /\ \A i, j \in 1 .. n : i # j => s[i] # s[j]
  BY DEF SetToSeqs
<1>3. s \in Seq(S) /\ s \in Seq(Keys) /\ Len(s) = n
  BY <1>1, <1>2
<1>4. IsFiniteSet(1 .. n) /\ Cardinality(1 .. n) = n
  BY <1>1, FS_Interval
<1>5. s \in Injection(1 .. n, S)
  BY <1>2 DEF Injection, IsInjective
<1>6. s \in Surjection(1 .. n, S)
  BY <1>4, <1>5, FS_Injection
<1>7. \A x \in S : \E i \in 1 .. n : s[i] = x
  BY <1>6 DEF Surjection
<1>8. Elements(s) = S
  BY <1>2, <1>7 DEF Elements
<1> QED
  BY <1>2, <1>3, <1>8 DEF Distinct

LEMMA RelistedIs ==
  ASSUME NEW F, Frequencies(F), NEW L \in Relisted(F)
  PROVE  Listed(F, L)
<1> DEFINE used == {F[k] : k \in DOMAIN F}
           At(f) == {k \in DOMAIN F : F[k] = f}
<1>1. PICK l : /\ \A f \in used : l[f] \in SetToSeqs(At(f))
               /\ L = [f \in Freqs |-> IF f \in used THEN l[f] ELSE <<>>]
  BY DEF Relisted
<1>2. ASSUME NEW f \in Freqs
      PROVE  L[f] \in Seq(Keys) /\ Elements(L[f]) = At(f) /\ Distinct(L[f])
  <2>1. CASE f \in used
    <3>1. At(f) \in SUBSET DOMAIN F /\ At(f) \subseteq Keys
      BY DEF Frequencies
    <3>2. IsFiniteSet(At(f))
      BY <3>1, FS_Subset DEF Frequencies
    <3>3. L[f] \in SetToSeqs(At(f))
      BY <1>1, <2>1
    <3> HIDE DEF At
    <3> QED
      BY <3>1, <3>2, <3>3, OrderIs
  <2>2. CASE f \notin used
    <3>1. At(f) = {}
      BY <2>2
    <3>2. L[f] = <<>>
      BY <1>1, <2>2
    <3>3. <<>> \in Seq(Keys) /\ Elements(<<>>) = {} /\ Distinct(<<>>)
      BY DEF Elements, Distinct
    <3> QED
      BY <3>1, <3>2, <3>3
  <2> QED
    BY <2>1, <2>2
<1>3. L \in [Freqs -> Seq(Keys)]
  BY <1>1, <1>2
<1> QED
  BY <1>2, <1>3 DEF Listed

\* updateMinFreq finds the least frequency if that is below INT8_MAX.
LEMMA UpdateMinFreqIs ==
  ASSUME NEW F, NEW L, NEW m, NEW t, Frequencies(F), Listed(F, L)
  PROVE  LET r == UpdateMinFreq(Cache(F, L, m, t))
         IN  /\ r = Cache(F, L, r.minFreq, t)
             /\ r.minFreq \in Nat
             /\ (\E k \in DOMAIN F : F[k] < INT8_MAX) => Least(F, r.minFreq)
<1> DEFINE used == {f \in Freqs : f < INT8_MAX /\ L[f] # <<>>}
           min == IF used = {} THEN 1 ELSE Min(used)
           r == UpdateMinFreq(Cache(F, L, m, t))
<1>1. r = Cache(F, L, min, t)
  BY DEF UpdateMinFreq, Cache
<1>2. r.minFreq = min
  <2> HIDE DEF r, min
  <2> QED
    BY <1>1 DEF Cache
<1>3. used \subseteq Nat
  BY DEF Freqs
<1>4. used # {} => Min(used) \in used /\ \A f \in used : Min(used) <= f
  BY <1>3, MinExists, Zenon
<1>5. min \in Nat
  BY <1>3, <1>4
<1>6. ASSUME NEW k \in DOMAIN F, F[k] < INT8_MAX
      PROVE  Least(F, min)
  <2>1. \A j \in DOMAIN F : F[j] \in Freqs /\ F[j] \in Nat
    BY DEF Frequencies, Freqs
  <2>2. \A j \in DOMAIN F : j \in Elements(L[F[j]])
    BY <2>1 DEF Listed
  <2>3. \A j \in DOMAIN F : L[F[j]] # <<>>
    BY <2>2 DEF Elements
  <2>4. \A j \in DOMAIN F : F[j] < INT8_MAX => F[j] \in used
    BY <2>1, <2>3
  <2>5. used # {} /\ min \in used /\ \A f \in used : min <= f
    BY <1>4, <1>6, <2>4
  <2>6. PICK j \in DOMAIN F : F[j] = min
    <3>1. min \in Freqs /\ L[min] # <<>> /\ L[min] \in Seq(Keys)
      BY <2>5 DEF Listed
    <3>2. L[min][1] \in Elements(L[min])
      <4>1. Len(L[min]) \in Nat /\ Len(L[min]) # 0 /\ DOMAIN L[min] = 1 .. Len(L[min])
        BY <3>1, EmptySeq, LenProperties
      <4> HIDE DEF min
      <4>2. 1 \in DOMAIN L[min]
        BY <4>1
      <4> QED
        BY <4>2 DEF Elements
    <3> QED
      BY <3>1, <3>2 DEF Listed
  <2>7. min < INT8_MAX /\ INT8_MAX \in Nat
    BY <2>5, Parameters
  <2>8. \A i \in DOMAIN F : min <= F[i]
    <3> SUFFICES ASSUME NEW i \in DOMAIN F PROVE min <= F[i]
      OBVIOUS
    <3>1. CASE F[i] < INT8_MAX
      BY <2>4, <2>5, <3>1
    <3>2. CASE ~(F[i] < INT8_MAX)
      BY <1>5, <2>1, <2>7, <3>2
    <3> QED
      BY <3>1, <3>2
  <2> QED
    BY <2>6, <2>8 DEF Least
<1> QED
  BY <1>1, <1>2, <1>5, <1>6

AgedAll(F) == [k \in DOMAIN F |-> Aged(F[k])]

LEMMA AgedAllIs ==
  ASSUME NEW F, Frequencies(F)
  PROVE  /\ Frequencies(AgedAll(F)) /\ DOMAIN AgedAll(F) = DOMAIN F
         /\ \A k \in DOMAIN F : AgedAll(F)[k] = Aged(F[k]) /\ AgedAll(F)[k] <= F[k]
<1>1. \A k \in DOMAIN F : Aged(F[k]) \in Freqs /\ Aged(F[k]) <= F[k]
  BY AgedIs DEF Frequencies
<1> QED
  BY <1>1 DEF Frequencies, AgedAll

\* handleOverMaxAverageNum keeps nodes and lists, and finds the new minimum if
\* the old one is at most one above the maximal average.
LEMMA AgeingIs ==
  ASSUME NEW F, NEW L, NEW m \in Nat, NEW t, Nodes(F, L, t), DOMAIN F # {}, NEW n, Bounded(F, n), n \in Nat,
         NEW r \in HandleOverMaxAverageNum(Cache(F, L, m, t))
  PROVE  /\ r = Cache(r.freq, r.list, r.minFreq, t)
         /\ Nodes(r.freq, r.list, t) /\ DOMAIN r.freq = DOMAIN F /\ Bounded(r.freq, n)
         /\ r.minFreq \in Nat
         /\ \A k \in DOMAIN F : r.freq[k] <= F[k]
         /\ Least(F, m) /\ m <= maxAverageNum_ + 1 =>
              Least(r.freq, r.minFreq) /\ r.minFreq <= maxAverageNum_
<1> DEFINE G == AgedAll(F)
<1>1. PICK M \in Relisted(G) : r = UpdateMinFreq(Cache(G, M, m, t))
  <2> DEFINE c == Cache(F, L, m, t)
  <2>1. c.freq = F /\ Cached(c) = DOMAIN F
    BY DEF Cache, Cached
  <2>2. G = [k \in Cached(c) |-> Aged(c.freq[k])]
    BY <2>1 DEF AgedAll
  <2>3. r \in {UpdateMinFreq([c EXCEPT !.freq = G, !.list = l]) : l \in Relisted(G)}
    BY <2>2 DEF HandleOverMaxAverageNum
  <2>4. PICK M \in Relisted(G) : r = UpdateMinFreq([c EXCEPT !.freq = G, !.list = M])
    BY <2>3
  <2>5. [c EXCEPT !.freq = G, !.list = M] = Cache(G, M, m, t)
    <3> HIDE DEF G
    <3>1. [c EXCEPT !.freq = G, !.list = M] = [[c EXCEPT !.freq = G] EXCEPT !.list = M]
      BY Zenon
    <3>2. [c EXCEPT !.freq = G] = Cache(G, L, m, t)
      BY DEF Cache
    <3>3. [Cache(G, L, m, t) EXCEPT !.list = M] = Cache(G, M, m, t)
      BY DEF Cache
    <3> QED
      BY <3>1, <3>2, <3>3, Zenon
  <2> QED
    BY <2>4, <2>5
<1>2. /\ Frequencies(F) /\ Frequencies(G) /\ DOMAIN G = DOMAIN F
      /\ \A k \in DOMAIN F : G[k] = Aged(F[k]) /\ G[k] <= F[k]
  BY AgedAllIs DEF Nodes
<1> HIDE DEF G
<1>3. Listed(G, M)
  BY <1>1, <1>2, RelistedIs
<1>4. Counted(G, t)
  <2>1. Cardinality(Uses(G)) <= Cardinality(Uses(F))
    BY <1>2, UsesLess
  <2>2. Cardinality(Uses(G)) \in Nat /\ Cardinality(Uses(F)) \in Nat
    BY <1>2, UsesFinite
  <2> QED
    BY <2>1, <2>2 DEF Counted, Nodes
<1>5. \A k \in DOMAIN F : F[k] \in Freqs /\ F[k] \in Nat /\ G[k] \in Nat
  BY <1>2 DEF Frequencies, Freqs
<1>6. Bounded(G, n)
  BY <1>2, <1>5 DEF Bounded
<1>7. /\ r = Cache(G, M, r.minFreq, t) /\ r.minFreq \in Nat
      /\ (\E k \in DOMAIN G : G[k] < INT8_MAX) => Least(G, r.minFreq)
  BY <1>1, <1>2, <1>3, UpdateMinFreqIs
<1>8. r.freq = G /\ r.list = M
  BY <1>7 DEF Cache
<1>9. ASSUME Least(F, m), m <= maxAverageNum_ + 1
      PROVE  Least(G, r.minFreq) /\ r.minFreq <= maxAverageNum_
  <2>1. PICK k \in DOMAIN F : F[k] = m
    BY <1>9 DEF Least
  <2>2. G[k] = 1 \/ G[k] = m - maxAverageNum_ \div 2
    BY <1>2, <1>5, <2>1, AgedIs
  <2>3. G[k] < INT8_MAX /\ G[k] <= maxAverageNum_
    BY <1>5, <1>9, <2>2, Parameters
  <2>4. Least(G, r.minFreq)
    BY <1>2, <1>7, <2>3
  <2>5. r.minFreq <= G[k]
    BY <1>2, <2>4 DEF Least
  <2> QED
    BY <1>5, <1>7, <2>3, <2>4, <2>5, Parameters
<1> QED
  BY <1>2, <1>3, <1>4, <1>6, <1>7, <1>8, <1>9 DEF Nodes

-----------------------------------------------------------------------------
(* The member functions of KLfuCache.                                      *)

\* What addFreqNum leaves of the frequencies F with the minimum m.
Counting(r, F, m, n) ==
  /\ r = Cache(r.freq, r.list, r.minFreq, r.total)
  /\ Nodes(r.freq, r.list, r.total) /\ DOMAIN r.freq = DOMAIN F /\ Bounded(r.freq, n)
  /\ r.minFreq \in Nat
  /\ \A k \in DOMAIN F : r.freq[k] <= F[k]
  /\ Least(F, m) /\ m <= maxAverageNum_ + 1 =>
       Least(r.freq, r.minFreq) /\ r.minFreq <= maxAverageNum_

\* addFreqNum: while the average is not too high, neither is the minimum.
LEMMA AddFreqNumIs ==
  ASSUME NEW F, NEW L, NEW m \in Nat, NEW t \in Nat, Nodes(F, L, t + 1), DOMAIN F # {},
         NEW n \in Nat, Bounded(F, n),
         NEW r \in AddFreqNum(Cache(F, L, m, t))
  PROVE  Counting(r, F, m, n)
<1> USE DEF Counting
<1> DEFINE c == Cache(F, L, m, t)
           d == Cache(F, L, m, t + 1)
<1>1. [c EXCEPT !.total = @ + 1] = d /\ d.total = t + 1 /\ Cached(c) = DOMAIN F
  BY DEF Cache, Cached
<1>2. r \in IF (t + 1) \div Cardinality(DOMAIN F) > maxAverageNum_
              THEN HandleOverMaxAverageNum(d) ELSE {d}
  <2> HIDE DEF d
  <2> QED
    BY <1>1 DEF AddFreqNum
<1>3. CASE (t + 1) \div Cardinality(DOMAIN F) > maxAverageNum_
  <2>1. r \in HandleOverMaxAverageNum(d)
    BY <1>2, <1>3
  <2>2. /\ r = Cache(r.freq, r.list, r.minFreq, t + 1)
        /\ Nodes(r.freq, r.list, t + 1) /\ DOMAIN r.freq = DOMAIN F /\ Bounded(r.freq, n)
        /\ r.minFreq \in Nat
        /\ \A k \in DOMAIN F : r.freq[k] <= F[k]
        /\ Least(F, m) /\ m <= maxAverageNum_ + 1 =>
              Least(r.freq, r.minFreq) /\ r.minFreq <= maxAverageNum_
    BY <2>1, AgeingIs
  <2>3. r.total = t + 1
    BY <2>2, CacheIs
  <2> QED
    BY <2>2, <2>3
<1>4. CASE ~((t + 1) \div Cardinality(DOMAIN F) > maxAverageNum_)
  <2>1. r = d
    BY <1>2, <1>4
  <2>2. r.freq = F /\ r.list = L /\ r.minFreq = m /\ r.total = t + 1
    BY <2>1, CacheIs
  <2>3. ASSUME Least(F, m) PROVE m <= maxAverageNum_
    <3> DEFINE size == Cardinality(DOMAIN F)
    <3>1. /\ size \in Nat /\ size # 0 /\ size * m <= Cardinality(Uses(F))
      BY <2>3, UsesOfLeast DEF Nodes
    <3>2. Cardinality(Uses(F)) <= t + 1 /\ Cardinality(Uses(F)) \in Nat
      BY UsesFinite DEF Nodes, Counted
    <3> HIDE DEF size
    <3>3. size * m \in Nat
      BY <3>1
    <3>4. size * m <= t + 1
      BY <3>1, <3>2, <3>3
    <3>5. (t + 1) \div size \in Int /\ maxAverageNum_ \in Nat
      BY <3>1, Parameters
    <3>6. (t + 1) \div size <= maxAverageNum_
      BY <1>4, <3>5 DEF size
    <3> QED
      BY <3>1, <3>4, <3>5, <3>6, LeastBelowAverage
  <2>4. \A k \in DOMAIN F : F[k] <= F[k]
    BY DEF Nodes, Frequencies, Freqs
  <2> QED
    BY <2>1, <2>2, <2>3, <2>4
<1> QED
  BY <1>3, <1>4

\* What put and get leave of a slice after one more call.
After(r, n) ==
  /\ r = Cache(r.freq, r.list, r.minFreq, r.total)
  /\ Nodes(r.freq, r.list, r.total) /\ Bounded(r.freq, n + 1)
  /\ r.minFreq \in Nat /\ Least(r.freq, r.minFreq) /\ r.minFreq <= maxAverageNum_

\* getInternal
LEMMA GetInternalIs ==
  ASSUME NEW c, NEW n \in Nat, n < MaxFreq, SliceInv(c, n), NEW k \in Cached(c),
         NEW r \in GetInternal(c, k)
  PROVE  After(r, n) /\ Cached(r) = Cached(c)
<1> DEFINE F == c.freq
           L == c.list
           m == c.minFreq
           t == c.total
           old == F[k]
           G == With(F, k, old + 1)
           E == Without(F, k)
           K == [L EXCEPT ![old] = RemoveNode(@, k)]
           M == [K EXCEPT ![old + 1] = AddNode(@, k)]
           min == IF old = m /\ M[old] = <<>> THEN m + 1 ELSE m
<1>1. /\ c = Cache(F, L, m, t) /\ Nodes(F, L, t) /\ Bounded(F, n)
      /\ m \in Nat /\ Least(F, m) /\ m <= maxAverageNum_ /\ t \in Nat
      /\ Cached(c) = DOMAIN F /\ k \in DOMAIN F /\ k \in Keys
  BY DEF SliceInv, Cached, Nodes, Counted, Frequencies
<1>2. /\ Frequencies(F) /\ Listed(F, L) /\ Counted(F, t)
      /\ old \in Freqs /\ old \in Nat /\ old <= n /\ old + 1 \in Freqs
  BY <1>1, Parameters DEF Nodes, Frequencies, Freqs, Bounded
<1> HIDE DEF F, L, m, t
<1>3. r \in AddFreqNum(Cache(G, M, min, t))
  <2>1. RemoveFromFreqList(c, k) = Cache(F, K, m, t)
    BY <1>1 DEF RemoveFromFreqList, Cache
  <2> HIDE DEF K, G
  <2>2. SetFreq(Cache(F, K, m, t), k, old + 1) = Cache(G, K, m, t)
    BY <1>1 DEF SetFreq, Cache, G, With
  <2>3. G[k] = old + 1
    BY DEF G, With
  <2>4. AddToFreqList(Cache(G, K, m, t), k) = Cache(G, M, m, t)
    BY <2>3 DEF AddToFreqList, Cache
  <2>5. c.freq[k] = old
    BY DEF F
  <2>6. AddToFreqList(SetFreq(RemoveFromFreqList(c, k), k, c.freq[k] + 1), k) = Cache(G, M, m, t)
    BY <2>1, <2>2, <2>4, <2>5
  <2> HIDE DEF M
  <2>7. [Cache(G, M, m, t) EXCEPT !.minFreq =
           IF old = @ /\ Cache(G, M, m, t).list[old] = <<>> THEN @ + 1 ELSE @] = Cache(G, M, min, t)
    BY DEF Cache
  <2> QED
    BY <2>5, <2>6, <2>7 DEF GetInternal
<1>4. /\ Frequencies(G) /\ DOMAIN G = DOMAIN F /\ G[k] = old + 1
      /\ \A j \in DOMAIN F : j # k => G[j] = F[j]
  <2>1. /\ Frequencies(G) /\ DOMAIN G = DOMAIN F \cup {k} /\ G[k] = old + 1
        /\ \A j \in DOMAIN F : j # k => G[j] = F[j]
    <3>1. Frequencies(With(F, k, old + 1))
      BY <1>1, <1>2, FrequenciesWith
    <3> QED
      BY <3>1 DEF With
  <2> QED
    BY <1>1, <2>1
<1>5. Listed(G, M)
  <2>1. Listed(E, K) /\ Frequencies(E) /\ k \notin DOMAIN E
    <3>1. Listed(E, K)
      BY <1>1, <1>2, ListedWithout, Zenon
    <3>2. Frequencies(E) /\ DOMAIN E = DOMAIN F \ {k}
      BY <1>2, FrequenciesWithout, Zenon
    <3> QED
      BY <3>1, <3>2
  <2>2. With(E, k, old + 1) = G
    BY <1>1 DEF With, Without
  <2> HIDE DEF E, K, G
  <2>3. Listed(With(E, k, old + 1), [K EXCEPT ![old + 1] = AddNode(@, k)])
    BY <1>1, <1>2, <2>1, ListedWith
  <2> QED
    BY <2>2, <2>3
<1>6. Counted(G, t + 1)
  <2>1. Cardinality(Uses(G)) = Cardinality(Uses(F)) + 1
    BY <1>1, <1>2, UsesGrow
  <2>2. Cardinality(Uses(F)) \in Nat /\ Cardinality(Uses(F)) <= t
    BY <1>2, UsesFinite DEF Counted
  <2> QED
    BY <1>1, <2>1, <2>2 DEF Counted
<1> HIDE DEF G, M
<1>7. Bounded(G, n + 1)
  <2>1. \A j \in DOMAIN F : F[j] \in Nat /\ F[j] <= n
    BY <1>1, <1>2 DEF Bounded, Frequencies, Freqs
  <2> QED
    BY <1>2, <1>4, <2>1 DEF Bounded
<1>8. min \in Nat /\ Least(G, min) /\ min <= maxAverageNum_ + 1
  <2>1. \A j \in DOMAIN F : F[j] \in Nat /\ m <= F[j] /\ G[j] \in Nat
    BY <1>1, <1>2, <1>4 DEF Least, Frequencies, Freqs
  <2>2. min \in Nat /\ min <= maxAverageNum_ + 1
    BY <1>1, Parameters
  <2>3. Elements(M[old]) = {j \in DOMAIN G : G[j] = old}
    BY <1>2, <1>5 DEF Listed
  <2>4. CASE old = m /\ M[old] = <<>>
    <3>1. \A j \in DOMAIN F : G[j] # m
      <4>1. Elements(<<>>) = {}
        BY DEF Elements
      <4> QED
        BY <1>4, <2>3, <2>4, <4>1
    <3>2. \A j \in DOMAIN F : m + 1 <= G[j]
      BY <1>1, <1>2, <1>4, <2>1, <2>4, <3>1
    <3>3. G[k] = m + 1
      BY <1>4, <2>4
    <3> QED
      BY <1>1, <1>4, <2>2, <2>4, <3>2, <3>3 DEF Least
  <2>5. CASE old = m /\ M[old] # <<>>
    <3>1. PICK j \in DOMAIN G : G[j] = m
      <4>1. M[old] \in Seq(Keys)
        BY <1>2, <1>5 DEF Listed
      <4>2. Len(M[old]) \in Nat /\ Len(M[old]) # 0 /\ DOMAIN M[old] = 1 .. Len(M[old])
        BY <2>5, <4>1, EmptySeq, LenProperties
      <4>3. 1 \in DOMAIN M[old]
        BY <4>2
      <4>4. M[old][1] \in Elements(M[old])
        BY <4>3 DEF Elements
      <4> QED
        BY <2>3, <2>5, <4>4
    <3>2. \A i \in DOMAIN F : m <= G[i]
      BY <1>1, <1>2, <1>4, <2>1
    <3> QED
      BY <1>4, <2>2, <2>5, <3>1, <3>2 DEF Least
  <2>6. CASE old # m
    <3>1. PICK j \in DOMAIN F : F[j] = m
      BY <1>1 DEF Least
    <3>2. j # k /\ G[j] = m
      BY <1>4, <2>6, <3>1
    <3>3. \A i \in DOMAIN F : m <= G[i]
      BY <1>1, <1>2, <1>4, <2>1
    <3> QED
      BY <1>4, <2>2, <2>6, <3>1, <3>2, <3>3 DEF Least
  <2> QED
    BY <2>4, <2>5, <2>6
<1> HIDE DEF min
<1>9. DOMAIN G # {} /\ n + 1 \in Nat /\ Nodes(G, M, t + 1)
  BY <1>1, <1>4, <1>5, <1>6 DEF Nodes
<1>10. /\ r = Cache(r.freq, r.list, r.minFreq, r.total)
       /\ Nodes(r.freq, r.list, r.total) /\ DOMAIN r.freq = DOMAIN G /\ Bounded(r.freq, n + 1)
       /\ r.minFreq \in Nat /\ Least(r.freq, r.minFreq) /\ r.minFreq <= maxAverageNum_
  <2>1. Counting(r, G, min, n + 1)
    BY <1>1, <1>3, <1>7, <1>8, <1>9, AddFreqNumIs, Zenon
  <2> QED
    BY <1>8, <2>1 DEF Counting
<1> QED
  BY <1>1, <1>4, <1>10 DEF After, Cached

\* The key that kickOut takes: the oldest one of the least frequency.
Victim(c) == Head(c.list[c.minFreq])

LEMMA VictimIs ==
  ASSUME NEW c, NEW n \in Nat, SliceInv(c, n), Cached(c) # {}
  PROVE  /\ c.minFreq \in Freqs /\ c.list[c.minFreq] # <<>>
         /\ Victim(c) \in Cached(c) /\ c.freq[Victim(c)] = c.minFreq
<1> DEFINE F == c.freq
           L == c.list
           m == c.minFreq
<1>1. Frequencies(F) /\ Listed(F, L) /\ Least(F, m) /\ DOMAIN F # {}
  BY DEF SliceInv, Nodes, Cached
<1> HIDE DEF F, L, m
<1>2. PICK k \in DOMAIN F : F[k] = m
  BY <1>1 DEF Least
<1>3. m \in Freqs
  BY <1>1, <1>2 DEF Frequencies
<1>4. L[m] \in Seq(Keys) /\ Elements(L[m]) = {j \in DOMAIN F : F[j] = m}
  BY <1>1, <1>3 DEF Listed
<1>5. L[m] # <<>>
  BY <1>2, <1>4 DEF Elements
<1>6. Head(L[m]) \in Elements(L[m])
  BY <1>4, <1>5, TailSet, Zenon
<1> QED
  BY <1>3, <1>4, <1>5, <1>6 DEF Victim, Cached, F, L, m

LEMMA KickOutIs ==
  ASSUME NEW c, NEW n \in Nat, SliceInv(c, n), Cached(c) # {}
  PROVE  /\ KickOut(c) = Cache(KickOut(c).freq, KickOut(c).list, c.minFreq, KickOut(c).total)
         /\ Nodes(KickOut(c).freq, KickOut(c).list, KickOut(c).total)
         /\ Bounded(KickOut(c).freq, n)
         /\ Cached(KickOut(c)) = Cached(c) \ {Victim(c)}
<1> DEFINE F == c.freq
           L == c.list
           m == c.minFreq
           t == c.total
           k == Victim(c)
           G == Without(F, k)
           M == [L EXCEPT ![F[k]] = RemoveNode(@, k)]
<1>1. /\ c = Cache(F, L, m, t) /\ Frequencies(F) /\ Listed(F, L) /\ Counted(F, t) /\ Bounded(F, n)
      /\ Cached(c) = DOMAIN F
  BY DEF SliceInv, Nodes, Cached
<1>2. L[m] # <<>> /\ k \in DOMAIN F /\ F[k] = m /\ k = Head(L[m])
  BY VictimIs DEF Cached, Victim
<1> HIDE DEF F, L, m, t, k
<1>3. KickOut(c) = Cache(G, M, m, t - F[k])
  <2>1. RemoveFromFreqList(c, k) = Cache(F, M, m, t)
    BY <1>1 DEF RemoveFromFreqList, Cache
  <2> HIDE DEF M
  <2>2. [Cache(F, M, m, t) EXCEPT !.freq = [j \in DOMAIN F \ {k} |-> @[j]]] = Cache(G, M, m, t)
    BY DEF Cache, Without
  <2> HIDE DEF G
  <2>3. DecreaseFreqNum(Cache(G, M, m, t), F[k]) = Cache(G, M, m, t - F[k])
    BY DEF DecreaseFreqNum, Cache
  <2>4. c.list[c.minFreq] = L[m] /\ c.freq[k] = F[k]
    BY DEF L, m, F
  <2>5. KickOut(c) = DecreaseFreqNum([RemoveFromFreqList(c, k) EXCEPT
                                        !.freq = [j \in DOMAIN F \ {k} |-> @[j]]], F[k])
    BY <1>1, <1>2, <2>4 DEF KickOut
  <2> QED
    BY <2>1, <2>2, <2>3, <2>5
<1>4. KickOut(c).freq = G /\ KickOut(c).list = M /\ KickOut(c).total = t - F[k]
  <2> HIDE DEF G, M
  <2> QED
    BY <1>3 DEF Cache
<1>5. Frequencies(G) /\ DOMAIN G = DOMAIN F \ {k}
  BY <1>1, FrequenciesWithout, Zenon
<1>6. Listed(G, M)
  BY <1>1, <1>2, ListedWithout, Zenon
<1>7. Counted(G, t - F[k])
  <2>1. Cardinality(Uses(G)) = Cardinality(Uses(F)) - F[k]
    BY <1>1, <1>2, UsesShrink
  <2>2. /\ Cardinality(Uses(F)) \in Nat /\ Cardinality(Uses(G)) \in Nat
        /\ Cardinality(Uses(F)) <= t /\ t \in Nat
    BY <1>1, <1>5, UsesFinite DEF Counted
  <2>3. F[k] \in Nat
    BY <1>1, <1>2 DEF Frequencies, Freqs
  <2> QED
    BY <2>1, <2>2, <2>3 DEF Counted
<1>8. Bounded(G, n)
  BY <1>1 DEF Bounded, Without
<1> HIDE DEF G, M
<1> QED
  BY <1>1, <1>3, <1>4, <1>5, <1>6, <1>7, <1>8 DEF Nodes, Cached, k, m

LEMMA SliceSizeType == SliceSize \in Nat
BY CapacityAssumption, SliceAssumption DEF SliceSize

\* putInternal evicts one key when the slice is full, inserts the new one and
\* makes 1 the minimum.
LEMMA PutInternalIs ==
  ASSUME NEW c, NEW n \in Nat, n < MaxFreq, SliceInv(c, n), NEW k \in Keys, k \notin Cached(c),
         SliceSize # 0, NEW r \in PutInternal(c, k, SliceSize)
  PROVE  /\ After(r, n)
         /\ Cardinality(Cached(c)) = SliceSize =>
              Cached(c) # {} /\ Cached(r) = (Cached(c) \ {Victim(c)}) \cup {k}
         /\ Cardinality(Cached(c)) # SliceSize => Cached(r) = Cached(c) \cup {k}
<1> DEFINE room == IF Cardinality(Cached(c)) = SliceSize THEN KickOut(c) ELSE c
           F == room.freq
           L == room.list
           t == room.total
           m == c.minFreq
           G == With(F, k, 1)
           M == [L EXCEPT ![1] = AddNode(@, k)]
<1>1. Cardinality(Cached(c)) = SliceSize => Cached(c) # {}
  BY FS_EmptySet, Zenon
<1>2. /\ room = Cache(F, L, m, t) /\ Nodes(F, L, t) /\ Bounded(F, n) /\ m \in Nat
      /\ DOMAIN F = IF Cardinality(Cached(c)) = SliceSize THEN Cached(c) \ {Victim(c)} ELSE Cached(c)
  <2>1. CASE Cardinality(Cached(c)) = SliceSize
    BY <1>1, <2>1, KickOutIs DEF Cached, SliceInv
  <2>2. CASE Cardinality(Cached(c)) # SliceSize
    BY <2>2 DEF Cached, SliceInv
  <2> QED
    BY <2>1, <2>2
<1>3. PICK q \in AddFreqNum(AddToFreqList(SetFreq(room, k, 1), k)) : r = [q EXCEPT !.minFreq = 1]
  BY DEF PutInternal
<1> HIDE DEF room, F, L, t, m
<1>4. /\ Frequencies(F) /\ Listed(F, L) /\ Counted(F, t) /\ t \in Nat /\ k \notin DOMAIN F
      /\ 1 \in Freqs
  BY <1>2, Parameters DEF Nodes, Counted, Freqs
<1>5. AddToFreqList(SetFreq(room, k, 1), k) = Cache(G, M, m, t)
  <2>1. SetFreq(room, k, 1) = Cache(G, L, m, t)
    BY <1>2 DEF SetFreq, Cache, With
  <2>2. G[k] = 1
    BY DEF With
  <2> HIDE DEF G
  <2>3. AddToFreqList(Cache(G, L, m, t), k) = Cache(G, M, m, t)
    BY <2>2 DEF AddToFreqList, Cache
  <2> QED
    BY <2>1, <2>3
<1>6. /\ Frequencies(G) /\ DOMAIN G = DOMAIN F \cup {k} /\ G[k] = 1
      /\ \A j \in DOMAIN F : j # k => G[j] = F[j]
  <2>1. Frequencies(With(F, k, 1))
    BY <1>4, FrequenciesWith
  <2> QED
    BY <2>1 DEF With
<1>7. Listed(G, M)
  BY <1>4, ListedWith, Zenon
<1>8. Counted(G, t + 1)
  <2>1. Cardinality(Uses(G)) = Cardinality(Uses(F)) + 1
    BY <1>4, UsesGrow
  <2>2. Cardinality(Uses(F)) \in Nat /\ Cardinality(Uses(F)) <= t
    BY <1>4, UsesFinite DEF Counted
  <2> QED
    BY <1>4, <2>1, <2>2 DEF Counted
<1> HIDE DEF G, M
<1>9. Bounded(G, n + 1)
  <2>1. \A j \in DOMAIN F : F[j] \in Nat /\ F[j] <= n
    BY <1>2, <1>4 DEF Bounded, Frequencies, Freqs
  <2> QED
    BY <1>4, <1>6, <2>1 DEF Bounded
<1>10. DOMAIN G # {} /\ n + 1 \in Nat /\ Nodes(G, M, t + 1)
  BY <1>6, <1>7, <1>8 DEF Nodes
<1>11. /\ q = Cache(q.freq, q.list, q.minFreq, q.total)
       /\ Nodes(q.freq, q.list, q.total) /\ DOMAIN q.freq = DOMAIN G /\ Bounded(q.freq, n + 1)
       /\ \A j \in DOMAIN G : q.freq[j] <= G[j]
  <2>1. q \in AddFreqNum(Cache(G, M, m, t))
    BY <1>3, <1>5
  <2>2. Counting(q, G, m, n + 1)
    BY <1>2, <1>4, <1>9, <1>10, <2>1, AddFreqNumIs, Zenon
  <2> QED
    BY <2>2 DEF Counting
<1>12. r = Cache(q.freq, q.list, 1, q.total)
  BY <1>3, <1>11 DEF Cache
<1>13. r.freq = q.freq /\ r.list = q.list /\ r.minFreq = 1 /\ r.total = q.total
  BY <1>12 DEF Cache
<1>14. Least(q.freq, 1)
  <2>1. \A j \in DOMAIN G : q.freq[j] \in Nat /\ q.freq[j] >= 1
    BY <1>11 DEF Nodes, Frequencies, Freqs
  <2>2. k \in DOMAIN G /\ q.freq[k] = 1
    BY <1>6, <1>11, <2>1
  <2> QED
    BY <1>11, <2>1, <2>2 DEF Least
<1>15. After(r, n)
  BY <1>11, <1>12, <1>13, <1>14, Parameters DEF After
<1>16. Cached(r) = DOMAIN F \cup {k}
  BY <1>6, <1>11, <1>13 DEF Cached
<1> QED
  BY <1>1, <1>2, <1>15, <1>16

LEMMA AfterIsGood ==
  ASSUME NEW r, NEW n \in Nat, After(r, n), Cardinality(Cached(r)) <= SliceSize
  PROVE  SliceInv(r, n + 1)
BY DEF After, SliceInv

LEMMA SliceGrowsOlder ==
  ASSUME NEW c, NEW n \in Nat, SliceInv(c, n)
  PROVE  SliceInv(c, n + 1)
<1>1. \A k \in DOMAIN c.freq : c.freq[k] \in Nat
  BY DEF SliceInv, Nodes, Frequencies, Freqs
<1>2. Bounded(c.freq, n + 1)
  BY <1>1 DEF SliceInv, Bounded
<1> QED
  BY <1>2 DEF SliceInv

LEMMA GetIsGood ==
  ASSUME NEW c, NEW n \in Nat, n < MaxFreq, SliceInv(c, n), NEW k, NEW r \in Get(c, k)
  PROVE  SliceInv(r, n + 1) /\ Cached(r) = Cached(c)
<1>1. CASE k \in Cached(c)
  <2>1. r \in GetInternal(c, k)
    BY <1>1 DEF Get
  <2>2. After(r, n) /\ Cached(r) = Cached(c)
    BY <1>1, <2>1, GetInternalIs, Zenon
  <2>3. Cardinality(Cached(r)) <= SliceSize
    BY <2>2 DEF SliceInv
  <2> QED
    BY <2>2, <2>3, AfterIsGood, Zenon
<1>2. CASE k \notin Cached(c)
  BY <1>2, SliceGrowsOlder DEF Get
<1> QED
  BY <1>1, <1>2

\* put removes nothing but the victim, and that from a full slice only.
LEMMA PutIsGood ==
  ASSUME NEW c, NEW n \in Nat, n < MaxFreq, SliceInv(c, n), NEW k \in Keys,
         NEW r \in Put(c, k, SliceSize)
  PROVE  /\ SliceInv(r, n + 1)
         /\ Cached(c) \ Cached(r) # {} => /\ Cached(c) # {} /\ Cardinality(Cached(c)) = SliceSize
                                          /\ Cached(c) \ Cached(r) = {Victim(c)}
<1>1. CASE SliceSize = 0
  <2>1. r = c
    BY <1>1 DEF Put
  <2> QED
    BY <2>1, SliceGrowsOlder
<1>2. CASE SliceSize # 0 /\ k \in Cached(c)
  <2>1. r \in GetInternal(c, k)
    BY <1>2 DEF Put
  <2>2. After(r, n) /\ Cached(r) = Cached(c)
    BY <1>2, <2>1, GetInternalIs, Zenon
  <2>3. Cardinality(Cached(r)) <= SliceSize
    BY <2>2 DEF SliceInv
  <2>4. SliceInv(r, n + 1)
    BY <2>2, <2>3, AfterIsGood, Zenon
  <2> QED
    BY <2>2, <2>4
<1>3. CASE SliceSize # 0 /\ k \notin Cached(c)
  <2>1. r \in PutInternal(c, k, SliceSize)
    BY <1>3 DEF Put
  <2>2. /\ After(r, n)
        /\ Cardinality(Cached(c)) = SliceSize =>
             Cached(c) # {} /\ Cached(r) = (Cached(c) \ {Victim(c)}) \cup {k}
        /\ Cardinality(Cached(c)) # SliceSize => Cached(r) = Cached(c) \cup {k}
    BY <1>3, <2>1, PutInternalIs, Zenon
  <2>3. IsFiniteSet(Cached(c)) /\ Cardinality(Cached(c)) \in Nat /\ Cardinality(Cached(c)) <= SliceSize
    BY FS_CardinalityType DEF SliceInv, Nodes, Frequencies, Cached
  <2>4. CASE Cardinality(Cached(c)) = SliceSize
    <3>1. Cached(c) # {} /\ Victim(c) \in Cached(c) /\ k # Victim(c)
      BY <1>3, <2>2, <2>4, VictimIs
    <3> DEFINE rest == Cached(c) \ {Victim(c)}
    <3>2. IsFiniteSet(rest) /\ Cardinality(rest) = SliceSize - 1
      BY <2>3, <2>4, <3>1, FS_RemoveElement
    <3>3. k \notin rest
      BY <1>3
    <3>4. Cardinality(rest \cup {k}) = SliceSize
      <4> HIDE DEF rest
      <4>1. Cardinality(rest \cup {k}) = Cardinality(rest) + 1
        BY <3>2, <3>3, FS_AddElement
      <4> QED
        BY <3>2, <4>1, SliceSizeType
    <3>5. Cached(r) = rest \cup {k}
      BY <2>2, <2>4
    <3>6. Cardinality(Cached(r)) <= SliceSize
      BY <3>4, <3>5, SliceSizeType
    <3>7. SliceInv(r, n + 1)
      BY <2>2, <3>6, AfterIsGood, Zenon
    <3>8. Cached(c) \ Cached(r) = {Victim(c)}
      BY <3>1, <3>5
    <3> QED
      BY <2>4, <3>1, <3>7, <3>8
  <2>5. CASE Cardinality(Cached(c)) # SliceSize
    <3>1. Cached(r) = Cached(c) \cup {k}
      BY <2>2, <2>5
    <3>2. Cardinality(Cached(r)) = Cardinality(Cached(c)) + 1
      BY <1>3, <2>3, <3>1, FS_AddElement
    <3>3. Cardinality(Cached(r)) <= SliceSize
      BY <2>3, <2>5, <3>2, SliceSizeType
    <3>4. SliceInv(r, n + 1)
      BY <2>2, <3>3, AfterIsGood, Zenon
    <3> QED
      BY <3>1, <3>4
  <2> QED
    BY <2>4, <2>5
<1> QED
  BY <1>1, <1>2, <1>3

\* No nodes and empty lists, in a new cache and after purge.
LEMMA EmptyIsGood ==
  ASSUME NEW n \in Nat, NEW m \in Nat, NEW t \in Nat
  PROVE  SliceInv(Cache(<<>>, [f \in Freqs |-> <<>>], m, t), n)
<1> DEFINE L == [f \in Freqs |-> <<>>]
           c == Cache(<<>>, L, m, t)
<1>1. c.freq = <<>> /\ c.list = L /\ c.minFreq = m /\ c.total = t
  BY CacheIs
<1>2. DOMAIN <<>> = {} /\ <<>> \in [{} -> Freqs]
  OBVIOUS
<1>3. Frequencies(<<>>)
  BY <1>2, FS_EmptySet DEF Frequencies
<1>4. Listed(<<>>, L)
  <2>1. <<>> \in Seq(Keys) /\ Elements(<<>>) = {} /\ Distinct(<<>>)
    BY DEF Elements, Distinct
  <2> QED
    BY <1>2, <2>1 DEF Listed
<1>5. Counted(<<>>, t)
  <2>1. Uses(<<>>) = {}
    BY <1>2 DEF Uses
  <2> QED
    BY <2>1, FS_EmptySet DEF Counted
<1>6. Cardinality(DOMAIN <<>>) <= SliceSize
  BY <1>2, FS_EmptySet, SliceSizeType
<1> HIDE DEF c, L
<1>7. c = Cache(c.freq, c.list, c.minFreq, c.total)
  BY <1>1 DEF c
<1>8. SliceInv(c, n)
  BY <1>1, <1>2, <1>3, <1>4, <1>5, <1>6, <1>7 DEF SliceInv, Nodes, Bounded, Least, Cached
<1> QED
  BY <1>8 DEF c, L

LEMMA PurgeIsGood ==
  ASSUME NEW c, NEW n \in Nat, SliceInv(c, n)
  PROVE  SliceInv(Purge(c), n + 1) /\ Cached(Purge(c)) = {}
<1> DEFINE F == c.freq
           L == c.list
           m == c.minFreq
           t == c.total
           K == [f \in Freqs |-> <<>>]
<1>1. c = Cache(F, L, m, t) /\ m \in Nat /\ t \in Nat
  BY DEF SliceInv, Nodes, Counted
<1> HIDE DEF F, L, m, t, K
<1>2. Purge(c) = [[c EXCEPT !.freq = <<>>] EXCEPT !.list = K]
  BY Zenon DEF Purge, K
<1>3. [c EXCEPT !.freq = <<>>] = Cache(<<>>, L, m, t)
  BY <1>1 DEF Cache
<1>4. [Cache(<<>>, L, m, t) EXCEPT !.list = K] = Cache(<<>>, K, m, t)
  BY DEF Cache
<1>5. Purge(c) = Cache(<<>>, K, m, t)
  BY <1>2, <1>3, <1>4
<1>6. SliceInv(Cache(<<>>, K, m, t), n + 1)
  BY <1>1, EmptyIsGood DEF K
<1>7. Cached(Purge(c)) = {}
  BY <1>5, CacheIs DEF Cached
<1> QED
  BY <1>5, <1>6, <1>7

-----------------------------------------------------------------------------
(* KHashLfuCache.                                                          *)

LEMMA SliceIndexType ==
  ASSUME NEW k \in Keys
  PROVE  SliceIndex(k) \in Slices
<1>1. Hash[k] \in Nat /\ sliceNum_ \in Nat /\ sliceNum_ > 0
  BY HashAssumption, SliceAssumption
<1> QED
  BY <1>1 DEF SliceIndex, Slices

LEMMA InitIsGood ==
  ASSUME Init
  PROVE  CacheInv
<1>1. NewCache = Cache(<<>>, [f \in Freqs |-> <<>>], INT8_MAX, 0)
  BY DEF NewCache, Cache
<1>2. SliceInv(NewCache, 0)
  BY <1>1, EmptyIsGood, Parameters
<1> QED
  BY <1>2, Parameters DEF Init, CacheInv

\* One slice is put to or read from; the others only grow older.
LEMMA OneSliceIsGood ==
  ASSUME CacheInv, accesses < MaxAccesses, accesses' = accesses + 1,
         NEW s \in Slices, NEW r, SliceInv(r, accesses + 1),
         lfuSliceCaches_' = [lfuSliceCaches_ EXCEPT ![s] = r]
  PROVE  CacheInv'
<1>1. accesses \in Nat /\ accesses' \in 0 .. MaxAccesses
  BY Parameters DEF CacheInv
<1>2. /\ lfuSliceCaches_'[s] = r
      /\ \A u \in Slices : u # s => lfuSliceCaches_'[u] = lfuSliceCaches_[u]
  BY DEF CacheInv
<1>3. \A u \in Slices : SliceInv(lfuSliceCaches_[u], accesses + 1)
  BY <1>1, SliceGrowsOlder DEF CacheInv
<1>4. \A u \in Slices : SliceInv(lfuSliceCaches_'[u], accesses')
  BY <1>2, <1>3
<1>5. lfuSliceCaches_' = [u \in Slices |-> lfuSliceCaches_'[u]]
  BY DEF CacheInv
<1> QED
  BY <1>1, <1>4, <1>5 DEF CacheInv

LEMMA CallIsGood ==
  ASSUME CacheInv, Call
  PROVE  /\ accesses \in Nat /\ accesses < MaxFreq
         /\ accesses < MaxAccesses /\ accesses' = accesses + 1
BY Parameters DEF CacheInv, Call

\* What a step takes from a slice: nothing, everything, or the victim of a put
\* to a full slice.
Taken(s) ==
  LET c == lfuSliceCaches_[s]
  IN  Evicted(s) # {} /\ Cached(lfuSliceCaches_'[s]) # {} =>
        /\ Cached(c) # {} /\ Cardinality(Cached(c)) = SliceSize
        /\ Evicted(s) = {Victim(c)}

LEMMA StepIsGood ==
  ASSUME CacheInv, [Next]_vars
  PROVE  CacheInv' /\ \A s \in Slices : Taken(s)
<1>1. ASSUME NEW k \in Keys, PutKey(k)
      PROVE  CacheInv' /\ \A s \in Slices : Taken(s)
  <2> DEFINE i == SliceIndex(k)
             c == lfuSliceCaches_[i]
  <2>1. PICK r \in Put(c, k, SliceSize) : lfuSliceCaches_' = [lfuSliceCaches_ EXCEPT ![i] = r]
    BY <1>1 DEF PutKey
  <2>2. /\ accesses \in Nat /\ accesses < MaxFreq
        /\ accesses < MaxAccesses /\ accesses' = accesses + 1
    BY <1>1, CallIsGood DEF PutKey
  <2>3. i \in Slices /\ SliceInv(c, accesses)
    BY SliceIndexType DEF CacheInv
  <2> HIDE DEF i, c
  <2>4. /\ SliceInv(r, accesses + 1)
        /\ Cached(c) \ Cached(r) # {} => /\ Cached(c) # {} /\ Cardinality(Cached(c)) = SliceSize
                                         /\ Cached(c) \ Cached(r) = {Victim(c)}
    BY <2>2, <2>3, PutIsGood, Zenon
  <2>5. CacheInv'
    BY <2>1, <2>2, <2>3, <2>4, OneSliceIsGood
  <2>6. /\ lfuSliceCaches_'[i] = r /\ lfuSliceCaches_[i] = c
        /\ \A u \in Slices : u # i => lfuSliceCaches_'[u] = lfuSliceCaches_[u]
    BY <2>1, <2>3 DEF CacheInv, c
  <2>7. Taken(i)
    BY <2>4, <2>6 DEF Taken, Evicted
  <2>8. \A u \in Slices : u # i => Taken(u)
    BY <2>6 DEF Taken, Evicted
  <2> QED
    BY <2>5, <2>7, <2>8
<1>2. ASSUME NEW k \in Keys, GetKey(k)
      PROVE  CacheInv' /\ \A s \in Slices : Taken(s)
  <2> DEFINE i == SliceIndex(k)
             c == lfuSliceCaches_[i]
  <2>1. PICK r \in Get(c, k) : lfuSliceCaches_' = [lfuSliceCaches_ EXCEPT ![i] = r]
    BY <1>2 DEF GetKey
  <2>2. /\ accesses \in Nat /\ accesses < MaxFreq
        /\ accesses < MaxAccesses /\ accesses' = accesses + 1
    BY <1>2, CallIsGood DEF GetKey
  <2>3. i \in Slices /\ SliceInv(c, accesses)
    BY SliceIndexType DEF CacheInv
  <2> HIDE DEF i, c
  <2>4. SliceInv(r, accesses + 1) /\ Cached(r) = Cached(c)
    BY <2>2, <2>3, GetIsGood, Zenon
  <2>5. CacheInv'
    BY <2>1, <2>2, <2>3, <2>4, OneSliceIsGood
  <2>6. /\ lfuSliceCaches_'[i] = r /\ lfuSliceCaches_[i] = c
        /\ \A u \in Slices : u # i => lfuSliceCaches_'[u] = lfuSliceCaches_[u]
    BY <2>1, <2>3 DEF CacheInv, c
  <2>7. \A u \in Slices : Cached(lfuSliceCaches_'[u]) = Cached(lfuSliceCaches_[u])
    BY <2>4, <2>6
  <2> QED
    BY <2>5, <2>7 DEF Taken, Evicted
<1>3. ASSUME PurgeAll
      PROVE  CacheInv' /\ \A s \in Slices : Taken(s)
  <2>1. /\ accesses \in Nat /\ accesses < MaxAccesses /\ accesses' = accesses + 1
        /\ lfuSliceCaches_' = [s \in Slices |-> Purge(lfuSliceCaches_[s])]
    BY <1>3, CallIsGood DEF PurgeAll
  <2>2. \A s \in Slices : lfuSliceCaches_'[s] = Purge(lfuSliceCaches_[s])
    BY <2>1
  <2>3. \A s \in Slices : SliceInv(lfuSliceCaches_'[s], accesses') /\ Cached(lfuSliceCaches_'[s]) = {}
    <3> SUFFICES ASSUME NEW s \in Slices
                 PROVE  SliceInv(lfuSliceCaches_'[s], accesses') /\ Cached(lfuSliceCaches_'[s]) = {}
      OBVIOUS
    <3>1. SliceInv(lfuSliceCaches_[s], accesses)
      BY DEF CacheInv
    <3>2. SliceInv(Purge(lfuSliceCaches_[s]), accesses + 1) /\ Cached(Purge(lfuSliceCaches_[s])) = {}
      BY <2>1, <3>1, PurgeIsGood, Zenon
    <3> QED
      BY <2>1, <2>2, <3>2
  <2>4. accesses' \in 0 .. MaxAccesses
    BY <2>1, Parameters
  <2>5. lfuSliceCaches_' = [s \in Slices |-> lfuSliceCaches_'[s]]
    BY <2>1
  <2> QED
    BY <2>3, <2>4, <2>5 DEF CacheInv, Taken
<1>4. ASSUME UNCHANGED vars
      PROVE  CacheInv' /\ \A s \in Slices : Taken(s)
  BY <1>4 DEF vars, CacheInv, Taken, Evicted
<1> QED
  BY <1>1, <1>2, <1>3, <1>4 DEF Next

-----------------------------------------------------------------------------
(* Theorems.                                                               *)

\* The inductive invariant holds in every reachable state.
THEOREM CacheInvHolds == Spec => []CacheInv
<1>1. Init => CacheInv
  BY InitIsGood
<1>2. CacheInv /\ [Next]_vars => CacheInv'
  BY StepIsGood
<1> QED
  BY <1>1, <1>2, PTL DEF Spec

\* The least frequency is what FiniteSetsExt's Min finds.
LEMMA LeastIsMin ==
  ASSUME NEW c, NEW n \in Nat, SliceInv(c, n), Cached(c) # {}
  PROVE  c.minFreq = Min({c.freq[k] : k \in Cached(c)})
<1> DEFINE S == {c.freq[k] : k \in Cached(c)}
           m == c.minFreq
<1>1. /\ \E k \in Cached(c) : c.freq[k] = m
      /\ \A k \in Cached(c) : m <= c.freq[k] /\ c.freq[k] \in Int
  BY DEF SliceInv, Least, Cached, Nodes, Frequencies, Freqs
<1>2. m \in S /\ S \subseteq Int /\ \A y \in S : m <= y
  BY <1>1
<1> HIDE DEF S, m
<1>3. Min(S) = m
  BY <1>2, MinIs
<1> QED
  BY <1>3 DEF S, m

\* MinFreqCurrent: minFreq_ is the least frequency of a cached key of its
\* slice, for any sequence of put, get and purge, with the ageing of
\* handleOverMaxAverageNum between them.
THEOREM MinFreqAlwaysCurrent == Spec => []MinFreqCurrent
<1>1. CacheInv => MinFreqCurrent
  BY LeastIsMin DEF CacheInv, MinFreqCurrent
<1> QED
  BY <1>1, CacheInvHolds, PTL

\* ListsHoldTheNodes: nodeMap_ and the frequency lists hold the same nodes, each
\* once and in the list of its frequency.
THEOREM ListsAlwaysHoldTheNodes == Spec => []ListsHoldTheNodes
<1>1. ASSUME NEW c, NEW n \in Nat, SliceInv(c, n)
      PROVE  /\ \A k \in Cached(c) : c.freq[k] \in Freqs
             /\ \A f \in Freqs : /\ ToSet(c.list[f]) = {k \in Cached(c) : c.freq[k] = f}
                                 /\ IsInjective(c.list[f])
  <2>1. Frequencies(c.freq) /\ Listed(c.freq, c.list)
    BY <1>1 DEF SliceInv, Nodes
  <2>2. \A k \in Cached(c) : c.freq[k] \in Freqs
    BY <2>1 DEF Frequencies, Cached
  <2>3. ASSUME NEW f \in Freqs
        PROVE  ToSet(c.list[f]) = {k \in Cached(c) : c.freq[k] = f} /\ IsInjective(c.list[f])
    BY <2>1, <2>3 DEF Listed, Elements, Distinct, ToSet, IsInjective, Cached
  <2> QED
    BY <2>2, <2>3
<1>2. CacheInv => ListsHoldTheNodes
  <2> SUFFICES ASSUME CacheInv PROVE ListsHoldTheNodes
    OBVIOUS
  <2>1. accesses \in Nat /\ \A s \in Slices : SliceInv(lfuSliceCaches_[s], accesses)
    BY DEF CacheInv
  <2> QED
    BY <1>1, <2>1, Zenon DEF ListsHoldTheNodes
<1> QED
  BY <1>2, CacheInvHolds, PTL

\* EvictsLeastFrequent: kickOut takes the oldest key of the least frequency, and
\* putInternal calls it for a full slice only.
THEOREM EvictionsTakeLeastFrequent == Spec => EvictsLeastFrequent
<1> DEFINE Right(s) ==
      LET c == lfuSliceCaches_[s] IN
        Evicted(s) # {} /\ Cached(lfuSliceCaches_'[s]) # {} =>
          /\ Cardinality(Cached(c)) = SliceSize
          /\ Evicted(s) = {Head(c.list[Min({c.freq[k] : k \in Cached(c)})])}
<1>1. CacheInv /\ [Next]_vars => [\A s \in Slices : Right(s)]_vars
  <2> SUFFICES ASSUME CacheInv, [Next]_vars, NEW s \in Slices PROVE Right(s)
    OBVIOUS
  <2> DEFINE c == lfuSliceCaches_[s]
  <2>1. Taken(s)
    BY StepIsGood
  <2>2. Cached(c) # {} => c.minFreq = Min({c.freq[k] : k \in Cached(c)})
    BY LeastIsMin DEF CacheInv
  <2> QED
    BY <2>1, <2>2, Zenon DEF Taken, Victim
<1> QED
  BY <1>1, CacheInvHolds, PTL DEF Spec, EvictsLeastFrequent

\* No slice holds more than its share of the capacity: the test for equality in
\* putInternal is enough.
THEOREM SlicesStayWithinCapacity ==
  Spec => [](\A s \in Slices : Cardinality(Cached(lfuSliceCaches_[s])) <= SliceSize)
<1>1. CacheInv => \A s \in Slices : Cardinality(Cached(lfuSliceCaches_[s])) <= SliceSize
  BY DEF CacheInv, SliceInv
<1> QED
  BY <1>1, CacheInvHolds, PTL
=============================================================================
