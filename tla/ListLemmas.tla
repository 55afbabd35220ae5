----------------------------- MODULE ListLemmas -----------------------------
(***************************************************************************)
(* Facts about sequences used as lists, stacks and queues: what is in one  *)
(* after an element has been added or taken, and that none is there twice. *)
(***************************************************************************)
EXTENDS Naturals, Sequences, SequenceTheorems, TLAPS

\* What is in a list.
Elements(s) == {s[i] : i \in DOMAIN s}

\* A list without repetition.
Distinct(s) == \A i, j \in 1 .. Len(s) : i # j => s[i] # s[j]

LEMMA ElementsType ==
  ASSUME NEW S, NEW s \in Seq(S)
  PROVE  Elements(s) \subseteq S
BY LenProperties DEF Elements

LEMMA TailIs ==
  ASSUME NEW S, NEW s \in Seq(S), s # <<>>
  PROVE  /\ Head(s) = s[1] /\ Head(s) \in S /\ Tail(s) \in Seq(S)
         /\ Len(s) \in Nat /\ Len(s) >= 1 /\ Len(Tail(s)) = Len(s) - 1
         /\ \A i \in 1 .. Len(Tail(s)) : i + 1 \in 1 .. Len(s) /\ Tail(s)[i] = s[i + 1]
<1>1. /\ Head(s) \in S /\ Tail(s) \in Seq(S) /\ Len(Tail(s)) = Len(s) - 1
      /\ \A i \in 1 .. Len(Tail(s)) : Tail(s)[i] = s[i + 1]
  BY HeadTailProperties, ZenonT(30)
<1>2. Head(s) = s[1]
  OBVIOUS
<1>3. Len(s) \in Nat /\ Len(s) # 0
  BY EmptySeq, LenProperties, ZenonT(30)
<1> QED
  BY <1>1, <1>2, <1>3

LEMMA TailSet ==
  ASSUME NEW S, NEW s \in Seq(S), s # <<>>
  PROVE  Elements(s) = Elements(Tail(s)) \cup {Head(s)} /\ Head(s) \in S /\ Tail(s) \in Seq(S)
<1> DEFINE n == Len(s)
           r == Tail(s)
           h == Head(s)
<1>1. /\ h = s[1] /\ h \in S /\ r \in Seq(S) /\ n \in Nat /\ n >= 1 /\ Len(r) = n - 1
      /\ \A i \in 1 .. Len(r) : i + 1 \in 1 .. n /\ r[i] = s[i + 1]
  BY TailIs, Zenon
<1>2. DOMAIN s = 1 .. n
  BY LenProperties
<1>3. DOMAIN r = 1 .. (n - 1)
  BY <1>1, LenProperties
<1> HIDE DEF r, n, h
<1>4. \A i \in 1 .. (n - 1) : i + 1 \in 1 .. n /\ r[i] = s[i + 1]
  BY <1>1
<1>5. \A i \in 1 .. n : i = 1 \/ (i - 1 \in 1 .. (n - 1) /\ (i - 1) + 1 = i)
  BY <1>1
<1>6. \A i \in 1 .. n : s[i] = h \/ s[i] \in {r[j] : j \in 1 .. (n - 1)}
  <2> SUFFICES ASSUME NEW i \in 1 .. n, i # 1
               PROVE  s[i] \in {r[j] : j \in 1 .. (n - 1)}
    BY <1>1
  <2>1. i - 1 \in 1 .. (n - 1) /\ (i - 1) + 1 = i
    BY <1>5
  <2>2. r[i - 1] = s[i]
    BY <1>4, <2>1
  <2> QED
    BY <2>1, <2>2
<1>7. 1 \in 1 .. n
  BY <1>1
<1>8. Elements(s) = {s[i] : i \in 1 .. n} /\ Elements(r) = {r[i] : i \in 1 .. (n - 1)}
  BY <1>2, <1>3 DEF Elements
<1>9. {s[i] : i \in 1 .. n} = {r[i] : i \in 1 .. (n - 1)} \cup {h}
  <2>1. {s[i] : i \in 1 .. n} \subseteq {r[i] : i \in 1 .. (n - 1)} \cup {h}
    BY <1>6, Zenon
  <2>2. h = s[1]
    BY <1>1
  <2>3. {r[i] : i \in 1 .. (n - 1)} \subseteq {s[i] : i \in 1 .. n}
    BY <1>4, Zenon
  <2>4. h \in {s[i] : i \in 1 .. n}
    BY <1>7, <2>2, Zenon
  <2> QED
    BY <2>1, <2>3, <2>4, Zenon
<1> QED
  BY <1>1, <1>8, <1>9 DEF r, h

LEMMA AppendSet ==
  ASSUME NEW S, NEW s \in Seq(S), NEW x \in S
  PROVE  Elements(Append(s, x)) = Elements(s) \cup {x}
<1> DEFINE n == Len(s)
           a == Append(s, x)
<1>1. /\ a \in Seq(S) /\ Len(a) = n + 1 /\ a[n + 1] = x
      /\ \A i \in 1 .. n : a[i] = s[i]
  BY AppendProperties
<1>2. DOMAIN s = 1 .. n /\ n \in Nat
  BY LenProperties
<1>3. DOMAIN a = 1 .. (n + 1)
  BY <1>1, LenProperties
<1> HIDE DEF a, n
<1>4. 1 .. (n + 1) = (1 .. n) \cup {n + 1}
  BY <1>2
<1>5. Elements(s) = {s[i] : i \in 1 .. n} /\ Elements(a) = {a[i] : i \in (1 .. n) \cup {n + 1}}
  BY <1>2, <1>3, <1>4 DEF Elements
<1>6. {a[i] : i \in (1 .. n) \cup {n + 1}} = {s[i] : i \in 1 .. n} \cup {x}
  BY <1>1
<1> QED
  BY <1>5, <1>6 DEF a

\* Of a list without repetition, the head is not in the tail, and the tail has
\* none either; a new element leaves it so.
LEMMA DistinctTail ==
  ASSUME NEW S, NEW s \in Seq(S), s # <<>>, Distinct(s)
  PROVE  Distinct(Tail(s)) /\ \A e \in Elements(Tail(s)) : e # Head(s)
<1> DEFINE n == Len(s)
           r == Tail(s)
           h == Head(s)
<1>1. /\ h = s[1] /\ r \in Seq(S) /\ n \in Nat /\ n >= 1 /\ Len(r) = n - 1
      /\ \A i \in 1 .. Len(r) : i + 1 \in 1 .. n /\ r[i] = s[i + 1]
  BY TailIs, Zenon
<1>2. DOMAIN r = 1 .. Len(r)
  BY <1>1, LenProperties
<1>3. \A i, j \in 1 .. n : i # j => s[i] # s[j]
  BY DEF Distinct
<1> HIDE DEF r, n, h
<1>4. \A i, j \in 1 .. Len(r) : i # j => i + 1 # j + 1
  OBVIOUS
<1>5. \A i, j \in 1 .. Len(r) : i # j => r[i] # r[j]
  <2> SUFFICES ASSUME NEW i \in 1 .. Len(r), NEW j \in 1 .. Len(r), i # j
               PROVE  r[i] # r[j]
    OBVIOUS
  <2>1. r[i] = s[i + 1] /\ r[j] = s[j + 1] /\ i + 1 \in 1 .. n /\ j + 1 \in 1 .. n
    BY <1>1
  <2> QED
    BY <1>3, <1>4, <2>1
<1>6. 1 \in 1 .. n /\ \A i \in 1 .. Len(r) : i + 1 # 1
  BY <1>1
<1>7. \A i \in 1 .. Len(r) : r[i] # h
  BY <1>1, <1>3, <1>6
<1>8. \A e \in Elements(r) : e # h
  BY <1>2, <1>7 DEF Elements
<1> QED
  BY <1>5, <1>8 DEF Distinct, r, h

LEMMA DistinctAppend ==
  ASSUME NEW S, NEW s \in Seq(S), NEW x \in S, Distinct(s),
         \A e \in Elements(s) : e # x
  PROVE  Distinct(Append(s, x))
<1> DEFINE n == Len(s)
           a == Append(s, x)
<1>1. /\ Len(a) = n + 1 /\ a[n + 1] = x
      /\ \A i \in 1 .. n : a[i] = s[i]
  BY AppendProperties
<1>2. DOMAIN s = 1 .. n /\ n \in Nat
  BY LenProperties
<1>3. \A i, j \in 1 .. n : i # j => s[i] # s[j]
  BY DEF Distinct
<1>4. \A i \in 1 .. n : s[i] # x
  BY <1>2 DEF Elements
<1> HIDE DEF a, n
<1>5. \A i, j \in 1 .. (n + 1) : i # j => a[i] # a[j]
  <2> SUFFICES ASSUME NEW i \in 1 .. (n + 1), NEW j \in 1 .. (n + 1), i # j
               PROVE  a[i] # a[j]
    OBVIOUS
  <2>1. CASE i \in 1 .. n /\ j \in 1 .. n
    BY <1>1, <1>3, <2>1
  <2>2. CASE i \in 1 .. n /\ j = n + 1
    BY <1>1, <1>4, <2>2
  <2>3. CASE i = n + 1 /\ j \in 1 .. n
    BY <1>1, <1>4, <2>3
  <2> QED
    BY <1>2, <2>1, <2>2, <2>3
<1> QED
  BY <1>1, <1>5 DEF Distinct, a

\* An element put in front of a list.
LEMMA ConsIs ==
  ASSUME NEW S, NEW s \in Seq(S), NEW x \in S
  PROVE  /\ <<x>> \o s \in Seq(S)
         /\ Elements(<<x>> \o s) = Elements(s) \cup {x}
         /\ Distinct(s) /\ x \notin Elements(s) => Distinct(<<x>> \o s)
<1> DEFINE n == Len(s)
           a == <<x>> \o s
<1>1. n \in Nat /\ DOMAIN s = 1 .. n
  BY LenProperties
<1>2. /\ a \in Seq(S) /\ Len(a) = n + 1 /\ a[1] = x
      /\ \A i \in 1 .. n : a[i + 1] = s[i]
  OBVIOUS
<1>3. DOMAIN a = 1 .. (n + 1)
  BY <1>2, LenProperties
<1> HIDE DEF n, a
<1>4. \A i \in 1 .. (n + 1) : i = 1 \/ (i - 1 \in 1 .. n /\ a[i] = s[i - 1])
  <2> SUFFICES ASSUME NEW i \in 1 .. (n + 1), i # 1
               PROVE  i - 1 \in 1 .. n /\ a[i] = s[i - 1]
    OBVIOUS
  <2>1. i - 1 \in 1 .. n /\ (i - 1) + 1 = i
    BY <1>1
  <2> QED
    BY <1>2, <2>1
<1>5. \A i \in 1 .. n : i + 1 \in 1 .. (n + 1)
  BY <1>1
<1>6. 1 \in 1 .. (n + 1)
  BY <1>1
<1>7. Elements(s) = {s[i] : i \in 1 .. n} /\ Elements(a) = {a[i] : i \in 1 .. (n + 1)}
  BY <1>1, <1>3 DEF Elements
<1>8. {a[i] : i \in 1 .. (n + 1)} = {s[i] : i \in 1 .. n} \cup {x}
  <2>1. {a[i] : i \in 1 .. (n + 1)} \subseteq {s[i] : i \in 1 .. n} \cup {x}
    BY <1>2, <1>4
  <2>2. x \in {a[i] : i \in 1 .. (n + 1)}
    BY <1>2, <1>6
  <2>3. {s[i] : i \in 1 .. n} \subseteq {a[i] : i \in 1 .. (n + 1)}
    BY <1>2, <1>5
  <2> QED
    BY <2>1, <2>2, <2>3, Zenon
<1>9. ASSUME Distinct(s), x \notin Elements(s)
      PROVE  \A i, j \in 1 .. Len(a) : i # j => a[i] # a[j]
  <2> SUFFICES ASSUME NEW i \in 1 .. (n + 1), NEW j \in 1 .. (n + 1), i # j
               PROVE  a[i] # a[j]
    BY <1>2
  <2>1. \A k \in 1 .. n : s[k] # x
    BY <1>7, <1>9
  <2>2. \A k, m \in 1 .. n : k # m => s[k] # s[m]
    BY <1>9 DEF Distinct, n
  <2>3. CASE i = 1
    BY <1>2, <1>4, <2>1, <2>3
  <2>4. CASE j = 1
    BY <1>2, <1>4, <2>1, <2>4
  <2>5. CASE i # 1 /\ j # 1
    <3>1. i - 1 # j - 1
      OBVIOUS
    <3> QED
      BY <1>4, <2>2, <2>5, <3>1
  <2> QED
    BY <2>3, <2>4, <2>5
<1> QED
  BY <1>2, <1>7, <1>8, <1>9 DEF Distinct, a
=============================================================================
