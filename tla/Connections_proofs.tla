-------------------------- MODULE Connections_proofs --------------------------
(***************************************************************************)
(* Proofs about Connections, for any servers, users, replicas, pools,      *)
(* texts, names and bounds.                                                *)
(***************************************************************************)
EXTENDS Connections, SequenceTheorems, FiniteSetTheorems, WellFoundedInduction, TLAPS

-----------------------------------------------------------------------------
(* Maxima and sequences.                                                   *)

\* Removing an element keeps the others, in order.
LEMMA RemoveAtLemma ==
  ASSUME NEW S, NEW q \in Seq(S), NEW k \in 1 .. Len(q)
  PROVE  /\ RemoveAt(q, k) \in Seq(S)
         /\ Len(RemoveAt(q, k)) = Len(q) - 1
         /\ \A i \in 1 .. Len(q) - 1 :
              RemoveAt(q, k)[i] = IF i < k THEN q[i] ELSE q[i + 1]
<1> DEFINE a == SubSeq(q, 1, k - 1)
           b == SubSeq(q, k + 1, Len(q))
<1>1. k \in Int /\ Len(q) \in Nat /\ 1 <= k /\ k <= Len(q)
  OBVIOUS
<1>2. /\ a \in Seq(S) /\ Len(a) = k - 1
      /\ \A i \in 1 .. k - 1 : a[i] = q[i]
  <2>1. \A i \in 1 .. k - 1 : q[i] \in S
    BY <1>1
  <2>2. /\ SubSeq(q, 1, k - 1) \in Seq(S)
        /\ Len(SubSeq(q, 1, k - 1)) = IF 1 <= k - 1 THEN (k - 1) - 1 + 1 ELSE 0
        /\ \A i \in 1 .. (k - 1) - 1 + 1 : SubSeq(q, 1, k - 1)[i] = q[1 + i - 1]
    BY <1>1, <2>1, SubSeqProperties
  <2> QED
    BY <1>1, <2>2
<1>3. /\ b \in Seq(S) /\ Len(b) = Len(q) - k
      /\ \A i \in 1 .. Len(q) - k : b[i] = q[k + i]
  <2>1. \A i \in k + 1 .. Len(q) : q[i] \in S
    BY <1>1
  <2>2. /\ SubSeq(q, k + 1, Len(q)) \in Seq(S)
        /\ Len(SubSeq(q, k + 1, Len(q))) =
             IF k + 1 <= Len(q) THEN Len(q) - (k + 1) + 1 ELSE 0
        /\ \A i \in 1 .. Len(q) - (k + 1) + 1 :
             SubSeq(q, k + 1, Len(q))[i] = q[(k + 1) + i - 1]
    BY <1>1, <2>1, SubSeqProperties
  <2> QED
    BY <1>1, <2>2
<1> HIDE DEF a, b
<1>4. /\ a \o b \in Seq(S)
      /\ Len(a \o b) = Len(a) + Len(b)
      /\ \A i \in 1 .. Len(a) + Len(b) :
           (a \o b)[i] = IF i <= Len(a) THEN a[i] ELSE b[i - Len(a)]
  BY <1>2, <1>3, ConcatProperties
<1>5. RemoveAt(q, k) = a \o b
  BY DEF RemoveAt, a, b
<1>6. ASSUME NEW i \in 1 .. Len(q) - 1
      PROVE  (a \o b)[i] = IF i < k THEN q[i] ELSE q[i + 1]
  <2>1. CASE i < k
    BY <1>1, <1>2, <1>3, <1>4, <2>1
  <2>2. CASE ~(i < k)
    <3>1. i - (k - 1) \in 1 .. Len(q) - k /\ k + (i - (k - 1)) = i + 1
      BY <1>1, <2>2
    <3>2. b[i - (k - 1)] = q[i + 1]
      BY <1>3, <3>1
    <3>3. (a \o b)[i] = b[i - (k - 1)]
      BY <1>1, <1>2, <1>3, <1>4, <2>2
    <3> QED
      BY <2>2, <3>2, <3>3
  <2> QED
    BY <2>1, <2>2
<1> QED
  BY <1>1, <1>2, <1>3, <1>4, <1>5, <1>6

\* The elements of a sequence.
LEMMA ToSetLemma ==
  ASSUME NEW S, NEW q \in Seq(S)
  PROVE  /\ DOMAIN q = 1 .. Len(q) /\ Len(q) \in Nat
         /\ ToSet(q) \subseteq S
         /\ \A x : x \in ToSet(q) <=> \E i \in 1 .. Len(q) : q[i] = x
<1>1. DOMAIN q = 1 .. Len(q) /\ Len(q) \in Nat
  BY LenProperties
<1>2. \A i \in 1 .. Len(q) : q[i] \in S
  BY ElementOfSeq
<1> QED
  BY <1>1, <1>2 DEF ToSet

\* A bounded set of naturals has a greatest element: inclusion of finite sets is
\* well founded, and so is the order of n..n, n-1..n, n-2..n and so on.
LEMMA GreatestNatural ==
  ASSUME NEW n \in Nat, NEW S \in SUBSET (0 .. n), S # {}
  PROVE  \E m \in S : \A k \in S : m >= k
<1> DEFINE R == StrictSubsetOrdering(Nat)
           T == {k .. n : k \in S}
<1>1. IsWellFoundedOn(R, FiniteSubsetsOf(Nat))
  BY FS_StrictSubsetOrderingWellFounded
<1>2. \A k \in S : k .. n \in SUBSET Nat /\ IsFiniteSet(k .. n)
  BY FS_Interval
<1>3. T \subseteq FiniteSubsetsOf(Nat) /\ T # {}
  BY <1>2 DEF FiniteSubsetsOf
<1>4. \E x \in T : \A y \in T : ~ (<<y, x>> \in R)
  <2> HIDE DEF T, R
  <2> QED
    BY <1>1, <1>3, WFMin
<1>5. PICK m \in S : \A k \in S : ~ (<<k .. n, m .. n>> \in R)
  BY <1>4
<1>6. ASSUME NEW k \in S, k > m PROVE FALSE
  <2>1. k .. n \subseteq m .. n /\ m \in m .. n /\ m \notin k .. n
    BY <1>6
  <2>2. k .. n \in SUBSET Nat /\ m .. n \in SUBSET Nat
    BY <1>2
  <2>3. <<k .. n, m .. n>> \in R
    BY <2>1, <2>2 DEF StrictSubsetOrdering
  <2> QED
    BY <1>5, <2>3
<1> QED
  BY <1>6

\* Naturals, apart from any sequence.
LEMMA Numbers ==
  \A a, b \in Nat : (a <= b /\ a >= b => a = b) /\ (a < b => a # b)
OBVIOUS

\* The last of n + 1 numbers, or one of the first n.
LEMMA LastOrBefore ==
  \A n \in Nat : \A j \in 1 .. n + 1 : j \in 1 .. n \/ j = n + 1
OBVIOUS

\* The sizes of intervals.
LEMMA Intervals ==
  ASSUME NEW n \in Nat, NEW i \in 0 .. n
  PROVE  IsFiniteSet(i + 1 .. n) /\ Cardinality(i + 1 .. n) = n - i
<1>1. i + 1 \in Int /\ n \in Int
  OBVIOUS
<1>2. /\ IsFiniteSet(i + 1 .. n)
      /\ Cardinality(i + 1 .. n) = IF i + 1 > n THEN 0 ELSE n - (i + 1) + 1
  BY <1>1, FS_Interval
<1> QED
  BY <1>2

\* The size of 1..n.
LEMMA UpTo ==
  ASSUME NEW n \in Nat
  PROVE  IsFiniteSet(1 .. n) /\ Cardinality(1 .. n) = n
<1>1. 0 \in 0 .. n /\ 0 + 1 = 1 /\ n - 0 = n
  OBVIOUS
<1> QED
  BY <1>1, Intervals

\* Max is what its name says.
LEMMA MaxIs ==
  ASSUME NEW S \in SUBSET Nat, NEW m \in S, \A k \in S : m >= k
  PROVE  Max(S) = m
<1>1. Max(S) \in S /\ \A k \in S : Max(S) >= k
  BY DEF Max
<1>2. Max(S) \in Nat /\ m \in Nat /\ Max(S) >= m /\ m >= Max(S)
  BY <1>1
<1> QED
  BY <1>2

\* The greater of two naturals.
LEMMA MaxOfTwo ==
  ASSUME NEW a \in Nat, NEW b \in Nat
  PROVE  Max({a, b}) = IF a >= b THEN a ELSE b
<1>1. CASE a >= b
  BY <1>1, MaxIs
<1>2. CASE ~(a >= b)
  BY <1>2, MaxIs
<1> QED
  BY <1>1, <1>2

\* An element is removed where it first is.
LEMMA RemoveFirstLemma ==
  ASSUME NEW S, NEW q \in Seq(S), NEW e \in ToSet(q),
         \A i, j \in 1 .. Len(q) : q[i] = q[j] => i = j
  PROVE  \E p \in 1 .. Len(q) : q[p] = e /\ RemoveFirst(q, e) = RemoveAt(q, p)
<1>1. PICK p \in 1 .. Len(q) : q[p] = e
  BY ToSetLemma
<1>2. {i \in 1 .. Len(q) : q[i] = e} = {p}
  BY <1>1
<1>3. Min({p}) = p
  BY <1>1 DEF Min
<1>4. SelectInSeq(q, LAMBDA v : v = e) = p
  BY <1>2, <1>3 DEF SelectInSeq
<1>5. RemoveFirst(q, e) = RemoveAt(q, p)
  BY <1>1, <1>4 DEF RemoveFirst
<1> QED
  BY <1>1, <1>5

-----------------------------------------------------------------------------
(* The statement cache.  Its entries are in the order in which they were   *)
(* last sent, and an evicted text was last sent before all of them.        *)

\* LastSent, of any sequence of texts.
LastIn(q, t) == Max({0} \cup {i \in DOMAIN q : q[i] = t})

\* It is the last place of the text, or 0.
LEMMA LastInLemma ==
  ASSUME NEW S, NEW q \in Seq(S), NEW t
  PROVE  /\ LastIn(q, t) \in 0 .. Len(q)
         /\ LastIn(q, t) > 0 => q[LastIn(q, t)] = t
         /\ \A i \in 1 .. Len(q) : q[i] = t => i <= LastIn(q, t)
<1> DEFINE I == {0} \cup {i \in DOMAIN q : q[i] = t}
<1>1. Len(q) \in Nat /\ DOMAIN q = 1 .. Len(q)
  BY LenProperties
<1>2. I \in SUBSET (0 .. Len(q)) /\ I # {} /\ I \in SUBSET Nat
  BY <1>1
<1>3. PICK m \in I : \A k \in I : m >= k
  <2> HIDE DEF I
  <2> QED
    BY <1>1, <1>2, GreatestNatural
<1>4. Max(I) = m
  <2> HIDE DEF I
  <2> QED
    BY <1>2, <1>3, MaxIs
<1>5. LastIn(q, t) = m
  BY <1>4 DEF LastIn
<1> QED
  BY <1>1, <1>2, <1>3, <1>5

\* A text that is sent becomes the last; the others stay where they were.
LEMMA LastInAppend ==
  ASSUME NEW S, NEW q \in Seq(S), NEW x \in S, NEW t
  PROVE  LastIn(Append(q, x), t) = IF t = x THEN Len(q) + 1 ELSE LastIn(q, t)
<1> DEFINE r == Append(q, x)
           a == LastIn(q, t)
           b == LastIn(r, t)
<1>1. /\ r \in Seq(S) /\ Len(r) = Len(q) + 1 /\ r[Len(q) + 1] = x /\ Len(q) \in Nat
      /\ \A i \in 1 .. Len(q) : r[i] = q[i]
  BY AppendProperties, LenProperties
<1>2. /\ a \in 0 .. Len(q)
      /\ a > 0 => q[a] = t
      /\ \A i \in 1 .. Len(q) : q[i] = t => i <= a
  BY LastInLemma
<1>3. /\ b \in 0 .. Len(q) + 1
      /\ b > 0 => r[b] = t
      /\ \A i \in 1 .. Len(q) + 1 : r[i] = t => i <= b
  <2> HIDE DEF r
  <2> QED
    BY <1>1, LastInLemma
<1> HIDE DEF r, a, b
<1>4. CASE t = x
  <2>1. Len(q) + 1 <= b
    BY <1>1, <1>3, <1>4
  <2> QED
    BY <1>1, <1>3, <1>4, <2>1 DEF b, r
<1>5. CASE t # x
  <2>1. b # Len(q) + 1
    BY <1>1, <1>3, <1>5
  <2>2. b <= a
    <3>1. CASE b = 0
      BY <1>2, <3>1
    <3>2. CASE b > 0
      BY <1>1, <1>2, <1>3, <2>1, <3>2
    <3> QED
      BY <1>3, <3>1, <3>2
  <2>3. a <= b
    <3>1. CASE a = 0
      BY <1>3, <3>1
    <3>2. CASE a > 0
      BY <1>1, <1>2, <1>3, <3>2
    <3> QED
      BY <1>2, <3>1, <3>2
  <2>4. a = b
    BY <1>1, <1>2, <1>3, <2>2, <2>3
  <2> QED
    BY <1>5, <2>4 DEF a, b, r
<1> QED
  BY <1>4, <1>5

\* What the cache q holds when f says where each text was last sent.
Recency(q, f) ==
  /\ \A i, j \in DOMAIN q : i < j => f[q[i]] < f[q[j]]
  /\ \A i \in DOMAIN q : f[q[i]] > 0
  /\ Len(q) <= MaxCached
  /\ \A u \in Texts : f[u] > 0 /\ u \notin ToSet(q) =>
       Len(q) = MaxCached /\ \A i \in DOMAIN q : f[u] < f[q[i]]

\* What getOrCreate leaves of the cache before it appends the text.
Remaining(w, f, text) ==
  /\ Len(w) < MaxCached /\ text \notin ToSet(w)
  /\ \A i, j \in 1 .. Len(w) : i < j => f[w[i]] < f[w[j]]
  /\ \A i \in 1 .. Len(w) : f[w[i]] > 0
  /\ \A u \in Texts : f[u] > 0 /\ u \notin ToSet(w) /\ u # text =>
       Len(w) + 1 = MaxCached /\ \A i \in 1 .. Len(w) : f[u] < f[w[i]]

\* A cache in the order of recency names no text twice.
LEMMA NoTwice ==
  ASSUME NEW q \in Seq(Texts), NEW f \in [Texts -> Nat], Recency(q, f)
  PROVE  \A i, j \in 1 .. Len(q) : q[i] = q[j] => i = j
<1> SUFFICES ASSUME NEW i \in 1 .. Len(q), NEW j \in 1 .. Len(q), i # j PROVE q[i] # q[j]
  OBVIOUS
<1>1. f[q[i]] < f[q[j]] \/ f[q[j]] < f[q[i]]
  BY ToSetLemma DEF Recency
<1>2. q[i] \in Texts /\ f[q[i]] \in Nat
  BY ElementOfSeq
<1> QED
  BY <1>1, <1>2

\* A text moves to the end when it is there; otherwise the oldest goes when the
\* cache is full.
LEMMA CachedLemma ==
  ASSUME NEW q \in Seq(Texts), NEW f \in [Texts -> Nat], Recency(q, f), NEW text \in Texts
  PROVE  \E w \in Seq(Texts) : Cached(q, text) = Append(w, text) /\ Remaining(w, f, text)
<1>1. /\ DOMAIN q = 1 .. Len(q) /\ Len(q) \in Nat
      /\ \A x : x \in ToSet(q) <=> \E i \in 1 .. Len(q) : q[i] = x
      /\ \A i \in 1 .. Len(q) : q[i] \in Texts
  BY ToSetLemma, ElementOfSeq
<1>2. MaxCached \in Nat \ {0}
  BY ConnectionsAssumption
<1>3. /\ \A i, j \in 1 .. Len(q) : i < j => f[q[i]] < f[q[j]]
      /\ \A i \in 1 .. Len(q) : f[q[i]] > 0
      /\ Len(q) <= MaxCached
      /\ \A u \in Texts : f[u] > 0 /\ u \notin ToSet(q) =>
           Len(q) = MaxCached /\ \A i \in 1 .. Len(q) : f[u] < f[q[i]]
  BY <1>1 DEF Recency
<1>7. Len(q) \in Nat /\ Len(q) <= MaxCached /\ DOMAIN q = 1 .. Len(q)
  BY <1>1, <1>3
<1>4. CASE text \in ToSet(q)
  <2>1. PICK p \in 1 .. Len(q) : q[p] = text /\ RemoveFirst(q, text) = RemoveAt(q, p)
    BY <1>4, NoTwice, RemoveFirstLemma
  <2> DEFINE w == RemoveAt(q, p)
  <2>2. /\ w \in Seq(Texts) /\ Len(w) = Len(q) - 1 /\ Len(w) \in Nat
        /\ \A i \in 1 .. Len(w) : w[i] = IF i < p THEN q[i] ELSE q[i + 1]
    BY RemoveAtLemma, LenProperties
  <2>3. Cached(q, text) = Append(w, text)
    BY <1>4, <2>1 DEF Cached
  <2> HIDE DEF w
  <2>4. \A x : x \in ToSet(w) <=> \E i \in 1 .. Len(w) : w[i] = x
    BY <2>2, ToSetLemma
  <2>5. ASSUME NEW i \in 1 .. Len(w)
        PROVE  \E k \in 1 .. Len(q) : k # p /\ w[i] = q[k] /\ (k = i \/ k = i + 1) /\ (i < p <=> k = i)
    <3>1. CASE i < p
      <4>1. i \in 1 .. Len(q) /\ i # p
        BY <1>7, <2>2, <3>1
      <4>2. w[i] = q[i]
        BY <2>2, <3>1
      <4> QED
        BY <3>1, <4>1, <4>2
    <3>2. CASE ~(i < p)
      <4>1. i + 1 \in 1 .. Len(q) /\ i + 1 # p /\ i + 1 # i
        BY <1>7, <2>2, <3>2
      <4>2. w[i] = q[i + 1]
        BY <2>2, <3>2
      <4> QED
        BY <3>2, <4>1, <4>2
    <3> QED
      BY <3>1, <3>2
  <2>6. text \notin ToSet(w)
    <3> SUFFICES ASSUME NEW i \in 1 .. Len(w), w[i] = text PROVE FALSE
      BY <2>4
    <3>1. PICK k \in 1 .. Len(q) : k # p /\ w[i] = q[k]
      BY <2>5
    <3>2. q[k] = q[p]
      BY <2>1, <3>1
    <3>3. k = p
      BY <3>2, NoTwice
    <3> QED
      BY <3>1, <3>3
  <2>7. ASSUME NEW i \in 1 .. Len(w), NEW j \in 1 .. Len(w), i < j
        PROVE  f[w[i]] < f[w[j]]
    <3>1. PICK k \in 1 .. Len(q) : w[i] = q[k] /\ (k = i \/ k = i + 1) /\ (i < p <=> k = i)
      BY <2>5
    <3>2. PICK l \in 1 .. Len(q) : w[j] = q[l] /\ (l = j \/ l = j + 1) /\ (j < p <=> l = j)
      BY <2>5
    <3>3. k < l
      BY <2>7, <3>1, <3>2
    <3> QED
      BY <1>3, <3>1, <3>2, <3>3
  <2>8. ASSUME NEW i \in 1 .. Len(w) PROVE f[w[i]] > 0
    BY <1>3, <2>5
  <2>9. ASSUME NEW u \in Texts, f[u] > 0, u \notin ToSet(w), u # text
        PROVE  Len(w) + 1 = MaxCached /\ \A i \in 1 .. Len(w) : f[u] < f[w[i]]
    <3>1. u \notin ToSet(q)
      <4>1. ASSUME NEW k \in 1 .. Len(q), q[k] = u PROVE FALSE
        <5>1. k # p
          BY <2>1, <2>9, <4>1
        <5>2. CASE k < p
          <6>1. k \in 1 .. Len(w)
            BY <1>7, <2>2, <5>2
          <6>2. w[k] = q[k]
            BY <2>2, <5>2, <6>1
          <6> QED
            BY <2>4, <2>9, <4>1, <6>1, <6>2
        <5>3. CASE k > p
          <6>1. k - 1 \in 1 .. Len(w) /\ ~(k - 1 < p) /\ (k - 1) + 1 = k
            BY <1>7, <2>2, <5>3
          <6>2. w[k - 1] = q[k]
            BY <2>2, <6>1
          <6> QED
            BY <2>4, <2>9, <4>1, <6>1, <6>2
        <5> QED
          BY <5>1, <5>2, <5>3
      <4> QED
        BY <1>1, <4>1
    <3>2. Len(q) = MaxCached /\ \A k \in 1 .. Len(q) : f[u] < f[q[k]]
      BY <1>3, <2>9, <3>1
    <3>3. \A i \in 1 .. Len(w) : f[u] < f[w[i]]
      BY <2>5, <3>2
    <3> QED
      BY <1>1, <2>2, <3>2, <3>3
  <2>12. Len(w) = Len(q) - 1
    BY <2>2
  <2>10. Len(w) < MaxCached
    BY <1>2, <1>7, <2>12
  <2>11. Remaining(w, f, text)
    BY <2>6, <2>7, <2>8, <2>9, <2>10 DEF Remaining
  <2> QED
    BY <2>2, <2>3, <2>11
<1>5. CASE text \notin ToSet(q) /\ Len(q) >= MaxCached
  <2> DEFINE w == Tail(q)
  <2>1. q # <<>>
    BY <1>1, <1>2, <1>5
  <2>2. /\ w \in Seq(Texts) /\ Len(w) = Len(q) - 1 /\ Len(w) \in Nat
        /\ \A i \in 1 .. Len(w) : w[i] = q[i + 1]
    BY <1>1, <2>1
  <2>12. Len(w) = Len(q) - 1
    BY <2>2
  <2>3. Cached(q, text) = Append(w, text)
    BY <1>5 DEF Cached
  <2> HIDE DEF w
  <2>4. \A x : x \in ToSet(w) <=> \E i \in 1 .. Len(w) : w[i] = x
    BY <2>2, ToSetLemma
  <2>5. \A i \in 1 .. Len(w) : i + 1 \in 1 .. Len(q) /\ w[i] = q[i + 1]
    BY <1>1, <2>2
  <2>6. text \notin ToSet(w)
    BY <1>1, <1>5, <2>4, <2>5
  <2>7. \A i, j \in 1 .. Len(w) : i < j => f[w[i]] < f[w[j]]
    <3> SUFFICES ASSUME NEW i \in 1 .. Len(w), NEW j \in 1 .. Len(w), i < j
                 PROVE  f[w[i]] < f[w[j]]
      OBVIOUS
    <3>1. i + 1 \in 1 .. Len(q) /\ j + 1 \in 1 .. Len(q) /\ w[i] = q[i + 1] /\ w[j] = q[j + 1]
      BY <2>5
    <3>2. i + 1 < j + 1
      OBVIOUS
    <3> QED
      BY <1>3, <3>1, <3>2
  <2>8. \A i \in 1 .. Len(w) : f[w[i]] > 0
    BY <1>3, <2>5
  <2>9. ASSUME NEW u \in Texts, f[u] > 0, u \notin ToSet(w), u # text
        PROVE  \A i \in 1 .. Len(w) : f[u] < f[w[i]]
    <3> SUFFICES ASSUME NEW i \in 1 .. Len(w) PROVE f[u] < f[q[i + 1]]
      BY <2>5
    <3>1. i + 1 \in 1 .. Len(q) /\ 1 \in 1 .. Len(q) /\ 1 < i + 1
      BY <2>5
    <3>2. CASE u \notin ToSet(q)
      BY <1>3, <2>9, <3>1, <3>2
    <3>3. CASE u \in ToSet(q)
      <4>1. PICK k \in 1 .. Len(q) : q[k] = u
        BY <1>1, <3>3
      <4>2. k = 1
        <5>1. ASSUME k # 1 PROVE FALSE
          <6>1. k - 1 \in 1 .. Len(w) /\ (k - 1) + 1 = k
            BY <1>7, <2>12, <5>1
          <6>2. w[k - 1] = u
            BY <2>5, <4>1, <6>1
          <6> QED
            BY <2>4, <2>9, <6>1, <6>2
        <5> QED
          BY <5>1
      <4> QED
        BY <1>3, <3>1, <4>1, <4>2
    <3> QED
      BY <3>2, <3>3
  <2>10. Len(w) + 1 = MaxCached /\ Len(w) < MaxCached
    <3>1. Len(q) = MaxCached
      BY <1>2, <1>5, <1>7, Numbers
    <3> QED
      BY <1>2, <2>12, <3>1
  <2>11. Remaining(w, f, text)
    BY <2>6, <2>7, <2>8, <2>9, <2>10 DEF Remaining
  <2> QED
    BY <2>2, <2>3, <2>11
<1>6. CASE text \notin ToSet(q) /\ ~(Len(q) >= MaxCached)
  <2>1. Cached(q, text) = Append(q, text)
    BY <1>6 DEF Cached
  <2>3. Len(q) < MaxCached
    BY <1>2, <1>6, <1>7
  <2>2. Remaining(q, f, text)
    <3>1. \A u \in Texts : f[u] > 0 /\ u \notin ToSet(q) /\ u # text =>
            Len(q) + 1 = MaxCached /\ \A i \in 1 .. Len(q) : f[u] < f[q[i]]
      <4>1. Len(q) # MaxCached
        BY <1>2, <1>7, <2>3, Numbers
      <4> QED
        BY <1>3, <4>1
    <3> QED
      BY <1>3, <1>6, <2>3, <3>1 DEF Remaining
  <2> QED
    BY <2>1, <2>2
<1> QED
  BY <1>4, <1>5, <1>6

\* The order of recency is kept when a text is sent at n + 1.
LEMMA RecencyStep ==
  ASSUME NEW q \in Seq(Texts), NEW f \in [Texts -> Nat], NEW text \in Texts, NEW n \in Nat,
         NEW g \in [Texts -> Nat], Recency(q, f), \A t \in Texts : f[t] <= n,
         g[text] = n + 1, \A t \in Texts \ {text} : g[t] = f[t]
  PROVE  Cached(q, text) \in Seq(Texts) /\ Recency(Cached(q, text), g)
<1>1. PICK w \in Seq(Texts) : Cached(q, text) = Append(w, text) /\ Remaining(w, f, text)
  BY CachedLemma
<1> DEFINE r == Append(w, text)
<1>2. /\ r \in Seq(Texts) /\ Len(r) = Len(w) + 1 /\ r[Len(w) + 1] = text /\ Len(w) \in Nat
      /\ \A i \in 1 .. Len(w) : r[i] = w[i]
  BY AppendProperties, LenProperties
<1> HIDE DEF r
<1>3. /\ DOMAIN r = 1 .. Len(w) + 1
      /\ \A x : x \in ToSet(r) <=> \E i \in 1 .. Len(w) + 1 : r[i] = x
      /\ \A x : x \in ToSet(w) <=> \E i \in 1 .. Len(w) : w[i] = x
  <2>1. /\ DOMAIN r = 1 .. Len(r)
        /\ \A x : x \in ToSet(r) <=> \E i \in 1 .. Len(r) : r[i] = x
    BY <1>2, ToSetLemma
  <2>2. \A x : x \in ToSet(w) <=> \E i \in 1 .. Len(w) : w[i] = x
    BY ToSetLemma
  <2>3. Len(r) = Len(w) + 1
    BY <1>2
  <2> QED
    BY <2>1, <2>2, <2>3
<1>11. Len(w) \in Nat /\ Len(r) = Len(w) + 1 /\ r[Len(w) + 1] = text
  BY <1>2
<1>4. /\ Len(w) < MaxCached /\ text \notin ToSet(w)
      /\ \A i, j \in 1 .. Len(w) : i < j => f[w[i]] < f[w[j]]
      /\ \A i \in 1 .. Len(w) : f[w[i]] > 0
      /\ \A u \in Texts : f[u] > 0 /\ u \notin ToSet(w) /\ u # text =>
           Len(w) + 1 = MaxCached /\ \A i \in 1 .. Len(w) : f[u] < f[w[i]]
  BY <1>1 DEF Remaining
<1>5. ASSUME NEW i \in 1 .. Len(w)
      PROVE  r[i] = w[i] /\ w[i] \in Texts /\ g[r[i]] = f[w[i]] /\ f[w[i]] \in Nat /\ f[w[i]] <= n
  <2>1. w[i] \in Texts /\ r[i] = w[i] /\ w[i] # text
    BY <1>2, <1>3, <1>4, ElementOfSeq
  <2> QED
    BY <2>1
<1>6. \A i, j \in DOMAIN r : i < j => g[r[i]] < g[r[j]]
  <2> SUFFICES ASSUME NEW i \in 1 .. Len(w) + 1, NEW j \in 1 .. Len(w) + 1, i < j
               PROVE  g[r[i]] < g[r[j]]
    BY <1>3
  <2>1. i \in 1 .. Len(w)
    BY <1>2
  <2>2. CASE j \in 1 .. Len(w)
    BY <1>4, <1>5, <2>1, <2>2
  <2>3. CASE j = Len(w) + 1
    <3>1. g[r[j]] = n + 1
      BY <1>11, <2>3
    <3>2. g[r[i]] = f[w[i]] /\ f[w[i]] \in Nat /\ f[w[i]] <= n
      BY <1>5, <2>1
    <3> QED
      BY <3>1, <3>2
  <2>4. j \in 1 .. Len(w) \/ j = Len(w) + 1
    BY <1>11, LastOrBefore
  <2> QED
    BY <2>2, <2>3, <2>4
<1>7. \A i \in DOMAIN r : g[r[i]] > 0
  <2> SUFFICES ASSUME NEW i \in 1 .. Len(w) + 1 PROVE g[r[i]] > 0
    BY <1>3
  <2>1. CASE i \in 1 .. Len(w)
    BY <1>4, <1>5, <2>1
  <2>2. CASE i = Len(w) + 1
    BY <1>2, <2>2
  <2> QED
    BY <1>2, <2>1, <2>2
<1>8. ASSUME NEW u \in Texts, g[u] > 0, u \notin ToSet(r)
      PROVE  Len(r) = MaxCached /\ \A i \in DOMAIN r : g[u] < g[r[i]]
  <2>1. u # text
    <3>1. Len(w) + 1 \in 1 .. Len(w) + 1
      BY <1>11
    <3> QED
      BY <1>3, <1>8, <1>11, <3>1
  <2>2. u \notin ToSet(w)
    <3>1. \A i \in 1 .. Len(w) : i \in 1 .. Len(w) + 1 /\ r[i] = w[i]
      BY <1>5, <1>11
    <3> QED
      BY <1>3, <1>8, <3>1
  <2>3. g[u] = f[u] /\ f[u] <= n /\ f[u] \in Nat
    BY <2>1
  <2>4. Len(w) + 1 = MaxCached /\ \A i \in 1 .. Len(w) : f[u] < f[w[i]]
    BY <1>4, <1>8, <2>1, <2>2, <2>3
  <2>5. ASSUME NEW i \in 1 .. Len(w) + 1 PROVE g[u] < g[r[i]]
    <3>1. CASE i \in 1 .. Len(w)
      BY <1>5, <2>3, <2>4, <3>1
    <3>2. CASE i = Len(w) + 1
      BY <1>2, <2>3, <3>2
    <3> QED
      BY <1>2, <3>1, <3>2
  <2> QED
    BY <1>2, <1>3, <2>4, <2>5
<1>9. Len(r) <= MaxCached
  BY <1>2, <1>4, ConnectionsAssumption
<1>10. Recency(r, g)
  BY <1>6, <1>7, <1>8, <1>9 DEF Recency
<1> QED
  BY <1>1, <1>2, <1>10 DEF r

\* Texts last sent at different places are finitely many.
LEMMA FinitelySent ==
  ASSUME NEW f \in [Texts -> Nat], NEW n \in Nat, \A t \in Texts : f[t] <= n,
         \A t, u \in Texts : f[t] > 0 /\ f[t] = f[u] => t = u
  PROVE  IsFiniteSet({t \in Texts : f[t] > 0})
<1> DEFINE A == {t \in Texts : f[t] > 0}
           h == [t \in A |-> f[t]]
<1>1. h \in [A -> 1 .. n]
  <2>1. \A t \in A : f[t] \in Nat /\ f[t] > 0 /\ f[t] <= n
    OBVIOUS
  <2>2. \A t \in A : f[t] \in 1 .. n
    BY <2>1
  <2> QED
    BY <2>2
<1>2. \A t, u \in A : h[t] = h[u] => t = u
  OBVIOUS
<1>3. h \in Injection(A, 1 .. n)
  <2> HIDE DEF A, h
  <2> QED
    BY <1>1, <1>2 DEF Injection, IsInjective
<1>4. IsFiniteSet(1 .. n)
  BY FS_Interval
<1> QED
  <2> HIDE DEF A, h
  <2>1. IsFiniteSet(A)
    BY <1>3, <1>4, FS_Injection
  <2> QED
    BY <2>1 DEF A

\* In the order of recency the cache holds the texts it should.
LEMMA RecencyMeans ==
  ASSUME NEW q \in Seq(Texts), NEW f \in [Texts -> Nat], Recency(q, f),
         IsFiniteSet({t \in Texts : f[t] > 0}), NEW t \in Texts
  PROVE  t \in ToSet(q) <=>
           f[t] > 0 /\ Cardinality({u \in Texts : f[u] > f[t]}) < MaxCached
<1> DEFINE A == {u \in Texts : f[u] > f[t]}
<1>1. /\ DOMAIN q = 1 .. Len(q) /\ Len(q) \in Nat
      /\ \A x : x \in ToSet(q) <=> \E i \in 1 .. Len(q) : q[i] = x
  BY ToSetLemma
<1>2. \A i \in 1 .. Len(q) : q[i] \in Texts /\ f[q[i]] \in Nat
  BY ElementOfSeq
<1>3. MaxCached \in Nat
  BY ConnectionsAssumption
<1>4. /\ \A i, j \in 1 .. Len(q) : i < j => f[q[i]] < f[q[j]]
      /\ \A i \in 1 .. Len(q) : f[q[i]] > 0
      /\ Len(q) <= MaxCached
      /\ \A u \in Texts : f[u] > 0 /\ u \notin ToSet(q) =>
           Len(q) = MaxCached /\ \A i \in 1 .. Len(q) : f[u] < f[q[i]]
  BY <1>1 DEF Recency
<1>5. \A i, j \in 1 .. Len(q) : q[i] = q[j] => i = j
  BY NoTwice
<1>6. IsFiniteSet(A)
  <2>1. A \subseteq {u \in Texts : f[u] > 0}
    OBVIOUS
  <2> HIDE DEF A
  <2> QED
    BY <2>1, FS_Subset
<1>7. ASSUME t \in ToSet(q) PROVE f[t] > 0 /\ Cardinality(A) < MaxCached
  <2>1. PICK i \in 1 .. Len(q) : q[i] = t
    BY <1>1, <1>7
  <2>2. ASSUME NEW u \in A PROVE \E k \in i + 1 .. Len(q) : q[k] = u
    <3>1. u \in Texts /\ f[u] \in Nat /\ f[t] \in Nat /\ f[u] > f[t]
      OBVIOUS
    <3>2. f[u] > 0 /\ ~(f[u] < f[q[i]])
      BY <2>1, <3>1
    <3>3. u \in ToSet(q)
      BY <1>4, <3>1, <3>2
    <3>4. PICK k \in 1 .. Len(q) : q[k] = u
      BY <1>1, <3>3
    <3>5. ~(k < i) /\ k # i
      <4>1. k < i => f[u] < f[t]
        BY <1>4, <2>1, <3>4
      <4>2. k = i => f[u] = f[t]
        BY <2>1, <3>4
      <4> QED
        BY <3>1, <4>1, <4>2
    <3>6. k \in i + 1 .. Len(q)
      BY <1>1, <3>5
    <3> QED
      BY <3>4, <3>6
  <2> DEFINE h == [u \in A |-> CHOOSE k \in i + 1 .. Len(q) : q[k] = u]
  <2> HIDE DEF A
  <2>3. \A u \in A : h[u] \in i + 1 .. Len(q) /\ q[h[u]] = u
    BY <2>2
  <2>4. h \in Injection(A, i + 1 .. Len(q))
    <3>1. h \in [A -> i + 1 .. Len(q)]
      BY <2>2
    <3> HIDE DEF h
    <3> QED
      BY <2>3, <3>1 DEF Injection, IsInjective
  <2>5. IsFiniteSet(i + 1 .. Len(q)) /\ Cardinality(i + 1 .. Len(q)) = Len(q) - i
    <3>1. i \in 0 .. Len(q)
      OBVIOUS
    <3> QED
      BY <1>1, <3>1, Intervals
  <2>6. Cardinality(A) <= Cardinality(i + 1 .. Len(q))
    BY <2>4, <2>5, FS_Injection
  <2>7. Len(q) \in Nat /\ Len(q) <= MaxCached /\ Len(q) - i < Len(q) /\ Len(q) - i \in Nat
    BY <1>1, <1>4
  <2>8. Cardinality(A) \in Nat
    BY <1>6, FS_CardinalityType
  <2>9. Cardinality(A) < MaxCached
    BY <1>3, <2>5, <2>6, <2>7, <2>8
  <2> QED
    BY <1>4, <2>1, <2>9
<1>8. ASSUME t \notin ToSet(q), f[t] > 0 PROVE ~(Cardinality(A) < MaxCached)
  <2>1. Len(q) = MaxCached /\ \A i \in 1 .. Len(q) : f[t] < f[q[i]]
    BY <1>4, <1>8
  <2>2. \A i \in 1 .. Len(q) : q[i] \in A
    BY <1>2, <2>1
  <2> DEFINE h == [i \in 1 .. Len(q) |-> q[i]]
  <2> HIDE DEF A
  <2>3. h \in Injection(1 .. Len(q), A)
    <3>1. h \in [1 .. Len(q) -> A] /\ \A i, j \in 1 .. Len(q) : h[i] = h[j] => i = j
      BY <1>5, <2>2
    <3> HIDE DEF h
    <3> QED
      BY <3>1 DEF Injection, IsInjective
  <2>4. Cardinality(1 .. Len(q)) = Len(q)
    BY <1>1, UpTo
  <2>5. Cardinality(1 .. Len(q)) <= Cardinality(A)
    BY <1>6, <2>3, FS_Injection
  <2>6. Cardinality(A) \in Nat
    BY <1>6, FS_CardinalityType
  <2> QED
    BY <1>1, <2>1, <2>4, <2>5, <2>6
<1> QED
  BY <1>7, <1>8

-----------------------------------------------------------------------------
(* Type correctness.  A request holds a connection while it is open, the   *)
(* round-robin position is that of a replica, and every commit is that of  *)
(* one request: ConnInv is what TypeOK needs to be inductive.              *)

Holding == {"open", "ran", "committed"}
Ended == {"committed", "done", "failed"}

ConnInv ==
  /\ Len(req) <= MaxRequests
  /\ \A i \in DOMAIN req : req[i].conn # 0 <=> req[i].pc \in Holding
  /\ Replicas # <<>> => \A s \in Servers : readIndex[s] < Len(Replicas)
  /\ \A i \in DOMAIN req : req[i].version <= Len(log)
  /\ \A n \in 1 .. Len(log) : \E i \in DOMAIN req :
       req[i].kind \in WriteKinds /\ req[i].pc \in Ended /\ req[i].version = n

\* Types of requests, and of the state they refer to.
LEMMA RequestTypes ==
  ASSUME TypeOK
  PROVE  /\ req \in Seq(Request) /\ DOMAIN req = 1 .. Len(req) /\ Len(req) \in Nat
         /\ \A i \in DOMAIN req :
              /\ req[i] \in Request /\ req[i].srv \in Servers /\ req[i].user \in Users
              /\ req[i].kind \in Kinds /\ req[i].text \in Texts /\ req[i].pool \in Pools
              /\ req[i].conn \in 0 .. PoolSize /\ req[i].version \in 0 .. MaxRequests
              /\ req[i].after \in SUBSET (1 .. MaxRequests)
         /\ log \in Seq(Users) /\ Len(log) \in Nat
<1>1. req \in Seq(Request) /\ DOMAIN req = 1 .. Len(req) /\ Len(req) \in Nat
  BY LenProperties DEF TypeOK
<1>2. \A i \in DOMAIN req : req[i] \in Request
  BY <1>1, ElementOfSeq
<1>3. log \in Seq(Users) /\ Len(log) \in Nat
  BY LenProperties DEF TypeOK
<1> QED
  BY <1>1, <1>2, <1>3 DEF Request

\* A request whose entries are replaced is still a request, and the others stay.
LEMMA ReplaceRequest ==
  ASSUME TypeOK, NEW i \in DOMAIN req, NEW r \in Request, req' = [req EXCEPT ![i] = r]
  PROVE  /\ req' \in Seq(Request) /\ DOMAIN req' = DOMAIN req /\ Len(req') = Len(req)
         /\ req'[i] = r
         /\ \A j \in DOMAIN req : j # i => req'[j] = req[j]
<1>1. req \in Seq(Request) /\ DOMAIN req = 1 .. Len(req)
  BY RequestTypes
<1>2. /\ [req EXCEPT ![i] = r] \in Seq(Request) /\ Len([req EXCEPT ![i] = r]) = Len(req)
      /\ \A j \in 1 .. Len(req) : [req EXCEPT ![i] = r][j] = IF j = i THEN r ELSE req[j]
  BY <1>1, ExceptSeq
<1> QED
  BY <1>1, <1>2, LenProperties

\* The commits of writes are those of as many requests, and not of one that has not
\* committed.
LEMMA CommitsAreFew ==
  ASSUME TypeOK, ConnInv, NEW i \in DOMAIN req, req[i].pc \notin Ended
  PROVE  Len(log) + 1 <= MaxRequests
<1> DEFINE f == [n \in 1 .. Len(log) |->
                   CHOOSE j \in DOMAIN req : req[j].pc \in Ended /\ req[j].version = n]
           J == DOMAIN req \ {i}
<1>1. /\ DOMAIN req = 1 .. Len(req) /\ Len(req) \in Nat /\ Len(req) <= MaxRequests
      /\ Len(log) \in Nat /\ MaxRequests \in Nat
  BY RequestTypes, ConnectionsAssumption DEF ConnInv
<1>2. ASSUME NEW n \in 1 .. Len(log)
      PROVE  f[n] \in J /\ req[f[n]].version = n
  <2>1. \E j \in DOMAIN req : req[j].pc \in Ended /\ req[j].version = n
    BY DEF ConnInv
  <2>2. f[n] \in DOMAIN req /\ req[f[n]].pc \in Ended /\ req[f[n]].version = n
    BY <2>1
  <2> HIDE DEF f
  <2> QED
    BY <2>2
<1>3. f \in [1 .. Len(log) -> J]
  BY <1>2
<1>4. f \in Injection(1 .. Len(log), J)
  <2> HIDE DEF f, J
  <2> QED
    BY <1>2, <1>3 DEF Injection, IsInjective
<1>5. IsFiniteSet(DOMAIN req) /\ Cardinality(DOMAIN req) = Len(req)
  BY <1>1, UpTo
<1>6. IsFiniteSet(J) /\ Cardinality(J) = Len(req) - 1
  BY <1>5, FS_RemoveElement
<1>7. Cardinality(1 .. Len(log)) <= Cardinality(J)
  <2> HIDE DEF f, J
  <2> QED
    BY <1>4, <1>6, FS_Injection
<1>8. Cardinality(1 .. Len(log)) = Len(log)
  BY <1>1, UpTo
<1> QED
  BY <1>1, <1>6, <1>7, <1>8

\* One request at a time on a connection.
OnePerConn ==
  \A i, j \in DOMAIN req :
    i # j /\ req[i].conn # 0 =>
      <<req[i].srv, req[i].pool, req[i].conn>> # <<req[j].srv, req[j].pool, req[j].conn>>

\* A step of request i turns it into r.
Becomes(i, r) ==
  /\ r \in Request /\ req' = [req EXCEPT ![i] = r]
  /\ r.srv = req[i].srv /\ r.user = req[i].user /\ r.kind = req[i].kind /\ r.text = req[i].text
  /\ r.pool = req[i].pool /\ r.after = req[i].after

\* Such a step keeps connections apart, and the commits of the log those of requests.
LEMMA RequestStep ==
  ASSUME TypeOK, ConnInv, NEW i \in DOMAIN req, NEW r, Becomes(i, r),
         r.conn # 0 <=> r.pc \in Holding,
         \/ r.conn \in {0, req[i].conn}
         \/ \A j \in DOMAIN req : <<req[j].srv, req[j].pool, req[j].conn>>
                                    # <<req[i].srv, req[i].pool, r.conn>>,
         readIndex' = readIndex, Len(log') \in Nat, Len(log) <= Len(log'),
         r.version <= Len(log'),
         req[i].pc \in Ended => r.pc \in Ended /\ r.version = req[i].version,
         \A n \in Len(log) + 1 .. Len(log') :
           r.kind \in WriteKinds /\ r.pc \in Ended /\ r.version = n
  PROVE  req' \in Seq(Request) /\ OnePerConn' /\ ConnInv'
<1>1. /\ req' \in Seq(Request) /\ DOMAIN req' = DOMAIN req /\ Len(req') = Len(req)
      /\ req'[i] = r
      /\ \A j \in DOMAIN req : j # i => req'[j] = req[j]
  BY ReplaceRequest DEF Becomes
<1>2. OnePerConn'
  <2> SUFFICES ASSUME NEW j \in DOMAIN req, NEW k \in DOMAIN req, j # k, req'[j].conn # 0
               PROVE  <<req'[j].srv, req'[j].pool, req'[j].conn>>
                        # <<req'[k].srv, req'[k].pool, req'[k].conn>>
    BY <1>1 DEF OnePerConn
  <2>1. <<req[j].srv, req[j].pool, req[j].conn>> # <<req[k].srv, req[k].pool, req[k].conn>>
        \/ (req[j].conn = 0 /\ req[k].conn = 0)
    BY DEF TypeOK
  <2>2. CASE j # i /\ k # i
    BY <1>1, <2>1, <2>2
  <2>3. CASE j = i
    <3>1. req'[j] = r /\ req'[k] = req[k]
      BY <1>1, <2>3
    <3> QED
      BY <2>1, <2>3, <3>1 DEF Becomes
  <2>4. CASE k = i
    <3>1. req'[k] = r /\ req'[j] = req[j]
      BY <1>1, <2>4
    <3> QED
      BY <2>1, <2>4, <3>1 DEF Becomes
  <2> QED
    BY <2>2, <2>3, <2>4
<1>3. \A j \in DOMAIN req' : req'[j].conn # 0 <=> req'[j].pc \in Holding
  BY <1>1 DEF ConnInv
<1>4. \A j \in DOMAIN req' : req'[j].version <= Len(log')
  <2> SUFFICES ASSUME NEW j \in DOMAIN req, j # i PROVE req[j].version <= Len(log')
    BY <1>1
  <2>1. req[j].version \in Nat /\ Len(log) \in Nat /\ req[j].version <= Len(log)
    BY RequestTypes DEF ConnInv
  <2> QED
    BY <2>1
<1>5. \A n \in 1 .. Len(log') : \E j \in DOMAIN req' :
        req'[j].kind \in WriteKinds /\ req'[j].pc \in Ended /\ req'[j].version = n
  <2> SUFFICES ASSUME NEW n \in 1 .. Len(log')
               PROVE  \E j \in DOMAIN req' :
                        req'[j].kind \in WriteKinds /\ req'[j].pc \in Ended /\ req'[j].version = n
    OBVIOUS
  <2>1. CASE n <= Len(log)
    <3>1. n \in 1 .. Len(log)
      BY <2>1, RequestTypes
    <3>2. PICK j \in DOMAIN req :
            req[j].kind \in WriteKinds /\ req[j].pc \in Ended /\ req[j].version = n
      BY <3>1 DEF ConnInv
    <3>3. CASE j = i
      BY <1>1, <3>2, <3>3 DEF Becomes
    <3>4. CASE j # i
      BY <1>1, <3>2, <3>4
    <3> QED
      BY <3>3, <3>4
  <2>2. CASE ~(n <= Len(log))
    <3>1. n \in Len(log) + 1 .. Len(log')
      BY <2>2, RequestTypes
    <3> QED
      BY <1>1, <3>1
  <2> QED
    BY <2>1, <2>2
<1> QED
  BY <1>1, <1>2, <1>3, <1>4, <1>5 DEF ConnInv

\* Where a request can be.
States == {"waiting", "open", "ran", "committed", "done", "failed"}

\* What the steps make of the requests.
WithConn(i, p, c) == [req EXCEPT ![i].pc = p, ![i].conn = c]
WithVersion(i, p, v) == [req EXCEPT ![i].pc = p, ![i].version = v]
WithPc(i, p) == [req EXCEPT ![i].pc = p]

\* A step that takes or releases a connection.
LEMMA Holds ==
  ASSUME TypeOK, NEW i \in DOMAIN req, NEW p \in States, NEW c \in 0 .. PoolSize,
         req' = WithConn(i, p, c)
  PROVE  \E r : Becomes(i, r) /\ r.pc = p /\ r.conn = c /\ r.version = req[i].version
<1> DEFINE q == req[i]
           r == [q EXCEPT !.pc = p, !.conn = c]
<1>1. q \in Request
  BY RequestTypes
<1>2. /\ r \in Request /\ r.pc = p /\ r.conn = c /\ r.version = q.version
      /\ r.srv = q.srv /\ r.user = q.user /\ r.kind = q.kind /\ r.text = q.text
      /\ r.pool = q.pool /\ r.after = q.after
  <2> HIDE DEF q
  <2> QED
    BY <1>1 DEF Request, States
<1>3. req' = [req EXCEPT ![i] = r]
  BY DEF WithConn
<1>4. Becomes(i, r) /\ r.pc = p /\ r.conn = c /\ r.version = req[i].version
  <2> HIDE DEF r
  <2> QED
    BY <1>2, <1>3 DEF Becomes
<1> HIDE DEF r
<1> QED
  BY <1>4

\* A step that sees a version or makes one.
LEMMA Sees ==
  ASSUME TypeOK, NEW i \in DOMAIN req, NEW p \in States, NEW v \in 0 .. MaxRequests,
         req' = WithVersion(i, p, v)
  PROVE  \E r : Becomes(i, r) /\ r.pc = p /\ r.conn = req[i].conn /\ r.version = v
<1> DEFINE q == req[i]
           r == [q EXCEPT !.pc = p, !.version = v]
<1>1. q \in Request
  BY RequestTypes
<1>2. /\ r \in Request /\ r.pc = p /\ r.conn = q.conn /\ r.version = v
      /\ r.srv = q.srv /\ r.user = q.user /\ r.kind = q.kind /\ r.text = q.text
      /\ r.pool = q.pool /\ r.after = q.after
  <2> HIDE DEF q
  <2> QED
    BY <1>1 DEF Request, States
<1>3. req' = [req EXCEPT ![i] = r]
  BY DEF WithVersion
<1>4. Becomes(i, r) /\ r.pc = p /\ r.conn = req[i].conn /\ r.version = v
  <2> HIDE DEF r
  <2> QED
    BY <1>2, <1>3 DEF Becomes
<1> HIDE DEF r
<1> QED
  BY <1>4

\* A step that does neither.
LEMMA Moves ==
  ASSUME TypeOK, NEW i \in DOMAIN req, NEW p \in States,
         req' = WithPc(i, p)
  PROVE  \E r : Becomes(i, r) /\ r.pc = p /\ r.conn = req[i].conn /\ r.version = req[i].version
<1> DEFINE q == req[i]
           r == [q EXCEPT !.pc = p]
<1>1. q \in Request
  BY RequestTypes
<1>2. /\ r \in Request /\ r.pc = p /\ r.conn = q.conn /\ r.version = q.version
      /\ r.srv = q.srv /\ r.user = q.user /\ r.kind = q.kind /\ r.text = q.text
      /\ r.pool = q.pool /\ r.after = q.after
  <2> HIDE DEF q
  <2> QED
    BY <1>1 DEF Request, States
<1>3. req' = [req EXCEPT ![i] = r]
  BY DEF WithPc
<1>4. Becomes(i, r) /\ r.pc = p /\ r.conn = req[i].conn /\ r.version = req[i].version
  <2> HIDE DEF r
  <2> QED
    BY <1>2, <1>3 DEF Becomes
<1> HIDE DEF r
<1> QED
  BY <1>4

\* The caches are in the order in which their texts were last sent.
CacheInv ==
  \A s \in Servers : Recency(cache[s], [t \in Texts |-> LastIn(sent[s], t)])

\* The text of a request goes through the cache of its server, or the caches stay.
LEMMA PrepareLemma ==
  ASSUME TypeOK, CacheInv, NEW i \in DOMAIN req, Prepare(i)
  PROVE  /\ cache' \in [Servers -> Seq(Texts)] /\ sent' \in [Servers -> Seq(Texts)]
         /\ CacheInv'
<1> DEFINE s == req[i].srv
           x == req[i].text
           q == cache[s]
           p == sent[s]
           f == [t \in Texts |-> LastIn(p, t)]
           g == [t \in Texts |-> LastIn(Append(p, x), t)]
<1>1. s \in Servers /\ x \in Texts
  BY RequestTypes
<1>2. /\ cache \in [Servers -> Seq(Texts)] /\ sent \in [Servers -> Seq(Texts)]
      /\ q \in Seq(Texts) /\ p \in Seq(Texts) /\ Len(p) \in Nat
  BY <1>1, LenProperties DEF TypeOK
<1>3. CASE req[i].kind \in WithSession
  <2>1. /\ cache' = [cache EXCEPT ![s] = Cached(q, x)]
        /\ sent' = [sent EXCEPT ![s] = Append(p, x)]
    BY <1>3 DEF Prepare
  <2>2. \A t : LastIn(p, t) \in 0 .. Len(p)
    BY <1>2, LastInLemma
  <2>3. \A t : LastIn(Append(p, x), t) = IF t = x THEN Len(p) + 1 ELSE LastIn(p, t)
    <3> HIDE DEF p, x
    <3> QED
      BY <1>1, <1>2, LastInAppend
  <2>4. f \in [Texts -> Nat] /\ \A t \in Texts : f[t] <= Len(p)
    BY <1>2, <2>2
  <2>5. g \in [Texts -> Nat] /\ g[x] = Len(p) + 1 /\ \A t \in Texts \ {x} : g[t] = f[t]
    <3>1. ASSUME NEW t \in Texts PROVE LastIn(Append(p, x), t) \in Nat
      <4> HIDE DEF p, x
      <4>1. LastIn(p, t) \in Nat /\ Len(p) + 1 \in Nat
        BY <1>2, <2>2
      <4> QED
        BY <2>3, <4>1
    <3> QED
      BY <1>1, <2>3, <3>1
  <2>6. Recency(q, f)
    BY <1>1 DEF CacheInv
  <2>7. Cached(q, x) \in Seq(Texts) /\ Recency(Cached(q, x), g)
    <3> HIDE DEF q, x, f, g, p
    <3> QED
      BY <1>1, <1>2, <2>4, <2>5, <2>6, RecencyStep
  <2>8. Append(p, x) \in Seq(Texts)
    BY <1>1, <1>2, AppendProperties
  <2>9. cache' \in [Servers -> Seq(Texts)] /\ sent' \in [Servers -> Seq(Texts)]
    BY <1>2, <2>1, <2>7, <2>8
  <2>10. ASSUME NEW z \in Servers
         PROVE  Recency(cache'[z], [t \in Texts |-> LastIn(sent'[z], t)])
    <3>1. CASE z = s
      <4>1. cache'[z] = Cached(q, x) /\ sent'[z] = Append(p, x)
        BY <1>1, <1>2, <2>1, <3>1
      <4> HIDE DEF q, p, x
      <4> QED
        BY <2>7, <4>1
    <3>2. CASE z # s
      <4>1. cache'[z] = cache[z] /\ sent'[z] = sent[z]
        BY <1>2, <2>1, <3>2
      <4>2. Recency(cache[z], [t \in Texts |-> LastIn(sent[z], t)])
        BY DEF CacheInv
      <4> QED
        BY <4>1, <4>2
    <3> QED
      BY <3>1, <3>2
  <2> QED
    BY <2>9, <2>10 DEF CacheInv
<1>4. CASE req[i].kind \notin WithSession
  <2>1. cache' = cache /\ sent' = sent
    BY <1>4 DEF Prepare
  <2> QED
    BY <1>2, <2>1 DEF CacheInv
<1> QED
  BY <1>3, <1>4

\* Two texts of one name are never both prepared on a connection.
NamesApart ==
  \A s \in Servers, p \in Pools, c \in Conns :
    \A t, u \in prepared[s][p][c] : Name(t) = Name(u) => t = u

\* What is prepared on one connection is replaced.
LEMMA PreparedLemma ==
  ASSUME TypeOK, NEW s \in Servers, NEW p \in Pools, NEW c \in Conns, NEW X \in SUBSET Texts,
         \A t, u \in X : Name(t) = Name(u) => t = u,
         prepared' = [prepared EXCEPT ![s][p][c] = X]
  PROVE  prepared' \in [Servers -> [Pools -> [Conns -> SUBSET Texts]]] /\ NamesApart'
<1> DEFINE P == [Pools -> [Conns -> SUBSET Texts]]
           C == [Conns -> SUBSET Texts]
<1>1. prepared \in [Servers -> P] /\ prepared[s] \in P /\ prepared[s][p] \in C
  BY DEF TypeOK
<1>2. prepared' = [prepared EXCEPT ![s] = [prepared[s] EXCEPT ![p] = [prepared[s][p] EXCEPT ![c] = X]]]
  OBVIOUS
<1>3. [prepared[s][p] EXCEPT ![c] = X] \in C
  BY <1>1
<1>4. [prepared[s] EXCEPT ![p] = [prepared[s][p] EXCEPT ![c] = X]] \in P
  <2> HIDE DEF C
  <2> QED
    BY <1>1, <1>3
<1>5. prepared' \in [Servers -> P]
  <2> HIDE DEF P
  <2> QED
    BY <1>1, <1>2, <1>4
<1>6. ASSUME NEW z \in Servers, NEW y \in Pools, NEW d \in Conns
      PROVE  prepared'[z][y][d] = IF z = s /\ y = p /\ d = c THEN X ELSE prepared[z][y][d]
  <2>1. prepared[z] \in P /\ prepared[z][y] \in C
    BY DEF TypeOK
  <2>2. CASE z # s
    BY <1>1, <1>2, <2>2
  <2>3. CASE z = s /\ y # p
    <3>1. prepared'[z] = [prepared[s] EXCEPT ![p] = [prepared[s][p] EXCEPT ![c] = X]]
      BY <1>1, <1>2, <2>3
    <3> QED
      BY <1>1, <2>3, <3>1
  <2>4. CASE z = s /\ y = p
    <3>1. prepared'[z] = [prepared[s] EXCEPT ![p] = [prepared[s][p] EXCEPT ![c] = X]]
      BY <1>1, <1>2, <2>4
    <3>2. prepared'[z][y] = [prepared[s][p] EXCEPT ![c] = X]
      BY <1>1, <2>4, <3>1
    <3> QED
      BY <1>1, <2>4, <3>2
  <2> QED
    BY <2>2, <2>3, <2>4
<1>7. NamesApart'
  <2> SUFFICES ASSUME NEW z \in Servers, NEW y \in Pools, NEW d \in Conns,
                      NEW t \in prepared'[z][y][d], NEW u \in prepared'[z][y][d],
                      Name(t) = Name(u)
               PROVE  t = u
    BY DEF NamesApart
  <2>1. \A a, b \in prepared[z][y][d] : Name(a) = Name(b) => a = b
    BY DEF TypeOK
  <2> QED
    BY <1>6, <2>1
<1> QED
  BY <1>5, <1>7

\* The pools are the primary's and those of the replicas.
LEMMA ReplicaLemma ==
  /\ Len(Replicas) \in Nat
  /\ \A n \in 1 .. Len(Replicas) : Replicas[n] \in ToSet(Replicas)
  /\ Replicas # <<>> => Len(Replicas) > 0
  /\ ToSet(Replicas) \subseteq Pools /\ Primary \in Pools
<1>1. Replicas \in Seq(STRING)
  BY ConnectionsAssumption
<1>2. Len(Replicas) \in Nat /\ DOMAIN Replicas = 1 .. Len(Replicas)
  BY <1>1, LenProperties
<1>3. Replicas # <<>> => Len(Replicas) > 0
  BY <1>1, EmptySeq
<1> QED
  BY <1>2, <1>3 DEF ToSet, Pools

\* A request is sent to one of them, the next replica if it is not the primary.
LEMMA SelectLemma ==
  ASSUME TypeOK, ConnInv, NEW s \in Servers, NEW k \in Kinds, NEW u \in Users
  PROVE  /\ SelectPool(s, k, u) \in Pools
         /\ ~RoundRobin(s, k, u) => SelectPool(s, k, u) = Primary
         /\ RoundRobin(s, k, u) => SelectPool(s, k, u) \in ToSet(Replicas)
         /\ RoundRobin(s, k, u) => (readIndex[s] + 1) % Len(Replicas) \in 0 .. Len(Replicas) - 1
<1>1. readIndex[s] \in Nat
  BY DEF TypeOK
<1>2. CASE RoundRobin(s, k, u)
  <2>1. Len(Replicas) \in Nat /\ Len(Replicas) > 0 /\ readIndex[s] < Len(Replicas)
    BY <1>2, ReplicaLemma DEF RoundRobin, ConnInv
  <2>2. readIndex[s] + 1 \in 1 .. Len(Replicas)
    BY <1>1, <2>1
  <2>3. (readIndex[s] + 1) % Len(Replicas) \in 0 .. Len(Replicas) - 1
    BY <1>1, <2>1
  <2> QED
    BY <1>2, <2>2, <2>3, ReplicaLemma DEF SelectPool
<1>3. CASE ~RoundRobin(s, k, u)
  <2>1. SelectPool(s, k, u) = Primary
    BY <1>3 DEF SelectPool
  <2>2. Primary \in Pools
    BY ReplicaLemma
  <2> QED
    BY <1>3, <2>1, <2>2
<1> QED
  BY <1>2, <1>3

\* A request that comes.
LEMMA BeginStep ==
  ASSUME TypeOK, ConnInv, CacheInv,
         NEW s \in Servers, NEW u \in Users, NEW k \in Kinds, NEW t \in Texts, Begin(s, u, k, t)
  PROVE  TypeOK' /\ ConnInv' /\ CacheInv'
<1> DEFINE q == [srv |-> s, user |-> u, kind |-> k, text |-> t, pc |-> "waiting",
                 pool |-> SelectPool(s, k, u), conn |-> 0, version |-> 0,
                 after |-> {i \in DOMAIN req : req[i].pc = "done"}]
<1>1. /\ req \in Seq(Request) /\ DOMAIN req = 1 .. Len(req) /\ Len(req) \in Nat /\ Len(log) \in Nat
      /\ Len(req) < MaxRequests /\ MaxRequests \in Nat /\ PoolSize \in Nat
  BY RequestTypes, ConnectionsAssumption DEF Begin
<1>2. q \in Request
  <2>1. {i \in DOMAIN req : req[i].pc = "done"} \in SUBSET (1 .. MaxRequests)
    BY <1>1
  <2>2. 0 \in 0 .. PoolSize /\ 0 \in 0 .. MaxRequests
    BY <1>1
  <2>3. SelectPool(s, k, u) \in Pools
    BY SelectLemma
  <2> QED
    BY <2>1, <2>2, <2>3 DEF Request
<1>3. q.conn = 0 /\ q.pc = "waiting" /\ q.version = 0
  OBVIOUS
<1>4. req' = Append(req, q)
  BY DEF Begin
<1> HIDE DEF q
<1>5. /\ req' \in Seq(Request) /\ Len(req') = Len(req) + 1
      /\ DOMAIN req' = 1 .. Len(req) + 1
      /\ req'[Len(req) + 1] = q
      /\ \A i \in DOMAIN req : req'[i] = req[i]
  BY <1>1, <1>2, <1>4, AppendProperties, LenProperties
<1>6. \A i \in DOMAIN req' : i \in DOMAIN req \/ i = Len(req) + 1
  BY <1>1, <1>5, LastOrBefore
<1>7. OnePerConn'
  <2> SUFFICES ASSUME NEW i \in DOMAIN req', NEW j \in DOMAIN req', i # j, req'[i].conn # 0
               PROVE  <<req'[i].srv, req'[i].pool, req'[i].conn>>
                        # <<req'[j].srv, req'[j].pool, req'[j].conn>>
    BY DEF OnePerConn
  <2>1. i \in DOMAIN req
    BY <1>3, <1>5, <1>6
  <2>2. CASE j \in DOMAIN req
    BY <1>5, <2>1, <2>2 DEF TypeOK
  <2>3. CASE j = Len(req) + 1
    BY <1>3, <1>5, <2>3
  <2> QED
    BY <1>6, <2>2, <2>3
<1>8. /\ readIndex' \in [Servers -> Nat]
      /\ Replicas # <<>> => \A z \in Servers : readIndex'[z] < Len(Replicas)
  <2>1. CASE RoundRobin(s, k, u)
    <3>1. readIndex' = [readIndex EXCEPT ![s] = (@ + 1) % Len(Replicas)]
      BY <2>1 DEF Begin
    <3>2. (readIndex[s] + 1) % Len(Replicas) \in 0 .. Len(Replicas) - 1
      BY <2>1, SelectLemma
    <3>3. (readIndex[s] + 1) % Len(Replicas) \in Nat
          /\ (readIndex[s] + 1) % Len(Replicas) < Len(Replicas)
      BY <3>2, ReplicaLemma
    <3> QED
      BY <3>1, <3>3 DEF TypeOK, ConnInv
  <2>2. CASE ~RoundRobin(s, k, u)
    BY <2>2 DEF Begin, TypeOK, ConnInv
  <2> QED
    BY <2>1, <2>2
<1>9. UNCHANGED <<log, applied, marks, cache, prepared, sent, faults>>
  BY DEF Begin
<1>10. TypeOK'
  BY <1>5, <1>7, <1>8, <1>9 DEF TypeOK, OnePerConn
<1>11. ConnInv'
  <2>1. Len(req') <= MaxRequests
    BY <1>1, <1>5
  <2>2. \A i \in DOMAIN req' : req'[i].conn # 0 <=> req'[i].pc \in Holding
    BY <1>3, <1>5, <1>6 DEF ConnInv, Holding
  <2>3. \A i \in DOMAIN req' : req'[i].version <= Len(log')
    BY <1>1, <1>3, <1>5, <1>6, <1>9 DEF ConnInv
  <2>4. DOMAIN req \subseteq DOMAIN req'
    BY <1>1, <1>5
  <2>5. \A n \in 1 .. Len(log') : \E i \in DOMAIN req' :
          req'[i].kind \in WriteKinds /\ req'[i].pc \in Ended /\ req'[i].version = n
    BY <1>5, <1>9, <2>4 DEF ConnInv
  <2> QED
    BY <1>8, <2>1, <2>2, <2>3, <2>5 DEF ConnInv
<1> QED
  BY <1>9, <1>10, <1>11 DEF CacheInv

\* What the database of a pool has is some of the log.
LEMMA VersionLemma ==
  ASSUME TypeOK, NEW p \in Pools
  PROVE  VersionAt(p) \in 0 .. Len(log)
<1>1. Len(log) \in Nat /\ applied \in [ToSet(Replicas) -> 0 .. Len(log)]
  BY RequestTypes DEF TypeOK
<1>2. p = Primary \/ p \in ToSet(Replicas)
  BY DEF Pools
<1> QED
  BY <1>1, <1>2 DEF VersionAt

\* A request takes a connection.
LEMMA ConnectStep ==
  ASSUME TypeOK, ConnInv, CacheInv, NEW i \in DOMAIN req, Connect(i)
  PROVE  TypeOK' /\ ConnInv' /\ CacheInv'
<1>1. PICK c \in Conns :
        /\ \A j \in DOMAIN req : <<req[j].srv, req[j].pool, req[j].conn>>
                                   # <<req[i].srv, req[i].pool, c>>
        /\ req' = [req EXCEPT ![i].pc = "open", ![i].conn = c]
  BY DEF Connect
<1>2. c \in 0 .. PoolSize /\ c # 0
  BY ConnectionsAssumption DEF Conns
<1>3. req[i].pc = "waiting"
  BY DEF Connect
<1>4. req[i].version \in 0 .. MaxRequests /\ req[i].version <= Len(log) /\ Len(log) \in Nat
  BY RequestTypes DEF ConnInv
<1>5. PICK r : /\ Becomes(i, r) /\ r.pc = "open" /\ r.conn = c /\ r.version = req[i].version
  <2>1. "open" \in States
    BY DEF States
  <2>2. req' = WithConn(i, "open", c)
    BY <1>1 DEF WithConn
  <2> QED
    BY <1>2, <2>1, <2>2, Holds
<1>6. UNCHANGED <<log, applied, marks, readIndex, cache, prepared, sent, faults>>
  BY DEF Connect
<1>7. \A n \in Len(log) + 1 .. Len(log') : FALSE
  BY <1>4, <1>6
<1>8. req' \in Seq(Request) /\ OnePerConn' /\ ConnInv'
  <2>1. Len(log') = Len(log)
    BY <1>6
  <2>2. r.conn # 0 <=> r.pc \in Holding
    BY <1>2, <1>5 DEF Holding
  <2>3. req[i].pc \notin Ended
    BY <1>3 DEF Ended
  <2> QED
    BY <1>1, <1>4, <1>5, <1>6, <1>7, <2>1, <2>2, <2>3, RequestStep
<1> QED
  BY <1>6, <1>8 DEF TypeOK, OnePerConn, CacheInv

\* A request that holds a connection holds one of its pool's.
LEMMA HeldConn ==
  ASSUME TypeOK, ConnInv, NEW i \in DOMAIN req, req[i].pc \in Holding
  PROVE  req[i].conn \in Conns /\ req[i].srv \in Servers /\ req[i].pool \in Pools
<1>1. req[i].conn \in 0 .. PoolSize /\ req[i].conn # 0 /\ PoolSize \in Nat
  BY RequestTypes, ConnectionsAssumption DEF ConnInv
<1>2. req[i].conn \in 1 .. PoolSize
  BY <1>1
<1> QED
  BY <1>2, RequestTypes DEF Conns

\* A request runs its statement.
LEMMA ExecuteStep ==
  ASSUME TypeOK, ConnInv, CacheInv, NEW i \in DOMAIN req, Execute(i)
  PROVE  TypeOK' /\ ConnInv' /\ CacheInv'
<1> DEFINE v == IF req[i].kind \in ReadKinds THEN VersionAt(req[i].pool) ELSE 0
<1>1. req[i].pc = "open"
  BY DEF Execute
<1>2. Len(log) \in Nat /\ Len(log) + 1 <= MaxRequests /\ MaxRequests \in Nat
  BY <1>1, RequestTypes, CommitsAreFew, ConnectionsAssumption DEF Ended
<1>3. VersionAt(req[i].pool) \in 0 .. Len(log)
  BY RequestTypes, VersionLemma
<1>4. v \in 0 .. Len(log)
  BY <1>2, <1>3
<1>5. v \in 0 .. MaxRequests /\ v <= Len(log)
  <2> HIDE DEF v
  <2> QED
    BY <1>2, <1>4
<1>6. PICK r : Becomes(i, r) /\ r.pc = "ran" /\ r.conn = req[i].conn /\ r.version = v
  <2>1. "ran" \in States
    BY DEF States
  <2>2. req' = WithVersion(i, "ran", v)
    BY DEF Execute, WithVersion
  <2> HIDE DEF v
  <2> QED
    BY <1>5, <2>1, <2>2, Sees
<1> HIDE DEF v
<1>7. UNCHANGED <<log, applied, marks, readIndex, faults>> /\ Prepare(i)
  BY DEF Execute
<1>8. \A n \in Len(log) + 1 .. Len(log') : FALSE
  BY <1>2, <1>7
<1>9. req' \in Seq(Request) /\ OnePerConn' /\ ConnInv'
  <2>1. Len(log') = Len(log)
    BY <1>7
  <2>2. r.conn # 0 <=> r.pc \in Holding
    BY <1>1, <1>6 DEF Holding, ConnInv
  <2>3. req[i].pc \notin Ended
    BY <1>1 DEF Ended
  <2> QED
    BY <1>2, <1>5, <1>6, <1>7, <1>8, <2>1, <2>2, <2>3, RequestStep
<1>10. /\ cache' \in [Servers -> Seq(Texts)] /\ sent' \in [Servers -> Seq(Texts)]
       /\ CacheInv'
  BY <1>7, PrepareLemma
<1>11. prepared' \in [Servers -> [Pools -> [Conns -> SUBSET Texts]]] /\ NamesApart'
  <2>1. CASE req[i].kind \in WithSession
    <3> DEFINE X == prepared[req[i].srv][req[i].pool][req[i].conn] \cup {req[i].text}
    <3>1. req[i].conn \in Conns /\ req[i].srv \in Servers /\ req[i].pool \in Pools
      BY <1>1, HeldConn DEF Holding
    <3>2. ~Clashes(i)
      BY <2>1 DEF Execute
    <3>3. /\ prepared[req[i].srv][req[i].pool][req[i].conn] \in SUBSET Texts
          /\ req[i].text \in Texts
      <4>1. prepared \in [Servers -> [Pools -> [Conns -> SUBSET Texts]]]
        BY DEF TypeOK
      <4>2. req[i].text \in Texts
        BY RequestTypes
      <4> QED
        BY <3>1, <4>1, <4>2
    <3>4. X \in SUBSET Texts
      BY <3>3
    <3>5. \A t, u \in X : Name(t) = Name(u) => t = u
      <4>1. \A t, u \in prepared[req[i].srv][req[i].pool][req[i].conn] : Name(t) = Name(u) => t = u
        BY <3>1 DEF TypeOK
      <4> QED
        BY <3>2, <4>1 DEF Clashes
    <3>6. prepared' = [prepared EXCEPT ![req[i].srv][req[i].pool][req[i].conn] = X]
      BY <2>1 DEF Execute
    <3> HIDE DEF X
    <3> QED
      BY <3>1, <3>4, <3>5, <3>6, PreparedLemma
  <2>2. CASE req[i].kind \notin WithSession
    <3>1. prepared' = prepared
      BY <2>2 DEF Execute
    <3> QED
      BY <3>1 DEF TypeOK, NamesApart
  <2> QED
    BY <2>1, <2>2
<1>12. TypeOK'
  BY <1>7, <1>9, <1>10, <1>11 DEF TypeOK, OnePerConn, NamesApart
<1> QED
  BY <1>9, <1>10, <1>12

\* An answer to request i, a read or a write that changed nothing or whose commit is
\* on the log already.
LEMMA AnswerStep ==
  ASSUME TypeOK, ConnInv, NEW i \in DOMAIN req, NEW p \in {"failed", "done"},
         req' = Answer(i, p), log' = log, readIndex' = readIndex
  PROVE  /\ req' \in Seq(Request) /\ OnePerConn' /\ ConnInv'
         /\ \E r : Becomes(i, r) /\ r.pc = p /\ r.version = req[i].version
<1>1. Len(log) \in Nat /\ req[i].version <= Len(log)
  BY RequestTypes DEF ConnInv
<1>2. PICK r : Becomes(i, r) /\ r.pc = p /\ r.conn = 0 /\ r.version = req[i].version
  <2>1. p \in States
    BY DEF States
  <2>2. req' = WithConn(i, p, 0)
    BY DEF Answer, WithConn
  <2>3. 0 \in 0 .. PoolSize
    BY ConnectionsAssumption
  <2> QED
    BY <2>1, <2>2, <2>3, Holds
<1>3. \A n \in Len(log) + 1 .. Len(log') : FALSE
  BY <1>1
<1>4. r.conn # 0 <=> r.pc \in Holding
  BY <1>2 DEF Holding
<1>5. r.pc \in Ended /\ Len(log') = Len(log) /\ Len(log) <= Len(log)
  BY <1>1, <1>2 DEF Ended
<1>6. req' \in Seq(Request) /\ OnePerConn' /\ ConnInv'
  BY <1>1, <1>2, <1>3, <1>4, <1>5, RequestStep
<1> QED
  BY <1>2, <1>6

\* A statement that fails.
LEMMA FailStep ==
  ASSUME TypeOK, ConnInv, CacheInv, NEW i \in DOMAIN req, NameTaken(i) \/ Reject(i)
  PROVE  TypeOK' /\ ConnInv' /\ CacheInv'
<1>1. req' = Answer(i, "failed") /\ Prepare(i) /\ UNCHANGED <<log, applied, marks, readIndex, prepared>>
  BY DEF NameTaken, Reject
<1>2. faults' \in 0 .. MaxFaults
  <2>1. MaxFaults \in Nat /\ faults \in 0 .. MaxFaults
    BY ConnectionsAssumption DEF TypeOK
  <2> QED
    BY <2>1 DEF NameTaken, Reject
<1>3. req' \in Seq(Request) /\ OnePerConn' /\ ConnInv'
  BY <1>1, AnswerStep
<1>4. /\ cache' \in [Servers -> Seq(Texts)] /\ sent' \in [Servers -> Seq(Texts)]
      /\ CacheInv'
  BY <1>1, PrepareLemma
<1>5. TypeOK'
  BY <1>1, <1>2, <1>3, <1>4 DEF TypeOK, OnePerConn
<1> QED
  BY <1>3, <1>4, <1>5

\* A request commits.
LEMMA CommitStep ==
  ASSUME TypeOK, ConnInv, CacheInv, NEW i \in DOMAIN req, Commit(i)
  PROVE  TypeOK' /\ ConnInv' /\ CacheInv'
<1>1. req[i].pc = "ran" /\ UNCHANGED <<applied, marks, readIndex, cache, prepared, sent, faults>>
  BY DEF Commit
<1>2. /\ Len(log) \in Nat /\ Len(log) + 1 <= MaxRequests /\ MaxRequests \in Nat /\ log \in Seq(Users)
      /\ req[i].user \in Users /\ req[i].version <= Len(log)
  BY <1>1, RequestTypes, CommitsAreFew, ConnectionsAssumption DEF Ended, ConnInv
<1>3. req[i].pc \notin Ended /\ req[i].conn # 0 /\ "committed" \in States
      /\ "committed" \in Holding /\ "committed" \in Ended
  BY <1>1 DEF Ended, ConnInv, Holding, States
<1>4. CASE req[i].kind \in WriteKinds
  <2>1. log' = Append(log, req[i].user) /\ req' = WithVersion(i, "committed", Len(log) + 1)
    BY <1>4 DEF Commit, WithVersion
  <2>2. log' \in Seq(Users) /\ Len(log') = Len(log) + 1
    BY <1>2, <2>1, AppendProperties
  <2>3. PICK v \in Nat : v = Len(log) + 1
    BY <1>2
  <2>4. v \in 0 .. MaxRequests /\ v <= Len(log') /\ Len(log') \in Nat /\ Len(log) <= Len(log')
    BY <1>2, <2>2, <2>3
  <2>5. PICK r : Becomes(i, r) /\ r.pc = "committed" /\ r.conn = req[i].conn /\ r.version = v
    BY <1>3, <2>1, <2>3, <2>4, Sees
  <2>6. \A n \in Len(log) + 1 .. Len(log') : n = v
    BY <1>2, <2>2, <2>3
  <2>7. req' \in Seq(Request) /\ OnePerConn' /\ ConnInv'
    <3>1. r.kind \in WriteKinds
      BY <1>4, <2>5 DEF Becomes
    <3>2. r.conn # 0 <=> r.pc \in Holding
      BY <1>3, <2>5
    <3> QED
      BY <1>1, <1>3, <2>4, <2>5, <2>6, <3>1, <3>2, RequestStep
  <2>8. 0 .. Len(log) \subseteq 0 .. Len(log')
    BY <1>2, <2>2
  <2>9. applied' \in [ToSet(Replicas) -> 0 .. Len(log')]
    BY <1>1, <2>8 DEF TypeOK
  <2>10. marks' \in [Servers -> [Users -> 0 .. Len(log')]]
    BY <1>1, <2>8 DEF TypeOK
  <2>11. TypeOK'
    BY <1>1, <2>2, <2>7, <2>9, <2>10 DEF TypeOK, OnePerConn
  <2> QED
    BY <1>1, <2>7, <2>11 DEF CacheInv
<1>5. CASE req[i].kind \notin WriteKinds
  <2>1. log' = log /\ req' = WithPc(i, "committed")
    BY <1>5 DEF Commit, WithPc
  <2>2. PICK r : /\ Becomes(i, r) /\ r.pc = "committed" /\ r.conn = req[i].conn
                 /\ r.version = req[i].version
    BY <1>3, <2>1, Moves
  <2>3. \A n \in Len(log) + 1 .. Len(log') : FALSE
    BY <1>2, <2>1
  <2>4. req' \in Seq(Request) /\ OnePerConn' /\ ConnInv'
    <3>1. r.conn # 0 <=> r.pc \in Holding
      BY <1>3, <2>2
    <3>2. Len(log') = Len(log) /\ Len(log) <= Len(log)
      BY <1>2, <2>1
    <3> QED
      BY <1>1, <1>2, <1>3, <2>2, <2>3, <3>1, <3>2, RequestStep
  <2>5. TypeOK'
    BY <1>1, <2>1, <2>4 DEF TypeOK, OnePerConn
  <2> QED
    BY <1>1, <2>4, <2>5 DEF CacheInv
<1> QED
  BY <1>4, <1>5

\* What the tracker says once request i is answered.
LEMMA MarkedLemma ==
  ASSUME TypeOK, ConnInv, NEW i \in DOMAIN req
  PROVE  /\ Marked(i) \in [Servers -> [Users -> 0 .. Len(log)]]
         /\ \A s \in Servers, u \in Users :
              \/ Marked(i)[s][u] = marks[s][u]
              \/ Marked(i)[s][u] = req[i].version /\ req[i].version >= marks[s][u]
         /\ req[i].kind = "mutation" /\ req[i].user \notin Anonymous
              => Marked(i)[req[i].srv][req[i].user] >= req[i].version
<1> DEFINE s == req[i].srv
           u == req[i].user
           v == req[i].version
           m == marks[s][u]
           U == [Users -> 0 .. Len(log)]
<1>1. /\ s \in Servers /\ u \in Users /\ v \in Nat /\ v <= Len(log) /\ Len(log) \in Nat
      /\ marks \in [Servers -> U] /\ marks[s] \in U /\ m \in 0 .. Len(log) /\ m \in Nat
  BY RequestTypes DEF TypeOK, ConnInv
<1>2. CASE req[i].kind = "mutation" /\ req[i].user \notin Anonymous
  <2>1. Max({m, v}) = IF m >= v THEN m ELSE v
    <3> HIDE DEF m, v
    <3> QED
      BY <1>1, MaxOfTwo
  <2>2. PICK w \in 0 .. Len(log) : w = Max({m, v}) /\ w >= v /\ (w = m \/ (w = v /\ v >= m))
    <3> HIDE DEF m, v
    <3> QED
      BY <1>1, <2>1
  <2>3. Marked(i) = [marks EXCEPT ![s] = [marks[s] EXCEPT ![u] = w]]
    <3>1. Marked(i) = [marks EXCEPT ![s][u] = Max({m, v})]
      BY <1>2 DEF Marked
    <3> QED
      BY <2>2, <3>1
  <2>4. [marks[s] EXCEPT ![u] = w] \in U
    BY <1>1, <2>2
  <2>5. Marked(i) \in [Servers -> U] /\ Marked(i)[s][u] = w
    <3> HIDE DEF U, s, u
    <3>1. Marked(i) \in [Servers -> U] /\ Marked(i)[s] = [marks[s] EXCEPT ![u] = w]
      BY <1>1, <2>3, <2>4
    <3> QED
      BY <1>1, <3>1 DEF U
  <2>6. ASSUME NEW z \in Servers, NEW x \in Users
        PROVE  Marked(i)[z][x] = IF z = s /\ x = u THEN w ELSE marks[z][x]
    <3> HIDE DEF s, u
    <3>1. CASE z # s
      BY <1>1, <2>3, <3>1
    <3>2. CASE z = s
      <4>1. Marked(i)[z] = [marks[s] EXCEPT ![u] = w]
        BY <1>1, <2>3, <3>2
      <4> QED
        BY <1>1, <3>2, <4>1
    <3> QED
      BY <3>1, <3>2
  <2> QED
    BY <2>2, <2>5, <2>6
<1>3. CASE ~(req[i].kind = "mutation" /\ req[i].user \notin Anonymous)
  <2>1. Marked(i) = marks
    BY <1>3 DEF Marked
  <2> QED
    BY <1>1, <1>3, <2>1
<1> QED
  BY <1>2, <1>3

\* A request is answered.
LEMMA FinishStep ==
  ASSUME TypeOK, ConnInv, CacheInv, NEW i \in DOMAIN req, Finish(i)
  PROVE  TypeOK' /\ ConnInv' /\ CacheInv'
<1>1. /\ req' = Answer(i, "done") /\ marks' = Marked(i)
      /\ UNCHANGED <<log, applied, readIndex, cache, prepared, sent, faults>>
  BY DEF Finish
<1>2. req' \in Seq(Request) /\ OnePerConn' /\ ConnInv'
  BY <1>1, AnswerStep
<1>3. marks' \in [Servers -> [Users -> 0 .. Len(log')]]
  BY <1>1, MarkedLemma
<1>4. TypeOK'
  BY <1>1, <1>2, <1>3 DEF TypeOK, OnePerConn
<1> QED
  BY <1>1, <1>2, <1>4 DEF CacheInv

\* The answer to a commit is lost, and what was prepared on the connection.
LEMMA LoseCommitStep ==
  ASSUME TypeOK, ConnInv, CacheInv, NEW i \in DOMAIN req, LoseCommit(i)
  PROVE  TypeOK' /\ ConnInv' /\ CacheInv'
<1>1. /\ req' = Answer(i, "failed") /\ req[i].pc = "committed"
      /\ prepared' = [prepared EXCEPT ![req[i].srv][req[i].pool][req[i].conn] = {}]
      /\ UNCHANGED <<log, applied, marks, readIndex, cache, sent>>
  BY DEF LoseCommit
<1>2. faults' \in 0 .. MaxFaults
  <2>1. MaxFaults \in Nat /\ faults \in 0 .. MaxFaults
    BY ConnectionsAssumption DEF TypeOK
  <2> QED
    BY <2>1 DEF LoseCommit
<1>3. req' \in Seq(Request) /\ OnePerConn' /\ ConnInv'
  BY <1>1, AnswerStep
<1>4. prepared' \in [Servers -> [Pools -> [Conns -> SUBSET Texts]]] /\ NamesApart'
  <2>1. req[i].conn \in Conns /\ req[i].srv \in Servers /\ req[i].pool \in Pools
    BY <1>1, HeldConn DEF Holding
  <2>2. PICK X \in SUBSET Texts : X = {}
    OBVIOUS
  <2>3. \A t, u \in X : Name(t) = Name(u) => t = u
    BY <2>2
  <2>4. prepared' = [prepared EXCEPT ![req[i].srv][req[i].pool][req[i].conn] = X]
    BY <1>1, <2>2
  <2> QED
    BY <2>1, <2>3, <2>4, PreparedLemma
<1>5. TypeOK'
  BY <1>1, <1>2, <1>3, <1>4 DEF TypeOK, OnePerConn, NamesApart
<1> QED
  BY <1>1, <1>3, <1>5 DEF CacheInv

\* A replica applies a commit.
LEMMA ReplicateStep ==
  ASSUME TypeOK, ConnInv, CacheInv, NEW r \in ToSet(Replicas), Replicate(r)
  PROVE  TypeOK' /\ ConnInv' /\ CacheInv'
<1>1. /\ applied' = [applied EXCEPT ![r] = @ + 1] /\ applied[r] < Len(log)
      /\ UNCHANGED <<log, marks, readIndex, cache, prepared, sent, req, faults>>
  BY DEF Replicate
<1>2. applied[r] + 1 \in 0 .. Len(log)
  BY <1>1, RequestTypes DEF TypeOK
<1>3. applied' \in [ToSet(Replicas) -> 0 .. Len(log')]
  BY <1>1, <1>2 DEF TypeOK
<1>4. TypeOK'
  BY <1>1, <1>3 DEF TypeOK
<1> QED
  BY <1>1, <1>4 DEF ConnInv, CacheInv

\* The window of a user ends.
LEMMA ExpireStep ==
  ASSUME TypeOK, ConnInv, CacheInv, NEW s \in Servers, NEW u \in Users, Expire(s, u)
  PROVE  TypeOK' /\ ConnInv' /\ CacheInv'
<1>1. /\ marks' = [marks EXCEPT ![s][u] = 0]
      /\ UNCHANGED <<log, applied, readIndex, cache, prepared, sent, req, faults>>
  BY DEF Expire, Unmarked
<1>2. 0 \in 0 .. Len(log)
  BY RequestTypes
<1>3. marks' \in [Servers -> [Users -> 0 .. Len(log')]]
  <2>1. marks \in [Servers -> [Users -> 0 .. Len(log)]]
    BY DEF TypeOK
  <2>2. [marks[s] EXCEPT ![u] = 0] \in [Users -> 0 .. Len(log)]
    BY <1>2, <2>1
  <2>3. marks' = [marks EXCEPT ![s] = [marks[s] EXCEPT ![u] = 0]]
    BY <1>1
  <2> QED
    BY <1>1, <2>1, <2>2, <2>3
<1>4. TypeOK'
  BY <1>1, <1>3 DEF TypeOK
<1> QED
  BY <1>1, <1>4 DEF ConnInv, CacheInv

\* Initially there are no requests and no commits.
LEMMA ConnInit ==
  Init => TypeOK /\ ConnInv /\ CacheInv
<1> SUFFICES ASSUME Init PROVE TypeOK /\ ConnInv /\ CacheInv
  OBVIOUS
<1>1. /\ log = <<>> /\ req = <<>> /\ Len(log) = 0 /\ Len(req) = 0
      /\ DOMAIN req = {} /\ DOMAIN log = {} /\ faults = 0
  BY DEF Init
<1>2. MaxRequests \in Nat /\ MaxFaults \in Nat /\ MaxCached \in Nat
  BY ConnectionsAssumption
<1>3. log \in Seq(Users) /\ req \in Seq(Request) /\ faults \in 0 .. MaxFaults
  BY <1>1, <1>2
<1>4. /\ applied \in [ToSet(Replicas) -> 0 .. Len(log)]
      /\ marks \in [Servers -> [Users -> 0 .. Len(log)]]
      /\ readIndex \in [Servers -> Nat]
  BY <1>1 DEF Init, Unmarked
<1>5. prepared \in [Servers -> [Pools -> [Conns -> SUBSET Texts]]] /\ NamesApart
  BY DEF Init, NamesApart
<1>6. cache \in [Servers -> Seq(Texts)] /\ sent \in [Servers -> Seq(Texts)]
  BY DEF Init
<1>7. ConnInv
  <2>1. Replicas # <<>> => \A s \in Servers : readIndex[s] < Len(Replicas)
    BY ReplicaLemma DEF Init
  <2>2. \A n \in 1 .. Len(log) : FALSE
    BY <1>1
  <2> QED
    BY <1>1, <1>2, <2>1, <2>2 DEF ConnInv
<1>8. CacheInv
  <2> SUFFICES ASSUME NEW s \in Servers
               PROVE  Recency(cache[s], [t \in Texts |-> LastIn(sent[s], t)])
    BY DEF CacheInv
  <2> DEFINE f == [t \in Texts |-> LastIn(sent[s], t)]
  <2>1. cache[s] = <<>> /\ sent[s] = <<>>
    BY DEF Init
  <2>2. \A t : LastIn(<<>>, t) \in 0 .. Len(<<>>)
    <3>1. <<>> \in Seq(Texts)
      OBVIOUS
    <3> QED
      BY <3>1, LastInLemma
  <2>3. \A t \in Texts : ~(f[t] > 0)
    <3>1. \A t : LastIn(<<>>, t) = 0
      BY <2>2
    <3> QED
      BY <2>1, <3>1
  <2>4. DOMAIN cache[s] = {} /\ Len(cache[s]) = 0
    BY <2>1
  <2> HIDE DEF f
  <2>5. Recency(cache[s], f)
    BY <1>2, <2>3, <2>4 DEF Recency
  <2> QED
    BY <2>5 DEF f
<1> QED
  BY <1>1, <1>3, <1>4, <1>5, <1>6, <1>7, <1>8 DEF TypeOK, NamesApart

\* Every step keeps the types, what is held and the order of the caches.
LEMMA ConnNext ==
  TypeOK /\ ConnInv /\ CacheInv /\ [Next]_vars => TypeOK' /\ ConnInv' /\ CacheInv'
<1> SUFFICES ASSUME TypeOK, ConnInv, CacheInv, [Next]_vars
             PROVE  TypeOK' /\ ConnInv' /\ CacheInv'
  OBVIOUS
<1>1. ASSUME NEW s \in Servers, NEW u \in Users, NEW k \in Kinds, NEW t \in Texts,
             Begin(s, u, k, t)
      PROVE  TypeOK' /\ ConnInv' /\ CacheInv'
  BY <1>1, BeginStep
<1>2. ASSUME NEW i \in DOMAIN req, Step(i) \/ Reject(i) \/ LoseCommit(i)
      PROVE  TypeOK' /\ ConnInv' /\ CacheInv'
  <2>1. CASE Connect(i)
    BY <2>1, ConnectStep
  <2>2. CASE Execute(i)
    BY <2>2, ExecuteStep
  <2>3. CASE NameTaken(i) \/ Reject(i)
    BY <2>3, FailStep
  <2>4. CASE Commit(i)
    BY <2>4, CommitStep
  <2>5. CASE Finish(i)
    BY <2>5, FinishStep
  <2>6. CASE LoseCommit(i)
    BY <2>6, LoseCommitStep
  <2> QED
    BY <1>2, <2>1, <2>2, <2>3, <2>4, <2>5, <2>6 DEF Step
<1>3. ASSUME NEW r \in ToSet(Replicas), Replicate(r)
      PROVE  TypeOK' /\ ConnInv' /\ CacheInv'
  BY <1>3, ReplicateStep
<1>4. ASSUME NEW s \in Servers, NEW u \in Users, Expire(s, u)
      PROVE  TypeOK' /\ ConnInv' /\ CacheInv'
  BY <1>4, ExpireStep
<1>5. CASE UNCHANGED vars
  BY <1>5 DEF vars, TypeOK, ConnInv, CacheInv
<1> QED
  BY <1>1, <1>2, <1>3, <1>4, <1>5 DEF Next

\* Type correctness: requests, pools, connections, caches and the tracker are what
\* they are said to be; no two requests ever share a connection and no connection has
\* two texts of one name prepared (pool.connect, queryWithSession and prepare of
\* connections/manager.ts and prepared-statements.ts), on every server.
THEOREM TypeCorrect == Spec => []TypeOK
<1>1. TypeOK /\ ConnInv /\ CacheInv /\ [Next]_vars => (TypeOK /\ ConnInv /\ CacheInv)'
  BY ConnNext
<1> QED
  BY <1>1, ConnInit, PTL DEF Spec

-----------------------------------------------------------------------------
(* The statement cache.                                                    *)

\* The cache of statement names is what an LRU cache of MaxCached entries promises,
\* for any texts and any capacity: a text is in it exactly if it was sent and, since
\* it was last sent, fewer than MaxCached others were (prepared-statements.ts:49-69).
THEOREM CacheKeepsTheMostRecent == Spec => []MostRecent
<1>1. ASSUME TypeOK, CacheInv PROVE MostRecent
  <2> SUFFICES ASSUME NEW s \in Servers, NEW t \in Texts
               PROVE  /\ t \in ToSet(cache[s]) <=>
                           /\ LastSent(s, t) > 0
                           /\ Cardinality({u \in Texts : LastSent(s, u) > LastSent(s, t)})
                                < MaxCached
                      /\ t \in ToSet(cache[s]) => LastSent(s, Head(cache[s])) <= LastSent(s, t)
    <3>1. \A s \in Servers : ToSet(cache[s]) \subseteq Texts
      BY <1>1, ToSetLemma, ElementOfSeq DEF TypeOK
    <3> QED
      BY <3>1 DEF MostRecent
  <2> DEFINE f == [u \in Texts |-> LastIn(sent[s], u)]
             n == Len(sent[s])
  <2>1. sent[s] \in Seq(Texts) /\ cache[s] \in Seq(Texts)
    BY <1>1 DEF TypeOK
  <2>2. n \in Nat /\ \A u \in Texts : /\ f[u] \in 0 .. n
                                      /\ f[u] > 0 => sent[s][f[u]] = u
    BY <2>1, LenProperties, LastInLemma
  <2>3. f \in [Texts -> Nat] /\ \A u \in Texts : f[u] <= n
    BY <2>2
  <2>4. \A u, w \in Texts : f[u] > 0 /\ f[u] = f[w] => u = w
    BY <2>2
  <2>5. Recency(cache[s], f)
    BY <1>1 DEF CacheInv
  <2>6. \A u \in Texts : LastSent(s, u) = f[u]
    BY DEF LastSent, LastIn
  <2>7. {u \in Texts : LastSent(s, u) > LastSent(s, t)} = {u \in Texts : f[u] > f[t]}
    BY <2>6
  <2> HIDE DEF f, n
  <2>8. IsFiniteSet({u \in Texts : f[u] > 0})
    BY <2>2, <2>3, <2>4, FinitelySent
  <2>9. t \in ToSet(cache[s]) <=>
          f[t] > 0 /\ Cardinality({u \in Texts : f[u] > f[t]}) < MaxCached
    BY <2>1, <2>3, <2>5, <2>8, RecencyMeans
  <2>10. t \in ToSet(cache[s]) => f[Head(cache[s])] <= f[t] /\ Head(cache[s]) \in Texts
    <3> SUFFICES ASSUME t \in ToSet(cache[s])
                 PROVE  f[Head(cache[s])] <= f[t] /\ Head(cache[s]) \in Texts
      OBVIOUS
    <3>1. PICK i \in 1 .. Len(cache[s]) : cache[s][i] = t
      BY <2>1, ToSetLemma
    <3>2. Len(cache[s]) \in Nat /\ Len(cache[s]) >= 1 /\ DOMAIN cache[s] = 1 .. Len(cache[s])
      BY <2>1, <3>1, LenProperties
    <3>3. Head(cache[s]) = cache[s][1] /\ cache[s][1] \in Texts
      BY <2>1, <3>2, ElementOfSeq
    <3>4. i = 1 \/ f[cache[s][1]] < f[t]
      BY <2>5, <3>1, <3>2 DEF Recency
    <3> QED
      BY <2>3, <3>1, <3>3, <3>4
  <2> QED
    BY <2>6, <2>7, <2>9, <2>10
<1>2. TypeOK /\ ConnInv /\ CacheInv /\ [Next]_vars => (TypeOK /\ ConnInv /\ CacheInv)'
  BY ConnNext
<1>3. TypeOK /\ ConnInv /\ CacheInv => MostRecent
  BY <1>1
<1> QED
  BY <1>2, <1>3, ConnInit, PTL DEF Spec

-----------------------------------------------------------------------------
(* Read-your-writes.  From the answer to a mutation on, its user is marked *)
(* for it or every replica has it; so a query that comes later is sent     *)
(* where the mutation is, and stays there.                                 *)

Executed == {"ran", "committed", "done"}

\* Request i is a query of a user the tracker knows, j a mutation of the same user on
\* the same server, answered before i came.
Acknowledged(i, j) ==
  /\ j \in req[i].after
  /\ req[i].kind = "query" /\ req[j].kind = "mutation"
  /\ req[i].srv = req[j].srv /\ req[i].user = req[j].user /\ req[i].user \notin Anonymous

\* The database of a pool has the first n commits for ever.
Reached(pool, n) == pool = Primary \/ (pool \in ToSet(Replicas) /\ applied[pool] >= n)

AfterAnswered == \A i \in DOMAIN req : \A j \in req[i].after :
  j \in DOMAIN req /\ req[j].pc = "done"

MarkedOrReached == \A j \in DOMAIN req :
  req[j].kind = "mutation" /\ req[j].user \notin Anonymous /\ req[j].pc = "done" =>
    \/ marks[req[j].srv][req[j].user] >= req[j].version
    \/ \A r \in ToSet(Replicas) : applied[r] >= req[j].version

SentWhereItIs == \A i, j \in DOMAIN req :
  Acknowledged(i, j) => Reached(req[i].pool, req[j].version)

SeenByLater == \A i, j \in DOMAIN req :
  Acknowledged(i, j) /\ req[i].pc \in Executed => req[i].version >= req[j].version

RywInv == AfterAnswered /\ MarkedOrReached /\ SentWhereItIs /\ SeenByLater

\* A step of request k that is not answered yet.
LEMMA RywStep ==
  ASSUME TypeOK, RywInv, NEW k \in DOMAIN req, NEW q, Becomes(k, q),
         req[k].pc # "done", applied' = applied,
         \A s \in Servers, u \in Users : marks'[s][u] \in Nat /\ marks'[s][u] >= marks[s][u],
         q.kind = "mutation" /\ q.user \notin Anonymous /\ q.pc = "done" =>
           marks'[q.srv][q.user] >= q.version,
         q.kind = "query" /\ q.pc \in Executed =>
           \/ q.version = VersionAt(q.pool)
           \/ q.version = req[k].version /\ req[k].pc \in Executed,
         \A j \in DOMAIN req : req[j].version <= Len(log)
  PROVE  RywInv'
<1>1. /\ DOMAIN req' = DOMAIN req /\ req'[k] = q
      /\ \A j \in DOMAIN req : j # k => req'[j] = req[j]
  BY ReplaceRequest DEF Becomes
<1>2. /\ q.srv = req[k].srv /\ q.user = req[k].user /\ q.kind = req[k].kind
      /\ q.pool = req[k].pool /\ q.after = req[k].after
  BY DEF Becomes
<1>3. \A i \in DOMAIN req : \A j \in req[i].after : j \in DOMAIN req /\ j # k /\ req'[j] = req[j]
  BY <1>1 DEF RywInv, AfterAnswered
<1>4. \A i \in DOMAIN req : /\ req'[i].after = req[i].after /\ req'[i].kind = req[i].kind
                            /\ req'[i].srv = req[i].srv /\ req'[i].user = req[i].user
                            /\ req'[i].pool = req[i].pool
  BY <1>1, <1>2
<1>5. AfterAnswered'
  BY <1>1, <1>3, <1>4 DEF RywInv, AfterAnswered
<1>6. \A i, j \in DOMAIN req : Acknowledged(i, j)' =>
        Acknowledged(i, j) /\ j # k /\ req'[j] = req[j]
  BY <1>3, <1>4 DEF Acknowledged
<1>7. MarkedOrReached'
  <2> SUFFICES ASSUME NEW j \in DOMAIN req,
                      req'[j].kind = "mutation", req'[j].user \notin Anonymous, req'[j].pc = "done"
               PROVE  \/ marks'[req'[j].srv][req'[j].user] >= req'[j].version
                      \/ \A r \in ToSet(Replicas) : applied'[r] >= req'[j].version
    BY <1>1 DEF MarkedOrReached
  <2>1. CASE j = k
    BY <1>1, <2>1
  <2>2. CASE j # k
    <3> DEFINE m == marks[req[j].srv][req[j].user]
               w == marks'[req[j].srv][req[j].user]
    <3>1. /\ req[j].srv \in Servers /\ req[j].user \in Users /\ req[j].version \in Nat
          /\ m \in Nat
      <4>1. /\ req[j].srv \in Servers /\ req[j].user \in Users /\ req[j].version \in Nat
            /\ marks \in [Servers -> [Users -> 0 .. Len(log)]]
        BY RequestTypes DEF TypeOK
      <4>2. m \in 0 .. Len(log)
        BY <4>1
      <4> QED
        BY <4>1, <4>2, RequestTypes
    <3>2. w \in Nat /\ w >= m /\ req'[j] = req[j]
      BY <1>1, <2>2, <3>1
    <3>3. m >= req[j].version \/ \A r \in ToSet(Replicas) : applied[r] >= req[j].version
      BY <3>2 DEF RywInv, MarkedOrReached
    <3> HIDE DEF m, w
    <3>4. m >= req[j].version => w >= req[j].version
      BY <3>1, <3>2
    <3> QED
      BY <3>2, <3>3, <3>4 DEF w
  <2> QED
    BY <2>1, <2>2
<1>8. SentWhereItIs'
  <2> SUFFICES ASSUME NEW i \in DOMAIN req, NEW j \in DOMAIN req, Acknowledged(i, j)'
               PROVE  Reached(req[i].pool, req[j].version)'
    BY <1>1 DEF SentWhereItIs
  <2>1. Reached(req[i].pool, req[j].version) /\ req'[j] = req[j] /\ req'[i].pool = req[i].pool
    BY <1>4, <1>6 DEF RywInv, SentWhereItIs
  <2> QED
    BY <2>1 DEF Reached
<1>9. SeenByLater'
  <2> SUFFICES ASSUME NEW i \in DOMAIN req, NEW j \in DOMAIN req,
                      Acknowledged(i, j)', req'[i].pc \in Executed
               PROVE  req'[i].version >= req'[j].version
    BY <1>1 DEF SeenByLater
  <2>1. Acknowledged(i, j) /\ req'[j] = req[j]
    BY <1>6
  <2>2. CASE i # k
    BY <1>1, <2>1, <2>2 DEF RywInv, SeenByLater
  <2>3. CASE i = k /\ q.version = req[k].version /\ req[k].pc \in Executed
    BY <1>1, <2>1, <2>3 DEF RywInv, SeenByLater
  <2>4. CASE i = k /\ q.version = VersionAt(q.pool)
    <3>1. Reached(q.pool, req[j].version) /\ req'[i].version = VersionAt(q.pool)
      BY <1>1, <1>2, <2>1, <2>4 DEF RywInv, SentWhereItIs
    <3>2. req[j].version <= Len(log) /\ req[j].version \in Nat /\ Len(log) \in Nat
      BY RequestTypes
    <3>3. q.pool # Primary => VersionAt(q.pool) >= req[j].version
      BY <3>1 DEF Reached, VersionAt
    <3>4. q.pool = Primary => VersionAt(q.pool) >= req[j].version
      BY <3>2 DEF VersionAt
    <3> QED
      BY <2>1, <3>1, <3>3, <3>4
  <2>5. i = k => req[k].kind = "query"
    BY <2>1 DEF Acknowledged
  <2> QED
    BY <1>1, <1>2, <2>2, <2>3, <2>4, <2>5
<1> QED
  BY <1>5, <1>7, <1>8, <1>9 DEF RywInv

\* A query that comes is sent to the primary if its user is marked; if not, every
\* replica has the user's answered mutations.
LEMMA RywBegin ==
  ASSUME TypeOK, ConnInv, RywInv,
         NEW s \in Servers, NEW u \in Users, NEW k \in Kinds, NEW t \in Texts, Begin(s, u, k, t)
  PROVE  RywInv'
<1> DEFINE a == {i \in DOMAIN req : req[i].pc = "done"}
           q == [srv |-> s, user |-> u, kind |-> k, text |-> t, pc |-> "waiting",
                 pool |-> SelectPool(s, k, u), conn |-> 0, version |-> 0, after |-> a]
           n == Len(req) + 1
<1>1. /\ req \in Seq(Request) /\ DOMAIN req = 1 .. Len(req) /\ Len(req) \in Nat
      /\ n \notin DOMAIN req
  BY RequestTypes
<1>2. q.srv = s /\ q.user = u /\ q.kind = k /\ q.pool = SelectPool(s, k, u) /\ q.pc = "waiting"
      /\ q.after = a
  OBVIOUS
<1>3. req' = Append(req, q) /\ UNCHANGED <<applied, marks>>
  BY DEF Begin
<1> HIDE DEF q
<1>4. /\ DOMAIN req' = DOMAIN req \cup {n} /\ req'[n] = q
      /\ \A i \in DOMAIN req : req'[i] = req[i]
  <2>1. /\ DOMAIN req' = 1 .. Len(req) + 1 /\ req'[Len(req) + 1] = q
        /\ \A i \in 1 .. Len(req) : req'[i] = req[i]
    BY <1>1, <1>3
  <2> QED
    BY <1>1, <2>1
<1> HIDE DEF n
<1>5. AfterAnswered'
  BY <1>1, <1>2, <1>4 DEF RywInv, AfterAnswered
<1>6. MarkedOrReached'
  BY <1>1, <1>2, <1>3, <1>4 DEF RywInv, MarkedOrReached
<1>7. \A i, j \in DOMAIN req' : Acknowledged(i, j)' => j \in DOMAIN req /\ req'[j] = req[j]
  BY <1>1, <1>2, <1>4 DEF RywInv, AfterAnswered, Acknowledged
<1>8. \A i \in DOMAIN req : \A j \in DOMAIN req : Acknowledged(i, j)' => Acknowledged(i, j)
  BY <1>4 DEF Acknowledged
<1>9. SentWhereItIs'
  <2> SUFFICES ASSUME NEW i \in DOMAIN req', NEW j \in DOMAIN req, Acknowledged(i, j)'
               PROVE  Reached(req[i].pool, req[j].version)'
    BY <1>7 DEF SentWhereItIs
  <2>1. CASE i \in DOMAIN req
    BY <1>3, <1>4, <1>8, <2>1 DEF RywInv, SentWhereItIs, Reached
  <2>2. CASE i = n
    <3>1. /\ k = "query" /\ req[j].kind = "mutation" /\ req[j].srv = s /\ req[j].user = u
          /\ u \notin Anonymous /\ req[j].pc = "done" /\ req'[j] = req[j]
          /\ req'[i].pool = SelectPool(s, k, u)
      BY <1>2, <1>4, <2>2 DEF Acknowledged
    <3>2. CASE RoundRobin(s, k, u)
      <4>1. marks[s][u] = 0
        BY <3>1, <3>2 DEF RoundRobin, ReadsPrimary, Unmarked
      <4>2. SelectPool(s, k, u) \in ToSet(Replicas)
        BY <3>2, SelectLemma
      <4>3. applied[SelectPool(s, k, u)] \in Nat /\ req[j].version \in Nat
        <5>1. applied \in [ToSet(Replicas) -> 0 .. Len(log)] /\ Len(log) \in Nat
              /\ req[j].version \in 0 .. MaxRequests /\ MaxRequests \in Nat
          BY RequestTypes, ConnectionsAssumption DEF TypeOK
        <5>2. applied[SelectPool(s, k, u)] \in 0 .. Len(log)
          BY <4>2, <5>1
        <5> QED
          BY <5>1, <5>2
      <4>4. 0 >= req[j].version \/ applied[SelectPool(s, k, u)] >= req[j].version
        BY <3>1, <4>1, <4>2 DEF RywInv, MarkedOrReached
      <4>5. applied[SelectPool(s, k, u)] >= req[j].version
        BY <4>3, <4>4
      <4> QED
        BY <1>3, <3>1, <4>2, <4>5 DEF Reached
    <3>3. CASE ~RoundRobin(s, k, u)
      BY <3>1, <3>3, SelectLemma DEF Reached
    <3> QED
      BY <3>2, <3>3
  <2> QED
    BY <1>4, <2>1, <2>2
<1>10. SeenByLater'
  <2> SUFFICES ASSUME NEW i \in DOMAIN req', NEW j \in DOMAIN req,
                      Acknowledged(i, j)', req'[i].pc \in Executed
               PROVE  req'[i].version >= req'[j].version
    BY <1>7 DEF SeenByLater
  <2>1. i # n
    BY <1>2, <1>4 DEF Executed
  <2> QED
    BY <1>4, <1>8, <2>1 DEF RywInv, SeenByLater
<1> QED
  BY <1>5, <1>6, <1>9, <1>10 DEF RywInv

\* A step of one request keeps every user's reads where the user's writes are.
LEMMA RywRequest ==
  ASSUME TypeOK, ConnInv, RywInv, NEW i \in DOMAIN req, Step(i) \/ Reject(i) \/ LoseCommit(i)
  PROVE  RywInv'
<1>1. \A j \in DOMAIN req : req[j].version <= Len(log)
  BY DEF ConnInv
<1>2. \A s \in Servers, u \in Users : marks[s][u] \in Nat
  <2>1. marks \in [Servers -> [Users -> 0 .. Len(log)]] /\ Len(log) \in Nat
    BY RequestTypes DEF TypeOK
  <2>2. \A s \in Servers, u \in Users : marks[s][u] \in 0 .. Len(log)
    BY <2>1
  <2> QED
    BY <2>1, <2>2
<1>3. CASE Connect(i)
  <2>1. PICK c \in Conns : req' = WithConn(i, "open", c)
    BY <1>3 DEF Connect, WithConn
  <2>2. c \in 0 .. PoolSize /\ "open" \in States
    BY ConnectionsAssumption DEF Conns, States
  <2>3. PICK q : Becomes(i, q) /\ q.pc = "open"
    BY <2>1, <2>2, Holds
  <2>4. req[i].pc = "waiting" /\ applied' = applied /\ marks' = marks
    BY <1>3 DEF Connect
  <2>5. q.pc # "done" /\ q.pc \notin Executed /\ req[i].pc # "done"
    BY <2>3, <2>4 DEF Executed
  <2> QED
    BY <1>1, <1>2, <2>3, <2>4, <2>5, RywStep
<1>4. CASE Execute(i)
  <2> DEFINE v == IF req[i].kind \in ReadKinds THEN VersionAt(req[i].pool) ELSE 0
  <2>1. req[i].pc = "open" /\ applied' = applied /\ marks' = marks
        /\ req' = WithVersion(i, "ran", v)
    BY <1>4 DEF Execute, WithVersion
  <2>2. v \in 0 .. MaxRequests
    <3>1. Len(log) \in Nat /\ Len(log) + 1 <= MaxRequests /\ MaxRequests \in Nat
      BY <2>1, RequestTypes, CommitsAreFew, ConnectionsAssumption DEF Ended
    <3>2. VersionAt(req[i].pool) \in 0 .. Len(log)
      BY RequestTypes, VersionLemma
    <3>3. v \in 0 .. Len(log)
      BY <3>1, <3>2
    <3> HIDE DEF v
    <3> QED
      BY <3>1, <3>3
  <2>3. req[i].kind = "query" => v = VersionAt(req[i].pool)
    BY DEF ReadKinds
  <2> HIDE DEF v
  <2>4. PICK q : Becomes(i, q) /\ q.pc = "ran" /\ q.version = v
    <3>1. "ran" \in States
      BY DEF States
    <3> QED
      BY <2>1, <2>2, <3>1, Sees
  <2>5. q.kind = "query" => q.version = VersionAt(q.pool)
    BY <2>3, <2>4 DEF Becomes
  <2>6. q.pc # "done" /\ req[i].pc # "done"
    BY <2>1, <2>4
  <2> QED
    BY <1>1, <1>2, <2>1, <2>4, <2>5, <2>6, RywStep
<1>5. CASE NameTaken(i) \/ Reject(i) \/ LoseCommit(i)
  <2>1. /\ req' = Answer(i, "failed") /\ log' = log /\ readIndex' = readIndex
        /\ applied' = applied /\ marks' = marks /\ req[i].pc # "done"
    BY <1>5 DEF NameTaken, Reject, LoseCommit
  <2>2. PICK q : Becomes(i, q) /\ q.pc = "failed"
    BY <2>1, AnswerStep
  <2>3. q.pc # "done" /\ q.pc \notin Executed
    BY <2>2 DEF Executed
  <2> QED
    BY <1>1, <1>2, <2>1, <2>2, <2>3, RywStep
<1>6. CASE Commit(i)
  <2>1. req[i].pc = "ran" /\ applied' = applied /\ marks' = marks /\ "committed" \in States
    BY <1>6 DEF Commit, States
  <2>2. PICK q : /\ Becomes(i, q) /\ q.pc = "committed"
                 /\ q.kind = "query" => q.version = req[i].version
    <3>1. CASE req[i].kind \in WriteKinds
      <4>1. req' = WithVersion(i, "committed", Len(log) + 1)
        BY <1>6, <3>1 DEF Commit, WithVersion
      <4>2. Len(log) \in Nat /\ Len(log) + 1 <= MaxRequests /\ MaxRequests \in Nat
        BY <2>1, RequestTypes, CommitsAreFew, ConnectionsAssumption DEF Ended
      <4>3. PICK v \in Nat : v = Len(log) + 1
        BY <4>2
      <4>4. v \in 0 .. MaxRequests
        BY <4>2, <4>3
      <4>5. PICK q : Becomes(i, q) /\ q.pc = "committed"
        BY <2>1, <4>1, <4>3, <4>4, Sees
      <4>6. q.kind # "query"
        BY <3>1, <4>5 DEF Becomes, WriteKinds
      <4> QED
        BY <4>5, <4>6
    <3>2. CASE req[i].kind \notin WriteKinds
      <4>1. req' = WithPc(i, "committed")
        BY <1>6, <3>2 DEF Commit, WithPc
      <4> QED
        BY <2>1, <4>1, Moves
    <3> QED
      BY <3>1, <3>2
  <2>3. q.pc # "done" /\ req[i].pc \in Executed /\ req[i].pc # "done"
    BY <2>1, <2>2 DEF Executed
  <2> QED
    BY <1>1, <1>2, <2>1, <2>2, <2>3, RywStep
<1>7. CASE Finish(i)
  <2>1. /\ req[i].pc = "committed" /\ req' = Answer(i, "done") /\ marks' = Marked(i)
        /\ UNCHANGED <<log, applied, readIndex>>
    BY <1>7 DEF Finish
  <2>2. PICK q : Becomes(i, q) /\ q.pc = "done" /\ q.version = req[i].version
    BY <2>1, AnswerStep
  <2>3. ASSUME NEW s \in Servers, NEW u \in Users
        PROVE  marks'[s][u] \in Nat /\ marks'[s][u] >= marks[s][u]
    <3>1. \/ marks'[s][u] = marks[s][u]
          \/ marks'[s][u] = req[i].version /\ req[i].version >= marks[s][u]
      BY <2>1, MarkedLemma
    <3>2. marks[s][u] \in Nat /\ req[i].version \in Nat
      BY <1>2, RequestTypes
    <3> QED
      BY <3>1, <3>2
  <2>4. q.kind = "mutation" /\ q.user \notin Anonymous => marks'[q.srv][q.user] >= q.version
    BY <2>1, <2>2, MarkedLemma DEF Becomes
  <2>5. req[i].pc \in Executed /\ req[i].pc # "done"
    BY <2>1 DEF Executed
  <2> QED
    BY <1>1, <2>1, <2>2, <2>3, <2>4, <2>5, RywStep
<1> QED
  BY <1>3, <1>4, <1>5, <1>6, <1>7 DEF Step

\* A replica that applies a commit has what it had.
LEMMA RywReplicate ==
  ASSUME TypeOK, ConnInv, RywInv, NEW r \in ToSet(Replicas), Replicate(r)
  PROVE  RywInv'
<1>1. applied' = [applied EXCEPT ![r] = @ + 1] /\ req' = req /\ marks' = marks
  BY DEF Replicate
<1>2. \A x \in ToSet(Replicas) : applied[x] \in Nat /\ applied'[x] \in Nat /\ applied'[x] >= applied[x]
  <2>1. applied \in [ToSet(Replicas) -> 0 .. Len(log)] /\ Len(log) \in Nat
    BY RequestTypes DEF TypeOK
  <2>2. \A x \in ToSet(Replicas) : applied[x] \in Nat
    BY <2>1
  <2>3. \A x \in ToSet(Replicas) : applied'[x] = IF x = r THEN applied[x] + 1 ELSE applied[x]
    BY <1>1, <2>1
  <2> QED
    BY <2>2, <2>3
<1>3. \A x \in ToSet(Replicas), n \in Nat : applied[x] >= n => applied'[x] >= n
  BY <1>2
<1>4. \A j \in DOMAIN req : req[j].version \in Nat
  BY RequestTypes
<1>5. MarkedOrReached'
  BY <1>1, <1>3, <1>4 DEF RywInv, MarkedOrReached
<1>6. SentWhereItIs'
  <2> SUFFICES ASSUME NEW i \in DOMAIN req, NEW j \in DOMAIN req, Acknowledged(i, j)
               PROVE  Reached(req[i].pool, req[j].version)'
    BY <1>1 DEF SentWhereItIs, Acknowledged
  <2>1. Reached(req[i].pool, req[j].version)
    BY DEF RywInv, SentWhereItIs
  <2> QED
    BY <1>1, <1>3, <1>4, <2>1 DEF Reached
<1>7. AfterAnswered' /\ SeenByLater'
  BY <1>1 DEF RywInv, AfterAnswered, SeenByLater, Acknowledged
<1> QED
  BY <1>5, <1>6, <1>7 DEF RywInv

\* A window ends when every replica has what the user is marked for.
LEMMA RywExpire ==
  ASSUME TypeOK, ConnInv, RywInv, LagWithinWindow,
         NEW s \in Servers, NEW u \in Users, Expire(s, u)
  PROVE  RywInv'
<1>1. /\ marks' = [marks EXCEPT ![s][u] = Unmarked] /\ UNCHANGED <<req, applied>>
      /\ \A r \in ToSet(Replicas) : applied[r] >= marks[s][u]
  BY DEF Expire
<1>2. MarkedOrReached'
  <2> SUFFICES ASSUME NEW j \in DOMAIN req, req[j].kind = "mutation",
                      req[j].user \notin Anonymous, req[j].pc = "done"
               PROVE  \/ marks'[req[j].srv][req[j].user] >= req[j].version
                      \/ \A r \in ToSet(Replicas) : applied[r] >= req[j].version
    BY <1>1 DEF MarkedOrReached
  <2>1. /\ req[j].srv \in Servers /\ req[j].user \in Users /\ req[j].version \in Nat
        /\ marks \in [Servers -> [Users -> 0 .. Len(log)]] /\ Len(log) \in Nat
        /\ applied \in [ToSet(Replicas) -> 0 .. Len(log)]
    <3>1. req[j].version \in 0 .. MaxRequests /\ MaxRequests \in Nat
      BY RequestTypes, ConnectionsAssumption
    <3>2. req[j].version \in Nat
      BY <3>1
    <3> QED
      BY <3>2, RequestTypes DEF TypeOK
  <2>2. \/ marks[req[j].srv][req[j].user] >= req[j].version
        \/ \A r \in ToSet(Replicas) : applied[r] >= req[j].version
    BY DEF RywInv, MarkedOrReached
  <2>3. CASE req[j].srv = s /\ req[j].user = u
    <3>1. marks[s][u] \in 0 .. Len(log) /\ \A r \in ToSet(Replicas) : applied[r] \in 0 .. Len(log)
      BY <2>1
    <3>2. \A a, b, c \in Nat : a >= b /\ b >= c => a >= c
      OBVIOUS
    <3>3. marks[s][u] \in Nat /\ \A r \in ToSet(Replicas) : applied[r] \in Nat
      BY <2>1, <3>1
    <3> QED
      BY <1>1, <2>1, <2>2, <2>3, <3>2, <3>3
  <2>4. CASE ~(req[j].srv = s /\ req[j].user = u)
    <3>1. marks'[req[j].srv][req[j].user] = marks[req[j].srv][req[j].user]
      BY <1>1, <2>1, <2>4
    <3> QED
      BY <2>2, <3>1
  <2> QED
    BY <2>3, <2>4
<1>3. AfterAnswered' /\ SeenByLater' /\ SentWhereItIs'
  BY <1>1 DEF RywInv, AfterAnswered, SeenByLater, SentWhereItIs, Acknowledged, Reached
<1> QED
  BY <1>2, <1>3 DEF RywInv

\* Read-your-writes, for any servers, users, replicas, pools and requests: a query sees
\* every mutation the same server had acknowledged to the same user before the query
\* came, on whatever database it runs (consistency.ts:4-7).  The assumption is what
\* window_seconds is configured for: no replica is behind for longer than the window
\* (connections/consistency.ts, shouldReadFromPrimary and markMutation).
THEOREM ReadsSeeOwnWrites ==
  ASSUME LagWithinWindow
  PROVE  Spec => []ReadYourWrites
<1> DEFINE I == TypeOK /\ ConnInv /\ CacheInv /\ RywInv
<1>1. Init => I
  <2> SUFFICES ASSUME Init PROVE RywInv
    BY ConnInit
  <2>1. DOMAIN req = {}
    BY DEF Init
  <2> QED
    BY <2>1 DEF RywInv, AfterAnswered, MarkedOrReached, SentWhereItIs, SeenByLater
<1>2. I /\ [Next]_vars => I'
  <2> SUFFICES ASSUME I, [Next]_vars PROVE RywInv'
    BY ConnNext
  <2>1. ASSUME NEW s \in Servers, NEW u \in Users, NEW k \in Kinds, NEW t \in Texts,
               Begin(s, u, k, t)
        PROVE  RywInv'
    BY <2>1, RywBegin
  <2>2. ASSUME NEW i \in DOMAIN req, Step(i) \/ Reject(i) \/ LoseCommit(i)
        PROVE  RywInv'
    BY <2>2, RywRequest
  <2>3. ASSUME NEW r \in ToSet(Replicas), Replicate(r)
        PROVE  RywInv'
    BY <2>3, RywReplicate
  <2>4. ASSUME NEW s \in Servers, NEW u \in Users, Expire(s, u)
        PROVE  RywInv'
    BY <2>4, RywExpire
  <2>5. CASE UNCHANGED vars
    BY <2>5 DEF vars, RywInv, AfterAnswered, MarkedOrReached, SentWhereItIs, SeenByLater,
                Acknowledged, Reached
  <2> QED
    BY <2>1, <2>2, <2>3, <2>4, <2>5 DEF Next
<1>3. I => ReadYourWrites
  <2> SUFFICES ASSUME I, NEW i \in DOMAIN req, NEW j \in req[i].after, Acknowledged(i, j),
                      req[i].pc = "done"
               PROVE  req[i].version >= req[j].version
    BY DEF ReadYourWrites, Acknowledged
  <2>1. j \in DOMAIN req
    BY DEF RywInv, AfterAnswered
  <2> QED
    BY <2>1 DEF RywInv, SeenByLater, Executed
<1> QED
  BY <1>1, <1>2, <1>3, PTL DEF Spec
=============================================================================
