---------------------------- MODULE Streams_proofs ----------------------------
(***************************************************************************)
(* Proofs about Streams, for any cursor columns, keys, initial cursor,     *)
(* batch size and bounds, with and without rows that commit out of order,  *)
(* ties and a lagging replica.                                             *)
(***************************************************************************)
EXTENDS Streams, SequenceTheorems, FiniteSetTheorems, WellFoundedInduction, TLAPS

-----------------------------------------------------------------------------
(* The order of cursors.  After is a strict total order on the values of   *)
(* the cursor columns, so a batch has a last row.                          *)

Cursor == [1..Columns -> Int]

\* A set of naturals has a least element.  Inclusion of finite sets is well
\* founded, and so is the order of 1..0, 1..1, 1..2 and so on.
LEMMA LeastNatural ==
  ASSUME NEW S \in SUBSET Nat, S # {}
  PROVE  \E m \in S : \A k \in S : m <= k
<1> DEFINE R == StrictSubsetOrdering(Nat)
           T == {1 .. n : n \in S}
<1>1. IsWellFoundedOn(R, FiniteSubsetsOf(Nat))
  BY FS_StrictSubsetOrderingWellFounded
<1>2. \A n \in S : 1 .. n \in SUBSET Nat /\ IsFiniteSet(1 .. n)
  BY FS_Interval
<1>3. T \subseteq FiniteSubsetsOf(Nat) /\ T # {}
  BY <1>2 DEF FiniteSubsetsOf
<1>4. \E x \in T : \A y \in T : ~ (<<y, x>> \in R)
  <2> HIDE DEF T, R
  <2> QED
    BY <1>1, <1>3, WFMin
<1>5. PICK m \in S : \A k \in S : ~ (<<1 .. k, 1 .. m>> \in R)
  BY <1>4
<1>6. ASSUME NEW k \in S, k < m PROVE FALSE
  <2>1. 1 .. k \subseteq 1 .. m /\ m \in 1 .. m /\ m \notin 1 .. k
    BY <1>6
  <2>2. 1 .. k \in SUBSET Nat /\ 1 .. m \in SUBSET Nat
    BY <1>2
  <2>3. <<1 .. k, 1 .. m>> \in R
    BY <2>1, <2>2 DEF StrictSubsetOrdering
  <2> QED
    BY <1>5, <2>3
<1>7. \A k \in S : m <= k
  BY <1>6
<1> QED
  BY <1>7

\* Two cursors that differ are in an order.
LEMMA AfterTotal ==
  ASSUME NEW a \in Cursor, NEW b \in Cursor
  PROVE  a = b \/ After(a, b) \/ After(b, a)
<1> SUFFICES ASSUME a # b PROVE After(a, b) \/ After(b, a)
  OBVIOUS
<1> USE StreamsAssumption
<1> DEFINE D == {i \in 1 .. Columns : a[i] # b[i]}
<1>1. D # {}
  <2> SUFFICES ASSUME \A i \in 1 .. Columns : a[i] = b[i] PROVE a = b
    OBVIOUS
  <2>1. /\ a = [i \in 1 .. Columns |-> a[i]]
        /\ b = [i \in 1 .. Columns |-> b[i]]
    BY DEF Cursor
  <2> QED
    BY <2>1, Zenon
<1>2. D \in SUBSET Nat
  OBVIOUS
<1>3. PICK m \in D : \A k \in D : m <= k
  <2> HIDE DEF D
  <2> QED
    BY <1>1, <1>2, LeastNatural
<1>4. m \in 1 .. Columns /\ a[m] # b[m] /\ a[m] \in Int /\ b[m] \in Int
  BY DEF Cursor
<1>5. \A j \in 1 .. (m - 1) : a[j] = b[j]
  <2> SUFFICES ASSUME NEW j \in 1 .. (m - 1) PROVE a[j] = b[j]
    OBVIOUS
  <2>1. j \in 1 .. Columns /\ ~ (m <= j)
    BY <1>4
  <2> QED
    BY <1>3, <2>1
<1>6. a[m] > b[m] \/ b[m] > a[m]
  BY <1>4
<1> QED
  BY <1>4, <1>5, <1>6 DEF After

\* A cursor after another one that is after a third is after the third.
LEMMA AfterTransitive ==
  ASSUME NEW a \in Cursor, NEW b \in Cursor, NEW c \in Cursor, After(a, b), After(b, c)
  PROVE  After(a, c)
<1> USE StreamsAssumption
<1>1. PICK i \in 1 .. Columns : (\A l \in 1 .. (i - 1) : a[l] = b[l]) /\ a[i] > b[i]
  BY DEF After
<1>2. PICK j \in 1 .. Columns : (\A l \in 1 .. (j - 1) : b[l] = c[l]) /\ b[j] > c[j]
  BY DEF After
<1>3. \A l \in 1 .. Columns : a[l] \in Int /\ b[l] \in Int /\ c[l] \in Int
  BY DEF Cursor
<1>4. CASE i <= j
  <2>1. \A l \in 1 .. (i - 1) : a[l] = c[l]
    BY <1>1, <1>2, <1>4
  <2>2. a[i] > c[i]
    <3>1. CASE i = j
      BY <1>1, <1>2, <1>3, <3>1
    <3>2. CASE i < j
      <4>1. b[i] = c[i]
        BY <1>2, <3>2
      <4> QED
        BY <1>1, <4>1
    <3> QED
      BY <1>4, <3>1, <3>2
  <2> QED
    BY <2>1, <2>2 DEF After
<1>5. CASE j < i
  <2>1. \A l \in 1 .. (j - 1) : a[l] = c[l]
    BY <1>1, <1>2, <1>5
  <2>2. a[j] = b[j]
    BY <1>1, <1>5
  <2>3. a[j] > c[j]
    BY <1>2, <2>2
  <2> QED
    BY <2>1, <2>3 DEF After
<1> QED
  BY <1>4, <1>5

\* No cursor is after itself, nor two after each other.
LEMMA AfterStrict ==
  ASSUME NEW a \in Cursor, NEW b \in Cursor
  PROVE  ~After(a, a) /\ ~(After(a, b) /\ After(b, a))
<1>1. ASSUME NEW c \in Cursor PROVE ~After(c, c)
  BY StreamsAssumption DEF After, Cursor
<1> QED
  BY <1>1, AfterTransitive

\* Of finitely many rows one is last: inclusion of the finite sets of the rows
\* after each of them is well founded.
LEMMA LastExists ==
  ASSUME NEW f, NEW b, IsFiniteSet(b), b # {}, \A r \in b : f[r] \in Cursor
  PROVE  \E m \in b : \A s \in b : f[s] = f[m] \/ After(f[m], f[s])
<1> DEFINE up(r) == {s \in b : After(f[s], f[r])}
           T == {up(r) : r \in b}
           R == StrictSubsetOrdering(b)
<1>1. IsWellFoundedOn(R, FiniteSubsetsOf(b))
  BY FS_StrictSubsetOrderingWellFounded
<1>2. \A r \in b : up(r) \in SUBSET b /\ IsFiniteSet(up(r))
  BY FS_Subset
<1>3. T \subseteq FiniteSubsetsOf(b) /\ T # {}
  BY <1>2 DEF FiniteSubsetsOf
<1>4. \E x \in T : \A y \in T : ~ (<<y, x>> \in R)
  <2> HIDE DEF T, R
  <2> QED
    BY <1>1, <1>3, WFMin
<1>5. PICK m \in b : \A r \in b : ~ (<<up(r), up(m)>> \in R)
  BY <1>4
<1>6. ASSUME NEW s \in b, After(f[s], f[m]) PROVE FALSE
  <2>1. up(s) \subseteq up(m)
    BY <1>6, AfterTransitive
  <2>2. s \in up(m) /\ s \notin up(s)
    BY <1>6, AfterStrict
  <2>3. <<up(s), up(m)>> \in R
    BY <1>2, <2>1, <2>2 DEF StrictSubsetOrdering
  <2> QED
    BY <1>5, <2>3
<1>7. \A s \in b : f[s] = f[m] \/ After(f[m], f[s])
  BY <1>6, AfterTotal
<1> QED
  BY <1>7

-----------------------------------------------------------------------------
(* Batches.                                                                *)

\* The last row of a batch is in it, and no row of it comes later.
LEMMA LastRowLemma ==
  ASSUME NEW b, IsFiniteSet(b), b # {}, \A r \in b : log[r] \in Cursor
  PROVE  LastRow(b) \in b /\ \A s \in b : Sorted(s, LastRow(b))
<1>1. \E m \in b : \A s \in b : log[s] = log[m] \/ After(log[m], log[s])
  BY LastExists
<1>2. \E m \in b : \A s \in b : Sorted(s, m)
  BY <1>1 DEF Sorted
<1> QED
  BY <1>2 DEF LastRow

\* What ORDER BY and LIMIT leave of the first n rows: only rows behind the cursor,
\* and when a row behind it is missing, the batch is full of rows that come first.
LEMMA BatchLemma ==
  ASSUME NEW n \in Nat, NEW c, NEW b \in Batches(n, c)
  PROVE  /\ b \subseteq 1 .. n /\ IsFiniteSet(b)
         /\ \A r \in b : After(log[r], c)
         /\ \A s \in 1 .. n : (After(log[s], c) /\ s \notin b) =>
              Cardinality(b) = BatchSize /\ \A r \in b : Sorted(r, s)
<1> DEFINE behind == {r \in 1 .. n : After(log[r], c)}
           size   == IF Cardinality(behind) < BatchSize THEN Cardinality(behind) ELSE BatchSize
<1>1. /\ b \in kSubset(size, behind)
      /\ \A r \in b, s \in behind \ b : Sorted(r, s)
  BY DEF Batches
<1>2. b \subseteq behind /\ Cardinality(b) = size
  BY <1>1 DEF kSubset
<1>3. IsFiniteSet(1 .. n)
  BY FS_Interval
<1>4. behind \subseteq 1 .. n
  OBVIOUS
<1>5. IsFiniteSet(behind)
  BY <1>3, <1>4, FS_Subset
<1>6. /\ IsFiniteSet(b)
      /\ b # behind => Cardinality(b) < Cardinality(behind)
  <2> HIDE DEF behind
  <2>1. IsFiniteSet(b) /\ Cardinality(b) <= Cardinality(behind)
        /\ (Cardinality(b) = Cardinality(behind) => b = behind)
    BY <1>2, <1>5, FS_Subset
  <2>2. Cardinality(b) \in Nat /\ Cardinality(behind) \in Nat
    BY <1>5, <2>1, FS_CardinalityType
  <2> QED
    BY <2>1, <2>2
<1>7. ASSUME NEW s \in 1 .. n, After(log[s], c), s \notin b
      PROVE  Cardinality(b) = BatchSize /\ \A r \in b : Sorted(r, s)
  <2>1. s \in behind \ b
    BY <1>7
  <2>2. Cardinality(b) < Cardinality(behind)
    BY <1>6, <2>1
  <2>3. Cardinality(behind) \in Nat /\ BatchSize \in Nat
    BY <1>5, FS_CardinalityType, StreamsAssumption
  <2>4. Cardinality(b) = BatchSize
    BY <1>2, <2>2, <2>3
  <2> QED
    BY <1>1, <2>1, <2>4
<1> QED
  BY <1>2, <1>4, <1>6, <1>7

\* The rows of the log have the keys of a cursor.
LEMMA KeysLemma ==
  ASSUME TypeOK
  PROVE  /\ Len(log) \in 0 .. MaxRows /\ DOMAIN log = 1 .. Len(log)
         /\ \A r \in 1 .. Len(log) : log[r] \in Keys /\ log[r] \in Cursor
<1>1. log \in Seq(Keys) /\ Len(log) <= MaxRows /\ MaxRows \in Nat /\ Keys \subseteq Cursor
  BY StreamsAssumption DEF TypeOK, Cursor
<1>2. Len(log) \in Nat /\ DOMAIN log = 1 .. Len(log)
  BY <1>1, LenProperties
<1> QED
  BY <1>1, <1>2

\* The cursor that an answer sets is one; with all cursor columns selected it is
\* the key of the last row.
LEMMA AdvanceLemma ==
  ASSUME TypeOK, NEW n \in 0 .. Len(log), NEW c \in Cursor, NEW a \in Cursor,
         NEW b \in Batches(n, c)
  PROVE  /\ b \in Batch
         /\ Advance(a, b) \in Cursor
         /\ b = {} => Advance(a, b) = a
         /\ b # {} =>
              /\ LastRow(b) \in b /\ LastRow(b) \in 1 .. n
              /\ \A s \in b : Sorted(s, LastRow(b))
              /\ After(log[LastRow(b)], c)
              /\ Selected = 1 .. Columns => Advance(a, b) = log[LastRow(b)]
<1> USE KeysLemma
<1>1. n \in Nat /\ n <= Len(log) /\ Len(log) \in Nat /\ Len(log) <= MaxRows /\ MaxRows \in Nat
  BY StreamsAssumption
<1>2. /\ b \subseteq 1 .. n /\ IsFiniteSet(b)
      /\ \A r \in b : After(log[r], c)
  BY <1>1, BatchLemma
<1>3. \A r \in b : r \in 1 .. Len(log) /\ log[r] \in Cursor
  BY <1>1, <1>2
<1>4. b \in Batch
  BY <1>1, <1>2 DEF Batch, Rows
<1>5. CASE b = {}
  BY <1>4, <1>5 DEF Advance
<1>6. CASE b # {}
  <2> DEFINE l == LastRow(b)
  <2>1. l \in b /\ \A s \in b : Sorted(s, l)
    BY <1>2, <1>3, <1>6, LastRowLemma
  <2>2. log[l] \in Cursor /\ l \in 1 .. n /\ After(log[l], c)
    BY <1>2, <1>3, <2>1
  <2> HIDE DEF l
  <2>3. Advance(a, b) = [i \in 1 .. Columns |-> IF i \in Selected THEN log[l][i] ELSE a[i]]
    BY <1>6 DEF Advance, l
  <2>4. \A i \in 1 .. Columns : log[l][i] \in Int /\ a[i] \in Int
    BY <2>2 DEF Cursor
  <2>5. Advance(a, b) \in Cursor
    BY <2>3, <2>4 DEF Cursor
  <2>6. ASSUME Selected = 1 .. Columns PROVE Advance(a, b) = log[l]
    <3>1. log[l] = [i \in 1 .. Columns |-> log[l][i]]
      BY <2>2 DEF Cursor
    <3> QED
      BY <2>3, <2>6, <3>1
  <2> QED
    BY <1>4, <1>6, <2>1, <2>2, <2>5, <2>6 DEF l
<1> QED
  BY <1>5, <1>6

-----------------------------------------------------------------------------
(* Type correctness.  A query sees rows of the log, and the initial query   *)
(* has been asked when it is answered: SnapInv is what TypeOK needs to be   *)
(* inductive.                                                              *)

\* Removing a flight keeps the others, in order.
LEMMA LandedLemma ==
  ASSUME flights \in Seq(Flight), NEW k \in 1 .. Len(flights)
  PROVE  /\ Landed(k) \in Seq(Flight)
         /\ Len(Landed(k)) = Len(flights) - 1
         /\ \A i \in 1 .. Len(flights) - 1 :
              Landed(k)[i] = IF i < k THEN flights[i] ELSE flights[i + 1]
<1> DEFINE a == SubSeq(flights, 1, k - 1)
           b == SubSeq(flights, k + 1, Len(flights))
<1>1. k \in Int /\ Len(flights) \in Nat /\ 1 <= k /\ k <= Len(flights)
  OBVIOUS
<1>2. /\ a \in Seq(Flight) /\ Len(a) = k - 1
      /\ \A i \in 1 .. k - 1 : a[i] = flights[i]
  <2>1. \A i \in 1 .. k - 1 : flights[i] \in Flight
    BY <1>1
  <2>2. /\ SubSeq(flights, 1, k - 1) \in Seq(Flight)
        /\ Len(SubSeq(flights, 1, k - 1)) = IF 1 <= k - 1 THEN (k - 1) - 1 + 1 ELSE 0
        /\ \A i \in 1 .. (k - 1) - 1 + 1 : SubSeq(flights, 1, k - 1)[i] = flights[1 + i - 1]
    BY <1>1, <2>1, SubSeqProperties
  <2> QED
    BY <1>1, <2>2
<1>3. /\ b \in Seq(Flight) /\ Len(b) = Len(flights) - k
      /\ \A i \in 1 .. Len(flights) - k : b[i] = flights[k + i]
  <2>1. \A i \in k + 1 .. Len(flights) : flights[i] \in Flight
    BY <1>1
  <2>2. /\ SubSeq(flights, k + 1, Len(flights)) \in Seq(Flight)
        /\ Len(SubSeq(flights, k + 1, Len(flights))) =
             IF k + 1 <= Len(flights) THEN Len(flights) - (k + 1) + 1 ELSE 0
        /\ \A i \in 1 .. Len(flights) - (k + 1) + 1 :
             SubSeq(flights, k + 1, Len(flights))[i] = flights[(k + 1) + i - 1]
    BY <1>1, <2>1, SubSeqProperties
  <2> QED
    BY <1>1, <2>2
<1> HIDE DEF a, b
<1>4. /\ a \o b \in Seq(Flight)
      /\ Len(a \o b) = Len(a) + Len(b)
      /\ \A i \in 1 .. Len(a) + Len(b) :
           (a \o b)[i] = IF i <= Len(a) THEN a[i] ELSE b[i - Len(a)]
  BY <1>2, <1>3, ConcatProperties
<1>5. Landed(k) = a \o b
  BY DEF Landed, a, b
<1>6. ASSUME NEW i \in 1 .. Len(flights) - 1
      PROVE  (a \o b)[i] = IF i < k THEN flights[i] ELSE flights[i + 1]
  <2>1. CASE i < k
    BY <1>1, <1>2, <1>3, <1>4, <2>1
  <2>2. CASE ~(i < k)
    <3>1. i - (k - 1) \in 1 .. Len(flights) - k /\ k + (i - (k - 1)) = i + 1
      BY <1>1, <2>2
    <3>2. b[i - (k - 1)] = flights[i + 1]
      BY <1>3, <3>1
    <3>3. (a \o b)[i] = b[i - (k - 1)]
      BY <1>1, <1>2, <1>3, <1>4, <2>2
    <3> QED
      BY <2>2, <3>2, <3>3
  <2> QED
    BY <2>1, <2>2
<1> QED
  BY <1>1, <1>2, <1>3, <1>4, <1>5, <1>6
SnapInv ==
  /\ \A k \in DOMAIN flights : flights[k].snap <= Len(log)
  /\ \A i \in DOMAIN asked : asked[i] <= Len(log)
  /\ phase = "asked" => Len(asked) = 1

\* What a query that gets its snapshot now may see.
LEMMA VisibleLemma ==
  ASSUME TypeOK
  PROVE  Visible \subseteq 0 .. Len(log) /\ 0 .. Len(log) \subseteq 0 .. MaxRows
<1>1. Len(log) \in Nat /\ Len(log) <= MaxRows /\ MaxRows \in Nat
  BY KeysLemma, StreamsAssumption
<1> QED
  BY <1>1 DEF Visible

\* Only an insertion changes the log, by a row at its end.
LEMMA LogGrows ==
  ASSUME TypeOK, NEW k \in Keys, Insert(k)
  PROVE  /\ log' \in Seq(Keys) /\ Len(log') = Len(log) + 1 /\ Len(log') <= MaxRows
         /\ \A r \in 1 .. Len(log) : log'[r] = log[r]
         /\ log'[Len(log')] = k
<1>1. log' = Append(log, k) /\ Len(log) < MaxRows /\ log \in Seq(Keys) /\ Len(log) \in Nat
  BY KeysLemma DEF Insert, TypeOK
<1>2. /\ Append(log, k) \in Seq(Keys) /\ Len(Append(log, k)) = Len(log) + 1
      /\ \A r \in 1 .. Len(log) : Append(log, k)[r] = log[r]
      /\ Append(log, k)[Len(log) + 1] = k
  BY <1>1, AppendProperties
<1>3. Len(log) + 1 <= MaxRows
  BY <1>1, StreamsAssumption
<1> QED
  BY <1>1, <1>2, <1>3

\* A batch pushed goes to the end of the queue, with the rows its query saw.
LEMMA PushLemma ==
  ASSUME TypeOK, NEW b \in Batch, NEW n \in 0 .. Len(log), Push(b, n)
  PROVE  /\ queue' \in Seq(Batch) /\ asked' \in Seq(0 .. MaxRows)
         /\ \/ /\ phase = "live" /\ b # {}
               /\ queue' = Append(queue, b) /\ asked' = Append(asked, n)
               /\ Len(asked') = Len(asked) + 1 /\ asked'[Len(asked) + 1] = n
               /\ \A i \in 1 .. Len(asked) : asked'[i] = asked[i]
            \/ (phase # "live" \/ b = {}) /\ queue' = queue /\ asked' = asked
<1>1. queue \in Seq(Batch) /\ asked \in Seq(0 .. MaxRows)
  BY DEF TypeOK
<1>2. n \in 0 .. MaxRows
  BY VisibleLemma
<1>3. Append(queue, b) \in Seq(Batch)
  BY <1>1, AppendProperties
<1>4. /\ Append(asked, n) \in Seq(0 .. MaxRows)
      /\ Len(Append(asked, n)) = Len(asked) + 1 /\ Append(asked, n)[Len(asked) + 1] = n
      /\ \A i \in 1 .. Len(asked) : Append(asked, n)[i] = asked[i]
  BY <1>1, <1>2, AppendProperties
<1>5. CASE phase = "live" /\ b # {}
  BY <1>3, <1>4, <1>5 DEF Push
<1>6. CASE ~(phase = "live" /\ b # {})
  BY <1>1, <1>6 DEF Push
<1> QED
  BY <1>5, <1>6

\* Every step preserves the types.
LEMMA TypeStep == TypeOK /\ SnapInv /\ [Next]_vars => TypeOK' /\ SnapInv'
<1> SUFFICES ASSUME TypeOK, SnapInv, [Next]_vars PROVE TypeOK' /\ SnapInv'
  OBVIOUS
<1> USE StreamsAssumption
<1>1. /\ flights \in Seq(Flight) /\ DOMAIN flights = 1 .. Len(flights) /\ Len(flights) \in Nat
      /\ \A k \in DOMAIN flights : flights[k] \in Flight
  <2>1. flights \in Seq(Flight)
    BY DEF TypeOK
  <2> QED
    BY <2>1, LenProperties, ElementOfSeq
<1>2. Main \in Tables /\ Related \subseteq Tables
  BY DEF Tables
<1>0. ASSUME NEW t \in Tables, NEW n \in Nat
       PROVE  [changes EXCEPT ![t] = n] \in [Tables -> Nat] /\ changes[t] \in Nat
  BY DEF TypeOK
<1>3. ASSUME NEW k \in Keys, Insert(k) PROVE TypeOK' /\ SnapInv'
  <2>1. log' \in Seq(Keys) /\ Len(log') = Len(log) + 1 /\ Len(log') <= MaxRows
    BY <1>3, LogGrows
  <2>2. changes' \in [Tables -> Nat]
    <3>1. changes[Main] + 1 \in Nat /\ changes' = [changes EXCEPT ![Main] = changes[Main] + 1]
      <4>1. changes[Main] \in Nat
        BY <1>2 DEF TypeOK
      <4>2. changes' = [changes EXCEPT ![Main] = @ + 1]
        BY <1>3 DEF Insert
      <4> QED
        BY <4>1, <4>2
    <3> QED
      BY <1>2, <1>0, <3>1
  <2>3. Len(log) \in Nat
    BY KeysLemma
  <2>4. \A j \in DOMAIN flights : flights[j].snap \in Int
    BY <1>1 DEF Flight
  <2>5. asked \in Seq(0 .. MaxRows)
    BY DEF TypeOK
  <2>6. \A i \in DOMAIN asked : asked[i] \in Int
    BY <2>5
  <2>7. UNCHANGED <<touches, timer, phase, cursor, flights, queue, got, asked, failed, mishaps>>
    BY <1>3 DEF Insert
  <2>8. TypeOK'
    BY <2>1, <2>2, <2>7 DEF TypeOK
  <2>9. \A j \in DOMAIN flights' : flights'[j].snap <= Len(log')
    BY <2>1, <2>3, <2>4, <2>7 DEF SnapInv
  <2>10. \A i \in DOMAIN asked' : asked'[i] <= Len(log')
    BY <2>1, <2>3, <2>6, <2>7 DEF SnapInv
  <2>11. phase' = "asked" => Len(asked') = 1
    BY <2>7 DEF SnapInv
  <2> QED
    BY <2>8, <2>9, <2>10, <2>11 DEF SnapInv
<1>4. ASSUME NEW t \in Related, Touch(t) PROVE TypeOK' /\ SnapInv'
  <2>1. changes[t] + 1 \in Nat /\ changes' = [changes EXCEPT ![t] = changes[t] + 1]
    <3>1. changes[t] \in Nat
      BY <1>2, <1>0
    <3>2. changes' = [changes EXCEPT ![t] = @ + 1]
      BY <1>4 DEF Touch
    <3> QED
      BY <3>1, <3>2
  <2>2. changes' \in [Tables -> Nat]
    BY <1>2, <1>0, <2>1
  <2>3. touches' \in 0 .. MaxTouches
    BY <1>4 DEF TypeOK, Touch
  <2> QED
    BY <1>4, <2>2, <2>3 DEF TypeOK, SnapInv, Touch
<1>5. ASSUME LoseNotifications PROVE TypeOK' /\ SnapInv'
  <2>1. UNCHANGED <<log, touches, timer, phase, cursor, flights, queue, got, asked>>
    BY <1>5 DEF LoseNotifications
  <2>2. changes' \in [Tables -> Nat]
    BY <1>5 DEF LoseNotifications
  <2>3. failed' \in BOOLEAN /\ mishaps' \in 0 .. MaxMishaps
    BY <1>5 DEF LoseNotifications, Mishap, TypeOK
  <2>4. TypeOK'
    BY <2>1, <2>2, <2>3 DEF TypeOK
  <2>5. SnapInv'
    BY <2>1 DEF SnapInv
  <2> QED
    BY <2>4, <2>5
<1>6. ASSUME NEW t \in Tables, HandleChange(t) PROVE TypeOK' /\ SnapInv'
  <2>1. changes[t] \in Nat /\ changes[t] > 0
    BY <1>6, <1>0 DEF HandleChange
  <2>2. changes[t] - 1 \in Nat /\ changes' = [changes EXCEPT ![t] = changes[t] - 1]
    BY <1>6, <2>1 DEF HandleChange
  <2>3. changes' \in [Tables -> Nat]
    BY <1>0, <2>2
  <2>4. timer' \in [Tables -> BOOLEAN]
    BY <1>6 DEF TypeOK, HandleChange
  <2> QED
    BY <1>6, <2>3, <2>4 DEF TypeOK, SnapInv, HandleChange
<1>7. ASSUME NEW t \in Tables, Fire(t) PROVE TypeOK' /\ SnapInv'
  <2> DEFINE f == [last |-> cursor, snap |-> -1]
  <2>1. f \in Flight /\ f.snap = -1 /\ -1 <= Len(log)
    BY KeysLemma DEF TypeOK, Flight
  <2> HIDE DEF f
  <2>2. /\ Append(flights, f) \in Seq(Flight) /\ Len(Append(flights, f)) = Len(flights) + 1
        /\ \A k \in 1 .. Len(flights) : Append(flights, f)[k] = flights[k]
        /\ Append(flights, f)[Len(flights) + 1] = f
    BY <1>1, <2>1, AppendProperties
  <2>3. \A k \in DOMAIN Append(flights, f) : Append(flights, f)[k].snap <= Len(log)
    BY <1>1, <2>1, <2>2 DEF SnapInv
  <2>4. flights' = IF phase = "live" THEN Append(flights, f) ELSE flights
    BY <1>7 DEF Fire, f
  <2>5. /\ flights' \in Seq(Flight)
        /\ \A k \in DOMAIN flights' : flights'[k].snap <= Len(log)
    BY <1>1, <2>2, <2>3, <2>4 DEF SnapInv
  <2>6. timer' \in [Tables -> BOOLEAN]
    BY <1>7 DEF TypeOK, Fire
  <2> QED
    BY <1>7, <2>5, <2>6 DEF TypeOK, SnapInv, Fire
<1>8. ASSUME NEW k \in DOMAIN flights, Snapshot(k) PROVE TypeOK' /\ SnapInv'
  <2>1. PICK n \in Visible : flights' = [flights EXCEPT ![k].snap = n]
    BY <1>8 DEF Snapshot
  <2> DEFINE f == [flights[k] EXCEPT !.snap = n]
  <2>2. n \in -1 .. MaxRows /\ n <= Len(log)
    <3>1. n \in 0 .. Len(log) /\ n \in 0 .. MaxRows /\ Len(log) \in Nat
      BY <2>1, VisibleLemma, KeysLemma
    <3> QED
      BY <3>1
  <2>3. f \in Flight /\ f.snap = n
    BY <1>1, <2>2 DEF Flight
  <2>4. flights' = [flights EXCEPT ![k] = f]
    BY <2>1
  <2> HIDE DEF f
  <2>5. /\ [flights EXCEPT ![k] = f] \in Seq(Flight)
        /\ Len([flights EXCEPT ![k] = f]) = Len(flights)
        /\ \A j \in 1 .. Len(flights) :
             [flights EXCEPT ![k] = f][j] = IF j = k THEN f ELSE flights[j]
    BY <1>1, <2>3, ExceptSeq
  <2>6. /\ flights' \in Seq(Flight)
        /\ \A j \in DOMAIN flights' : flights'[j].snap <= Len(log)
    BY <1>1, <2>2, <2>3, <2>4, <2>5 DEF SnapInv
  <2> QED
    BY <1>8, <2>6 DEF TypeOK, SnapInv, Snapshot
<1>9. ASSUME NEW k \in DOMAIN flights, flights' = Landed(k)
      PROVE  /\ flights' \in Seq(Flight)
             /\ \A j \in DOMAIN flights' : flights'[j].snap <= Len(log)
  <2>1. /\ Landed(k) \in Seq(Flight) /\ Len(Landed(k)) = Len(flights) - 1
        /\ \A i \in 1 .. Len(flights) - 1 :
             Landed(k)[i] = IF i < k THEN flights[i] ELSE flights[i + 1]
    BY <1>1, LandedLemma
  <2>2. \A i \in 1 .. Len(flights) - 1 : i \in DOMAIN flights /\ i + 1 \in DOMAIN flights
    BY <1>1
  <2>3. \A i \in 1 .. Len(flights) - 1 : Landed(k)[i].snap <= Len(log)
    BY <2>1, <2>2 DEF SnapInv
  <2>4. DOMAIN Landed(k) = 1 .. Len(flights) - 1
    BY <2>1, LenProperties
  <2> QED
    BY <1>9, <2>1, <2>3, <2>4
<1>10. ASSUME NEW k \in DOMAIN flights, Answer(k) PROVE TypeOK' /\ SnapInv'
  <2> DEFINE n == flights[k].snap
             c == flights[k].last
  <2>1. n \in 0 .. Len(log) /\ c \in Cursor /\ cursor \in Cursor
    <3>1. n \in -1 .. MaxRows /\ c \in Cursor
      BY <1>1 DEF Flight, Cursor
    <3>2. n >= 0 /\ n <= Len(log) /\ Len(log) \in Nat
      BY <1>10, KeysLemma DEF Answer, SnapInv
    <3>3. cursor \in Cursor
      BY DEF TypeOK, Cursor
    <3> HIDE DEF n, c
    <3> QED
      BY <3>1, <3>2, <3>3
  <2>2. PICK b \in Batches(n, c) : cursor' = Advance(cursor, b) /\ Push(b, n)
    BY <1>10 DEF Answer
  <2>3. flights' = Landed(k)
        /\ UNCHANGED <<log, changes, touches, timer, phase, got, failed, mishaps>>
    BY <1>10 DEF Answer
  <2> HIDE DEF n, c
  <2>4. b \in Batch /\ cursor' \in Cursor
    BY <2>1, <2>2, AdvanceLemma
  <2>5. /\ queue' \in Seq(Batch) /\ asked' \in Seq(0 .. MaxRows)
        /\ \/ /\ Len(asked') = Len(asked) + 1 /\ asked'[Len(asked) + 1] = n
              /\ \A i \in 1 .. Len(asked) : asked'[i] = asked[i]
              /\ phase = "live"
           \/ asked' = asked
    BY <2>1, <2>2, <2>4, PushLemma
  <2>6. asked \in Seq(0 .. MaxRows) /\ \A i \in 1 .. Len(asked) : asked[i] <= Len(log)
    <3>1. asked \in Seq(0 .. MaxRows)
      BY DEF TypeOK
    <3>2. DOMAIN asked = 1 .. Len(asked)
      BY <3>1, LenProperties
    <3> QED
      BY <3>1, <3>2 DEF SnapInv
  <2>7. \A i \in DOMAIN asked' : asked'[i] <= Len(log)
    <3>1. n <= Len(log) /\ DOMAIN asked = 1 .. Len(asked) /\ Len(asked) \in Nat
      BY <2>1, <2>6, LenProperties
    <3>2. CASE asked' = asked
      BY <2>6, <3>1, <3>2
    <3>3. CASE /\ Len(asked') = Len(asked) + 1 /\ asked'[Len(asked) + 1] = n
               /\ \A i \in 1 .. Len(asked) : asked'[i] = asked[i]
      <4>1. DOMAIN asked' = 1 .. Len(asked) + 1
        BY <2>5, <3>3, LenProperties
      <4>2. ASSUME NEW i \in 1 .. Len(asked) PROVE asked'[i] <= Len(log)
        BY <2>6, <3>3
      <4>3. asked'[Len(asked) + 1] <= Len(log)
        BY <3>1, <3>3
      <4>4. \A i \in 1 .. Len(asked) + 1 : i \in 1 .. Len(asked) \/ i = Len(asked) + 1
        BY <3>1
      <4> QED
        BY <4>1, <4>2, <4>3, <4>4
    <3> QED
      BY <2>5, <3>2, <3>3
  <2>8. phase = "asked" => Len(asked') = 1
    BY <2>5 DEF SnapInv
  <2>9. TypeOK'
    BY <1>9, <2>3, <2>4, <2>5 DEF TypeOK, Cursor
  <2> QED
    BY <1>9, <2>3, <2>7, <2>8, <2>9 DEF SnapInv
<1>11. ASSUME NEW k \in DOMAIN flights, QueryFails(k) PROVE TypeOK' /\ SnapInv'
  <2>1. flights' = Landed(k)
    BY <1>11 DEF QueryFails
  <2>2. UNCHANGED <<log, changes, touches, timer, phase, cursor, queue, got, asked>>
    BY <1>11 DEF QueryFails
  <2>3. failed' \in BOOLEAN /\ mishaps' \in 0 .. MaxMishaps
    BY <1>11 DEF QueryFails, Mishap, TypeOK
  <2>4. TypeOK'
    BY <1>9, <2>1, <2>2, <2>3 DEF TypeOK
  <2> QED
    BY <1>9, <2>1, <2>2, <2>4 DEF SnapInv
<1>12. ASSUME Subscribe PROVE TypeOK' /\ SnapInv'
  BY <1>12 DEF TypeOK, SnapInv, Subscribe
<1>13. ASSUME InitialSnapshot PROVE TypeOK' /\ SnapInv'
  <2>1. PICK n \in Visible : asked' = <<n>>
    BY <1>13 DEF InitialSnapshot
  <2>2. n \in 0 .. MaxRows /\ n <= Len(log)
    <3>1. n \in 0 .. Len(log) /\ n \in 0 .. MaxRows /\ Len(log) \in Nat
      BY <2>1, VisibleLemma, KeysLemma
    <3> QED
      BY <3>1
  <2>3. asked' \in Seq(0 .. MaxRows) /\ Len(asked') = 1 /\ \A i \in DOMAIN asked' : asked'[i] = n
    BY <2>1, <2>2
  <2> QED
    BY <1>13, <2>2, <2>3 DEF TypeOK, SnapInv, InitialSnapshot
<1>14. ASSUME Register PROVE TypeOK' /\ SnapInv'
  <2> DEFINE n == asked[1]
  <2>1. n \in 0 .. Len(log) /\ cursor \in Cursor
    <3>1. asked \in Seq(0 .. MaxRows) /\ Len(asked) = 1 /\ n <= Len(log)
      BY <1>14 DEF TypeOK, SnapInv, Register
    <3>2. n \in 0 .. MaxRows
      <4>1. 1 \in 1 .. Len(asked)
        BY <3>1
      <4> QED
        BY <3>1, <4>1, ElementOfSeq
    <3>3. Len(log) \in Nat /\ cursor \in Cursor
      BY KeysLemma DEF TypeOK, Cursor
    <3> QED
      BY <3>1, <3>2, <3>3
  <2>2. PICK b \in Batches(n, cursor) : cursor' = Advance(cursor, b) /\ got' = <<b>>
    BY <1>14 DEF Register
  <2> HIDE DEF n
  <2>3. b \in Batch /\ cursor' \in Cursor
    BY <2>1, <2>2, AdvanceLemma
  <2>4. got' \in Seq(Batch)
    BY <2>2, <2>3
  <2> QED
    BY <1>14, <2>3, <2>4 DEF TypeOK, SnapInv, Cursor, Register
<1>15. ASSUME RegisterFails PROVE TypeOK' /\ SnapInv'
  BY <1>15 DEF TypeOK, SnapInv, RegisterFails, Mishap
<1>16. ASSUME Pull PROVE TypeOK' /\ SnapInv'
  <2>1. queue \in Seq(Batch) /\ queue # <<>> /\ got \in Seq(Batch)
    BY <1>16 DEF TypeOK, Pull
  <2>2. Head(queue) \in Batch /\ Tail(queue) \in Seq(Batch)
    BY <2>1
  <2>3. Append(got, Head(queue)) \in Seq(Batch)
    BY <2>1, <2>2
  <2> QED
    BY <1>16, <2>2, <2>3 DEF TypeOK, SnapInv, Pull
<1>17. ASSUME Unregister PROVE TypeOK' /\ SnapInv'
  BY <1>17 DEF TypeOK, SnapInv, Unregister
<1>18. ASSUME UNCHANGED vars PROVE TypeOK' /\ SnapInv'
  BY <1>18 DEF TypeOK, SnapInv, vars
<1> QED
  BY <1>3, <1>4, <1>5, <1>6, <1>7, <1>8, <1>10, <1>11, <1>12, <1>13, <1>14, <1>15, <1>16,
     <1>17, <1>18 DEF Next, FlightStep

\* The initial state has the types.
LEMMA TypeInit == Init => TypeOK /\ SnapInv
<1> SUFFICES ASSUME Init PROVE TypeOK /\ SnapInv
  OBVIOUS
<1> USE StreamsAssumption DEF Init
<1>1. log \in Seq(Keys) /\ Len(log) <= MaxRows
  OBVIOUS
<1>2. changes \in [Tables -> Nat] /\ timer \in [Tables -> BOOLEAN]
  OBVIOUS
<1>3. flights \in Seq(Flight) /\ queue \in Seq(Batch) /\ got \in Seq(Batch)
  OBVIOUS
<1>4. asked \in Seq(0 .. MaxRows)
  OBVIOUS
<1>5. touches \in 0 .. MaxTouches /\ mishaps \in 0 .. MaxMishaps
  OBVIOUS
<1>6. DOMAIN flights = {} /\ DOMAIN asked = {}
  OBVIOUS
<1> QED
  BY <1>1, <1>2, <1>3, <1>4, <1>5, <1>6 DEF TypeOK, SnapInv

\* Every state of a stream is well typed, and no query has seen a row that is not
\* there.
THEOREM TypeCorrect == Spec => []TypeOK
BY TypeInit, TypeStep, PTL DEF Spec

\* The same with SnapInv, for the proofs below.
LEMMA SnapsExist == Spec => [](TypeOK /\ SnapInv)
BY TypeInit, TypeStep, PTL DEF Spec

-----------------------------------------------------------------------------
(* What a step sends.                                                      *)

\* Without Overlap there is at most one query in flight, and it was compiled with
\* the cursor as it still is; nothing is sent before the initial query is answered;
\* while the subscription lives, asked has an entry for every batch.
OneQuery ==
  /\ Len(flights) <= 1
  /\ \A k \in DOMAIN flights : flights[k].last = cursor
  /\ phase \notin {"live", "closed"} =>
       flights = <<>> /\ queue = <<>> /\ got = <<>> /\ cursor = From
  /\ phase = "live" => Len(asked) = Len(Sent)

\* The rows of Sent.
LEMMA SentTypes ==
  ASSUME TypeOK
  PROVE  /\ Sent \in Seq(Batch) /\ DOMAIN Sent = 1 .. Len(Sent) /\ Len(Sent) \in Nat
         /\ Len(Sent) = Len(got) + Len(queue) /\ Len(got) \in Nat /\ Len(queue) \in Nat
         /\ flights \in Seq(Flight) /\ DOMAIN flights = 1 .. Len(flights) /\ Len(flights) \in Nat
         /\ asked \in Seq(0 .. MaxRows) /\ DOMAIN asked = 1 .. Len(asked) /\ Len(asked) \in Nat
<1>1. /\ got \in Seq(Batch) /\ queue \in Seq(Batch) /\ flights \in Seq(Flight)
      /\ asked \in Seq(0 .. MaxRows)
  BY DEF TypeOK
<1>2. got \o queue \in Seq(Batch) /\ Len(got \o queue) = Len(got) + Len(queue)
  BY <1>1, ConcatProperties
<1> QED
  BY <1>1, <1>2, LenProperties DEF Sent

\* A step sends the batch b, of a query that saw n rows.
Sends(b, n) ==
  /\ phase \in {"asked", "live"}
  /\ b \in Batches(n, cursor) /\ cursor' = Advance(cursor, b)
  /\ phase = "live" => b # {}
  /\ Sent' = Append(Sent, b)
  /\ Len(Sent') = Len(Sent) + 1 /\ Sent'[Len(Sent) + 1] = b
  /\ \A i \in 1 .. Len(Sent) : Sent'[i] = Sent[i]
  /\ Len(asked') = Len(Sent) + 1 /\ asked'[Len(Sent) + 1] = n
  /\ \A i \in 1 .. Len(Sent) : asked'[i] = asked[i]

\* A query answered with b moves the cursor of a client that has left.
Discards(b, n) ==
  /\ b \in Batches(n, cursor) /\ cursor' = Advance(cursor, b)
  /\ Sent' = Sent /\ phase' = "closed"

\* Nothing is sent and the cursor stays.
Keeps ==
  /\ Sent' = Sent /\ cursor' = cursor
  /\ phase' = "live" => phase = "live" /\ asked' = asked

\* Pulling a batch leaves what was sent as it is.
LEMMA PullLemma ==
  ASSUME TypeOK, Pull
  PROVE  Sent' = Sent
<1>1. /\ got \in Seq(Batch) /\ queue \in Seq(Batch) /\ queue # <<>>
      /\ got' = Append(got, Head(queue)) /\ queue' = Tail(queue)
  BY DEF TypeOK, Pull
<1>2. Head(queue) \in Batch /\ Tail(queue) \in Seq(Batch)
  BY <1>1
<1>3. <<Head(queue)>> \in Seq(Batch) /\ queue = <<Head(queue)>> \o Tail(queue)
      /\ Append(got, Head(queue)) = got \o <<Head(queue)>>
  BY <1>1, <1>2
<1>4. (got \o <<Head(queue)>>) \o Tail(queue) = got \o (<<Head(queue)>> \o Tail(queue))
  BY <1>1, <1>2, <1>3, ConcatAssociative
<1> QED
  BY <1>1, <1>3, <1>4 DEF Sent

\* The answer of a re-query is sent, discarded or empty.
LEMMA AnswerSteps ==
  ASSUME TypeOK, SnapInv, OneQuery, NEW k \in DOMAIN flights, Answer(k)
  PROVE  /\ log' = log /\ flights[k].snap \in 0 .. Len(log)
         /\ \/ Keeps
            \/ \E b \in Batches(flights[k].snap, cursor) : Discards(b, flights[k].snap)
            \/ \E b \in Batches(flights[k].snap, cursor) : Sends(b, flights[k].snap)
<1> USE SentTypes
<1> DEFINE n == flights[k].snap
<1>1. flights[k].last = cursor
  BY DEF OneQuery
<1>2. n \in 0 .. Len(log) /\ cursor \in Cursor
  <2>1. flights[k] \in Flight
    BY ElementOfSeq
  <2>2. n >= 0 /\ n <= Len(log) /\ n \in Int /\ Len(log) \in Nat
    BY <2>1, KeysLemma DEF Answer, SnapInv, Flight
  <2> QED
    BY <2>2 DEF TypeOK, Cursor
<1>3. PICK b \in Batches(n, cursor) : cursor' = Advance(cursor, b) /\ Push(b, n)
  BY <1>1 DEF Answer
<1>4. log' = log /\ got' = got /\ phase' = phase
  BY DEF Answer
<1> HIDE DEF n
<1>5. b \in Batch /\ (b = {} => Advance(cursor, b) = cursor)
  BY <1>2, AdvanceLemma
<1>6. \/ /\ phase = "live" /\ b # {}
         /\ queue' = Append(queue, b) /\ asked' = Append(asked, n)
         /\ Len(asked') = Len(asked) + 1 /\ asked'[Len(asked) + 1] = n
         /\ \A i \in 1 .. Len(asked) : asked'[i] = asked[i]
      \/ (phase # "live" \/ b = {}) /\ queue' = queue /\ asked' = asked
  BY <1>2, <1>3, <1>5, PushLemma
<1>7. CASE phase = "live" /\ b # {}
  <2>1. got \o queue \in Seq(Batch) /\ queue \in Seq(Batch) /\ got \in Seq(Batch)
    BY DEF TypeOK, Sent
  <2>2. got \o Append(queue, b) = Append(got \o queue, b)
    <3>1. <<b>> \in Seq(Batch) /\ Append(queue, b) = queue \o <<b>>
          /\ Append(got \o queue, b) = (got \o queue) \o <<b>>
      <4>1. <<b>> \in Seq(Batch)
        BY <1>5
      <4>2. \A q \in Seq(Batch) : Append(q, b) = q \o <<b>>
        <5> HIDE DEF Batch
        <5> QED
          BY <1>5, AppendIsConcat
      <4> QED
        BY <2>1, <4>1, <4>2
    <3> QED
      BY <2>1, <3>1, ConcatAssociative
  <2>3. Sent' = Append(Sent, b)
    BY <1>4, <1>6, <1>7, <2>2 DEF Sent
  <2>4. /\ Len(Append(Sent, b)) = Len(Sent) + 1 /\ Append(Sent, b)[Len(Sent) + 1] = b
        /\ \A i \in 1 .. Len(Sent) : Append(Sent, b)[i] = Sent[i]
    BY <1>5, AppendProperties
  <2>5. Len(asked) = Len(Sent)
    BY <1>7 DEF OneQuery
  <2>6. Sends(b, n)
    BY <1>3, <1>6, <1>7, <2>3, <2>4, <2>5 DEF Sends
  <2> QED
    BY <1>2, <1>4, <2>6 DEF n
<1>8. CASE b = {}
  <2>1. Keeps
    BY <1>3, <1>4, <1>5, <1>6, <1>8 DEF Keeps, Sent
  <2> QED
    BY <1>2, <1>4, <2>1 DEF n
<1>9. CASE phase # "live"
  <2>1. phase = "closed"
    BY <1>9 DEF OneQuery, TypeOK
  <2>2. Discards(b, n)
    BY <1>3, <1>4, <1>6, <1>9, <2>1 DEF Discards, Sent
  <2> QED
    BY <1>2, <1>4, <2>2 DEF n
<1> QED
  BY <1>7, <1>8, <1>9

\* The answer of the initial query is sent.
LEMMA RegisterSteps ==
  ASSUME TypeOK, SnapInv, OneQuery, Register
  PROVE  /\ log' = log /\ asked[1] \in 0 .. Len(log) /\ Sent = <<>>
         /\ \E b \in Batches(asked[1], cursor) : Sends(b, asked[1])
<1> USE SentTypes
<1> DEFINE n == asked[1]
<1>1. n \in 0 .. Len(log) /\ Len(asked) = 1
  <2>1. Len(asked) = 1 /\ 1 \in DOMAIN asked
    BY DEF Register, SnapInv
  <2>2. n \in 0 .. MaxRows
    BY <2>1, ElementOfSeq
  <2>3. n <= Len(log) /\ Len(log) \in Nat
    BY <2>1, KeysLemma DEF SnapInv
  <2> QED
    BY <2>1, <2>2, <2>3
<1>2. PICK b \in Batches(n, cursor) : cursor' = Advance(cursor, b) /\ got' = <<b>>
  BY DEF Register
<1>3. log' = log /\ queue' = queue /\ asked' = asked /\ queue = <<>> /\ got = <<>>
  BY DEF Register, OneQuery
<1>4. Sent = <<>> /\ Len(Sent) = 0
  BY <1>3 DEF Sent
<1>5. Sent' = <<b>>
  BY <1>2, <1>3 DEF Sent
<1>6. Sends(b, n)
  BY <1>1, <1>2, <1>3, <1>4, <1>5 DEF Sends, Register
<1> QED
  BY <1>1, <1>3, <1>6

\* A step inserts a row, keeps what was sent, discards an answer or sends it.
LEMMA SentSteps ==
  ASSUME TypeOK, SnapInv, OneQuery, [Next]_vars
  PROVE  \/ /\ \E k \in Keys : Insert(k)
            /\ Keeps
         \/ log' = log /\ Keeps
         \/ log' = log /\ \E n \in 0 .. Len(log) : \E b \in Batches(n, cursor) : Discards(b, n)
         \/ log' = log /\ \E n \in 0 .. Len(log) : \E b \in Batches(n, cursor) : Sends(b, n)
<1> USE SentTypes
<1>1. ASSUME NEW k \in Keys, Insert(k) PROVE Keeps
  BY <1>1 DEF Insert, Keeps, Sent
<1>2. ASSUME NEW t \in Related, Touch(t) PROVE log' = log /\ Keeps
  BY <1>2 DEF Touch, Keeps, Sent
<1>3. ASSUME LoseNotifications PROVE log' = log /\ Keeps
  BY <1>3 DEF LoseNotifications, Keeps, Sent
<1>4. ASSUME NEW t \in Tables, HandleChange(t) PROVE log' = log /\ Keeps
  BY <1>4 DEF HandleChange, Keeps, Sent
<1>5. ASSUME NEW t \in Tables, Fire(t) PROVE log' = log /\ Keeps
  BY <1>5 DEF Fire, Keeps, Sent
<1>6. ASSUME NEW k \in DOMAIN flights, Snapshot(k) PROVE log' = log /\ Keeps
  BY <1>6 DEF Snapshot, Keeps, Sent
<1>7. ASSUME NEW k \in DOMAIN flights, Answer(k)
      PROVE  /\ log' = log
             /\ \/ Keeps
                \/ \E n \in 0 .. Len(log) : \E b \in Batches(n, cursor) : Discards(b, n)
                \/ \E n \in 0 .. Len(log) : \E b \in Batches(n, cursor) : Sends(b, n)
  BY <1>7, AnswerSteps
<1>8. ASSUME NEW k \in DOMAIN flights, QueryFails(k) PROVE log' = log /\ Keeps
  BY <1>8 DEF QueryFails, Keeps, Sent
<1>9. ASSUME Subscribe \/ InitialSnapshot \/ RegisterFails \/ Unregister
      PROVE  log' = log /\ Keeps
  BY <1>9 DEF Subscribe, InitialSnapshot, RegisterFails, Unregister, Keeps, Sent
<1>10. ASSUME Register
       PROVE  log' = log /\ \E n \in 0 .. Len(log) : \E b \in Batches(n, cursor) : Sends(b, n)
  BY <1>10, RegisterSteps
<1>11. ASSUME Pull PROVE log' = log /\ Keeps
  BY <1>11, PullLemma DEF Pull, Keeps
<1>12. ASSUME UNCHANGED vars PROVE log' = log /\ Keeps
  BY <1>12 DEF vars, Keeps, Sent
<1> QED
  BY <1>1, <1>2, <1>3, <1>4, <1>5, <1>6, <1>7, <1>8, <1>9, <1>10, <1>11, <1>12
     DEF Next, FlightStep

\* Without Overlap every step keeps it at one query, compiled with the cursor.
LEMMA OneQueryStep ==
  ASSUME TypeOK, SnapInv, OneQuery, ~Overlap, [Next]_vars
  PROVE  OneQuery'
<1> USE SentTypes
<1> DEFINE Front ==
             /\ Len(flights) <= 1
             /\ \A k \in DOMAIN flights : flights[k].last = cursor
             /\ phase \notin {"live", "closed"} =>
                  flights = <<>> /\ queue = <<>> /\ got = <<>> /\ cursor = From
<1>1. Front
  BY DEF OneQuery
<1>2. phase' = "live" => Len(asked') = Len(Sent')
  <2>1. ASSUME Keeps PROVE phase' = "live" => Len(asked') = Len(Sent')
    BY <2>1 DEF Keeps, OneQuery
  <2>2. ASSUME NEW n, NEW b, Discards(b, n) PROVE phase' # "live"
    BY <2>2 DEF Discards
  <2>3. ASSUME NEW n, NEW b, Sends(b, n) PROVE Len(asked') = Len(Sent')
    BY <2>3 DEF Sends
  <2> QED
    BY <2>1, <2>2, <2>3, SentSteps
<1>3. ASSUME flights' = flights, cursor' = cursor, phase' = phase, queue' = queue, got' = got
      PROVE  Front'
  BY <1>1, <1>3
<1>4. ASSUME NEW k \in Keys, Insert(k) PROVE Front'
  BY <1>3, <1>4 DEF Insert
<1>5. ASSUME NEW t \in Related, Touch(t) PROVE Front'
  BY <1>3, <1>5 DEF Touch
<1>6. ASSUME LoseNotifications PROVE Front'
  BY <1>3, <1>6 DEF LoseNotifications
<1>7. ASSUME NEW t \in Tables, HandleChange(t) PROVE Front'
  BY <1>3, <1>7 DEF HandleChange
<1>8. ASSUME NEW t \in Tables, Fire(t) PROVE Front'
  <2>1. flights = <<>> /\ cursor' = cursor /\ phase' = phase /\ queue' = queue /\ got' = got
    BY <1>8 DEF Fire
  <2>2. CASE phase = "live"
    <3>1. flights' = <<[last |-> cursor, snap |-> -1]>>
      BY <1>8, <2>1, <2>2 DEF Fire
    <3>2. Len(flights') = 1 /\ \A k \in DOMAIN flights' : flights'[k].last = cursor
      BY <3>1
    <3> QED
      BY <2>1, <2>2, <3>2
  <2>3. CASE phase # "live"
    <3>1. flights' = flights
      BY <1>8, <2>3 DEF Fire
    <3> QED
      BY <1>3, <2>1, <3>1
  <2> QED
    BY <2>2, <2>3
<1>9. ASSUME NEW k \in DOMAIN flights, Snapshot(k) PROVE Front'
  <2>1. PICK n \in Visible : flights' = [flights EXCEPT ![k].snap = n]
    BY <1>9 DEF Snapshot
  <2>2. DOMAIN flights' = DOMAIN flights /\ Len(flights') = Len(flights)
    BY <2>1
  <2>3. ASSUME NEW j \in DOMAIN flights PROVE flights'[j].last = flights[j].last
    <3>1. flights[j] \in Flight /\ flights[k] \in Flight
      BY ElementOfSeq
    <3>2. [flights[k] EXCEPT !.snap = n].last = flights[k].last
      BY <3>1 DEF Flight
    <3>3. flights'[j] = IF j = k THEN [flights[k] EXCEPT !.snap = n] ELSE flights[j]
      BY <2>1
    <3> QED
      BY <3>2, <3>3
  <2>4. phase \in {"live", "closed"}
    BY <1>1
  <2>5. cursor' = cursor /\ phase' = phase
    BY <1>9 DEF Snapshot
  <2> QED
    BY <1>1, <2>2, <2>3, <2>4, <2>5
<1>10. ASSUME NEW k \in DOMAIN flights, flights' = Landed(k), phase' = phase PROVE Front'
  <2>1. Len(Landed(k)) = Len(flights) - 1 /\ Landed(k) \in Seq(Flight)
    BY LandedLemma
  <2>2. Len(flights) = 1
    BY <1>1
  <2>3. Len(flights') = 0 /\ DOMAIN flights' = {}
    BY <1>10, <2>1, <2>2
  <2>4. phase' \in {"live", "closed"}
    BY <1>1, <1>10
  <2> QED
    BY <2>3, <2>4
<1>11. ASSUME NEW k \in DOMAIN flights, Answer(k) \/ QueryFails(k) PROVE Front'
  BY <1>10, <1>11 DEF Answer, QueryFails
<1>12. ASSUME Subscribe \/ InitialSnapshot \/ RegisterFails PROVE Front'
  BY <1>1, <1>12 DEF Subscribe, InitialSnapshot, RegisterFails
<1>13. ASSUME Register PROVE Front'
  BY <1>1, <1>13 DEF Register
<1>14. ASSUME Pull \/ Unregister PROVE Front'
  BY <1>1, <1>14 DEF Pull, Unregister
<1>15. ASSUME UNCHANGED vars PROVE Front'
  BY <1>3, <1>15 DEF vars
<1>16. Front'
  BY <1>4, <1>5, <1>6, <1>7, <1>8, <1>9, <1>11, <1>12, <1>13, <1>14, <1>15
     DEF Next, FlightStep
<1> QED
  BY <1>2, <1>16 DEF OneQuery

-----------------------------------------------------------------------------
(* New rows only.  The cursor is never behind a row that was sent, and the *)
(* next batch is behind the cursor.                                        *)

\* Every row sent is in the log and not behind the cursor.
Behind ==
  \A i \in DOMAIN Sent : \A r \in Sent[i] : r \in DOMAIN log /\ ~After(log[r], cursor)

\* A step keeps the keys of the rows in the log.
LEMMA LogKept ==
  ASSUME TypeOK, TypeOK', log' = log \/ \E k \in Keys : Insert(k)
  PROVE  /\ Len(log) \in Nat /\ Len(log') \in Nat /\ Len(log) <= Len(log')
         /\ DOMAIN log = 1 .. Len(log) /\ DOMAIN log' = 1 .. Len(log')
         /\ \A r \in 1 .. Len(log) : log'[r] = log[r] /\ log[r] \in Cursor
<1>1. log' \in Seq(Keys) /\ log \in Seq(Keys)
  BY DEF TypeOK
<1>2. /\ Len(log) \in Nat /\ Len(log') \in Nat
      /\ DOMAIN log = 1 .. Len(log) /\ DOMAIN log' = 1 .. Len(log')
  BY <1>1, LenProperties
<1>3. CASE log' = log
  BY <1>2, <1>3, KeysLemma
<1>4. CASE \E k \in Keys : Insert(k)
  <2>1. Len(log') = Len(log) + 1 /\ \A r \in 1 .. Len(log) : log'[r] = log[r]
    BY <1>4, LogGrows
  <2> QED
    BY <1>2, <2>1, KeysLemma
<1> QED
  BY <1>3, <1>4

\* A batch behind the cursor moves it on, and not before any row of the batch.
LEMMA MovesOn ==
  ASSUME TypeOK, Selected = 1 .. Columns, NEW n \in 0 .. Len(log),
         NEW b \in Batches(n, cursor)
  PROVE  /\ Advance(cursor, b) \in Cursor /\ cursor \in Cursor
         /\ Advance(cursor, b) = cursor \/ After(Advance(cursor, b), cursor)
         /\ \A s \in b : /\ s \in 1 .. n /\ s \in 1 .. Len(log) /\ log[s] \in Cursor
                         /\ After(log[s], cursor)
                         /\ ~After(log[s], Advance(cursor, b))
<1>1. cursor \in Cursor
  BY DEF TypeOK, Cursor
<1>2. n \in Nat /\ n <= Len(log) /\ Len(log) \in Nat
  BY KeysLemma
<1>3. b \subseteq 1 .. n /\ \A r \in b : After(log[r], cursor)
  BY <1>2, BatchLemma
<1>4. \A s \in b : s \in 1 .. n /\ s \in 1 .. Len(log) /\ log[s] \in Cursor
  BY <1>2, <1>3, KeysLemma
<1>5. CASE b = {}
  BY <1>1, <1>5, AdvanceLemma
<1>6. CASE b # {}
  <2> DEFINE l == LastRow(b)
  <2>1. /\ l \in b /\ \A s \in b : Sorted(s, l)
        /\ Advance(cursor, b) = log[l]
    BY <1>1, <1>6, AdvanceLemma
  <2> HIDE DEF l
  <2>2. log[l] \in Cursor /\ After(log[l], cursor)
    BY <1>3, <1>4, <2>1
  <2>3. ASSUME NEW s \in b PROVE ~After(log[s], log[l])
    <3>1. log[s] = log[l] \/ After(log[l], log[s])
      BY <2>1 DEF Sorted
    <3>2. log[s] \in Cursor
      BY <1>4
    <3> QED
      BY <2>2, <3>1, <3>2, AfterStrict
  <2> QED
    BY <1>1, <1>3, <1>4, <2>1, <2>2, <2>3
<1> QED
  BY <1>5, <1>6

\* A row not behind the cursor is not behind a later one, and comes before whatever
\* is behind the cursor.
LEMMA NotAfter ==
  ASSUME NEW a \in Cursor, NEW c \in Cursor, NEW d \in Cursor, ~After(a, c)
  PROVE  After(d, c) => After(d, a) /\ d # a /\ ~After(a, d)
<1> SUFFICES ASSUME After(d, c) PROVE After(d, a) /\ d # a /\ ~After(a, d)
  OBVIOUS
<1>1. a = c \/ After(c, a)
  BY AfterTotal
<1>2. After(d, a)
  BY <1>1, AfterTransitive
<1> QED
  BY <1>2, AfterStrict

\* Every step that is not about an overlapping query preserves it.
LEMMA NewRowsStep ==
  ASSUME TypeOK, TypeOK', SnapInv, OneQuery, Selected = 1 .. Columns,
         Behind, NewRowsOnly, [Next]_vars
  PROVE  Behind' /\ NewRowsOnly'
<1>1. /\ Len(log) \in Nat /\ Len(log') \in Nat /\ Len(log) <= Len(log')
      /\ DOMAIN log = 1 .. Len(log) /\ DOMAIN log' = 1 .. Len(log')
      /\ \A r \in 1 .. Len(log) : log'[r] = log[r] /\ log[r] \in Cursor
  BY SentSteps, LogKept
<1>2. DOMAIN Sent = 1 .. Len(Sent) /\ DOMAIN Sent' = 1 .. Len(Sent') /\ Len(Sent) \in Nat
  <2>1. Sent' \in Seq(Batch)
    <3>1. got' \in Seq(Batch) /\ queue' \in Seq(Batch)
      BY DEF TypeOK
    <3> QED
      BY <3>1, ConcatProperties DEF Sent
  <2> QED
    BY <2>1, SentTypes, LenProperties
<1>3. cursor \in Cursor /\ cursor' \in Cursor
  BY DEF TypeOK, Cursor
<1>4. \A i \in DOMAIN Sent : \A r \in Sent[i] :
        /\ r \in 1 .. Len(log) /\ log[r] \in Cursor /\ log'[r] = log[r] /\ r \in DOMAIN log'
        /\ ~After(log[r], cursor)
  BY <1>1 DEF Behind
<1>5. ASSUME Sent' = Sent, cursor' = cursor \/ After(cursor', cursor)
      PROVE  Behind' /\ NewRowsOnly'
  <2>1. Behind'
    <3> SUFFICES ASSUME NEW i \in DOMAIN Sent', NEW r \in Sent'[i]
                 PROVE  r \in DOMAIN log' /\ ~After(log'[r], cursor')
      BY DEF Behind
    <3>1. i \in DOMAIN Sent /\ r \in Sent[i]
      BY <1>5
    <3>2. log[r] \in Cursor /\ log'[r] = log[r] /\ r \in DOMAIN log' /\ ~After(log[r], cursor)
      BY <1>4, <3>1
    <3> QED
      BY <1>3, <1>5, <3>2, NotAfter
  <2>2. NewRowsOnly'
    <3> SUFFICES ASSUME NEW i \in DOMAIN Sent', NEW j \in DOMAIN Sent', i < j,
                        NEW r \in Sent'[i], NEW s \in Sent'[j]
                 PROVE  r # s /\ After(log'[s], log'[r])
      BY DEF NewRowsOnly
    <3>1. i \in DOMAIN Sent /\ j \in DOMAIN Sent /\ r \in Sent[i] /\ s \in Sent[j]
      BY <1>5
    <3>2. r # s /\ After(log[s], log[r])
      BY <3>1 DEF NewRowsOnly
    <3> QED
      BY <1>4, <3>1, <3>2
  <2> QED
    BY <2>1, <2>2
<1>6. ASSUME Keeps PROVE Behind' /\ NewRowsOnly'
  BY <1>5, <1>6 DEF Keeps
<1>7. ASSUME NEW n \in 0 .. Len(log), NEW b \in Batches(n, cursor), Discards(b, n)
      PROVE  Behind' /\ NewRowsOnly'
  BY <1>5, <1>7, MovesOn DEF Discards
<1>8. ASSUME NEW n \in 0 .. Len(log), NEW b \in Batches(n, cursor), Sends(b, n)
      PROVE  Behind' /\ NewRowsOnly'
  <2>1. /\ cursor' = cursor \/ After(cursor', cursor)
        /\ \A s \in b : s \in 1 .. Len(log) /\ After(log[s], cursor) /\ ~After(log[s], cursor')
    BY <1>8, MovesOn DEF Sends
  <2>2. /\ Len(Sent') = Len(Sent) + 1 /\ Sent'[Len(Sent) + 1] = b
        /\ \A i \in 1 .. Len(Sent) : Sent'[i] = Sent[i]
    BY <1>8 DEF Sends
  <2>3. Behind'
    <3> SUFFICES ASSUME NEW i \in DOMAIN Sent', NEW r \in Sent'[i]
                 PROVE  r \in DOMAIN log' /\ ~After(log'[r], cursor')
      BY DEF Behind
    <3>1. CASE i \in DOMAIN Sent
      <4>1. r \in Sent[i]
        BY <1>2, <2>2, <3>1
      <4>2. log[r] \in Cursor /\ log'[r] = log[r] /\ r \in DOMAIN log' /\ ~After(log[r], cursor)
        BY <1>4, <3>1, <4>1
      <4> QED
        BY <1>3, <2>1, <4>2, NotAfter
    <3>2. CASE i \notin DOMAIN Sent
      <4>1. i = Len(Sent) + 1
        BY <1>2, <2>2, <3>2
      <4>2. r \in b
        BY <2>2, <4>1
      <4> QED
        BY <1>1, <2>1, <4>2
    <3> QED
      BY <3>1, <3>2
  <2>4. NewRowsOnly'
    <3> SUFFICES ASSUME NEW i \in DOMAIN Sent', NEW j \in DOMAIN Sent', i < j,
                        NEW r \in Sent'[i], NEW s \in Sent'[j]
                 PROVE  r # s /\ After(log'[s], log'[r])
      BY DEF NewRowsOnly
    <3>1. i \in DOMAIN Sent /\ r \in Sent[i]
      BY <1>2, <2>2
    <3>2. CASE j \in DOMAIN Sent
      <4>1. s \in Sent[j]
        BY <1>2, <2>2, <3>2
      <4>2. r # s /\ After(log[s], log[r])
        BY <3>1, <3>2, <4>1 DEF NewRowsOnly
      <4> QED
        BY <1>4, <3>1, <3>2, <4>1, <4>2
    <3>3. CASE j \notin DOMAIN Sent
      <4>1. j = Len(Sent) + 1
        BY <1>2, <2>2, <3>3
      <4>2. s \in b
        BY <2>2, <4>1
      <4>3. s \in 1 .. Len(log) /\ log[s] \in Cursor /\ After(log[s], cursor) /\ log'[s] = log[s]
        BY <1>1, <2>1, <4>2
      <4>4. log[r] \in Cursor /\ ~After(log[r], cursor) /\ log'[r] = log[r]
        BY <1>4, <3>1
      <4>5. After(log[s], log[r]) /\ log[s] # log[r]
        BY <1>3, <4>3, <4>4, NotAfter
      <4> QED
        BY <4>3, <4>4, <4>5
    <3> QED
      BY <3>2, <3>3
  <2> QED
    BY <2>3, <2>4
<1> QED
  BY <1>6, <1>7, <1>8, SentSteps

\* As long as no two re-queries overlap and all cursor columns are selected, no row
\* is sent twice and no batch goes back behind an earlier one.
THEOREM NewRowsAlways ==
  ASSUME ~Overlap, Selected = 1 .. Columns
  PROVE  Spec => []NewRowsOnly
<1>1. Init => OneQuery /\ Behind /\ NewRowsOnly
  <2> SUFFICES ASSUME Init PROVE OneQuery /\ Behind /\ NewRowsOnly
    OBVIOUS
  <2>1. Sent = <<>> /\ flights = <<>>
    BY DEF Init, Sent
  <2> QED
    BY <2>1 DEF Init, OneQuery, Behind, NewRowsOnly
<1>2. TypeOK /\ SnapInv /\ TypeOK' /\ SnapInv' /\ OneQuery /\ Behind /\ NewRowsOnly /\ [Next]_vars
        => OneQuery' /\ Behind' /\ NewRowsOnly'
  <2> SUFFICES ASSUME TypeOK, SnapInv, TypeOK', OneQuery, Behind, NewRowsOnly, [Next]_vars
               PROVE  OneQuery' /\ Behind' /\ NewRowsOnly'
    OBVIOUS
  <2>1. OneQuery'
    BY OneQueryStep
  <2>2. Behind' /\ NewRowsOnly'
    BY NewRowsStep
  <2> QED
    BY <2>1, <2>2
<1> QED
  BY <1>1, <1>2, SnapsExist, PTL DEF Spec

-----------------------------------------------------------------------------
(* Skipped rows.  The cursor is the initial one or the key of the last row *)
(* of a batch that was sent, which is what the batch that passed a row is. *)

\* Where the cursor of a live subscription is, and the order that InOrder asks for.
CursorInv ==
  /\ phase = "live" => \/ cursor = From
                       \/ \E i \in DOMAIN Sent : Sent[i] # {} /\ cursor = log[LastRow(Sent[i])]
  /\ InOrder => \A r, s \in DOMAIN log : r < s => After(log[s], log[r])

\* Row r was passed and not sent.
Skipped(r) == After(log[r], From) /\ ~After(log[r], cursor) /\ r \notin Delivered

\* What SkippedOnlyIfLateOrTied says of such a row and the batch that passed it.
PassedBy(r, i) ==
  /\ Sent[i] # {}
  /\ Sorted(r, LastRow(Sent[i]))
  /\ \/ ~InOrder /\ r > asked[i]
     \/ ~InOrder /\ log[r] = log[LastRow(Sent[i])] /\ Cardinality(Sent[i]) = BatchSize

\* LastRow of a batch of another log.
LastOf(f, b) == CHOOSE r \in b : \A s \in b : f[s] = f[r] \/ After(f[r], f[s])

\* The key of the last row of a batch stays as long as the keys of its rows do.
LEMMA LastKeyKept ==
  ASSUME NEW f, NEW g, NEW b, IsFiniteSet(b), b # {},
         \A r \in b : f[r] \in Cursor /\ g[r] = f[r]
  PROVE  g[LastOf(g, b)] = f[LastOf(f, b)]
<1> DEFINE m == LastOf(f, b)
           p == LastOf(g, b)
<1>1. m \in b /\ \A s \in b : f[s] = f[m] \/ After(f[m], f[s])
  <2>1. \E x \in b : \A s \in b : f[s] = f[x] \/ After(f[x], f[s])
    BY LastExists
  <2> QED
    BY <2>1 DEF LastOf
<1>2. p \in b /\ \A s \in b : g[s] = g[p] \/ After(g[p], g[s])
  <2>1. \E x \in b : \A s \in b : g[s] = g[x] \/ After(g[x], g[s])
    BY LastExists
  <2> QED
    BY <2>1 DEF LastOf
<1> HIDE DEF m, p
<1>3. f[p] = f[m] \/ (After(f[m], f[p]) /\ After(f[p], f[m]))
  BY <1>1, <1>2
<1>4. f[p] = f[m]
  BY <1>1, <1>2, <1>3, AfterStrict
<1> QED
  BY <1>2, <1>4 DEF m, p

\* That of a batch sent stays in every step that keeps the batch.
LEMMA SentKeyKept ==
  ASSUME TypeOK, Behind, NEW i \in DOMAIN Sent, Sent[i] # {}, Sent'[i] = Sent[i],
         \A q \in 1 .. Len(log) : log'[q] = log[q]
  PROVE  /\ log'[LastRow(Sent[i])'] = log[LastRow(Sent[i])]
         /\ LastRow(Sent[i]) \in DOMAIN log
<1> DEFINE b == Sent[i]
<1>1. b \subseteq 1 .. Len(log) /\ Len(log) \in Nat /\ DOMAIN log = 1 .. Len(log)
  BY KeysLemma DEF Behind
<1>2. IsFiniteSet(1 .. Len(log))
  BY <1>1, FS_Interval
<1>3. IsFiniteSet(b)
  <2> HIDE DEF b
  <2> QED
    BY <1>1, <1>2, FS_Subset
<1>4. b # {} /\ \A q \in b : log[q] \in Cursor /\ log'[q] = log[q]
  BY <1>1, KeysLemma
<1>5. LastRow(Sent[i]) = LastOf(log, b) /\ LastRow(Sent[i])' = LastOf(log', Sent'[i])
  BY DEF LastRow, LastOf, Sorted
<1>6. log'[LastOf(log', b)] = log[LastOf(log, b)]
  <2> HIDE DEF b
  <2> QED
    BY <1>3, <1>4, LastKeyKept
<1>7. LastRow(Sent[i]) \in b
  BY <1>3, <1>4, LastRowLemma
<1> QED
  BY <1>1, <1>5, <1>6, <1>7

\* A batch that passed a row goes on having passed it.
LEMMA PassedKept ==
  ASSUME TypeOK, Behind, NEW r \in DOMAIN log, NEW i \in DOMAIN Sent,
         PassedBy(r, i), Sent'[i] = Sent[i], asked'[i] = asked[i],
         \A q \in 1 .. Len(log) : log'[q] = log[q]
  PROVE  PassedBy(r, i)'
<1>1. Sent[i] # {}
  BY DEF PassedBy
<1>2. log'[LastRow(Sent[i])'] = log[LastRow(Sent[i])]
  BY <1>1, SentKeyKept
<1>3. log'[r] = log[r]
  BY KeysLemma
<1>4. PassedBy(r, i)' <=>
        /\ Sent'[i] # {}
        /\ log'[r] = log'[LastRow(Sent[i])'] \/ After(log'[LastRow(Sent[i])'], log'[r])
        /\ \/ ~InOrder /\ r > asked'[i]
           \/ /\ ~InOrder /\ log'[r] = log'[LastRow(Sent[i])']
              /\ Cardinality(Sent'[i]) = BatchSize
  BY DEF PassedBy, Sorted
<1> QED
  BY <1>1, <1>2, <1>3, <1>4 DEF PassedBy, Sorted

\* SkippedOnlyIfLateOrTied in these words.
LEMMA SkippedLemma ==
  SkippedOnlyIfLateOrTied <=>
    (phase = "live" => \A r \in DOMAIN log : Skipped(r) => \E i \in DOMAIN Sent : PassedBy(r, i))
BY DEF SkippedOnlyIfLateOrTied, Skipped, PassedBy

\* A step that keeps what was sent keeps who passed the rows of the log.
LEMMA StillPassed ==
  ASSUME TypeOK, Behind, DOMAIN Sent \subseteq DOMAIN Sent',
         \A i \in DOMAIN Sent : Sent'[i] = Sent[i] /\ asked'[i] = asked[i],
         \A q \in 1 .. Len(log) : log'[q] = log[q],
         NEW r \in DOMAIN log, \E i \in DOMAIN Sent : PassedBy(r, i)
  PROVE  \E i \in DOMAIN Sent' : PassedBy(r, i)'
<1>1. PICK i \in DOMAIN Sent : PassedBy(r, i)
  OBVIOUS
<1>2. PassedBy(r, i)'
  BY <1>1, PassedKept
<1> QED
  BY <1>2

\* A row that commits behind the cursor was passed by the batch that the cursor is
\* the last row of, and it is late.
LEMMA InsertStep ==
  ASSUME TypeOK, TypeOK', SnapInv, OneQuery, Behind, CursorInv, SkippedOnlyIfLateOrTied,
         NEW k \in Keys, Insert(k), Keeps
  PROVE  CursorInv' /\ SkippedOnlyIfLateOrTied'
<1> DEFINE new == Len(log) + 1
<1>1. /\ Len(log) \in Nat /\ DOMAIN log = 1 .. Len(log) /\ DOMAIN log' = 1 .. new
      /\ \A r \in 1 .. Len(log) : log'[r] = log[r] /\ log[r] \in Cursor
      /\ log'[new] = k /\ k \in Cursor
      /\ InOrder => \A r \in DOMAIN log : After(k, log[r])
  <2>1. Len(log') = new /\ log'[Len(log')] = k
    BY LogGrows
  <2>2. /\ Len(log) \in Nat /\ DOMAIN log = 1 .. Len(log) /\ DOMAIN log' = 1 .. Len(log')
        /\ \A r \in 1 .. Len(log) : log'[r] = log[r] /\ log[r] \in Cursor
    BY LogKept
  <2>3. k \in Cursor
    BY StreamsAssumption DEF Cursor
  <2> QED
    BY <2>1, <2>2, <2>3 DEF Insert
<1>2. /\ Sent' = Sent /\ cursor' = cursor /\ cursor \in Cursor
      /\ phase' = "live" => phase = "live" /\ asked' = asked
  BY DEF Keeps, TypeOK, Cursor
<1>3. ASSUME InOrder PROVE \A r, s \in DOMAIN log' : r < s => After(log'[s], log'[r])
  <2> SUFFICES ASSUME NEW r \in DOMAIN log', NEW s \in DOMAIN log', r < s
               PROVE  After(log'[s], log'[r])
    OBVIOUS
  <2>1. r \in DOMAIN log /\ log'[r] = log[r]
    BY <1>1
  <2>2. CASE s = new
    BY <1>1, <1>3, <2>1, <2>2
  <2>3. CASE s # new
    <3>1. s \in DOMAIN log /\ log'[s] = log[s]
      BY <1>1, <2>3
    <3> QED
      BY <1>3, <2>1, <3>1 DEF CursorInv
  <2> QED
    BY <2>2, <2>3
<1>4. ASSUME phase' = "live", NEW i \in DOMAIN Sent, Sent[i] # {}, cursor = log[LastRow(Sent[i])]
      PROVE  cursor' = log'[LastRow(Sent[i])']
  <2>1. log'[LastRow(Sent[i])'] = log[LastRow(Sent[i])]
    BY <1>1, <1>2, <1>4, SentKeyKept
  <2> QED
    BY <1>2, <1>4, <2>1
<1>5. CursorInv'
  <2>1. ASSUME phase' = "live"
        PROVE  \/ cursor' = From
               \/ \E i \in DOMAIN Sent' : Sent'[i] # {} /\ cursor' = log'[LastRow(Sent[i])']
    <3>1. cursor = From \/ \E i \in DOMAIN Sent : Sent[i] # {} /\ cursor = log[LastRow(Sent[i])]
      BY <1>2, <2>1 DEF CursorInv
    <3>2. CASE \E i \in DOMAIN Sent : Sent[i] # {} /\ cursor = log[LastRow(Sent[i])]
      <4>1. PICK i \in DOMAIN Sent : Sent[i] # {} /\ cursor = log[LastRow(Sent[i])]
        BY <3>2
      <4>2. cursor' = log'[LastRow(Sent[i])']
        BY <1>4, <2>1, <4>1
      <4> QED
        BY <1>2, <4>1, <4>2
    <3> QED
      BY <1>2, <3>1, <3>2
  <2> QED
    BY <1>3, <2>1 DEF CursorInv
<1>6. ASSUME phase' = "live", NEW r \in DOMAIN log', Skipped(r)'
      PROVE  \E i \in DOMAIN Sent' : PassedBy(r, i)'
  <2>1. /\ phase = "live" /\ asked' = asked
        /\ After(log'[r], From) /\ ~After(log'[r], cursor) /\ r \notin Delivered'
    BY <1>2, <1>6 DEF Skipped
  <2>2. Delivered' = Delivered
    BY <1>2 DEF Delivered
  <2>3. CASE r \in DOMAIN log
    <3>1. Skipped(r)
      BY <1>1, <2>1, <2>2, <2>3 DEF Skipped
    <3>2. \E i \in DOMAIN Sent : PassedBy(r, i)
      BY <2>1, <2>3, <3>1, SkippedLemma
    <3> QED
      BY <1>1, <1>2, <2>1, <2>3, <3>2, StillPassed
  <2>4. CASE r \notin DOMAIN log
    <3>1. r = new /\ log'[r] = k
      BY <1>1, <2>4
    <3>2. PICK i \in DOMAIN Sent : Sent[i] # {} /\ cursor = log[LastRow(Sent[i])]
      BY <2>1, <3>1 DEF CursorInv
    <3>3. log'[LastRow(Sent[i])'] = cursor /\ LastRow(Sent[i]) \in DOMAIN log
      BY <1>1, <1>2, <3>2, SentKeyKept
    <3>4. ~InOrder
      BY <1>1, <2>1, <3>1, <3>2, <3>3
    <3>5. k = cursor \/ After(cursor, k)
      BY <1>1, <1>2, <2>1, <3>1, AfterTotal
    <3>6. r > asked'[i]
      <4>1. i \in DOMAIN asked
        BY <2>1, SentTypes DEF OneQuery
      <4>2. asked[i] <= Len(log) /\ asked[i] \in Int
        <5>1. asked[i] \in 0 .. MaxRows
          BY <4>1, SentTypes, ElementOfSeq
        <5> QED
          BY <4>1, <5>1 DEF SnapInv
      <4> QED
        BY <1>1, <2>1, <3>1, <4>2
    <3>7. PassedBy(r, i)' <=>
            /\ Sent'[i] # {}
            /\ log'[r] = log'[LastRow(Sent[i])'] \/ After(log'[LastRow(Sent[i])'], log'[r])
            /\ \/ ~InOrder /\ r > asked'[i]
               \/ /\ ~InOrder /\ log'[r] = log'[LastRow(Sent[i])']
                  /\ Cardinality(Sent'[i]) = BatchSize
      BY DEF PassedBy, Sorted
    <3>8. PassedBy(r, i)'
      BY <1>2, <3>1, <3>2, <3>3, <3>4, <3>5, <3>6, <3>7
    <3> QED
      BY <1>2, <3>8
  <2> QED
    BY <2>3, <2>4
<1>7. SkippedOnlyIfLateOrTied'
  <2>1. SkippedOnlyIfLateOrTied' <=>
          (phase' = "live" =>
             \A r \in DOMAIN log' : Skipped(r)' => \E i \in DOMAIN Sent' : PassedBy(r, i)')
    BY DEF SkippedOnlyIfLateOrTied, Skipped, PassedBy
  <2> QED
    BY <1>6, <2>1
<1> QED
  BY <1>5, <1>7

\* A batch passes only rows that it took, that its query did not see, or that tie
\* with its last row when it is full.
LEMMA SendStep ==
  ASSUME TypeOK, TypeOK', SnapInv, OneQuery, Selected = 1 .. Columns, Behind, CursorInv,
         SkippedOnlyIfLateOrTied, log' = log,
         NEW n \in 0 .. Len(log), NEW b \in Batches(n, cursor), Sends(b, n)
  PROVE  CursorInv' /\ SkippedOnlyIfLateOrTied'
<1> DEFINE l == LastRow(b)
<1>0. PICK j \in Nat : j = Len(Sent) + 1
  BY SentTypes
<1>1. /\ Len(log) \in Nat /\ DOMAIN log = 1 .. Len(log) /\ n \in Nat /\ n <= Len(log)
      /\ \A r \in 1 .. Len(log) : log'[r] = log[r] /\ log[r] \in Cursor
  BY KeysLemma
<1>2. /\ DOMAIN Sent = 1 .. Len(Sent) /\ DOMAIN Sent' = 1 .. j /\ Len(Sent) \in Nat
      /\ Sent'[j] = b /\ asked'[j] = n
      /\ \A i \in DOMAIN Sent : Sent'[i] = Sent[i] /\ asked'[i] = asked[i]
      /\ cursor' = Advance(cursor, b) /\ cursor \in Cursor
  <2>1. Sent' \in Seq(Batch)
    <3>1. got' \in Seq(Batch) /\ queue' \in Seq(Batch)
      BY DEF TypeOK
    <3> QED
      BY <3>1, ConcatProperties DEF Sent
  <2> QED
    BY <1>0, <2>1, SentTypes, LenProperties DEF Sends, TypeOK, Cursor
<1>3. /\ cursor = From \/ \E i \in DOMAIN Sent : Sent[i] # {} /\ cursor = log[LastRow(Sent[i])]
      /\ \A r \in DOMAIN log : Skipped(r) => \E i \in DOMAIN Sent : PassedBy(r, i)
  <2>1. CASE phase = "live"
    BY <2>1, SkippedLemma DEF CursorInv
  <2>2. CASE phase = "asked"
    BY <2>2 DEF OneQuery, Skipped
  <2> QED
    BY <2>1, <2>2 DEF Sends
<1>4. /\ b \subseteq 1 .. n /\ IsFiniteSet(b)
      /\ \A s \in 1 .. n : (After(log[s], cursor) /\ s \notin b) =>
           Cardinality(b) = BatchSize /\ \A r \in b : Sorted(r, s)
      /\ b = {} => cursor' = cursor
      /\ b # {} => l \in b /\ l \in 1 .. n /\ cursor' = log[l]
  <2>1. /\ b \subseteq 1 .. n /\ IsFiniteSet(b)
        /\ \A s \in 1 .. n : (After(log[s], cursor) /\ s \notin b) =>
             Cardinality(b) = BatchSize /\ \A r \in b : Sorted(r, s)
    BY <1>1, BatchLemma
  <2>2. /\ b = {} => Advance(cursor, b) = cursor
        /\ b # {} => l \in b /\ l \in 1 .. n /\ Advance(cursor, b) = log[l]
    BY <1>2, AdvanceLemma
  <2> QED
    BY <1>2, <2>1, <2>2
<1>5. LastRow(Sent[j])' = l
  <2>1. LastRow(Sent[j])' = LastOf(log', Sent'[j]) /\ l = LastOf(log, b)
    BY DEF LastRow, LastOf, Sorted
  <2> HIDE DEF l
  <2> QED
    BY <1>2, <2>1
<1> HIDE DEF l
<1>6. CursorInv'
  <2>1. InOrder => \A r, s \in DOMAIN log' : r < s => After(log'[s], log'[r])
    BY DEF CursorInv
  <2>2. \/ cursor' = From
        \/ \E i \in DOMAIN Sent' : Sent'[i] # {} /\ cursor' = log'[LastRow(Sent[i])']
    <3>1. CASE b # {}
      <4>1. j \in DOMAIN Sent'
        BY <1>0, <1>2
      <4> QED
        BY <1>2, <1>4, <1>5, <3>1, <4>1
    <3>2. CASE b = {} /\ cursor = From
      BY <1>4, <3>2
    <3>3. CASE b = {} /\ cursor # From
      <4>1. PICK i \in DOMAIN Sent : Sent[i] # {} /\ cursor = log[LastRow(Sent[i])]
        BY <1>3, <3>3
      <4>2. log'[LastRow(Sent[i])'] = log[LastRow(Sent[i])]
        BY <1>1, <1>2, <4>1, SentKeyKept
      <4>3. i \in DOMAIN Sent' /\ Sent'[i] # {}
        BY <1>0, <1>2, <4>1
      <4> QED
        BY <1>4, <3>3, <4>1, <4>2, <4>3
    <3> QED
      BY <3>1, <3>2, <3>3
  <2> QED
    BY <2>1, <2>2 DEF CursorInv
<1>7. ASSUME NEW r \in DOMAIN log, Skipped(r)'
      PROVE  \E i \in DOMAIN Sent' : PassedBy(r, i)'
  <2>1. /\ After(log[r], From) /\ ~After(log[r], cursor')
        /\ \A i \in DOMAIN Sent' : r \notin Sent'[i]
    BY <1>7 DEF Skipped, Delivered
  <2>2. log[r] \in Cursor
    BY <1>1
  <2>3. CASE ~After(log[r], cursor)
    <3>1. r \notin Delivered
      BY <1>0, <1>2, <2>1 DEF Delivered
    <3>2. \E i \in DOMAIN Sent : PassedBy(r, i)
      BY <1>3, <2>1, <2>3, <3>1 DEF Skipped
    <3>3. DOMAIN Sent \subseteq DOMAIN Sent'
      BY <1>0, <1>2
    <3> QED
      BY <1>1, <1>2, <3>2, <3>3, StillPassed
  <2>4. CASE After(log[r], cursor)
    <3>1. b # {} /\ j \in DOMAIN Sent' /\ r \notin b
      BY <1>0, <1>2, <1>4, <2>1, <2>4
    <3>2. l \in b /\ l \in 1 .. n /\ cursor' = log[l] /\ log[l] \in Cursor
      BY <1>1, <1>4, <3>1
    <3>3. log[r] = log[l] \/ After(log[l], log[r])
      BY <2>1, <2>2, <3>2, AfterTotal
    <3>4. \/ ~InOrder /\ r > n
          \/ ~InOrder /\ log[r] = log[l] /\ Cardinality(b) = BatchSize
      <4>1. r \in 1 .. Len(log) /\ l \in 1 .. Len(log) /\ r # l
        BY <1>1, <3>1, <3>2
      <4>2. CASE r > n
        <5>1. InOrder => After(log[r], log[l])
          BY <1>1, <3>2, <4>1, <4>2 DEF CursorInv
        <5> QED
          BY <2>1, <3>2, <4>2, <5>1
      <4>3. CASE r <= n
        <5>1. Cardinality(b) = BatchSize /\ Sorted(l, r)
          BY <1>1, <1>4, <2>4, <3>1, <3>2, <4>1, <4>3
        <5>2. log[r] = log[l]
          BY <2>1, <3>2, <5>1 DEF Sorted
        <5>3. ~InOrder
          <6>1. InOrder => After(log[r], log[l]) \/ After(log[l], log[r])
            BY <1>1, <4>1 DEF CursorInv
          <6> QED
            BY <2>2, <5>2, <6>1, AfterStrict
        <5> QED
          BY <5>1, <5>2, <5>3
      <4> QED
        BY <1>1, <4>1, <4>2, <4>3
    <3>5. PassedBy(r, j)' <=>
            /\ Sent'[j] # {}
            /\ log'[r] = log'[LastRow(Sent[j])'] \/ After(log'[LastRow(Sent[j])'], log'[r])
            /\ \/ ~InOrder /\ r > asked'[j]
               \/ /\ ~InOrder /\ log'[r] = log'[LastRow(Sent[j])']
                  /\ Cardinality(Sent'[j]) = BatchSize
      BY DEF PassedBy, Sorted
    <3>6. PassedBy(r, j)'
      BY <1>2, <1>5, <3>1, <3>3, <3>4, <3>5
    <3> QED
      BY <3>1, <3>6
  <2> QED
    BY <2>3, <2>4
<1>8. SkippedOnlyIfLateOrTied'
  <2>1. SkippedOnlyIfLateOrTied' <=>
          (phase' = "live" =>
             \A r \in DOMAIN log' : Skipped(r)' => \E i \in DOMAIN Sent' : PassedBy(r, i)')
    BY DEF SkippedOnlyIfLateOrTied, Skipped, PassedBy
  <2> QED
    BY <1>7, <2>1
<1> QED
  BY <1>6, <1>8

\* Every other step passes no row.
LEMMA SkippedStep ==
  ASSUME TypeOK, TypeOK', SnapInv, OneQuery, Selected = 1 .. Columns, Behind, CursorInv,
         SkippedOnlyIfLateOrTied, [Next]_vars
  PROVE  CursorInv' /\ SkippedOnlyIfLateOrTied'
<1>1. ASSUME NEW k \in Keys, Insert(k), Keeps PROVE CursorInv' /\ SkippedOnlyIfLateOrTied'
  BY <1>1, InsertStep
<1>2. ASSUME log' = log, Keeps PROVE CursorInv' /\ SkippedOnlyIfLateOrTied'
  <2>1. /\ Sent' = Sent /\ cursor' = cursor
        /\ phase' = "live" => phase = "live" /\ asked' = asked
    BY <1>2 DEF Keeps
  <2>2. \A i : LastRow(Sent[i])' = LastRow(Sent[i])
    <3>1. \A i : LastRow(Sent[i])' = LastOf(log', Sent'[i])
      BY DEF LastRow, LastOf, Sorted
    <3>2. \A i : LastRow(Sent[i]) = LastOf(log, Sent[i])
      BY DEF LastRow, LastOf, Sorted
    <3> QED
      BY <1>2, <2>1, <3>1, <3>2
  <2>3. CursorInv'
    BY <1>2, <2>1, <2>2 DEF CursorInv
  <2>4. SkippedOnlyIfLateOrTied'
    <3>1. \A r : Skipped(r)' <=> Skipped(r)
      BY <1>2, <2>1 DEF Skipped, Delivered
    <3>2. ASSUME asked' = asked PROVE \A r, i : PassedBy(r, i)' <=> PassedBy(r, i)
      BY <1>2, <2>1, <2>2, <3>2 DEF PassedBy, Sorted
    <3>3. SkippedOnlyIfLateOrTied' <=>
            (phase' = "live" =>
               \A r \in DOMAIN log' : Skipped(r)' => \E i \in DOMAIN Sent' : PassedBy(r, i)')
      BY DEF SkippedOnlyIfLateOrTied, Skipped, PassedBy
    <3> QED
      BY <1>2, <2>1, <3>1, <3>2, <3>3, SkippedLemma
  <2> QED
    BY <2>3, <2>4
<1>3. ASSUME log' = log, NEW n, NEW b, Discards(b, n)
      PROVE  CursorInv' /\ SkippedOnlyIfLateOrTied'
  <2>1. phase' # "live"
    BY <1>3 DEF Discards
  <2> QED
    BY <1>3, <2>1 DEF CursorInv, SkippedOnlyIfLateOrTied
<1>4. ASSUME log' = log, NEW n \in 0 .. Len(log), NEW b \in Batches(n, cursor), Sends(b, n)
      PROVE  CursorInv' /\ SkippedOnlyIfLateOrTied'
  BY <1>4, SendStep
<1> QED
  BY <1>1, <1>2, <1>3, <1>4, SentSteps

\* As long as no two re-queries overlap and all cursor columns are selected, a row
\* behind the initial cursor is skipped only when it committed after the query of
\* the batch that passed it, or ties with the last row of a batch that was full;
\* with rows that commit in order and without ties, none is.
THEOREM OnlyLateOrTiedSkipped ==
  ASSUME ~Overlap, Selected = 1 .. Columns
  PROVE  Spec => []SkippedOnlyIfLateOrTied
<1>1. Init => OneQuery /\ Behind /\ CursorInv /\ SkippedOnlyIfLateOrTied
  <2> SUFFICES ASSUME Init PROVE OneQuery /\ Behind /\ CursorInv /\ SkippedOnlyIfLateOrTied
    OBVIOUS
  <2>1. Sent = <<>> /\ flights = <<>> /\ log = <<>> /\ phase = "new"
    BY DEF Init, Sent
  <2> QED
    BY <2>1 DEF Init, OneQuery, Behind, CursorInv, SkippedOnlyIfLateOrTied
<1>2. TypeOK /\ SnapInv /\ TypeOK' /\ SnapInv' /\ OneQuery /\ Behind /\ NewRowsOnly /\ CursorInv
        /\ SkippedOnlyIfLateOrTied /\ [Next]_vars
        => OneQuery' /\ Behind' /\ NewRowsOnly' /\ CursorInv' /\ SkippedOnlyIfLateOrTied'
  <2> SUFFICES ASSUME TypeOK, SnapInv, TypeOK', OneQuery, Behind, NewRowsOnly, CursorInv,
                      SkippedOnlyIfLateOrTied, [Next]_vars
               PROVE  OneQuery' /\ Behind' /\ NewRowsOnly' /\ CursorInv' /\ SkippedOnlyIfLateOrTied'
    OBVIOUS
  <2>1. OneQuery'
    BY OneQueryStep
  <2>2. Behind' /\ NewRowsOnly'
    BY NewRowsStep
  <2>3. CursorInv' /\ SkippedOnlyIfLateOrTied'
    BY SkippedStep
  <2> QED
    BY <2>1, <2>2, <2>3
<1> QED
  BY <1>1, <1>2, NewRowsAlways, SnapsExist, PTL DEF Spec

-----------------------------------------------------------------------------
(* The scan.  What is behind the cursor is what is behind the beginning    *)
(* and behind every row sent, for the cursor never goes back behind where  *)
(* it began (FromInv); and a query in flight does not see less than the    *)
(* last batch did, unless a replica lags (SeenInv).                        *)

\* The cursor is where it began or behind it.
FromInv == cursor = From \/ After(cursor, From)

\* The client of a live subscription has got its first batch.
BegunInv == phase = "live" => got # <<>>

\* Without a replica, a query sees no less than the one of the last batch.
SeenInv ==
  phase = "live" /\ ~Replica =>
    \A k \in DOMAIN flights : flights[k].snap = -1 \/ asked[Len(asked)] <= flights[k].snap

\* Every step keeps the cursor from going back behind the beginning.
LEMMA FromStep ==
  ASSUME TypeOK, TypeOK', SnapInv, OneQuery, Selected = 1 .. Columns, FromInv, [Next]_vars
  PROVE  FromInv'
<1>1. cursor \in Cursor /\ cursor' \in Cursor /\ From \in Cursor
  BY StreamsAssumption DEF TypeOK, Cursor
<1>2. cursor' = cursor \/ After(cursor', cursor)
  <2>1. ASSUME Keeps PROVE cursor' = cursor
    BY <2>1 DEF Keeps
  <2>2. ASSUME NEW n \in 0 .. Len(log), NEW b \in Batches(n, cursor),
               cursor' = Advance(cursor, b)
        PROVE  cursor' = cursor \/ After(cursor', cursor)
    BY <2>2, MovesOn
  <2>3. ASSUME NEW n \in 0 .. Len(log), NEW b \in Batches(n, cursor),
               Discards(b, n) \/ Sends(b, n)
        PROVE  cursor' = cursor \/ After(cursor', cursor)
    BY <2>2, <2>3 DEF Discards, Sends
  <2> QED
    BY <2>1, <2>3, SentSteps
<1> QED
  BY <1>1, <1>2, AfterTransitive DEF FromInv

\* Every step keeps the first batch with the client.
LEMMA BegunStep ==
  ASSUME TypeOK, BegunInv, [Next]_vars
  PROVE  BegunInv'
<1>1. ASSUME got' = got, phase' = phase PROVE BegunInv'
  BY <1>1 DEF BegunInv
<1>2. ASSUME \/ \E k \in Keys : Insert(k)
             \/ \E t \in Related : Touch(t)
             \/ LoseNotifications
             \/ \E t \in Tables : HandleChange(t) \/ Fire(t)
             \/ FlightStep
             \/ \E k \in DOMAIN flights : QueryFails(k)
             \/ UNCHANGED vars
      PROVE  BegunInv'
  BY <1>1, <1>2
     DEF Insert, Touch, LoseNotifications, HandleChange, Fire, FlightStep, Snapshot, Answer,
         QueryFails, vars
<1>3. ASSUME Subscribe \/ InitialSnapshot \/ RegisterFails \/ Unregister PROVE BegunInv'
  BY <1>3 DEF Subscribe, InitialSnapshot, RegisterFails, Unregister, BegunInv
<1>4. ASSUME Register PROVE BegunInv'
  BY <1>4 DEF Register, BegunInv
<1>5. ASSUME Pull PROVE BegunInv'
  <2>1. queue \in Seq(Batch) /\ queue # <<>> /\ got \in Seq(Batch)
    BY <1>5 DEF Pull, TypeOK
  <2>2. Head(queue) \in Batch
    BY <2>1
  <2>3. Append(got, Head(queue)) # <<>>
    <3> HIDE DEF Batch
    <3>1. Append(got, Head(queue)) \in Seq(Batch) /\ Len(Append(got, Head(queue))) = Len(got) + 1
          /\ Len(got) \in Nat
      BY <2>1, <2>2, AppendProperties, LenProperties
    <3> QED
      BY <3>1, EmptySeq
  <2> QED
    BY <1>5, <2>3 DEF Pull, BegunInv
<1> QED
  BY <1>2, <1>3, <1>4, <1>5 DEF Next

\* Every step keeps queries from seeing less than the one of the last batch.
LEMMA SeenStep ==
  ASSUME TypeOK, SnapInv, OneQuery, BegunInv, SeenInv, ~Overlap, [Next]_vars
  PROVE  SeenInv'
<1> USE SentTypes
<1>1. ASSUME flights' = flights, asked' = asked, phase' = phase PROVE SeenInv'
  BY <1>1 DEF SeenInv
<1>2. ASSUME flights' = <<>> PROVE SeenInv'
  BY <1>2 DEF SeenInv
<1>3. ASSUME NEW k \in Keys, Insert(k) PROVE SeenInv'
  BY <1>1, <1>3 DEF Insert
<1>4. ASSUME NEW t \in Related, Touch(t) PROVE SeenInv'
  BY <1>1, <1>4 DEF Touch
<1>5. ASSUME LoseNotifications PROVE SeenInv'
  BY <1>1, <1>5 DEF LoseNotifications
<1>6. ASSUME NEW t \in Tables, HandleChange(t) PROVE SeenInv'
  BY <1>1, <1>6 DEF HandleChange
<1>7. ASSUME NEW t \in Tables, Fire(t) PROVE SeenInv'
  <2>1. flights = <<>>
    BY <1>7 DEF Fire
  <2>2. CASE phase = "live"
    <3>1. flights' = <<[last |-> cursor, snap |-> -1]>>
      BY <1>7, <2>1, <2>2 DEF Fire
    <3>2. \A k \in DOMAIN flights' : flights'[k].snap = -1
      BY <3>1
    <3> QED
      BY <3>2 DEF SeenInv
  <2>3. CASE phase # "live"
    BY <1>2, <1>7, <2>1, <2>3 DEF Fire
  <2> QED
    BY <2>2, <2>3
<1>8. ASSUME NEW k \in DOMAIN flights, Snapshot(k) PROVE SeenInv'
  <2>1. PICK n \in Visible : flights' = [flights EXCEPT ![k].snap = n]
    BY <1>8 DEF Snapshot
  <2>2. phase' = phase /\ asked' = asked /\ DOMAIN flights' = DOMAIN flights
    BY <1>8, <2>1 DEF Snapshot
  <2>3. SUFFICES ASSUME phase = "live", ~Replica, NEW j \in DOMAIN flights
                 PROVE  flights'[j].snap = -1 \/ asked[Len(asked)] <= flights'[j].snap
    BY <2>2 DEF SeenInv
  <2>4. flights[j] \in Flight /\ flights[k] \in Flight
    BY ElementOfSeq
  <2>5. CASE j = k
    <3>1. flights'[j] = [flights[k] EXCEPT !.snap = n]
      BY <2>1, <2>5
    <3>2. flights'[j].snap = n /\ n = Len(log)
      BY <2>3, <2>4, <3>1 DEF Flight, Visible
    <3>3. Len(asked) \in DOMAIN asked
      <4>1. Len(asked) = Len(got) + Len(queue) /\ got # <<>>
        BY <2>3 DEF OneQuery, BegunInv
      <4>2. Len(got) # 0
        BY <4>1, EmptySeq DEF TypeOK
      <4>3. Len(asked) \in 1 .. Len(asked)
        BY <4>1, <4>2
      <4> QED
        BY <4>3
    <3> QED
      BY <3>2, <3>3 DEF SnapInv
  <2>6. CASE j # k
    <3>1. flights'[j] = flights[j]
      BY <2>1, <2>6
    <3> QED
      BY <2>3, <3>1 DEF SeenInv
  <2> QED
    BY <2>5, <2>6
<1>9. ASSUME NEW k \in DOMAIN flights, flights' = Landed(k) PROVE SeenInv'
  <2>1. Len(Landed(k)) = Len(flights) - 1 /\ Landed(k) \in Seq(Flight)
    BY LandedLemma
  <2>2. Len(flights) = 1
    <3>1. DOMAIN flights = 1 .. Len(flights) /\ Len(flights) \in Nat
      OBVIOUS
    <3>2. Len(flights) <= 1
      BY DEF OneQuery
    <3> QED
      BY <3>1, <3>2
  <2>3. Len(flights') = 0 /\ flights' \in Seq(Flight)
    BY <1>9, <2>1, <2>2
  <2>4. flights' = <<>>
    BY <2>3, EmptySeq
  <2> QED
    BY <1>2, <2>4
<1>10. ASSUME NEW k \in DOMAIN flights, Answer(k) \/ QueryFails(k) PROVE SeenInv'
  BY <1>9, <1>10 DEF Answer, QueryFails
<1>11. ASSUME Subscribe \/ InitialSnapshot \/ RegisterFails \/ Unregister PROVE SeenInv'
  BY <1>11 DEF Subscribe, InitialSnapshot, RegisterFails, Unregister, SeenInv
<1>12. ASSUME Register PROVE SeenInv'
  BY <1>2, <1>12 DEF Register, OneQuery
<1>13. ASSUME Pull PROVE SeenInv'
  BY <1>1, <1>13 DEF Pull
<1>14. ASSUME UNCHANGED vars PROVE SeenInv'
  BY <1>1, <1>14 DEF vars
<1> QED
  BY <1>3, <1>4, <1>5, <1>6, <1>7, <1>8, <1>10, <1>11, <1>12, <1>13, <1>14 DEF Next, FlightStep

\* The last row of a batch sent is in it.
LEMMA SentLastRow ==
  ASSUME TypeOK, Behind, NEW i \in DOMAIN Sent, Sent[i] # {}
  PROVE  LastRow(Sent[i]) \in Sent[i]
<1> DEFINE b == Sent[i]
<1>1. b \subseteq 1 .. Len(log) /\ Len(log) \in Nat /\ DOMAIN log = 1 .. Len(log)
  BY KeysLemma DEF Behind
<1>2. IsFiniteSet(1 .. Len(log))
  BY <1>1, FS_Interval
<1> HIDE DEF b
<1>3. IsFiniteSet(b)
  BY <1>1, <1>2, FS_Subset
<1>4. \A q \in b : log[q] \in Cursor
  BY <1>1, KeysLemma
<1>5. b # {}
  BY DEF b
<1> QED
  BY <1>3, <1>4, <1>5, LastRowLemma DEF b

\* What is fresh is what is behind the cursor, as long as the subscription reads.
LEMMA FreshLemma ==
  ASSUME TypeOK, OneQuery, Behind, CursorInv, FromInv, phase \in {"asked", "live"},
         NEW n \in 0 .. Len(log)
  PROVE  Scan!Fresh(n) = {r \in 1 .. n : After(log[r], cursor)}
<1>1. /\ n \in Nat /\ n <= Len(log) /\ Len(log) \in Nat /\ DOMAIN log = 1 .. Len(log)
      /\ \A r \in 1 .. Len(log) : log[r] \in Cursor
  BY KeysLemma
<1>2. cursor \in Cursor /\ From \in Cursor
  BY StreamsAssumption DEF TypeOK, Cursor
<1>3. \A r \in 1 .. n : r \in 1 .. Len(log) /\ log[r] \in Cursor
  BY <1>1
<1>4. \A i \in DOMAIN Sent : \A s \in Sent[i] :
        s \in 1 .. Len(log) /\ log[s] \in Cursor /\ ~After(log[s], cursor)
  BY <1>1 DEF Behind
<1>5. ASSUME NEW k, NEW c PROVE Scan!Beyond(k, c) <=> After(k, c)
  BY DEF Scan!Beyond, After
<1>6. ASSUME NEW r \in 1 .. n, After(log[r], cursor)
      PROVE  /\ After(log[r], From)
             /\ \A i \in DOMAIN Sent : \A s \in Sent[i] : After(log[r], log[s])
  <2>1. After(log[r], From)
    BY <1>2, <1>3, <1>6, AfterTransitive DEF FromInv
  <2>2. ASSUME NEW i \in DOMAIN Sent, NEW s \in Sent[i] PROVE After(log[r], log[s])
    BY <1>2, <1>3, <1>4, <1>6, NotAfter
  <2> QED
    BY <2>1, <2>2
<1>7. ASSUME NEW r \in 1 .. n, After(log[r], From),
             \A i \in DOMAIN Sent : \A s \in Sent[i] : After(log[r], log[s])
      PROVE  After(log[r], cursor)
  <2>1. CASE cursor = From
    BY <1>7, <2>1
  <2>2. CASE cursor # From
    <3>1. PICK i \in DOMAIN Sent : Sent[i] # {} /\ cursor = log[LastRow(Sent[i])]
      BY <2>2 DEF CursorInv, OneQuery
    <3>2. LastRow(Sent[i]) \in Sent[i]
      BY <3>1, SentLastRow
    <3> QED
      BY <1>7, <3>1, <3>2
  <2> QED
    BY <2>1, <2>2
<1>8. Scan!Fresh(n) = {r \in 1 .. n : /\ After(log[r], From)
                                      /\ \A i \in DOMAIN Sent : \A s \in Sent[i] : After(log[r], log[s])}
  BY <1>5 DEF Scan!Fresh
<1> QED
  BY <1>6, <1>7, <1>8

\* A batch behind the cursor is a first one of what is fresh.
LEMMA FirstLemma ==
  ASSUME TypeOK, OneQuery, Behind, CursorInv, FromInv, phase \in {"asked", "live"},
         NEW n \in 0 .. Len(log), NEW b \in Batches(n, cursor)
  PROVE  Scan!IsFirstOf(Scan!Fresh(n), b) /\ b \in SUBSET DOMAIN log
<1> DEFINE S == {r \in 1 .. n : After(log[r], cursor)}
           size == IF Cardinality(S) < BatchSize THEN Cardinality(S) ELSE BatchSize
<1>1. /\ n \in Nat /\ n <= Len(log) /\ Len(log) \in Nat /\ DOMAIN log = 1 .. Len(log)
      /\ \A r \in 1 .. Len(log) : log[r] \in Cursor
  BY KeysLemma
<1>2. /\ b \subseteq 1 .. n /\ IsFiniteSet(b) /\ \A r \in b : After(log[r], cursor)
      /\ \A s \in 1 .. n : (After(log[s], cursor) /\ s \notin b) =>
           Cardinality(b) = BatchSize /\ \A r \in b : Sorted(r, s)
  BY <1>1, BatchLemma
<1>3. Scan!Fresh(n) = S
  BY FreshLemma
<1>4. Cardinality(b) <= BatchSize
  <2>1. b \in kSubset(size, S)
    BY DEF Batches
  <2>2. Cardinality(b) = size
    BY <2>1 DEF kSubset
  <2>3. IsFiniteSet(S)
    <3>1. IsFiniteSet(1 .. n)
      BY <1>1, FS_Interval
    <3> QED
      BY <3>1, FS_Subset
  <2>4. Cardinality(S) \in Nat /\ BatchSize \in Nat
    BY <2>3, FS_CardinalityType, StreamsAssumption
  <2> HIDE DEF S
  <2> QED
    BY <2>2, <2>4
<1>5. b # S => Cardinality(b) = BatchSize
  BY <1>2
<1>6. ASSUME NEW r \in b, NEW s \in S \ b PROVE ~Scan!Beyond(log[r], log[s])
  <2>1. log[r] \in Cursor /\ log[s] \in Cursor
    BY <1>1, <1>2
  <2>2. Sorted(r, s)
    BY <1>2
  <2>3. ~After(log[r], log[s])
    BY <2>1, <2>2, AfterStrict DEF Sorted
  <2> QED
    BY <2>3 DEF Scan!Beyond, After
<1>7. b \subseteq S /\ b \in SUBSET DOMAIN log
  BY <1>1, <1>2
<1> HIDE DEF S
<1>8. Scan!Cardinality(b) = Cardinality(b)
  BY DEF Scan!Cardinality, Cardinality, Scan!IsFiniteSet, IsFiniteSet
<1>9. Scan!IsFirstOf(S, b)
  BY <1>4, <1>5, <1>6, <1>7, <1>8 DEF Scan!IsFirstOf
<1> QED
  BY <1>3, <1>7, <1>9

\* What the theorems above and the lemmas of the scan keep.
ScanInv ==
  /\ TypeOK /\ SnapInv /\ OneQuery
  /\ Behind /\ NewRowsOnly /\ CursorInv /\ SkippedOnlyIfLateOrTied
  /\ FromInv /\ BegunInv /\ SeenInv

\* It holds at first and every step keeps it.
LEMMA ScanInvAlways ==
  ASSUME ~Overlap, Selected = 1 .. Columns
  PROVE  Spec => []ScanInv
<1>1. Init => ScanInv
  <2> SUFFICES ASSUME Init PROVE ScanInv
    OBVIOUS
  <2>1. Sent = <<>> /\ flights = <<>> /\ log = <<>> /\ phase = "new" /\ cursor = From
    BY DEF Init, Sent
  <2>2. TypeOK /\ SnapInv
    BY TypeInit
  <2>3. OneQuery /\ Behind /\ NewRowsOnly /\ CursorInv /\ SkippedOnlyIfLateOrTied
    BY <2>1 DEF Init, OneQuery, Behind, NewRowsOnly, CursorInv, SkippedOnlyIfLateOrTied
  <2>4. FromInv /\ BegunInv /\ SeenInv
    BY <2>1 DEF FromInv, BegunInv, SeenInv
  <2> QED
    BY <2>2, <2>3, <2>4 DEF ScanInv
<1>2. ScanInv /\ [Next]_vars => ScanInv'
  <2> SUFFICES ASSUME ScanInv, [Next]_vars PROVE ScanInv'
    OBVIOUS
  <2>1. /\ TypeOK /\ SnapInv /\ OneQuery /\ Behind /\ NewRowsOnly /\ CursorInv
        /\ SkippedOnlyIfLateOrTied /\ FromInv /\ BegunInv /\ SeenInv
    BY DEF ScanInv
  <2>2. TypeOK' /\ SnapInv'
    BY <2>1, TypeStep
  <2>3. OneQuery'
    BY <2>1, OneQueryStep
  <2>4. Behind' /\ NewRowsOnly'
    BY <2>1, <2>2, NewRowsStep
  <2>5. CursorInv' /\ SkippedOnlyIfLateOrTied'
    BY <2>1, <2>2, SkippedStep
  <2>6. FromInv' /\ BegunInv' /\ SeenInv'
    BY <2>1, <2>2, FromStep, BegunStep, SeenStep
  <2> QED
    BY <2>2, <2>3, <2>4, <2>5, <2>6 DEF ScanInv
<1> QED
  BY <1>1, <1>2, PTL DEF Spec

\* A step that keeps what the scan is about is none of the scan's.
LEMMA ScanKept ==
  ASSUME log' = log, Sent' = Sent, Len(got') = Len(got), Sent = <<>> \/ asked' = asked,
         Ended' = Ended
  PROVE  UNCHANGED Scan!vars
BY DEF Scan!vars, SeenLast, Ended

\* Sending a batch of a query that saw no less than the last one reads it.
LEMMA ScanRead ==
  ASSUME TypeOK, OneQuery, Behind, CursorInv, FromInv, phase \in {"asked", "live"},
         NEW n \in 0 .. Len(log), NEW b \in Batches(n, cursor), Sends(b, n),
         Replica \/ SeenLast <= n, log' = log, phase' = "live"
  PROVE  Scan!Read(b) /\ b \in SUBSET DOMAIN log
<1> USE SentTypes
<1>1. Sent' = Append(Sent, b) /\ Len(Sent') = Len(Sent) + 1
      /\ Len(asked') = Len(Sent) + 1 /\ asked'[Len(Sent) + 1] = n
  BY DEF Sends
<1>2. Sent' # <<>>
  BY <1>1
<1>3. SeenLast' = n
  BY <1>1, <1>2 DEF SeenLast
<1>4. Scan!IsFirstOf(Scan!Fresh(n), b) /\ b \in SUBSET DOMAIN log
  BY FirstLemma
<1>5. ~Ended /\ Ended' = Ended
  BY DEF Ended
<1>6. \E m \in 0 .. Len(log) : /\ Replica \/ SeenLast <= m
                               /\ Scan!IsFirstOf(Scan!Fresh(m), b)
                               /\ SeenLast' = m
  BY <1>3, <1>4
<1> QED
  BY <1>1, <1>4, <1>5, <1>6 DEF Scan!Read

\* Every step is one of the scan or none.
LEMMA ScanStep ==
  ASSUME ScanInv, ScanInv', ~Overlap, Selected = 1 .. Columns, [Next]_vars
  PROVE  [Scan!Next]_(Scan!vars)
<1> USE SentTypes
<1>0. /\ TypeOK /\ SnapInv /\ OneQuery /\ Behind /\ CursorInv /\ FromInv /\ BegunInv /\ SeenInv
      /\ TypeOK'
  BY DEF ScanInv
<1>1. ASSUME log' = log, got' = got, queue' = queue, asked' = asked, phase' = phase
      PROVE  UNCHANGED Scan!vars
  BY <1>1, ScanKept DEF Sent, Ended
<1>2. ASSUME \/ \E t \in Related : Touch(t)
             \/ LoseNotifications
             \/ \E t \in Tables : HandleChange(t) \/ Fire(t)
             \/ \E k \in DOMAIN flights : Snapshot(k) \/ QueryFails(k)
             \/ UNCHANGED vars
      PROVE  UNCHANGED Scan!vars
  BY <1>1, <1>2
     DEF Touch, LoseNotifications, HandleChange, Fire, Snapshot, QueryFails, vars
<1>3. ASSUME NEW k \in Keys, Insert(k) PROVE Scan!Commit(k)
  <2>1. log' = Append(log, k) /\ Sent' = Sent /\ got' = got /\ asked' = asked /\ phase' = phase
    BY <1>3 DEF Insert, Sent
  <2>2. SeenLast' = SeenLast /\ Ended' = Ended
    BY <2>1 DEF SeenLast, Ended
  <2> QED
    BY <2>1, <2>2 DEF Scan!Commit
<1>4. ASSUME Subscribe \/ InitialSnapshot PROVE UNCHANGED Scan!vars
  <2>1. log' = log /\ got' = got /\ queue' = queue /\ got = <<>> /\ queue = <<>>
    BY <1>0, <1>4 DEF Subscribe, InitialSnapshot, OneQuery
  <2>2. Ended' = Ended
    BY <1>4 DEF Subscribe, InitialSnapshot, Ended
  <2>3. Sent = <<>> /\ Sent' = Sent
    BY <2>1 DEF Sent
  <2> QED
    BY <2>1, <2>2, <2>3, ScanKept
<1>5. ASSUME RegisterFails \/ Unregister PROVE Scan!End
  <2>1. Sent' = Sent /\ log' = log /\ got' = got /\ asked' = asked /\ ~Ended /\ Ended'
    BY <1>5 DEF RegisterFails, Unregister, Sent, Ended
  <2> QED
    BY <2>1 DEF Scan!End, SeenLast
<1>6. ASSUME Register PROVE \E b \in SUBSET DOMAIN log : Scan!Begin(b)
  <2> DEFINE n == asked[1]
  <2>1. log' = log /\ n \in 0 .. Len(log) /\ Sent = <<>> /\ phase = "asked" /\ phase' = "live"
    BY <1>0, <1>6, RegisterSteps DEF Register
  <2>2. PICK b \in Batches(n, cursor) : Sends(b, n)
    BY <1>0, <1>6, RegisterSteps
  <2> HIDE DEF n
  <2>3. SeenLast = 0
    BY <2>1 DEF SeenLast
  <2>4. Scan!Read(b) /\ b \in SUBSET DOMAIN log
    BY <1>0, <2>1, <2>2, <2>3, ScanRead
  <2>5. Len(got') = 1
    BY <1>6 DEF Register
  <2> QED
    BY <2>1, <2>4, <2>5 DEF Scan!Begin
<1>7. ASSUME Pull PROVE Scan!Pull
  <2>1. Sent' = Sent /\ log' = log /\ asked' = asked /\ ~Ended /\ ~Ended' /\ got' = Append(got, Head(queue))
    BY <1>0, <1>7, PullLemma DEF Pull, Ended
  <2>2. queue \in Seq(Batch) /\ queue # <<>> /\ got \in Seq(Batch)
    BY <1>0, <1>7 DEF Pull, TypeOK
  <2>3. Len(got') = Len(got) + 1 /\ Len(queue) > 0
    <3>1. Head(queue) \in Batch /\ Len(queue) # 0
      BY <2>2, EmptySeq
    <3> QED
      BY <2>1, <2>2, <3>1, AppendProperties
  <2>4. Len(got) < Len(Sent)
    BY <1>0, <2>3
  <2>5. SeenLast' = SeenLast /\ Ended' = Ended
    BY <1>7, <2>1 DEF SeenLast, Ended, Pull
  <2> QED
    BY <2>1, <2>3, <2>4, <2>5 DEF Scan!Pull
<1>8. ASSUME NEW k \in DOMAIN flights, Answer(k)
      PROVE  UNCHANGED Scan!vars \/ \E b \in SUBSET DOMAIN log : Scan!Continue(b)
  <2> DEFINE n == flights[k].snap
  <2>1. /\ log' = log /\ n \in 0 .. Len(log)
        /\ \/ Keeps
           \/ \E b \in Batches(n, cursor) : Discards(b, n)
           \/ \E b \in Batches(n, cursor) : Sends(b, n)
    BY <1>0, <1>8, AnswerSteps
  <2>2. /\ got' = got /\ phase' = phase /\ phase \in {"live", "closed"} /\ n # -1
        /\ phase # "live" => asked' = asked
    <3>1. PICK b \in Batches(n, flights[k].last) : Push(b, n)
      BY <1>8 DEF Answer
    <3>2. phase # "live" => asked' = asked
      BY <3>1 DEF Push
    <3>3. phase \in {"live", "closed"}
      <4>1. flights # <<>>
        OBVIOUS
      <4> QED
        BY <1>0, <4>1 DEF OneQuery
    <3> QED
      BY <1>8, <3>2, <3>3 DEF Answer
  <2>3. Replica \/ phase # "live" \/ (Sent # <<>> /\ SeenLast <= n)
    <3> SUFFICES ASSUME ~Replica, phase = "live" PROVE Sent # <<>> /\ SeenLast <= n
      OBVIOUS
    <3>1. Len(got) # 0
      BY <1>0, EmptySeq DEF BegunInv, TypeOK
    <3>2. Sent # <<>>
      BY <1>0, <3>1
    <3>3. asked[Len(asked)] <= n
      BY <1>0, <2>2 DEF SeenInv
    <3> QED
      BY <3>2, <3>3 DEF SeenLast
  <2> HIDE DEF n
  <2>4. CASE Keeps \/ \E b \in Batches(n, cursor) : Discards(b, n)
    <3>1. Sent' = Sent /\ asked' = asked
      BY <2>2, <2>4 DEF Keeps, Discards
    <3> QED
      BY <2>1, <2>2, <3>1, ScanKept DEF Ended
  <2>5. ASSUME NEW b \in Batches(n, cursor), Sends(b, n)
        PROVE  \E c \in SUBSET DOMAIN log : Scan!Continue(c)
    <3>1. phase = "live" /\ phase' = "live"
      BY <2>2, <2>5 DEF Sends
    <3>2. b # {}
      BY <2>5, <3>1 DEF Sends
    <3>3. Len(got) # 0
      BY <1>0, <3>1, EmptySeq DEF BegunInv, TypeOK
    <3>4. Sent # <<>>
      BY <1>0, <3>3
    <3>5. Scan!Read(b) /\ b \in SUBSET DOMAIN log
      BY <1>0, <2>1, <2>3, <2>5, <3>1, ScanRead
    <3>6. Scan!Continue(b)
      BY <2>2, <3>2, <3>4, <3>5 DEF Scan!Continue
    <3> QED
      BY <3>5, <3>6
  <2> QED
    BY <2>1, <2>4, <2>5
<1> QED
  BY <1>2, <1>3, <1>4, <1>5, <1>6, <1>7, <1>8 DEF Next, FlightStep, Scan!Next

\* As long as no two re-queries overlap and all cursor columns are selected, what the
\* client of a streaming subscription sees is a scan: each batch is read at one moment,
\* not before the last one unless a replica lags, and is the first rows behind all that
\* was sent.
THEOREM ImplementsScan ==
  ASSUME ~Overlap, Selected = 1 .. Columns
  PROVE  Spec => ReadsAsScan
<1>1. Init => Scan!Init
  <2> SUFFICES ASSUME Init PROVE Scan!Init
    OBVIOUS
  <2>1. Sent = <<>> /\ log = <<>> /\ got = <<>> /\ phase = "new"
    BY DEF Init, Sent
  <2> QED
    BY <2>1 DEF Scan!Init, SeenLast, Ended
<1>2. ScanInv /\ ScanInv' /\ [Next]_vars => [Scan!Next]_(Scan!vars)
  BY ScanStep
<1> QED
  BY <1>1, <1>2, ScanInvAlways, PTL DEF Spec, ReadsAsScan, Scan!Spec
=============================================================================
