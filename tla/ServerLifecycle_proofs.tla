----------------------- MODULE ServerLifecycle_proofs -----------------------
(***************************************************************************)
(* Proofs about ServerLifecycle and TriggerReconciler, for any servers,    *)
(* tables, triggers, configurations and bounds.                            *)
(***************************************************************************)
EXTENDS ServerLifecycle, SequenceTheorems, TLAPS

-----------------------------------------------------------------------------
(* Sequences.                                                              *)

\* Removing an element leaves a sequence of elements, one shorter.
LEMMA RemoveAtLemma ==
  ASSUME NEW S, NEW q \in Seq(S), NEW k \in 1 .. Len(q)
  PROVE  RemoveAt(q, k) \in Seq(S) /\ Len(RemoveAt(q, k)) = Len(q) - 1
<1>1. Len(q) \in Nat /\ k \in Nat /\ 1 <= k /\ k <= Len(q)
  BY LenProperties
<1>2. \A i \in 1 .. Len(q) : q[i] \in S
  BY ElementOfSeq
<1> DEFINE a == SubSeq(q, 1, k - 1)
           b == SubSeq(q, k + 1, Len(q))
<1>3. /\ a \in Seq(S) /\ Len(a) = k - 1
      /\ b \in Seq(S) /\ Len(b) = Len(q) - k
  BY <1>1, <1>2, SubSeqProperties
<1>4. RemoveAt(q, k) = a \o b
  BY DEF RemoveAt
<1> HIDE DEF a, b
<1>5. a \o b \in Seq(S) /\ Len(a \o b) = Len(a) + Len(b)
  BY <1>3, ConcatProperties
<1> QED
  BY <1>1, <1>3, <1>4, <1>5

\* The elements of a sequence.
LEMMA ToSetLemma ==
  ASSUME NEW S, NEW q \in Seq(S)
  PROVE  /\ DOMAIN q = 1 .. Len(q) /\ Len(q) \in Nat
         /\ ToSet(q) \subseteq S
         /\ \A x : x \in ToSet(q) <=> \E i \in 1 .. Len(q) : q[i] = x
<1>1. DOMAIN q = 1 .. Len(q) /\ Len(q) \in Nat
  BY LenProperties
<1>2. \A i \in 1 .. Len(q) : q[i] \in S
  BY ElementOfSeq
<1> QED
  BY <1>1, <1>2 DEF ToSet

\* A sequence from its end.
LEMMA ReverseLemma ==
  ASSUME NEW S, NEW q \in Seq(S)
  PROVE  /\ Reverse(q) \in Seq(S) /\ Len(Reverse(q)) = Len(q)
         /\ \A i \in 1 .. Len(q) : Reverse(q)[i] = q[Len(q) - i + 1]
<1>1. Len(q) \in Nat
  BY LenProperties
<1>2. \A i \in 1 .. Len(q) : Len(q) - i + 1 \in 1 .. Len(q)
  BY <1>1
<1>3. \A i \in 1 .. Len(q) : q[Len(q) - i + 1] \in S
  BY <1>2, ElementOfSeq
<1>4. Reverse(q) \in [1 .. Len(q) -> S]
  BY <1>3 DEF Reverse
<1>5. Reverse(q) \in Seq(S) /\ Len(Reverse(q)) = Len(q)
  BY <1>1, <1>4, LenProperties, SeqDef
<1> QED
  BY <1>5 DEF Reverse

\* A suffix of a sequence is its last elements.
LEMMA SuffixLemma ==
  ASSUME NEW S, NEW q \in Seq(S), NEW w \in Seq(S)
  PROVE  IsSuffix(w, q) <=>
           /\ Len(w) <= Len(q)
           /\ \A i \in 1 .. Len(w) : w[i] = q[Len(q) - Len(w) + i]
<1> DEFINE a == Reverse(w)
           b == Reverse(q)
<1>1. Len(w) \in Nat /\ Len(q) \in Nat
  BY LenProperties
<1>2. /\ a \in Seq(S) /\ Len(a) = Len(w) /\ \A i \in 1 .. Len(w) : a[i] = w[Len(w) - i + 1]
      /\ b \in Seq(S) /\ Len(b) = Len(q) /\ \A i \in 1 .. Len(q) : b[i] = q[Len(q) - i + 1]
  BY <1>1, ReverseLemma
<1> HIDE DEF a, b
<1>3. IsSuffix(w, q) <=> Len(w) <= Len(q) /\ SubSeq(a, 1, Len(w)) = SubSeq(b, 1, Len(w))
  BY <1>2 DEF IsSuffix, IsPrefix, a, b
<1>4. ASSUME Len(w) <= Len(q)
      PROVE  SubSeq(a, 1, Len(w)) = SubSeq(b, 1, Len(w)) <=>
               \A i \in 1 .. Len(w) : a[i] = b[i]
  <2>1. \A i \in 1 .. Len(w) : a[i] \in S /\ b[i] \in S
    BY <1>1, <1>2, <1>4, ElementOfSeq
  <2>2. /\ SubSeq(a, 1, Len(w)) \in Seq(S) /\ Len(SubSeq(a, 1, Len(w))) = Len(w)
        /\ \A i \in 1 .. Len(w) : SubSeq(a, 1, Len(w))[i] = a[i]
    BY <1>1, <1>2, <2>1, SubSeqProperties
  <2>3. /\ SubSeq(b, 1, Len(w)) \in Seq(S) /\ Len(SubSeq(b, 1, Len(w))) = Len(w)
        /\ \A i \in 1 .. Len(w) : SubSeq(b, 1, Len(w))[i] = b[i]
    BY <1>1, <1>2, <1>4, <2>1, SubSeqProperties
  <2> QED
    BY <2>2, <2>3, SeqEqual
<1>5. ASSUME Len(w) <= Len(q)
      PROVE  (\A i \in 1 .. Len(w) : a[i] = b[i]) <=>
               (\A i \in 1 .. Len(w) : w[i] = q[Len(q) - Len(w) + i])
  <2>1. \A i \in 1 .. Len(w) :
          /\ Len(w) - i + 1 \in 1 .. Len(w) /\ Len(w) - (Len(w) - i + 1) + 1 = i
          /\ Len(q) - (Len(w) - i + 1) + 1 = Len(q) - Len(w) + i
          /\ Len(q) - Len(w) + (Len(w) - i + 1) = Len(q) - i + 1
          /\ i \in 1 .. Len(q)
    BY <1>1, <1>5
  <2>2. ASSUME \A i \in 1 .. Len(w) : a[i] = b[i], NEW i \in 1 .. Len(w)
        PROVE  w[i] = q[Len(q) - Len(w) + i]
    <3> DEFINE j == Len(w) - i + 1
    <3>1. /\ j \in 1 .. Len(w) /\ j \in 1 .. Len(q)
          /\ Len(w) - j + 1 = i /\ Len(q) - j + 1 = Len(q) - Len(w) + i
      BY <2>1
    <3> HIDE DEF j
    <3>2. a[j] = b[j]
      BY <2>2, <3>1
    <3>3. a[j] = w[Len(w) - j + 1] /\ b[j] = q[Len(q) - j + 1]
      BY <1>2, <3>1
    <3> QED
      BY <3>1, <3>2, <3>3
  <2>3. ASSUME \A i \in 1 .. Len(w) : w[i] = q[Len(q) - Len(w) + i], NEW i \in 1 .. Len(w)
        PROVE  a[i] = b[i]
    <3>1. a[i] = w[Len(w) - i + 1] /\ b[i] = q[Len(q) - i + 1]
      BY <1>2, <2>1
    <3>2. w[Len(w) - i + 1] = q[Len(q) - Len(w) + (Len(w) - i + 1)]
      BY <2>1, <2>3
    <3> QED
      BY <2>1, <3>1, <3>2
  <2> QED
    BY <2>2, <2>3
<1> QED
  BY <1>3, <1>4, <1>5

\* A sequence is a suffix of itself, and what is left of a suffix is one.
LEMMA SuffixTail ==
  ASSUME NEW S, NEW q \in Seq(S)
  PROVE  /\ IsSuffix(q, q) /\ IsSuffix(<<>>, q)
         /\ \A w \in Seq(S) : IsSuffix(w, q) /\ w # <<>> =>
              /\ Tail(w) \in Seq(S) /\ IsSuffix(Tail(w), q)
              /\ Len(Tail(w)) = Len(w) - 1 /\ Len(w) \in Nat
              /\ Head(w) \in S /\ Head(w) \in ToSet(w)
              /\ ToSet(w) = {Head(w)} \cup ToSet(Tail(w))
<1>1. Len(q) \in Nat
  BY LenProperties
<1>2. IsSuffix(q, q)
  BY <1>1, SuffixLemma
<1>3. IsSuffix(<<>>, q)
  <2>1. PICK w \in Seq(S) : w = <<>> /\ Len(w) = 0
    BY EmptySeq
  <2>2. Len(w) <= Len(q) /\ \A i \in 1 .. Len(w) : FALSE
    BY <1>1, <2>1
  <2>3. IsSuffix(w, q)
    BY <2>2, SuffixLemma
  <2> QED
    BY <2>1, <2>3
<1>4. ASSUME NEW w \in Seq(S), IsSuffix(w, q), w # <<>>
      PROVE  /\ Tail(w) \in Seq(S) /\ IsSuffix(Tail(w), q)
             /\ Len(Tail(w)) = Len(w) - 1 /\ Len(w) \in Nat
             /\ Head(w) \in S /\ Head(w) \in ToSet(w)
             /\ ToSet(w) = {Head(w)} \cup ToSet(Tail(w))
  <2>1. /\ Len(w) \in Nat /\ Len(w) > 0 /\ Head(w) = w[1]
        /\ Tail(w) \in Seq(S) /\ Len(Tail(w)) = Len(w) - 1
        /\ \A i \in 1 .. Len(w) - 1 : Tail(w)[i] = w[i + 1]
    BY <1>4, LenProperties, EmptySeq, HeadTailProperties
  <2>2. /\ Len(w) <= Len(q) /\ \A i \in 1 .. Len(w) : w[i] = q[Len(q) - Len(w) + i]
    BY <1>4, SuffixLemma
  <2> DEFINE z == Tail(w)
  <2> HIDE DEF z
  <2>3. z \in Seq(S) /\ Len(z) = Len(w) - 1 /\ \A i \in 1 .. Len(w) - 1 : z[i] = w[i + 1]
    BY <2>1 DEF z
  <2>4. Len(z) <= Len(q)
    BY <1>1, <2>1, <2>2, <2>3
  <2>5. ASSUME NEW i \in 1 .. Len(z) PROVE z[i] = q[Len(q) - Len(z) + i]
    <3>1. i + 1 \in 1 .. Len(w) /\ i \in 1 .. Len(w) - 1
      BY <2>1, <2>3
    <3>2. Len(q) - Len(z) + i = Len(q) - Len(w) + (i + 1)
      BY <1>1, <2>1, <2>3
    <3> QED
      BY <2>2, <2>3, <3>1, <3>2
  <2>6. IsSuffix(z, q)
    BY <2>3, <2>4, <2>5, SuffixLemma
  <2>7. /\ \A x : x \in ToSet(w) <=> \E i \in 1 .. Len(w) : w[i] = x
        /\ \A x : x \in ToSet(z) <=> \E i \in 1 .. Len(z) : z[i] = x
    BY <2>3, ToSetLemma
  <2>8. 1 \in 1 .. Len(w) /\ w[1] \in S
    BY <2>1, ElementOfSeq
  <2>9. ASSUME NEW x PROVE x \in ToSet(w) <=> x = w[1] \/ x \in ToSet(z)
    <3>1. ASSUME x \in ToSet(w) PROVE x = w[1] \/ x \in ToSet(z)
      <4>1. PICK i \in 1 .. Len(w) : w[i] = x
        BY <2>7, <3>1
      <4>2. CASE i = 1
        BY <4>1, <4>2
      <4>3. CASE i # 1
        <5>1. i - 1 \in 1 .. Len(w) - 1 /\ (i - 1) + 1 = i
          BY <2>1, <4>3
        <5>2. z[i - 1] = x /\ i - 1 \in 1 .. Len(z)
          BY <2>3, <4>1, <5>1
        <5> QED
          BY <2>7, <5>2
      <4> QED
        BY <4>2, <4>3
    <3>2. ASSUME x \in ToSet(z) PROVE x \in ToSet(w)
      <4>1. PICK i \in 1 .. Len(z) : z[i] = x
        BY <2>7, <3>2
      <4>2. i \in 1 .. Len(w) - 1 /\ i + 1 \in 1 .. Len(w)
        BY <2>1, <2>3
      <4> QED
        BY <2>3, <2>7, <4>1, <4>2
    <3> QED
      BY <2>7, <2>8, <3>1, <3>2
  <2> QED
    BY <2>1, <2>6, <2>7, <2>8, <2>9 DEF z
<1> QED
  BY <1>2, <1>3, <1>4

\* Of two suffixes of a sequence the longer one has every element of the other.
LEMMA SuffixesNest ==
  ASSUME NEW S, NEW q \in Seq(S), NEW v \in Seq(S), NEW w \in Seq(S),
         IsSuffix(v, q), IsSuffix(w, q), Len(v) <= Len(w)
  PROVE  ToSet(v) \subseteq ToSet(w)
<1>1. Len(q) \in Nat /\ Len(v) \in Nat /\ Len(w) \in Nat
  BY LenProperties
<1>2. /\ Len(v) <= Len(q) /\ \A i \in 1 .. Len(v) : v[i] = q[Len(q) - Len(v) + i]
      /\ Len(w) <= Len(q) /\ \A i \in 1 .. Len(w) : w[i] = q[Len(q) - Len(w) + i]
  BY SuffixLemma
<1>3. ASSUME NEW i \in 1 .. Len(v) PROVE v[i] \in ToSet(w)
  <2> DEFINE k == Len(w) - Len(v) + i
  <2>1. k \in 1 .. Len(w)
    BY <1>1
  <2>2. Len(q) - Len(w) + k = Len(q) - Len(v) + i
    BY <1>1, <2>1
  <2>3. w[k] = v[i]
    BY <1>2, <2>2
  <2> QED
    BY <2>3, ToSetLemma
<1> QED
  BY <1>3, ToSetLemma

\* In an injective sequence the first element of a suffix is not among the others.
LEMMA SuffixHead ==
  ASSUME NEW S, NEW q \in Seq(S), IsInjective(q),
         NEW w \in Seq(S), IsSuffix(w, q), w # <<>>
  PROVE  Head(w) \notin ToSet(Tail(w))
<1>1. /\ Len(q) \in Nat /\ Len(w) \in Nat /\ Len(w) > 0 /\ Head(w) = w[1]
      /\ Tail(w) \in Seq(S) /\ Len(Tail(w)) = Len(w) - 1
      /\ \A i \in 1 .. Len(w) - 1 : Tail(w)[i] = w[i + 1]
  BY LenProperties, EmptySeq, HeadTailProperties
<1>2. Len(w) <= Len(q) /\ \A i \in 1 .. Len(w) : w[i] = q[Len(q) - Len(w) + i]
  BY SuffixLemma
<1>3. ASSUME NEW i \in 1 .. Len(Tail(w)), Tail(w)[i] = Head(w) PROVE FALSE
  <2> DEFINE a == Len(q) - Len(w) + 1
             b == Len(q) - Len(w) + (i + 1)
  <2>1. i \in 1 .. Len(w) - 1 /\ i + 1 \in 1 .. Len(w) /\ 1 \in 1 .. Len(w)
    BY <1>1
  <2>2. a \in 1 .. Len(q) /\ b \in 1 .. Len(q) /\ a # b
    BY <1>1, <1>2, <2>1
  <2>3. q[a] = q[b]
    BY <1>1, <1>2, <1>3, <2>1
  <2> HIDE DEF a, b
  <2>4. DOMAIN q = 1 .. Len(q)
    BY LenProperties
  <2> QED
    BY <2>2, <2>3, <2>4 DEF IsInjective
<1>4. \A x : x \in ToSet(Tail(w)) <=> \E i \in 1 .. Len(Tail(w)) : Tail(w)[i] = x
  BY <1>1, ToSetLemma
<1> QED
  BY <1>3, <1>4
-----------------------------------------------------------------------------
(* The reconciliation.                                                     *)

RecState == [pc : {"idle", "function", "trigger", "create", "orphans", "done", "failed"},
             seen : [TableSet -> SUBSET Ops], left : Seq(ToSet(Order)), gone : SUBSET Orphans]

\* Where a reconciliation is, there is something to do; a trigger is dropped and
\* created only if it was found to be another one than the wanted one.
RecOk(r) ==
  /\ IsSuffix(r.left, Order)
  /\ r.pc \in {"function", "trigger", "create"} => r.left # <<>>
  /\ r.pc = "orphans" => r.left = <<>>
  /\ r.pc = "trigger" => r.seen[Head(r.left)] # {}
  /\ r.pc \in {"trigger", "create"} =>
       r.seen[Head(r.left)] # Desired[Head(r.left)] \/ Desired[Head(r.left)] = {}

RecInv ==
  /\ rec \in [Servers -> RecState]
  /\ \A s \in Servers : RecOk(rec[s])

\* A step of server s turns its reconciliation into r.
Turns(s, r) == r \in RecState /\ RecOk(r) /\ rec' = [rec EXCEPT ![s] = r]

\* The others stay where they are.
LEMMA TurnsLemma ==
  ASSUME RecInv, NEW s \in Servers, NEW r, Turns(s, r)
  PROVE  /\ RecInv' /\ rec'[s] = r
         /\ \A o \in Servers : o # s => rec'[o] = rec[o]
BY DEF RecInv, Turns

\* What the constants are.
LEMMA RecConstants ==
  /\ Order \in Seq(ToSet(Order))
  /\ ToSet(Order) \subseteq TableSet /\ Orphans \subseteq TableSet
  /\ ToSet(Order) \cap Orphans = {}
  /\ \A t \in ToSet(Order) : Desired[t] \in SUBSET Ops
  /\ Installed \in [TableSet -> SUBSET Ops]
<1>1. /\ Order \in Seq(ToSet(Order)) /\ ToSet(Order) \cap Orphans = {}
      /\ Triggers \in [ToSet(Order) -> SUBSET SUBSET Ops]
      /\ Installed \in [TableSet -> SUBSET Ops]
  BY ReconcilerAssumption
<1> QED
  BY <1>1 DEF TableSet, Desired

\* What a reconciliation is.
LEMMA RecTypes ==
  ASSUME RecInv, NEW s \in Servers
  PROVE  /\ rec[s] \in RecState /\ RecOk(rec[s])
         /\ rec[s].seen \in [TableSet -> SUBSET Ops] /\ rec[s].left \in Seq(ToSet(Order))
         /\ rec[s].gone \in SUBSET Orphans
BY DEF RecInv, RecState

\* Its current table, and what is left after it.
LEMMA CurrentLemma ==
  ASSUME RecInv, NEW s \in Servers, rec[s].pc \in {"function", "trigger", "create"}
  PROVE  /\ Current(s) = Head(rec[s].left)
         /\ Current(s) \in ToSet(Order) /\ Current(s) \in TableSet
         /\ Current(s) \in ToSet(rec[s].left)
         /\ ToSet(rec[s].left) = {Current(s)} \cup ToSet(Tail(rec[s].left))
         /\ Tail(rec[s].left) \in Seq(ToSet(Order)) /\ IsSuffix(Tail(rec[s].left), Order)
         /\ Len(Tail(rec[s].left)) = Len(rec[s].left) - 1 /\ Len(rec[s].left) \in Nat
<1>1. /\ rec[s].left \in Seq(ToSet(Order)) /\ IsSuffix(rec[s].left, Order) /\ rec[s].left # <<>>
  BY RecTypes DEF RecOk
<1>2. Order \in Seq(ToSet(Order)) /\ ToSet(Order) \subseteq TableSet
  BY RecConstants
<1>3. Current(s) = Head(rec[s].left)
  BY DEF Current
<1> DEFINE w == rec[s].left
<1>4. /\ Tail(w) \in Seq(ToSet(Order)) /\ IsSuffix(Tail(w), Order)
      /\ Len(Tail(w)) = Len(w) - 1 /\ Len(w) \in Nat
      /\ Head(w) \in ToSet(Order) /\ Head(w) \in ToSet(w)
      /\ ToSet(w) = {Head(w)} \cup ToSet(Tail(w))
  <2> HIDE DEF w
  <2>1. w \in Seq(ToSet(Order)) /\ IsSuffix(w, Order) /\ w # <<>>
    BY <1>1 DEF w
  <2> QED
    BY <1>2, <2>1, SuffixTail
<1> QED
  BY <1>2, <1>3, <1>4

\* The nothing that is left before and after.
LEMMA NothingLeft ==
  /\ NotStarted \in RecState /\ NotStarted.left = <<>> /\ IsSuffix(<<>>, Order)
  /\ [NotStarted EXCEPT !.pc = "failed"] \in RecState
  /\ [NotStarted EXCEPT !.pc = "done"] \in RecState
<1>1. Order \in Seq(ToSet(Order))
  BY RecConstants
<1>2. IsSuffix(<<>>, Order)
  BY <1>1, SuffixTail
<1>3. [t \in TableSet |-> {}] \in [TableSet -> SUBSET Ops]
  OBVIOUS
<1>4. <<>> \in Seq(ToSet(Order))
  BY EmptySeq
<1> QED
  BY <1>2, <1>3, <1>4 DEF NotStarted, RecState

\* A reconciliation that fails.
LEMMA FailsTurns ==
  ASSUME RecInv, NEW s \in Servers, rec' = Fails(s)
  PROVE  \E r : Turns(s, r) /\ r.pc = "failed"
<1> DEFINE r == [NotStarted EXCEPT !.pc = "failed"]
<1>1. r \in RecState /\ r.pc = "failed" /\ r.left = <<>>
  BY NothingLeft DEF NotStarted
<1>2. RecOk(r)
  <2> HIDE DEF r
  <2> QED
    BY <1>1, NothingLeft DEF RecOk
<1>3. rec' = [rec EXCEPT ![s] = r]
  BY DEF Fails
<1> HIDE DEF r
<1> QED
  BY <1>1, <1>2, <1>3 DEF Turns

\* A reconciliation goes on to the next table.
LEMMA NextTurns ==
  ASSUME RecInv, NEW s \in Servers, rec[s].pc \in {"function", "create"}, rec' = NextTable(s)
  PROVE  \E r : /\ Turns(s, r) /\ r.pc \in {"function", "orphans"}
                /\ r.left = Tail(rec[s].left) /\ r.seen = rec[s].seen
<1> DEFINE q == rec[s]
           p == IF Len(rec[s].left) = 1 THEN "orphans" ELSE "function"
           w == Tail(rec[s].left)
           r == [q EXCEPT !.left = w, !.pc = p]
<1>1. q \in RecState
  BY RecTypes
<1>2. w \in Seq(ToSet(Order)) /\ IsSuffix(w, Order) /\ Len(w) = Len(q.left) - 1
      /\ Len(q.left) \in Nat
  BY CurrentLemma
<1>3. w = <<>> <=> Len(w) = 0
  <2> HIDE DEF w
  <2> QED
    BY <1>2, EmptySeq
<1>4. \/ p = "orphans" /\ w = <<>>
      \/ p = "function" /\ w # <<>>
  <2> HIDE DEF w
  <2> QED
    BY <1>2, <1>3
<1>5. rec' = [rec EXCEPT ![s] = r]
  BY DEF NextTable
<1>6. r \in RecState /\ r.pc = p /\ r.left = w /\ r.seen = q.seen
  <2> HIDE DEF q, p, w
  <2> QED
    BY <1>1, <1>2, <1>4 DEF RecState
<1> HIDE DEF p, w, r
<1>7. RecOk(r)
  BY <1>2, <1>4, <1>6 DEF RecOk
<1> QED
  BY <1>4, <1>5, <1>6, <1>7 DEF Turns, w

\* A reconciliation goes on with its table.
LEMMA PcTurns ==
  ASSUME RecInv, NEW s \in Servers, rec[s].pc \in {"function", "trigger"},
         NEW p \in {"trigger", "create"}, rec' = [rec EXCEPT ![s].pc = p],
         p = "trigger" => rec[s].seen[Current(s)] # {},
         rec[s].seen[Current(s)] # Desired[Current(s)] \/ Desired[Current(s)] = {}
  PROVE  \E r : Turns(s, r) /\ r.pc = p /\ r.left = rec[s].left /\ r.seen = rec[s].seen
<1> DEFINE q == rec[s]
           r == [q EXCEPT !.pc = p]
<1>1. q \in RecState
  BY RecTypes
<1>2. r \in RecState /\ r.pc = p /\ r.left = q.left /\ r.seen = q.seen
  <2> HIDE DEF q
  <2> QED
    BY <1>1 DEF RecState
<1>3. rec' = [rec EXCEPT ![s] = r]
  OBVIOUS
<1>4. Current(s) = Head(q.left) /\ q.left # <<>> /\ IsSuffix(q.left, Order)
  BY RecTypes, CurrentLemma DEF RecOk
<1> HIDE DEF r
<1>5. RecOk(r)
  BY <1>2, <1>4 DEF RecOk
<1> QED
  BY <1>2, <1>3, <1>5 DEF Turns

\* A reconciliation begins with what is found.
LEMMA DiscoverTurns ==
  ASSUME RecInv, catalog \in [TableSet -> SUBSET Ops], NEW s \in Servers, Discover(s)
  PROVE  \E r : /\ Turns(s, r) /\ r.pc \in {"function", "orphans"}
                /\ r.left = Order /\ r.seen = catalog
<1> DEFINE p == IF Order = <<>> THEN "orphans" ELSE "function"
           g == {t \in Orphans : catalog[t] # {}}
           r == [pc |-> p, seen |-> catalog, left |-> Order, gone |-> g]
<1>1. Order \in Seq(ToSet(Order)) /\ IsSuffix(Order, Order)
  BY RecConstants, SuffixTail
<1>2. r \in RecState /\ r.pc = p /\ r.left = Order /\ r.seen = catalog
  BY <1>1 DEF RecState
<1>3. rec' = [rec EXCEPT ![s] = r]
  BY DEF Discover, OrderOf
<1>4. \/ p = "orphans" /\ Order = <<>>
      \/ p = "function" /\ Order # <<>>
  OBVIOUS
<1> HIDE DEF r, p
<1>5. RecOk(r)
  BY <1>1, <1>2, <1>4 DEF RecOk
<1> QED
  BY <1>2, <1>3, <1>4, <1>5 DEF Turns

\* A function is replaced.
LEMMA ReplaceTurns ==
  ASSUME RecInv, NEW s \in Servers, ReplaceFunction(s)
  PROVE  \E r :
           /\ Turns(s, r) /\ r.seen = rec[s].seen
           /\ \/ /\ r.pc \in {"function", "orphans"} /\ r.left = Tail(rec[s].left)
                 /\ rec[s].seen[Current(s)] = Desired[Current(s)] /\ Desired[Current(s)] # {}
              \/ /\ r.pc = "create" /\ r.left = rec[s].left /\ rec[s].seen[Current(s)] = {}
              \/ /\ r.pc = "trigger" /\ r.left = rec[s].left
<1> DEFINE t == Current(s)
           S == rec[s].seen[t]
           D == Desired[t]
<1>1. rec[s].pc = "function"
  BY DEF ReplaceFunction
<1>2. CASE S = D /\ D # {}
  <2>1. rec' = NextTable(s)
    BY <1>2 DEF ReplaceFunction
  <2> QED
    BY <1>1, <1>2, <2>1, NextTurns
<1>3. CASE ~(S = D /\ D # {}) /\ S = {}
  <2>1. rec' = [rec EXCEPT ![s].pc = "create"]
    BY <1>3 DEF ReplaceFunction
  <2>2. S # D \/ D = {}
    BY <1>3
  <2> QED
    BY <1>1, <1>3, <2>1, <2>2, PcTurns
<1>4. CASE ~(S = D /\ D # {}) /\ S # {}
  <2>1. rec' = [rec EXCEPT ![s].pc = "trigger"]
    BY <1>4 DEF ReplaceFunction
  <2>2. S # D \/ D = {}
    BY <1>4
  <2> QED
    BY <1>1, <1>4, <2>1, <2>2, PcTurns
<1> QED
  BY <1>2, <1>3, <1>4

\* A trigger is dropped.
LEMMA DropTurns ==
  ASSUME RecInv, NEW s \in Servers, DropChanged(s)
  PROVE  \E r : Turns(s, r) /\ r.pc = "create" /\ r.left = rec[s].left /\ r.seen = rec[s].seen
<1>1. rec[s].pc = "trigger" /\ rec' = [rec EXCEPT ![s].pc = "create"]
  BY DEF DropChanged
<1>2. rec[s].seen[Current(s)] # Desired[Current(s)] \/ Desired[Current(s)] = {}
  BY <1>1, RecTypes, CurrentLemma DEF RecOk
<1> QED
  BY <1>1, <1>2, PcTurns

\* A trigger is created, is skipped because its table cannot have one, or the
\* reconciliation fails.
LEMMA CreateTurns ==
  ASSUME RecInv, NEW s \in Servers, CreateTrigger(s)
  PROVE  \E r : Turns(s, r) /\
           \/ /\ r.pc = "failed" /\ catalog' = catalog
              /\ ~(Current(s) \in Views /\ rec[s].seen[Current(s)] = {})
              /\ \/ catalog[Current(s)] # {}
                 \/ Desired[Current(s)] = {}
                 \/ Current(s) \in Views
           \/ /\ r.pc \in {"function", "orphans"} /\ r.left = Tail(rec[s].left)
              /\ r.seen = rec[s].seen
              /\ \/ Current(s) \in Views /\ catalog' = catalog
                 \/ /\ Current(s) \notin Views
                    /\ catalog[Current(s)] = {}
                    /\ catalog' = [catalog EXCEPT ![Current(s)] = Desired[Current(s)]]
<1> DEFINE t == Current(s)
<1>1. rec[s].pc = "create"
  BY DEF CreateTrigger
<1>2. CASE t \in Views /\ rec[s].seen[t] = {}
  <2>1. rec' = NextTable(s) /\ catalog' = catalog
    BY <1>2 DEF CreateTrigger
  <2> QED
    BY <1>1, <1>2, <2>1, NextTurns
<1>3. CASE /\ ~(t \in Views /\ rec[s].seen[t] = {})
           /\ catalog[t] # {} \/ Desired[t] = {} \/ t \in Views
  <2>1. rec' = Fails(s) /\ catalog' = catalog
    BY <1>3 DEF CreateTrigger
  <2> QED
    BY <1>3, <2>1, FailsTurns
<1>4. CASE /\ ~(t \in Views /\ rec[s].seen[t] = {})
           /\ ~(catalog[t] # {} \/ Desired[t] = {} \/ t \in Views)
  <2>1. rec' = NextTable(s) /\ catalog' = [catalog EXCEPT ![t] = Desired[t]]
    BY <1>4 DEF CreateTrigger
  <2> QED
    BY <1>1, <1>4, <2>1, NextTurns
<1> QED
  BY <1>2, <1>3, <1>4

\* An orphan is dropped.
LEMMA OrphanTurns ==
  ASSUME RecInv, NEW s \in Servers, DropOrphan(s)
  PROVE  \E r : /\ Turns(s, r) /\ r.pc = "orphans" /\ r.left = rec[s].left /\ r.seen = rec[s].seen
                /\ \E t \in Orphans : /\ catalog' = [catalog EXCEPT ![t] = {}]
                                      /\ body' = [body EXCEPT ![t] = {}]
<1>1. PICK t \in rec[s].gone : /\ catalog' = [catalog EXCEPT ![t] = {}]
                               /\ body' = [body EXCEPT ![t] = {}]
                               /\ rec' = [rec EXCEPT ![s].gone = @ \ {t}]
  BY DEF DropOrphan
<1> DEFINE q == rec[s]
           r == [q EXCEPT !.gone = q.gone \ {t}]
<1>2. q \in RecState /\ RecOk(q) /\ t \in Orphans /\ q.pc = "orphans"
  BY RecTypes DEF DropOrphan
<1>3. r \in RecState /\ r.pc = q.pc /\ r.left = q.left /\ r.seen = q.seen
  <2> HIDE DEF q
  <2> QED
    BY <1>2 DEF RecState
<1>4. rec' = [rec EXCEPT ![s] = r]
  BY <1>1
<1> HIDE DEF r
<1>5. RecOk(r)
  BY <1>2, <1>3 DEF RecOk
<1> QED
  BY <1>1, <1>2, <1>3, <1>4, <1>5 DEF Turns

\* A reconciliation is through.
LEMMA ReconciledTurns ==
  ASSUME RecInv, NEW s \in Servers, Reconciled(s)
  PROVE  \E r : Turns(s, r) /\ r.pc = "done"
<1> DEFINE r == [NotStarted EXCEPT !.pc = "done"]
<1>1. r \in RecState /\ r.pc = "done" /\ r.left = <<>>
  BY NothingLeft DEF NotStarted
<1>2. RecOk(r)
  <2> HIDE DEF r
  <2> QED
    BY <1>1, NothingLeft DEF RecOk
<1>3. rec' = [rec EXCEPT ![s] = r]
  BY DEF Reconciled
<1> HIDE DEF r
<1> QED
  BY <1>1, <1>2, <1>3 DEF Turns

\* Whatever a reconciliation does, the others stay where they are.
LEMMA ReconcileTurns ==
  ASSUME RecInv, catalog \in [TableSet -> SUBSET Ops], NEW s \in Servers,
         Reconcile(s) \/ StatementFails(s)
  PROVE  \E r : Turns(s, r)
<1>1. StatementFails(s) => \E r : Turns(s, r)
  BY FailsTurns DEF StatementFails
<1>2. FunctionConflict(s) => \E r : Turns(s, r)
  BY FailsTurns DEF FunctionConflict
<1> QED
  BY <1>1, <1>2, DiscoverTurns, ReplaceTurns, DropTurns, CreateTurns, OrphanTurns, ReconciledTurns
     DEF Reconcile

\* Types of the catalog, the functions and the reconciliations.
RecTypeInv ==
  /\ catalog \in [TableSet -> SUBSET Ops]
  /\ body \in [TableSet -> SUBSET Ops]
  /\ RecInv

\* They are those of RecTypeOK.
LEMMA RecTypeFrom == RecTypeInv => RecTypeOK
<1> SUFFICES ASSUME RecTypeInv, NEW s \in Servers
             PROVE  /\ rec[s].pc \in {"idle", "function", "trigger", "create", "orphans",
                                      "done", "failed"}
                    /\ rec[s].seen \in [TableSet -> SUBSET Ops]
                    /\ IsSuffix(rec[s].left, Order)
                    /\ rec[s].gone \subseteq Orphans
  BY DEF RecTypeInv, RecTypeOK
<1>1. rec[s] \in RecState /\ RecOk(rec[s])
  BY RecTypes DEF RecTypeInv
<1> QED
  BY <1>1 DEF RecState, RecOk

\* A step of a reconciliation keeps them.
LEMMA RecTypeStep ==
  ASSUME RecTypeInv, NEW s \in Servers, Reconcile(s) \/ StatementFails(s)
  PROVE  RecTypeInv'
<1>1. RecInv /\ catalog \in [TableSet -> SUBSET Ops] /\ body \in [TableSet -> SUBSET Ops]
  BY DEF RecTypeInv
<1>2. CASE Discover(s)
  <2>1. \E r : Turns(s, r)
    BY <1>1, <1>2, DiscoverTurns
  <2>2. UNCHANGED <<catalog, body>>
    BY <1>2 DEF Discover
  <2> QED
    BY <1>1, <2>1, <2>2, TurnsLemma DEF RecTypeInv
<1>3. CASE ReplaceFunction(s)
  <2>1. \E r : Turns(s, r)
    BY <1>1, <1>3, ReplaceTurns
  <2>2. catalog' = catalog /\ body' = [body EXCEPT ![Current(s)] = Desired[Current(s)]]
    BY <1>3 DEF ReplaceFunction
  <2>3. Desired[Current(s)] \in SUBSET Ops
    <3>1. rec[s].pc = "function"
      BY <1>3 DEF ReplaceFunction
    <3> QED
      BY <1>1, <3>1, CurrentLemma, RecConstants
  <2>4. body' \in [TableSet -> SUBSET Ops]
    BY <1>1, <2>2, <2>3
  <2> QED
    BY <1>1, <2>1, <2>2, <2>4, TurnsLemma DEF RecTypeInv
<1>4. CASE FunctionConflict(s) \/ StatementFails(s)
  <2>1. rec' = Fails(s) /\ UNCHANGED <<catalog, body>>
    BY <1>4 DEF FunctionConflict, StatementFails
  <2>2. \E r : Turns(s, r)
    BY <1>1, <2>1, FailsTurns
  <2> QED
    BY <1>1, <2>1, <2>2, TurnsLemma DEF RecTypeInv
<1>5. CASE DropChanged(s)
  <2>1. \E r : Turns(s, r)
    BY <1>1, <1>5, DropTurns
  <2>2. body' = body /\ catalog' = [catalog EXCEPT ![Current(s)] = {}]
    BY <1>5 DEF DropChanged
  <2>3. catalog' \in [TableSet -> SUBSET Ops]
    BY <1>1, <2>2
  <2> QED
    BY <1>1, <2>1, <2>2, <2>3, TurnsLemma DEF RecTypeInv
<1>6. CASE CreateTrigger(s)
  <2>1. PICK r : Turns(s, r)
    BY <1>1, <1>6, CreateTurns
  <2>2. body' = body
    BY <1>6 DEF CreateTrigger
  <2>3. catalog' = catalog \/ catalog' = [catalog EXCEPT ![Current(s)] = Desired[Current(s)]]
    BY <1>1, <1>6, CreateTurns
  <2>4. Desired[Current(s)] \in SUBSET Ops
    <3>1. rec[s].pc = "create"
      BY <1>6 DEF CreateTrigger
    <3> QED
      BY <1>1, <3>1, CurrentLemma, RecConstants
  <2>5. catalog' \in [TableSet -> SUBSET Ops]
    BY <1>1, <2>3, <2>4
  <2> QED
    BY <1>1, <2>1, <2>2, <2>5, TurnsLemma DEF RecTypeInv
<1>7. CASE DropOrphan(s)
  <2>1. PICK r : /\ Turns(s, r)
                 /\ \E t \in Orphans : /\ catalog' = [catalog EXCEPT ![t] = {}]
                                       /\ body' = [body EXCEPT ![t] = {}]
    BY <1>1, <1>7, OrphanTurns
  <2>2. catalog' \in [TableSet -> SUBSET Ops] /\ body' \in [TableSet -> SUBSET Ops]
    BY <1>1, <2>1
  <2> QED
    BY <1>1, <2>1, <2>2, TurnsLemma DEF RecTypeInv
<1>8. CASE Reconciled(s)
  <2>1. \E r : Turns(s, r)
    BY <1>1, <1>8, ReconciledTurns
  <2>2. UNCHANGED <<catalog, body>>
    BY <1>8 DEF Reconciled
  <2> QED
    BY <1>1, <2>1, <2>2, TurnsLemma DEF RecTypeInv
<1> QED
  BY <1>2, <1>3, <1>4, <1>5, <1>6, <1>7, <1>8 DEF Reconcile

-----------------------------------------------------------------------------
(* Type correctness.                                                       *)

Boots == {"down", "sched", "queue", "crons", "events", "catchup", "actions", "subs", "listen",
          "serving", "exited"}
Served == [schema : 0 .. MaxOutside, permissions : 0 .. MaxOutside,
           functions : NoVersion .. MaxOutside, rest : 0 .. MaxOutside]
Watching == {"quiet", "event", "timer"}

ServerTypes ==
  /\ boot \in [Servers -> Boots]
  /\ on \in [Servers -> SUBSET Parts]
  /\ kept \in [Servers -> SUBSET Parts]
  /\ work \in [Servers -> SUBSET Work]
  /\ closed \in [Servers -> SUBSET (Parts \cup {"http", "pools"})]
  /\ stops \in [Servers -> Seq(1 .. 7)]

ReloadTypes ==
  /\ files \in 0 .. MaxOutside
  /\ watch \in [Servers -> Watching]
  /\ reloads \in [Servers -> Seq(NoVersion .. MaxOutside)]
  /\ served \in [Servers -> Served]
  /\ excused \in [Servers -> BOOLEAN]

TypeInv == RecTypeInv /\ ServerTypes /\ ReloadTypes /\ faults \in 0 .. MaxFaults

\* The numbers the bounds are.
LEMMA Bounds ==
  /\ MaxOutside \in Nat /\ MaxFaults \in Nat
  /\ 0 \in 0 .. MaxOutside /\ NoVersion \in NoVersion .. MaxOutside /\ 0 \in NoVersion .. MaxOutside
  /\ 0 .. MaxOutside \subseteq NoVersion .. MaxOutside
  /\ Len(StopOrder) = 6 /\ Len(StopOrder) + 1 = 7
BY LifecycleAssumption DEF NoVersion, StopOrder

\* They are those of TypeOK.
LEMMA TypeFrom == TypeInv => TypeOK
<1> SUFFICES ASSUME TypeInv PROVE TypeOK
  OBVIOUS
<1>1. RecTypeOK
  BY RecTypeFrom DEF TypeInv
<1>2. \A s \in Servers : served[s] \in Served
  BY DEF TypeInv, ReloadTypes
<1>3. stops \in [Servers -> Seq(1 .. Len(StopOrder) + 1)]
  BY Bounds DEF TypeInv, ServerTypes
<1> QED
  BY <1>1, <1>2, <1>3
     DEF TypeInv, ServerTypes, ReloadTypes, TypeOK, Boots, Served, Watching

\* A fault is counted.
LEMMA FaultLemma ==
  ASSUME TypeInv, Fault
  PROVE  faults' \in 0 .. MaxFaults /\ faults' > 0
<1>1. faults \in 0 .. MaxFaults /\ MaxFaults \in Nat /\ faults < MaxFaults /\ faults' = faults + 1
  BY Bounds DEF TypeInv, Fault
<1> QED
  BY <1>1

\* A start that moves on.
LEMMA BootedTypes ==
  ASSUME TypeInv, NEW s \in Servers, NEW b \in Boots, NEW p \in SUBSET Parts, NEW h \in SUBSET Parts,
         Booted(s, b, p, h), Quietly
  PROVE  /\ ServerTypes'
         /\ served' = served => ReloadTypes'
BY DEF TypeInv, ServerTypes, ReloadTypes, Booted, Quietly

\* A process that ends.
LEMMA GoneTypes ==
  ASSUME TypeInv, NEW s \in Servers, Gone(s)
  PROVE  RecTypeInv' /\ ServerTypes' /\ ReloadTypes'
<1>1. RecTypeInv'
  <2>1. CASE rec[s].pc = "done"
    <3>1. UNCHANGED <<catalog, body, rec>>
      BY <2>1 DEF Gone
    <3> QED
      BY <3>1 DEF TypeInv, RecTypeInv, RecInv
  <2>2. CASE rec[s].pc # "done"
    <3>1. rec' = Fails(s) /\ UNCHANGED <<catalog, body>>
      BY <2>2 DEF Gone
    <3>2. \E r : Turns(s, r)
      BY <3>1, FailsTurns DEF TypeInv, RecTypeInv
    <3> QED
      BY <3>1, <3>2, TurnsLemma DEF TypeInv, RecTypeInv
  <2> QED
    BY <2>1, <2>2
<1>2. <<>> \in Seq(1 .. 7) /\ <<>> \in Seq(NoVersion .. MaxOutside)
  BY EmptySeq
<1>3. "exited" \in Boots /\ "quiet" \in Watching
  BY DEF Boots, Watching
<1>4. NothingServed \in Served
  BY Bounds DEF NothingServed, Served
<1>5. ServerTypes'
  BY <1>2, <1>3 DEF TypeInv, ServerTypes, Gone
<1>6. ReloadTypes'
  BY <1>2, <1>3, <1>4 DEF TypeInv, ReloadTypes, Gone
<1> QED
  BY <1>1, <1>5, <1>6

\* A step of a start.
LEMMA BootTypes ==
  ASSUME TypeInv, NEW s \in Servers, BootStep(s)
  PROVE  TypeInv'
<1> DEFINE Goes == \E b \in Boots : \E p \in SUBSET Parts : \E h \in SUBSET Parts : Booted(s, b, p, h)
<1>1. /\ faults \in 0 .. MaxFaults /\ kept[s] \in SUBSET Parts
      /\ Fault => faults' \in 0 .. MaxFaults
      /\ UNCHANGED faults => faults' \in 0 .. MaxFaults
  BY FaultLemma DEF TypeInv, ServerTypes
<1>2. ASSUME Goes, Quietly, UNCHANGED <<recVars, served>>, Fault \/ UNCHANGED faults
      PROVE  TypeInv'
  <2>1. ServerTypes' /\ ReloadTypes'
    BY <1>2, BootedTypes
  <2>2. RecTypeInv'
    BY <1>2 DEF recVars, TypeInv, RecTypeInv, RecInv
  <2> QED
    BY <1>1, <1>2, <2>1, <2>2 DEF TypeInv
<1>3. CASE Start(s)
  <2>1. Booted(s, "sched", {}, {}) /\ Quietly /\ UNCHANGED <<recVars, faults>>
    BY <1>3 DEF Start
  <2>2. "sched" \in Boots
    BY DEF Boots
  <2>3. ServerTypes' /\ (served' = served => ReloadTypes')
    BY <2>1, <2>2, BootedTypes
  <2>4. files \in 0 .. MaxOutside /\ served \in [Servers -> Served]
    BY DEF TypeInv, ReloadTypes
  <2>5. [schema |-> files, permissions |-> files, functions |-> files, rest |-> files] \in Served
    BY <2>4, Bounds DEF Served
  <2>6. served' \in [Servers -> Served]
    BY <1>3, <2>4, <2>5 DEF Start
  <2>7. ReloadTypes'
    BY <2>1, <2>6 DEF Quietly, TypeInv, ReloadTypes
  <2>8. RecTypeInv'
    BY <2>1 DEF recVars, TypeInv, RecTypeInv, RecInv
  <2> QED
    BY <1>1, <2>1, <2>3, <2>7, <2>8 DEF TypeInv
<1>4. CASE StartScheduled(s)
  <2>1. "queue" \in Boots /\ {"sched"} \in SUBSET Parts /\ {} \in SUBSET Parts
    BY DEF Boots, Parts
  <2>2. Goes /\ Quietly /\ UNCHANGED <<recVars, served>> /\ (Fault \/ UNCHANGED faults)
    BY <1>4, <2>1 DEF StartScheduled
  <2> QED
    BY <1>2, <2>2
<1>5. CASE StartQueue(s)
  <2>1. /\ "crons" \in Boots /\ "subs" \in Boots /\ {"queue"} \in SUBSET Parts /\ {} \in SUBSET Parts
        /\ kept[s] \cup {"queue"} \in SUBSET Parts
    BY <1>1 DEF Boots, Parts
  <2>2. Goes /\ Quietly /\ UNCHANGED <<recVars, served>> /\ (Fault \/ UNCHANGED faults)
    BY <1>1, <1>5, <2>1 DEF StartQueue
  <2> QED
    BY <1>2, <2>2
<1>6. CASE StartCrons(s)
  <2>1. /\ "events" \in Boots /\ "actions" \in Boots /\ {"crons"} \in SUBSET Parts
        /\ {} \in SUBSET Parts /\ kept[s] \cup {"crons", "events"} \in SUBSET Parts
    BY <1>1 DEF Boots, Parts
  <2>2. Goes /\ Quietly /\ UNCHANGED <<recVars, served>> /\ (Fault \/ UNCHANGED faults)
    BY <1>1, <1>6, <2>1 DEF StartCrons
  <2> QED
    BY <1>2, <2>2
<1>7. CASE StartEvents(s)
  <2>1. Reconcile(s) \/ StatementFails(s)
    BY <1>7 DEF StartEvents
  <2>2. RecTypeInv'
    BY <2>1, RecTypeStep DEF TypeInv
  <2>3. UNCHANGED <<boot, on, kept, served>> /\ Quietly /\ (Fault \/ UNCHANGED faults)
    BY <1>7 DEF StartEvents
  <2>4. ServerTypes' /\ ReloadTypes'
    BY <2>3 DEF Quietly, TypeInv, ServerTypes, ReloadTypes
  <2> QED
    BY <1>1, <2>2, <2>3, <2>4 DEF TypeInv
<1>8. CASE ListenEvents(s)
  <2>1. "catchup" \in Boots /\ {"events"} \in SUBSET Parts
    BY DEF Boots, Parts
  <2>2. Goes /\ Quietly /\ UNCHANGED <<recVars, served>> /\ (Fault \/ UNCHANGED faults)
    BY <1>1, <1>8, <2>1 DEF ListenEvents
  <2> QED
    BY <1>2, <2>2
<1>9. CASE CatchUp(s) \/ EventsFailed(s)
  <2>1. "actions" \in Boots /\ {} \in SUBSET Parts /\ kept[s] \ {"crons", "events"} \in SUBSET Parts
    BY <1>1 DEF Boots
  <2>2. Goes /\ Quietly /\ UNCHANGED <<recVars, served>> /\ (Fault \/ UNCHANGED faults)
    BY <1>1, <1>9, <2>1 DEF CatchUp, EventsFailed
  <2> QED
    BY <1>2, <2>2
<1>10. CASE StartActions(s)
  <2>1. /\ "subs" \in Boots /\ {} \in SUBSET Parts /\ {"actions"} \in SUBSET Parts
        /\ kept[s] \cup {"actions"} \in SUBSET Parts
    BY <1>1 DEF Boots, Parts
  <2>2. Goes /\ Quietly /\ UNCHANGED <<recVars, served>> /\ (Fault \/ UNCHANGED faults)
    BY <1>1, <1>10, <2>1 DEF StartActions
  <2> QED
    BY <1>2, <2>2
<1>11. CASE StartSubscriptions(s)
  <2>1. /\ "listen" \in Boots /\ {} \in SUBSET Parts /\ {"subscriptions"} \in SUBSET Parts
        /\ {"changes", "subscriptions"} \in SUBSET Parts /\ kept[s] \cup {"changes"} \in SUBSET Parts
    BY <1>1 DEF Boots, Parts
  <2>2. Goes /\ Quietly /\ UNCHANGED <<recVars, served>> /\ (Fault \/ UNCHANGED faults)
    BY <1>1, <1>11, <2>1 DEF StartSubscriptions
  <2> QED
    BY <1>2, <2>2
<1>12. CASE Listen(s)
  <2>1. "serving" \in Boots /\ {} \in SUBSET Parts
    BY DEF Boots
  <2>2. Goes /\ Quietly /\ UNCHANGED <<recVars, served>> /\ (Fault \/ UNCHANGED faults)
    BY <1>1, <1>12, <2>1 DEF Listen
  <2> QED
    BY <1>2, <2>2
<1> QED
  BY <1>3, <1>4, <1>5, <1>6, <1>7, <1>8, <1>9, <1>10, <1>11, <1>12 DEF BootStep

\* A step of a reload.
LEMMA ReloadTypesStep ==
  ASSUME TypeInv, NEW s \in Servers, ReloadStep(s)
  PROVE  TypeInv'
<1> DEFINE V == NoVersion .. MaxOutside
<1>1. /\ Still /\ files' = files /\ watch \in [Servers -> Watching]
      /\ reloads \in [Servers -> Seq(V)] /\ reloads[s] \in Seq(V)
      /\ served \in [Servers -> Served] /\ excused \in [Servers -> BOOLEAN]
      /\ files \in 0 .. MaxOutside /\ files \in V /\ NoVersion \in V
  <2>1. Still /\ files' = files
    BY DEF ReloadStep, WatchEvent, BeginReload, ReadConfig, Apply, ReloadFails
  <2> QED
    BY <2>1, Bounds DEF TypeInv, ReloadTypes
<1>2. RecTypeInv' /\ ServerTypes'
  BY <1>1 DEF Still, recVars, TypeInv, RecTypeInv, RecInv, ServerTypes
<1>3. faults' \in 0 .. MaxFaults
  BY FaultLemma DEF ReloadStep, WatchEvent, BeginReload, ReadConfig, Apply, ReloadFails, TypeInv
<1>4. "quiet" \in Watching /\ "timer" \in Watching
  BY DEF Watching
<1> HIDE DEF V
<1>5. ReloadTypes'
  <2>1. CASE WatchEvent(s)
    BY <1>1, <1>4, <2>1 DEF WatchEvent, ReloadTypes, V
  <2>2. CASE BeginReload(s)
    <3>1. Append(reloads[s], NoVersion) \in Seq(V)
      BY <1>1, AppendProperties
    <3>2. reloads' \in [Servers -> Seq(V)]
      BY <1>1, <2>2, <3>1 DEF BeginReload
    <3>3. excused' \in [Servers -> BOOLEAN]
      BY <1>1, <2>2 DEF BeginReload
    <3> QED
      BY <1>1, <1>4, <2>2, <3>2, <3>3 DEF BeginReload, ReloadTypes, V
  <2>3. ASSUME NEW k \in DOMAIN reloads[s], ReadConfig(s, k) \/ Apply(s, k) \/ ReloadFails(s, k)
        PROVE  ReloadTypes'
    <3>1. k \in 1 .. Len(reloads[s]) /\ reloads[s][k] \in V
      BY <1>1, LenProperties, ElementOfSeq
    <3>2. CASE ReadConfig(s, k)
      <4>1. reloads' = [reloads EXCEPT ![s] = [reloads[s] EXCEPT ![k] = files]]
        BY <3>2 DEF ReadConfig
      <4>2. [reloads[s] EXCEPT ![k] = files] \in Seq(V)
        BY <1>1, <3>1, ExceptSeq
      <4>3. reloads' \in [Servers -> Seq(V)]
        BY <1>1, <4>1, <4>2
      <4> QED
        BY <1>1, <3>2, <4>3 DEF ReadConfig, ReloadTypes, V
    <3>3. RemoveAt(reloads[s], k) \in Seq(V)
      BY <1>1, <3>1, RemoveAtLemma
    <3>4. CASE Apply(s, k)
      <4>1. reloads' \in [Servers -> Seq(V)]
        BY <1>1, <3>3, <3>4 DEF Apply
      <4> DEFINE v == reloads[s][k]
                 q == served[s]
      <4>2. v \in 0 .. MaxOutside /\ q \in Served
        BY <1>1, <3>1, <3>4, Bounds DEF Apply, V, NoVersion
      <4>3. [q EXCEPT !.schema = v, !.permissions = v, !.functions = NoVersion] \in Served
        <5> HIDE DEF v, q
        <5> QED
          BY <4>2, Bounds DEF Served
      <4>4. served' = [served EXCEPT ![s] = [q EXCEPT !.schema = v, !.permissions = v,
                                                      !.functions = NoVersion]]
        BY <3>4 DEF Apply
      <4>5. served' \in [Servers -> Served]
        <5> HIDE DEF v, q
        <5> QED
          BY <1>1, <4>3, <4>4
      <4> QED
        BY <1>1, <3>4, <4>1, <4>5 DEF Apply, ReloadTypes, V
    <3>5. CASE ReloadFails(s, k)
      <4>1. reloads' \in [Servers -> Seq(V)] /\ excused' \in [Servers -> BOOLEAN]
        BY <1>1, <3>3, <3>5 DEF ReloadFails
      <4> QED
        BY <1>1, <3>5, <4>1 DEF ReloadFails, ReloadTypes, V
    <3> QED
      BY <2>3, <3>2, <3>4, <3>5
  <2> QED
    BY <2>1, <2>2, <2>3 DEF ReloadStep
<1> QED
  BY <1>2, <1>3, <1>5 DEF TypeInv

\* A step of a shutdown.
LEMMA StopTypes ==
  ASSUME TypeInv, NEW s \in Servers, StopStep(s)
  PROVE  TypeInv'
<1>1. PICK k \in DOMAIN stops[s] : BeginStop(s, k) \/ EndStop(s, k) \/ EndPools(s, k) \/ Exit(s, k)
  BY DEF StopStep
<1>2. /\ stops \in [Servers -> Seq(1 .. 7)] /\ stops[s] \in Seq(1 .. 7)
      /\ k \in 1 .. Len(stops[s]) /\ stops[s][k] \in 1 .. 7
      /\ closed \in [Servers -> SUBSET (Parts \cup {"http", "pools"})]
      /\ on \in [Servers -> SUBSET Parts] /\ kept[s] \in SUBSET Parts
  BY LenProperties, ElementOfSeq DEF TypeInv, ServerTypes
<1>3. CASE BeginStop(s, k)
  <2> DEFINE part == StopOrder[stops[s][k]]
  <2>1. part \in Parts \cup {"http", "pools"}
    BY <1>2, <1>3 DEF BeginStop
  <2>2. /\ closed' \in [Servers -> SUBSET (Parts \cup {"http", "pools"})]
        /\ on' \in [Servers -> SUBSET Parts]
    <3>1. on' = [on EXCEPT ![s] = @ \ {part}] /\ closed' = [closed EXCEPT ![s] = @ \cup {part}]
      BY <1>3 DEF BeginStop
    <3> HIDE DEF part
    <3> QED
      BY <1>2, <2>1, <3>1
  <2> QED
    BY <1>3, <2>2 DEF BeginStop, recVars, TypeInv, RecTypeInv, RecInv, ServerTypes, ReloadTypes
<1>4. CASE EndStop(s, k) \/ EndPools(s, k)
  <2>1. stops[s][k] \in 1 .. 6 /\ stops' = [stops EXCEPT ![s][k] = @ + 1]
    <3>1. stops[s][k] <= 6 /\ stops' = [stops EXCEPT ![s][k] = @ + 1]
      BY <1>2, <1>4, Bounds DEF EndStop, EndPools
    <3> QED
      BY <1>2, <3>1
  <2>2. PICK n \in 1 .. 7 : n = stops[s][k] + 1
    BY <2>1
  <2>3. [stops[s] EXCEPT ![k] = n] \in Seq(1 .. 7)
    BY <1>2, ExceptSeq
  <2>4. stops' = [stops EXCEPT ![s] = [stops[s] EXCEPT ![k] = n]]
    BY <2>1, <2>2
  <2>5. stops' \in [Servers -> Seq(1 .. 7)]
    BY <1>2, <2>3, <2>4
  <2>6. closed' \in [Servers -> SUBSET (Parts \cup {"http", "pools"})]
    BY <1>2, <1>4 DEF EndStop, EndPools
  <2> QED
    BY <1>4, <2>5, <2>6
       DEF EndStop, EndPools, recVars, TypeInv, RecTypeInv, RecInv, ServerTypes, ReloadTypes
<1>5. CASE Exit(s, k)
  BY <1>5, GoneTypes DEF Exit, TypeInv
<1> QED
  BY <1>1, <1>3, <1>4, <1>5

\* A signal, an edit, and work that begins or ends.
LEMMA OutsideTypes ==
  ASSUME TypeInv,
         \/ Edit
         \/ \E s \in Servers : Signal(s)
         \/ \E s \in Servers, w \in Work : BeginWork(s, w) \/ EndWork(s, w)
  PROVE  TypeInv'
<1>1. MaxOutside \in Nat /\ "quiet" \in Watching /\ "event" \in Watching
  BY Bounds DEF Watching
<1>2. CASE Edit
  <2>1. files' \in 0 .. MaxOutside
    <3>1. files \in 0 .. MaxOutside /\ files < MaxOutside /\ files' = files + 1
      BY <1>2 DEF Edit, TypeInv, ReloadTypes
    <3> QED
      BY <1>1, <3>1
  <2>2. watch' \in [Servers -> Watching]
    BY <1>1, <1>2 DEF Edit, TypeInv, ReloadTypes
  <2>3. excused' \in [Servers -> BOOLEAN]
    <3>1. excused' = [s \in Servers |-> excused[s] \/ (Up(s) /\ ~Watches(s))]
      BY <1>2 DEF Edit
    <3>2. \A s \in Servers : (excused[s] \/ (Up(s) /\ ~Watches(s))) \in BOOLEAN
      OBVIOUS
    <3> QED
      BY <3>1, <3>2
  <2> QED
    BY <1>2, <2>1, <2>2, <2>3
       DEF Edit, Still, recVars, TypeInv, RecTypeInv, RecInv, ServerTypes, ReloadTypes
<1>3. ASSUME NEW s \in Servers, Signal(s) PROVE TypeInv'
  <2>1. Append(stops[s], 1) \in Seq(1 .. 7)
    <3>1. stops[s] \in Seq(1 .. 7) /\ 1 \in 1 .. 7
      BY DEF TypeInv, ServerTypes
    <3> QED
      BY <3>1, AppendProperties
  <2>2. stops' \in [Servers -> Seq(1 .. 7)] /\ watch' \in [Servers -> Watching]
    BY <1>1, <1>3, <2>1 DEF Signal, TypeInv, ServerTypes, ReloadTypes
  <2> QED
    BY <1>3, <2>2 DEF Signal, recVars, TypeInv, RecTypeInv, RecInv, ServerTypes, ReloadTypes
<1>4. ASSUME NEW s \in Servers, NEW w \in Work, BeginWork(s, w) \/ EndWork(s, w) PROVE TypeInv'
  <2>1. work' \in [Servers -> SUBSET Work]
    <3>1. work \in [Servers -> SUBSET Work] /\ work[s] \in SUBSET Work
      BY DEF TypeInv, ServerTypes
    <3>2. CASE work' = [work EXCEPT ![s] = @ \cup {w}]
      BY <3>1, <3>2
    <3>3. CASE work' = [work EXCEPT ![s] = @ \ {w}]
      BY <3>1, <3>3
    <3> QED
      BY <1>4, <3>2, <3>3 DEF BeginWork, EndWork
  <2> QED
    BY <1>4, <2>1
       DEF BeginWork, EndWork, Unmoved, recVars, TypeInv, RecTypeInv, RecInv, ServerTypes,
           ReloadTypes
<1> QED
  BY <1>2, <1>3, <1>4

\* The types of the initial state.
LEMMA TypeInit == Init => TypeInv
<1> SUFFICES ASSUME Init PROVE TypeInv
  OBVIOUS
<1>1. RecTypeInv
  <2>1. RecOk(NotStarted)
    BY NothingLeft DEF RecOk, NotStarted
  <2>2. catalog = Installed /\ body = Installed /\ rec = [s \in Servers |-> NotStarted]
    BY DEF Init, RecInit
  <2> QED
    BY <2>1, <2>2, NothingLeft, RecConstants DEF RecTypeInv, RecInv
<1>2. <<>> \in Seq(1 .. 7) /\ <<>> \in Seq(NoVersion .. MaxOutside)
  BY EmptySeq
<1>3. ServerTypes
  BY <1>2 DEF Init, ServerTypes, Boots
<1>4. NothingServed \in Served
  BY Bounds DEF NothingServed, Served
<1>5. ReloadTypes
  BY <1>2, <1>4, Bounds DEF Init, ReloadTypes, Watching
<1>6. faults \in 0 .. MaxFaults
  BY Bounds DEF Init
<1> QED
  BY <1>1, <1>3, <1>5, <1>6 DEF TypeInv

\* Every step keeps the types.
LEMMA TypeStep == TypeInv /\ [Next]_vars => TypeInv'
<1> SUFFICES ASSUME TypeInv, [Next]_vars PROVE TypeInv'
  OBVIOUS
<1>1. ASSUME NEW s \in Servers, BootStep(s) PROVE TypeInv'
  BY <1>1, BootTypes
<1>2. ASSUME NEW s \in Servers, ReloadStep(s) PROVE TypeInv'
  BY <1>2, ReloadTypesStep
<1>3. ASSUME NEW s \in Servers, Crash(s) PROVE TypeInv'
  <2>1. Gone(s) /\ Fault
    BY <1>3 DEF Crash
  <2> QED
    BY <2>1, GoneTypes, FaultLemma DEF TypeInv
<1>4. ASSUME NEW s \in Servers, StopStep(s) PROVE TypeInv'
  BY <1>4, StopTypes
<1>5. CASE UNCHANGED vars
  BY <1>5 DEF vars, recVars, lifeVars, TypeInv, RecTypeInv, RecInv, ServerTypes, ReloadTypes
<1> QED
  BY <1>1, <1>2, <1>3, <1>4, <1>5, OutsideTypes DEF Next

\* Type correctness: what a server runs, holds, does, closes and serves, and where its
\* reconciliation is, are what they are said to be; a reconciliation always has the
\* rest of the configuration's tables before it (reconcileTriggers, initPhase2,
\* createServer and its shutdown), with any number of servers.
THEOREM TypeCorrect == Spec => []TypeOK
<1>1. TypeInv => TypeOK
  BY TypeFrom
<1> QED
  BY <1>1, TypeInit, TypeStep, PTL DEF Spec

-----------------------------------------------------------------------------
(* What the steps of a server do to its reconciliation.                    *)

Active == {"function", "trigger", "create", "orphans"}

\* A shutdown comes after the start, and only a start reconciles.
BootInv ==
  \A s \in Servers :
    /\ stops[s] # <<>> => boot[s] \in {"listen", "serving"}
    /\ boot[s] \in {"down", "sched", "queue", "crons"} => rec[s].pc = "idle"
    /\ rec[s].pc \in Active => boot[s] = "events"

\* A start that moves on stays in this order.
LEMMA BootedOrder ==
  ASSUME TypeInv, BootInv, NEW s \in Servers, NEW b, NEW p, NEW h,
         Booted(s, b, p, h), UNCHANGED <<rec, stops>>,
         stops[s] # <<>> => b \in {"listen", "serving"},
         b \in {"down", "sched", "queue", "crons"} => rec[s].pc = "idle",
         rec[s].pc \in Active => b = "events"
  PROVE  BootInv'
<1>1. boot' = [boot EXCEPT ![s] = b] /\ boot \in [Servers -> Boots]
  BY DEF Booted, TypeInv, ServerTypes
<1>2. \A o \in Servers : boot'[o] = IF o = s THEN b ELSE boot[o]
  BY <1>1
<1> QED
  BY <1>2 DEF BootInv

\* What a process that ends leaves.
LEMMA GoneLemma ==
  ASSUME TypeInv, NEW s \in Servers, Gone(s)
  PROVE  /\ boot'[s] = "exited" /\ stops'[s] = <<>> /\ rec'[s].pc \in {"done", "failed"}
         /\ \A o \in Servers : o # s => boot'[o] = boot[o] /\ stops'[o] = stops[o] /\ rec'[o] = rec[o]
         /\ UNCHANGED <<catalog, body>>
         /\ rec[s].pc = "done" => rec' = rec
         /\ rec[s].pc # "done" => rec' = Fails(s)
<1>1. /\ boot'[s] = "exited" /\ stops'[s] = <<>> /\ UNCHANGED <<catalog, body>>
      /\ \A o \in Servers : o # s => boot'[o] = boot[o] /\ stops'[o] = stops[o]
  BY DEF TypeInv, ServerTypes, Gone
<1>2. CASE rec[s].pc = "done"
  BY <1>1, <1>2 DEF Gone
<1>3. CASE rec[s].pc # "done"
  <2>1. rec' = Fails(s)
    BY <1>3 DEF Gone
  <2>2. PICK r : Turns(s, r) /\ r.pc = "failed"
    BY <2>1, FailsTurns DEF TypeInv, RecTypeInv
  <2> QED
    BY <1>1, <1>3, <2>1, <2>2, TurnsLemma DEF TypeInv, RecTypeInv
<1> QED
  BY <1>2, <1>3

\* A start keeps its order.
LEMMA BootOrderOfStart ==
  ASSUME TypeInv, BootInv, NEW s \in Servers, BootStep(s)
  PROVE  BootInv'
<1>1. CASE StartEvents(s)
  <2>1. PICK r : Turns(s, r)
    BY <1>1, ReconcileTurns DEF StartEvents, TypeInv, RecTypeInv
  <2>2. \A o \in Servers : o # s => rec'[o] = rec[o]
    BY <2>1, TurnsLemma DEF TypeInv, RecTypeInv
  <2>3. UNCHANGED <<boot, stops>> /\ boot[s] = "events"
    BY <1>1 DEF StartEvents, Quietly
  <2> QED
    BY <2>2, <2>3 DEF BootInv
<1>2. CASE ~StartEvents(s)
  <2>1. PICK b, p, h : /\ Booted(s, b, p, h)
                       /\ \/ boot[s] = "down" /\ b = "sched"
                          \/ boot[s] = "sched" /\ b = "queue"
                          \/ boot[s] = "queue" /\ b \in {"crons", "subs"}
                          \/ boot[s] = "crons" /\ b \in {"events", "actions"}
                          \/ boot[s] = "events" /\ b = "catchup" /\ rec[s].pc = "done"
                          \/ boot[s] = "events" /\ b = "actions" /\ rec[s].pc = "failed"
                          \/ boot[s] = "catchup" /\ b = "actions"
                          \/ boot[s] = "actions" /\ b = "subs"
                          \/ boot[s] = "subs" /\ b = "listen"
                          \/ boot[s] = "listen" /\ b = "serving"
    <3>1. CASE Start(s)
      BY <3>1 DEF Start
    <3>2. CASE StartScheduled(s)
      BY <3>2 DEF StartScheduled
    <3>3. CASE StartQueue(s)
      BY <3>3 DEF StartQueue
    <3>4. CASE StartCrons(s)
      BY <3>4 DEF StartCrons
    <3>5. CASE ListenEvents(s)
      BY <3>5 DEF ListenEvents
    <3>6. CASE EventsFailed(s)
      BY <3>6 DEF EventsFailed
    <3>7. CASE CatchUp(s)
      BY <3>7 DEF CatchUp
    <3>8. CASE StartActions(s)
      BY <3>8 DEF StartActions
    <3>9. CASE StartSubscriptions(s)
      BY <3>9 DEF StartSubscriptions
    <3>10. CASE Listen(s)
      BY <3>10 DEF Listen
    <3> QED
      BY <1>2, <3>1, <3>2, <3>3, <3>4, <3>5, <3>6, <3>7, <3>8, <3>9, <3>10 DEF BootStep
  <2>2. UNCHANGED <<rec, stops>>
    BY <1>2 DEF BootStep, Start, StartScheduled, StartQueue, StartCrons, ListenEvents, EventsFailed,
                CatchUp, StartActions, StartSubscriptions, Listen, Quietly, recVars
  <2>3. /\ stops[s] # <<>> => boot[s] \in {"listen", "serving"}
        /\ boot[s] \in {"down", "sched", "queue", "crons"} => rec[s].pc = "idle"
        /\ rec[s].pc \in Active => boot[s] = "events"
    BY DEF BootInv
  <2>4. /\ stops[s] # <<>> => b \in {"listen", "serving"}
        /\ b \in {"down", "sched", "queue", "crons"} => rec[s].pc = "idle"
        /\ rec[s].pc \in Active => b = "events"
    BY <2>1, <2>3 DEF Active
  <2> QED
    BY <2>1, <2>2, <2>4, BootedOrder
<1> QED
  BY <1>1, <1>2

\* Every step keeps it.
LEMMA BootOrder == TypeInv /\ BootInv /\ [Next]_vars => BootInv'
<1> SUFFICES ASSUME TypeInv, BootInv, [Next]_vars PROVE BootInv'
  OBVIOUS
<1>1. ASSUME NEW s \in Servers, BootStep(s) PROVE BootInv'
  BY <1>1, BootOrderOfStart
<1>2. ASSUME NEW s \in Servers, Gone(s) PROVE BootInv'
  BY <1>2, GoneLemma DEF BootInv, Active
<1>3. ASSUME NEW s \in Servers, ReloadStep(s) PROVE BootInv'
  <2>1. Still
    BY <1>3 DEF ReloadStep, WatchEvent, BeginReload, ReadConfig, Apply, ReloadFails
  <2> QED
    BY <2>1 DEF Still, recVars, BootInv
<1>4. ASSUME NEW s \in Servers, Signal(s) PROVE BootInv'
  <2>1. UNCHANGED <<boot, rec>> /\ boot[s] \in {"listen", "serving"}
    BY <1>4 DEF Signal, recVars
  <2>2. \A o \in Servers : o # s => stops'[o] = stops[o]
    BY <1>4 DEF Signal, TypeInv, ServerTypes
  <2> QED
    BY <2>1, <2>2 DEF BootInv
<1>5. ASSUME NEW s \in Servers, StopStep(s) PROVE BootInv'
  <2>1. PICK k \in DOMAIN stops[s] :
          BeginStop(s, k) \/ EndStop(s, k) \/ EndPools(s, k) \/ Exit(s, k)
    BY <1>5 DEF StopStep
  <2>2. stops[s] # <<>>
    OBVIOUS
  <2>3. CASE Exit(s, k)
    BY <1>2, <2>3 DEF Exit
  <2>4. CASE ~Exit(s, k)
    <3>1. UNCHANGED <<boot, rec>> /\ \A o \in Servers : o # s => stops'[o] = stops[o]
      BY <2>1, <2>4 DEF BeginStop, EndStop, EndPools, recVars, TypeInv, ServerTypes
    <3> QED
      BY <2>2, <3>1 DEF BootInv
  <2> QED
    BY <2>3, <2>4
<1>6. CASE Edit
  BY <1>6 DEF Edit, Still, recVars, BootInv
<1>7. ASSUME NEW s \in Servers, NEW w \in Work, BeginWork(s, w) \/ EndWork(s, w) PROVE BootInv'
  BY <1>7 DEF BeginWork, EndWork, Unmoved, recVars, BootInv
<1>8. CASE UNCHANGED vars
  BY <1>8 DEF vars, recVars, lifeVars, BootInv
<1> QED
  BY <1>1, <1>2, <1>3, <1>4, <1>5, <1>6, <1>7, <1>8 DEF Next, Crash

\* The start of the order.
LEMMA BootInit == Init => BootInv
BY DEF Init, RecInit, NotStarted, BootInv, Active

\* A server that stops after its start, its reconciliation not done, is not in it either.
Stopped(s) == boot[s] \in {"listen", "serving"} /\ rec[s].pc \notin Active \cup {"done"}

\* What a step can do to the reconciliations: one of them takes a step of its own, one
\* of them fails, by a fault or because its server exits, or nothing happens to them.
LEMMA StepEffect ==
  ASSUME TypeInv, BootInv, [Next]_vars
  PROVE  /\ \/ \E s \in Servers : Reconcile(s) /\ faults' = faults
            \/ \E s \in Servers : /\ rec' = Fails(s) /\ UNCHANGED <<catalog, body>>
                                  /\ \/ faults' # 0
                                     \/ Stopped(s)
            \/ UNCHANGED <<catalog, body, rec>>
         /\ faults' = 0 => faults = 0
<1> DEFINE Effect == /\ \/ \E s \in Servers : Reconcile(s) /\ faults' = faults
                        \/ \E s \in Servers : /\ rec' = Fails(s) /\ UNCHANGED <<catalog, body>>
                                              /\ \/ faults' # 0
                                                 \/ Stopped(s)
                        \/ UNCHANGED <<catalog, body, rec>>
                     /\ faults' = 0 => faults = 0
<1>1. Fault => faults' # 0
  <2>1. faults \in Nat
    BY Bounds DEF TypeInv
  <2> QED
    BY <2>1 DEF Fault
<1>2. ASSUME UNCHANGED recVars, Fault \/ UNCHANGED faults PROVE Effect
  BY <1>1, <1>2 DEF recVars
<1>3. ASSUME NEW s \in Servers, BootStep(s) PROVE Effect
  <2>1. CASE StartEvents(s)
    <3>1. CASE Reconcile(s) /\ UNCHANGED faults
      BY <3>1
    <3>2. CASE StatementFails(s) /\ Fault
      BY <1>1, <3>2 DEF StatementFails
    <3> QED
      BY <2>1, <3>1, <3>2 DEF StartEvents
  <2>2. CASE ~StartEvents(s)
    <3>1. UNCHANGED recVars /\ (Fault \/ UNCHANGED faults)
      BY <1>3, <2>2 DEF BootStep, Start, StartScheduled, StartQueue, StartCrons, ListenEvents,
                        EventsFailed, CatchUp, StartActions, StartSubscriptions, Listen
    <3> QED
      BY <1>2, <3>1
  <2> QED
    BY <2>1, <2>2
<1>4. ASSUME NEW s \in Servers, ReloadStep(s) PROVE Effect
  <2>1. UNCHANGED recVars /\ (Fault \/ UNCHANGED faults)
    BY <1>4 DEF ReloadStep, WatchEvent, BeginReload, ReadConfig, Apply, ReloadFails, Still
  <2> QED
    BY <1>2, <2>1
<1>5. ASSUME NEW s \in Servers, Gone(s), Fault PROVE Effect
  <2>1. UNCHANGED <<catalog, body>> /\ (rec' = rec \/ rec' = Fails(s))
    BY <1>5, GoneLemma
  <2> QED
    BY <1>1, <1>5, <2>1
<1>6. ASSUME NEW s \in Servers, StopStep(s) PROVE Effect
  <2>1. PICK k \in DOMAIN stops[s] :
          BeginStop(s, k) \/ EndStop(s, k) \/ EndPools(s, k) \/ Exit(s, k)
    BY <1>6 DEF StopStep
  <2>2. stops[s] # <<>>
    OBVIOUS
  <2>3. boot[s] \in {"listen", "serving"} /\ rec[s].pc \notin Active
    BY <2>2 DEF BootInv
  <2>4. CASE Exit(s, k)
    <3>1. Gone(s) /\ UNCHANGED faults
      BY <2>4 DEF Exit
    <3>2. UNCHANGED <<catalog, body>> /\ (rec' = rec \/ (rec' = Fails(s) /\ rec[s].pc # "done"))
      BY <3>1, GoneLemma
    <3> QED
      BY <2>3, <3>1, <3>2 DEF Stopped
  <2>5. CASE ~Exit(s, k)
    BY <1>2, <2>1, <2>5 DEF BeginStop, EndStop, EndPools
  <2> QED
    BY <2>4, <2>5
<1>7. ASSUME NEW s \in Servers, Signal(s) PROVE Effect
  BY <1>2, <1>7 DEF Signal
<1>8. CASE Edit
  BY <1>2, <1>8 DEF Edit, Still
<1>9. ASSUME NEW s \in Servers, NEW w \in Work, BeginWork(s, w) \/ EndWork(s, w) PROVE Effect
  BY <1>2, <1>9 DEF BeginWork, EndWork, Unmoved
<1>10. CASE UNCHANGED vars
  BY <1>2, <1>10 DEF vars, lifeVars
<1>11. ASSUME NEW s \in Servers, Crash(s) PROVE Effect
  BY <1>5, <1>11 DEF Crash
<1> QED
  BY <1>3, <1>4, <1>6, <1>7, <1>8, <1>9, <1>10, <1>11 DEF Next

-----------------------------------------------------------------------------
(* What a write leaves in the event log.                                   *)

PassedBy(r, t) == r.pc = "done" \/ (r.pc \in Active /\ t \notin ToSet(r.left))
AtTable(r, t) == r.pc \in {"trigger", "create"} /\ Head(r.left) = t
Between(r, t) == r.pc = "create" /\ Head(r.left) = t /\ r.seen[t] \notin {{}, Desired[t]}
FoundWanted(r, t) == r.pc \in Active /\ r.seen[t] = Desired[t]

\* The trigger of t is the wanted one, or a server has dropped it to create it.
Settled(t) == catalog[t] = Desired[t] \/ \E s \in Servers : Between(rec[s], t)

\* A server that has come to a table's trigger has replaced its function.
BodyInv ==
  \A s \in Servers, t \in ToSet(Order) :
    PassedBy(rec[s], t) \/ AtTable(rec[s], t) => body[t] = Desired[t]

\* A trigger that was the wanted one when the first server started stays.
KeptInv ==
  \A t \in ToSet(Order) : (Installed[t] = Desired[t] /\ Desired[t] # {}) =>
    /\ catalog[t] = Desired[t] /\ body[t] = Desired[t]
    /\ \A s \in Servers : rec[s].pc \in Active => FoundWanted(rec[s], t)

\* Without faults, a trigger that a server has gone past, or has found to be the wanted
\* one, stays or is between a drop and a create.
SettledOf(s, t) ==
  /\ PassedBy(rec[s], t) \/ FoundWanted(rec[s], t) => Settled(t)
  /\ Between(rec[s], t) => catalog[t] \in {{}, Desired[t]}

SettledInv ==
  faults = 0 =>
    \A t \in ToSet(Order) \ Views : Desired[t] # {} => \A s \in Servers : SettledOf(s, t)

CaptureInv == BodyInv /\ KeptInv /\ SettledInv

\* What a server that goes on to its next table has passed.
LEMMA PassedAlong ==
  ASSUME RecInv, NEW s \in Servers, NEW r, NEW t, rec[s].pc \in {"function", "create"},
         r.pc \in {"function", "orphans"}, r.left = Tail(rec[s].left)
  PROVE  /\ PassedBy(r, t) => PassedBy(rec[s], t) \/ t = Current(s)
         /\ ~AtTable(r, t) /\ ~Between(r, t) /\ r.pc \in Active
BY CurrentLemma DEF PassedBy, AtTable, Between, Active

\* What a server that stays at its table has passed.
LEMMA PassedHere ==
  ASSUME NEW s \in Servers, NEW r, NEW t, rec[s].pc \in Active,
         r.pc \in {"trigger", "create"}, r.left = rec[s].left
  PROVE  /\ PassedBy(r, t) <=> PassedBy(rec[s], t)
         /\ AtTable(r, t) <=> t = Current(s)
         /\ r.pc \in Active
BY DEF PassedBy, AtTable, Active, Current

\* The first step of a reconciliation keeps all that.
LEMMA CaptureDiscover ==
  ASSUME RecTypeInv, CaptureInv, NEW s \in Servers, Discover(s), faults' = faults
  PROVE  CaptureInv'
<1>1. PICK r : /\ Turns(s, r) /\ r.pc \in {"function", "orphans"}
               /\ r.left = Order /\ r.seen = catalog
  BY DiscoverTurns DEF RecTypeInv
<1>2. rec'[s] = r /\ \A o \in Servers : o # s => rec'[o] = rec[o]
  BY <1>1, TurnsLemma DEF RecTypeInv
<1>3. rec[s].pc = "idle" /\ catalog' = catalog /\ body' = body
  BY DEF Discover
<1>4. \A t \in ToSet(Order) : ~PassedBy(r, t) /\ ~AtTable(r, t) /\ ~Between(r, t)
  BY <1>1 DEF PassedBy, AtTable, Between
<1>5. r.pc \in Active
  BY <1>1 DEF Active
<1>6. BodyInv'
  BY <1>2, <1>3, <1>4 DEF CaptureInv, BodyInv
<1>7. KeptInv'
  BY <1>1, <1>2, <1>3, <1>5 DEF CaptureInv, KeptInv, FoundWanted
<1>8. SettledInv'
  <2> SUFFICES ASSUME faults = 0, NEW t \in ToSet(Order) \ Views, Desired[t] # {},
                      NEW o \in Servers
               PROVE  SettledOf(o, t)'
    BY DEF SettledInv
  <2>1. SettledOf(o, t)
    BY DEF CaptureInv, SettledInv
  <2>2. ~Between(rec[s], t)
    BY <1>3 DEF Between
  <2>3. Settled(t) => Settled(t)'
    BY <1>2, <1>3, <2>2 DEF Settled
  <2>4. CASE o = s
    <3>1. FoundWanted(r, t) => catalog[t] = Desired[t]
      BY <1>1 DEF FoundWanted
    <3> QED
      BY <1>2, <1>3, <1>4, <2>4, <3>1 DEF SettledOf, Settled
  <2>5. CASE o # s
    BY <1>2, <1>3, <2>1, <2>3, <2>5 DEF SettledOf
  <2> QED
    BY <2>4, <2>5
<1> QED
  BY <1>6, <1>7, <1>8 DEF CaptureInv

\* The replacement of a function does.
LEMMA CaptureReplace ==
  ASSUME RecTypeInv, CaptureInv, NEW s \in Servers, ReplaceFunction(s), faults' = faults
  PROVE  CaptureInv'
<1>1. rec[s].pc = "function" /\ catalog' = catalog
      /\ body' = [body EXCEPT ![Current(s)] = Desired[Current(s)]]
  BY DEF ReplaceFunction
<1>2. Current(s) \in ToSet(Order) /\ Current(s) \in TableSet /\ body \in [TableSet -> SUBSET Ops]
  BY <1>1, CurrentLemma DEF RecTypeInv
<1>3. \A t \in ToSet(Order) : body'[t] = IF t = Current(s) THEN Desired[t] ELSE body[t]
  BY <1>1, <1>2, RecConstants
<1>4. PICK r :
        /\ Turns(s, r) /\ r.seen = rec[s].seen
        /\ \/ /\ r.pc \in {"function", "orphans"} /\ r.left = Tail(rec[s].left)
              /\ rec[s].seen[Current(s)] = Desired[Current(s)] /\ Desired[Current(s)] # {}
           \/ /\ r.pc = "create" /\ r.left = rec[s].left /\ rec[s].seen[Current(s)] = {}
           \/ /\ r.pc = "trigger" /\ r.left = rec[s].left
  BY ReplaceTurns DEF RecTypeInv
<1>5. rec'[s] = r /\ \A o \in Servers : o # s => rec'[o] = rec[o]
  BY <1>4, TurnsLemma DEF RecTypeInv
<1>6. \A t : /\ PassedBy(r, t) => \/ PassedBy(rec[s], t)
                                  \/ t = Current(s) /\ rec[s].seen[t] = Desired[t]
             /\ AtTable(r, t) => t = Current(s)
             /\ ~Between(r, t) /\ r.pc \in Active
  <2>1. CASE /\ r.pc \in {"function", "orphans"} /\ r.left = Tail(rec[s].left)
             /\ rec[s].seen[Current(s)] = Desired[Current(s)]
    BY <1>1, <2>1, PassedAlong DEF RecTypeInv
  <2>2. CASE r.pc = "create" /\ r.left = rec[s].left /\ rec[s].seen[Current(s)] = {}
    <3>1. \A t : ~Between(r, t)
      BY <1>4, <2>2 DEF Between, Current
    <3> QED
      BY <1>1, <2>2, <3>1, PassedHere DEF Active
  <2>3. CASE r.pc = "trigger" /\ r.left = rec[s].left
    <3>1. \A t : ~Between(r, t)
      BY <2>3 DEF Between
    <3> QED
      BY <1>1, <2>3, <3>1, PassedHere DEF Active
  <2> QED
    BY <1>4, <2>1, <2>2, <2>3
<1>7. rec[s].pc \in Active
  BY <1>1 DEF Active
<1>8. BodyInv'
  BY <1>3, <1>5, <1>6 DEF CaptureInv, BodyInv
<1>9. KeptInv'
  BY <1>1, <1>3, <1>4, <1>5, <1>6, <1>7 DEF CaptureInv, KeptInv, FoundWanted
<1>10. SettledInv'
  <2> SUFFICES ASSUME faults = 0, NEW t \in ToSet(Order) \ Views, Desired[t] # {},
                      NEW o \in Servers
               PROVE  SettledOf(o, t)'
    BY DEF SettledInv
  <2>1. SettledOf(o, t) /\ SettledOf(s, t)
    BY DEF CaptureInv, SettledInv
  <2>2. ~Between(rec[s], t)
    BY <1>1 DEF Between
  <2>3. Settled(t) => Settled(t)'
    BY <1>1, <1>5, <2>2 DEF Settled
  <2>4. CASE o = s
    <3>1. FoundWanted(r, t) => FoundWanted(rec[s], t)
      BY <1>4, <1>7 DEF FoundWanted
    <3>2. PassedBy(r, t) => PassedBy(rec[s], t) \/ FoundWanted(rec[s], t)
      BY <1>6, <1>7 DEF FoundWanted
    <3> QED
      BY <1>5, <1>6, <2>1, <2>3, <2>4, <3>1, <3>2 DEF SettledOf
  <2>5. CASE o # s
    BY <1>1, <1>5, <2>1, <2>3, <2>5 DEF SettledOf
  <2> QED
    BY <2>4, <2>5
<1> QED
  BY <1>8, <1>9, <1>10 DEF CaptureInv

\* A failure does, if it is a fault, comes before or after the work, or if the trigger it
\* leaves between drop and create is another server's by now.
LEMMA CaptureFails ==
  ASSUME RecTypeInv, CaptureInv, NEW s \in Servers, rec' = Fails(s),
         UNCHANGED <<catalog, body>>, faults' = 0 => faults = 0,
         faults' = 0 => \A t \in ToSet(Order) \ Views :
                          Desired[t] # {} /\ Between(rec[s], t) => catalog[t] # {}
  PROVE  CaptureInv'
<1>1. PICK r : Turns(s, r) /\ r.pc = "failed"
  BY FailsTurns DEF RecTypeInv
<1>2. rec'[s] = r /\ \A o \in Servers : o # s => rec'[o] = rec[o]
  BY <1>1, TurnsLemma DEF RecTypeInv
<1>3. r.pc \notin Active /\ \A t : ~PassedBy(r, t) /\ ~AtTable(r, t) /\ ~Between(r, t)
                                   /\ ~FoundWanted(r, t)
  BY <1>1 DEF PassedBy, AtTable, Between, FoundWanted, Active
<1>4. BodyInv'
  BY <1>2, <1>3 DEF CaptureInv, BodyInv
<1>5. KeptInv'
  BY <1>2, <1>3 DEF CaptureInv, KeptInv
<1>6. SettledInv'
  <2> SUFFICES ASSUME faults' = 0, NEW t \in ToSet(Order) \ Views, Desired[t] # {},
                      NEW o \in Servers
               PROVE  SettledOf(o, t)'
    BY DEF SettledInv
  <2>1. SettledOf(o, t) /\ SettledOf(s, t)
    BY DEF CaptureInv, SettledInv
  <2>2. Between(rec[s], t) => catalog[t] = Desired[t]
    BY <2>1 DEF SettledOf
  <2>3. Settled(t) => Settled(t)'
    BY <1>2, <2>2 DEF Settled
  <2> QED
    BY <1>2, <1>3, <2>1, <2>3 DEF SettledOf
<1> QED
  BY <1>4, <1>5, <1>6 DEF CaptureInv

\* The drop of a changed trigger does.
LEMMA CaptureDrop ==
  ASSUME RecTypeInv, CaptureInv, NEW s \in Servers, DropChanged(s), faults' = faults
  PROVE  CaptureInv'
<1>1. rec[s].pc = "trigger" /\ body' = body /\ catalog' = [catalog EXCEPT ![Current(s)] = {}]
  BY DEF DropChanged
<1>2. PICK r : Turns(s, r) /\ r.pc = "create" /\ r.left = rec[s].left /\ r.seen = rec[s].seen
  BY DropTurns DEF RecTypeInv
<1>3. rec'[s] = r /\ \A o \in Servers : o # s => rec'[o] = rec[o]
  BY <1>2, TurnsLemma DEF RecTypeInv
<1>4. \A t \in ToSet(Order) : catalog'[t] = IF t = Current(s) THEN {} ELSE catalog[t]
  BY <1>1, RecConstants DEF RecTypeInv
<1>5. rec[s].pc \in Active
  BY <1>1 DEF Active
<1>6. \A t : /\ PassedBy(r, t) <=> PassedBy(rec[s], t)
             /\ AtTable(r, t) <=> t = Current(s)
             /\ AtTable(rec[s], t) <=> t = Current(s)
             /\ r.pc \in Active /\ (FoundWanted(r, t) <=> FoundWanted(rec[s], t))
  <2>1. \A t : /\ PassedBy(r, t) <=> PassedBy(rec[s], t)
               /\ AtTable(r, t) <=> t = Current(s)
               /\ r.pc \in Active
    BY <1>2, <1>5, PassedHere
  <2> QED
    BY <1>1, <1>2, <1>5, <2>1 DEF AtTable, FoundWanted, Current
<1>7. LET t == Current(s) IN
        /\ rec[s].seen[t] # {}
        /\ Desired[t] # {} => rec[s].seen[t] # Desired[t] /\ Between(r, t)
        /\ \A u : u # t => ~Between(r, u)
  BY <1>1, <1>2, RecTypes, CurrentLemma DEF RecTypeInv, RecOk, Between, Current
<1>8. BodyInv'
  BY <1>1, <1>3, <1>6 DEF CaptureInv, BodyInv
<1>9. KeptInv'
  BY <1>1, <1>3, <1>4, <1>5, <1>6, <1>7 DEF CaptureInv, KeptInv, FoundWanted
<1>10. SettledInv'
  <2> SUFFICES ASSUME faults = 0, NEW t \in ToSet(Order) \ Views, Desired[t] # {},
                      NEW o \in Servers
               PROVE  SettledOf(o, t)'
    BY DEF SettledInv
  <2>1. SettledOf(o, t) /\ SettledOf(s, t)
    BY DEF CaptureInv, SettledInv
  <2>2. ~Between(rec[s], t)
    BY <1>1 DEF Between
  <2>3. CASE t = Current(s)
    <3>1. Settled(t)' /\ catalog'[t] = {}
      BY <1>3, <1>4, <1>7, <2>3 DEF Settled
    <3> QED
      BY <3>1 DEF SettledOf
  <2>4. CASE t # Current(s)
    <3>1. catalog'[t] = catalog[t] /\ ~Between(r, t)
      BY <1>4, <1>7, <2>4
    <3>2. Settled(t) => Settled(t)'
      BY <1>3, <2>2, <3>1 DEF Settled
    <3> QED
      BY <1>3, <1>6, <2>1, <3>1, <3>2 DEF SettledOf
  <2> QED
    BY <2>3, <2>4
<1> QED
  BY <1>8, <1>9, <1>10 DEF CaptureInv

\* The creation of a trigger does, also when it is rejected.
LEMMA CaptureCreate ==
  ASSUME RecTypeInv, CaptureInv, NEW s \in Servers, CreateTrigger(s), faults' = faults
  PROVE  CaptureInv'
<1> DEFINE Rejected == /\ ~(Current(s) \in Views /\ rec[s].seen[Current(s)] = {})
                       /\ \/ catalog[Current(s)] # {}
                          \/ Desired[Current(s)] = {}
                          \/ Current(s) \in Views
<1>1. rec[s].pc = "create" /\ body' = body
  BY DEF CreateTrigger
<1>2. rec[s].pc \in Active /\ \A t : AtTable(rec[s], t) <=> t = Current(s)
  BY <1>1 DEF Active, AtTable, Current
<1>3. \A u : u # Current(s) => ~Between(rec[s], u)
  BY DEF Between, Current
<1>4. CASE Rejected
  <2>1. rec' = Fails(s) /\ catalog' = catalog
    BY <1>4 DEF CreateTrigger
  <2>2. \A t \in ToSet(Order) \ Views : Desired[t] # {} /\ Between(rec[s], t) => catalog[t] # {}
    BY <1>3, <1>4
  <2> QED
    BY <1>1, <2>1, <2>2, CaptureFails
<1>5. CASE ~Rejected
  <2>1. PICK r :
          /\ Turns(s, r) /\ r.pc \in {"function", "orphans"} /\ r.left = Tail(rec[s].left)
          /\ r.seen = rec[s].seen
          /\ \/ Current(s) \in Views /\ catalog' = catalog
             \/ /\ Current(s) \notin Views
                /\ catalog[Current(s)] = {}
                /\ catalog' = [catalog EXCEPT ![Current(s)] = Desired[Current(s)]]
    BY <1>5, CreateTurns DEF RecTypeInv
  <2>2. rec'[s] = r /\ \A o \in Servers : o # s => rec'[o] = rec[o]
    BY <2>1, TurnsLemma DEF RecTypeInv
  <2>3. \A t : /\ PassedBy(r, t) => PassedBy(rec[s], t) \/ t = Current(s)
               /\ ~AtTable(r, t) /\ ~Between(r, t) /\ r.pc \in Active
    BY <1>1, <2>1, PassedAlong DEF RecTypeInv
  <2>4. \A t \in ToSet(Order) :
          /\ t # Current(s) => catalog'[t] = catalog[t]
          /\ t \in Views => catalog'[t] = catalog[t]
          /\ t = Current(s) /\ t \notin Views => catalog'[t] = Desired[t]
    BY <2>1, RecConstants DEF RecTypeInv
  <2>5. BodyInv'
    BY <1>1, <1>2, <2>2, <2>3 DEF CaptureInv, BodyInv
  <2>6. KeptInv'
    BY <1>1, <1>2, <2>1, <2>2, <2>3, <2>4 DEF CaptureInv, KeptInv, FoundWanted
  <2>7. SettledInv'
    <3> SUFFICES ASSUME faults = 0, NEW t \in ToSet(Order) \ Views, Desired[t] # {},
                        NEW o \in Servers
                 PROVE  SettledOf(o, t)'
      BY DEF SettledInv
    <3>1. SettledOf(o, t) /\ SettledOf(s, t)
      BY DEF CaptureInv, SettledInv
    <3>2. CASE t = Current(s)
      <4>1. catalog'[t] = Desired[t]
        BY <2>4, <3>2
      <4> QED
        BY <4>1 DEF SettledOf, Settled
    <3>3. CASE t # Current(s)
      <4>1. catalog'[t] = catalog[t] /\ ~Between(rec[s], t)
        BY <1>3, <2>4, <3>3
      <4>2. Settled(t) => Settled(t)'
        BY <2>2, <4>1 DEF Settled
      <4>3. FoundWanted(r, t) => FoundWanted(rec[s], t)
        BY <1>2, <2>1 DEF FoundWanted
      <4> QED
        BY <2>2, <2>3, <3>1, <3>3, <4>1, <4>2, <4>3 DEF SettledOf
    <3> QED
      BY <3>2, <3>3
  <2> QED
    BY <2>5, <2>6, <2>7 DEF CaptureInv
<1> QED
  BY <1>4, <1>5

\* The end of the reconciliation does: the orphans and the last step.
LEMMA CaptureEnd ==
  ASSUME RecTypeInv, CaptureInv, NEW s \in Servers, DropOrphan(s) \/ Reconciled(s),
         faults' = faults
  PROVE  CaptureInv'
<1>1. rec[s].pc = "orphans" /\ rec[s].left = <<>>
  BY RecTypes DEF DropOrphan, Reconciled, RecTypeInv, RecOk
<1>2. \A t : PassedBy(rec[s], t)
  <2>1. ToSet(<<>>) = {}
    BY DEF ToSet
  <2> QED
    BY <1>1, <2>1 DEF PassedBy, Active
<1>3. PICK r : /\ Turns(s, r) /\ \/ r.pc = "done"
                                 \/ r.pc = "orphans" /\ r.seen = rec[s].seen
  BY OrphanTurns, ReconciledTurns DEF RecTypeInv
<1>4. rec'[s] = r /\ \A o \in Servers : o # s => rec'[o] = rec[o]
  BY <1>3, TurnsLemma DEF RecTypeInv
<1>5. \A t : /\ ~AtTable(r, t) /\ ~Between(r, t) /\ ~Between(rec[s], t)
             /\ FoundWanted(r, t) => FoundWanted(rec[s], t)
  BY <1>1, <1>3 DEF AtTable, Between, FoundWanted, Active
<1>6. \A t \in ToSet(Order) : catalog'[t] = catalog[t] /\ body'[t] = body[t]
  <2>1. CASE DropOrphan(s)
    <3>1. PICK u \in Orphans : /\ catalog' = [catalog EXCEPT ![u] = {}]
                               /\ body' = [body EXCEPT ![u] = {}]
      BY <2>1, OrphanTurns DEF RecTypeInv
    <3> QED
      BY <3>1, RecConstants DEF RecTypeInv
  <2>2. CASE Reconciled(s)
    BY <2>2 DEF Reconciled
  <2> QED
    BY <2>1, <2>2
<1>7. BodyInv'
  BY <1>2, <1>4, <1>6 DEF CaptureInv, BodyInv
<1>8. r.pc \in Active => /\ rec[s].pc \in Active
                         /\ \A t : FoundWanted(rec[s], t) => FoundWanted(r, t)
  BY <1>1, <1>3 DEF FoundWanted, Active
<1>9. KeptInv'
  BY <1>4, <1>6, <1>8 DEF CaptureInv, KeptInv
<1>10. SettledInv'
  <2> SUFFICES ASSUME faults = 0, NEW t \in ToSet(Order) \ Views, Desired[t] # {},
                      NEW o \in Servers
               PROVE  SettledOf(o, t)'
    BY DEF SettledInv
  <2>1. SettledOf(o, t) /\ SettledOf(s, t)
    BY DEF CaptureInv, SettledInv
  <2>2. Settled(t) => Settled(t)'
    BY <1>4, <1>5, <1>6 DEF Settled
  <2>3. Settled(t)
    BY <1>2, <2>1 DEF SettledOf
  <2> QED
    BY <1>4, <1>5, <1>6, <2>1, <2>2, <2>3 DEF SettledOf
<1> QED
  BY <1>7, <1>9, <1>10 DEF CaptureInv

\* Every step does.
LEMMA CaptureStep ==
  ASSUME TypeInv, BootInv, CaptureInv, [Next]_vars
  PROVE  CaptureInv'
<1>1. RecTypeInv
  BY DEF TypeInv
<1>2. faults' = 0 => faults = 0
  BY StepEffect
<1>3. ASSUME NEW s \in Servers, Reconcile(s), faults' = faults PROVE CaptureInv'
  <2>1. CASE FunctionConflict(s)
    <3>1. rec' = Fails(s) /\ UNCHANGED <<catalog, body>> /\ \A t : ~Between(rec[s], t)
      BY <2>1 DEF FunctionConflict, Between
    <3> QED
      BY <1>1, <1>2, <3>1, CaptureFails
  <2> QED
    BY <1>1, <1>3, <2>1, CaptureDiscover, CaptureReplace, CaptureDrop, CaptureCreate, CaptureEnd
       DEF Reconcile
<1>4. ASSUME NEW s \in Servers, rec' = Fails(s), UNCHANGED <<catalog, body>>,
             faults' # 0 \/ Stopped(s)
      PROVE  CaptureInv'
  <2>1. Stopped(s) => \A t : ~Between(rec[s], t)
    BY DEF Between, Active, Stopped
  <2> QED
    BY <1>1, <1>2, <1>4, <2>1, CaptureFails
<1>5. CASE UNCHANGED <<catalog, body, rec>>
  BY <1>2, <1>5 DEF CaptureInv, BodyInv, KeptInv, SettledInv, SettledOf, Settled
<1> QED
  BY <1>3, <1>4, <1>5, StepEffect

\* All that at the start.
LEMMA CaptureInit == Init => CaptureInv
BY DEF Init, RecInit, NotStarted, CaptureInv, BodyInv, KeptInv, SettledInv, SettledOf, PassedBy,
       AtTable, Between, FoundWanted, Active

\* The capture of a write, from it.
LEMMA CaptureFrom == TypeInv /\ CaptureInv => EveryWriteCaptured
<1> SUFFICES ASSUME TypeInv, CaptureInv, NEW t \in ToSet(Order) \ Views, NEW o \in Desired[t],
                    o \notin Captured(t)
             PROVE  /\ Installed[t] # Desired[t]
                    /\ \/ \A s \in Servers : rec[s].pc # "done"
                       \/ \E s \in Servers : BetweenDropAndCreate(s, t)
                       \/ faults > 0
  BY DEF EveryWriteCaptured
<1>1. ~(catalog[t] = Desired[t] /\ body[t] = Desired[t])
  BY DEF Captured
<1>2. Installed[t] # Desired[t]
  BY <1>1 DEF CaptureInv, KeptInv
<1>3. ASSUME NEW s \in Servers, rec[s].pc = "done", ~ \E q \in Servers : BetweenDropAndCreate(q, t),
             faults = 0
      PROVE  FALSE
  <2>1. PassedBy(rec[s], t)
    BY <1>3 DEF PassedBy
  <2>2. body[t] = Desired[t] /\ Settled(t)
    BY <1>3, <2>1 DEF CaptureInv, BodyInv, SettledInv, SettledOf
  <2>3. catalog[t] = Desired[t]
    BY <1>3, <2>2 DEF Settled, Between, BetweenDropAndCreate, Current
  <2> QED
    BY <1>1, <2>2, <2>3
<1>4. faults # 0 => faults > 0
  <2>1. faults \in Nat
    BY Bounds DEF TypeInv
  <2> QED
    BY <2>1
<1> QED
  BY <1>2, <1>3, <1>4

\* An event trigger records every write the configuration wants recorded once a server
\* has reconciled, except between a drop and a create or after a fault, and at any time
\* if the trigger found was the wanted one: whatever the number of servers that start at
\* once and the order of their statements (reconcileTriggers,
\* trigger-reconciler.ts:117-200).
THEOREM WritesAreCaptured == Spec => []EveryWriteCaptured
<1> DEFINE I == TypeInv /\ BootInv /\ CaptureInv
<1>1. Init => I
  BY TypeInit, BootInit, CaptureInit
<1>2. I /\ [Next]_vars => I'
  BY TypeStep, BootOrder, CaptureStep
<1>3. I => EveryWriteCaptured
  BY CaptureFrom
<1> QED
  BY <1>1, <1>2, <1>3, PTL DEF Spec

-----------------------------------------------------------------------------
(* Some server delivers.                                                   *)

Late == {"catchup", "actions", "subs", "listen", "serving"}

\* Without faults, a start that is past its event triggers has them, or has failed.
DeliverBootInv ==
  faults = 0 =>
    \A s \in Servers :
      /\ boot[s] \in Late => rec[s].pc \in {"done", "failed"}
      /\ boot[s] \in Late /\ rec[s].pc = "done" /\ stops[s] = <<>> => "events" \in on[s]
      /\ boot[s] = "crons" => "queue" \in on[s]

\* What moves on.
LEMMA BootedLemma ==
  ASSUME TypeInv, NEW s \in Servers, NEW b, NEW p, NEW h, Booted(s, b, p, h)
  PROVE  /\ boot'[s] = b /\ on'[s] = on[s] \cup p
         /\ \A o \in Servers : o # s => boot'[o] = boot[o] /\ on'[o] = on[o]
BY DEF Booted, TypeInv, ServerTypes

\* A start keeps that.
LEMMA DeliverBootOfStart ==
  ASSUME TypeInv, DeliverBootInv, NEW s \in Servers, BootStep(s)
  PROVE  DeliverBootInv'
<1>1. Fault => DeliverBootInv'
  <2>1. faults \in Nat
    BY Bounds DEF TypeInv
  <2> QED
    BY <2>1 DEF Fault, DeliverBootInv
<1>2. CASE StartEvents(s)
  <2>1. PICK r : Turns(s, r)
    BY <1>2, ReconcileTurns DEF StartEvents, TypeInv, RecTypeInv
  <2>2. \A o \in Servers : o # s => rec'[o] = rec[o]
    BY <2>1, TurnsLemma DEF TypeInv, RecTypeInv
  <2>3. UNCHANGED <<boot, on, stops>> /\ boot[s] = "events" /\ (Fault \/ faults' = faults)
    BY <1>2 DEF StartEvents, Quietly
  <2> QED
    BY <1>1, <2>2, <2>3 DEF DeliverBootInv, Late
<1>3. CASE ~StartEvents(s)
  <2>1. PICK b, p, h :
          /\ Booted(s, b, p, h)
          /\ \/ boot[s] = "down" /\ b = "sched"
             \/ boot[s] = "sched" /\ b = "queue"
             \/ boot[s] = "queue" /\ b = "crons" /\ p = {"queue"}
             \/ boot[s] = "crons" /\ b = "events"
             \/ boot[s] = "crons" /\ "queue" \notin on[s]
             \/ boot[s] = "events" /\ b = "catchup" /\ rec[s].pc = "done" /\ p = {"events"}
             \/ boot[s] = "events" /\ b = "actions" /\ rec[s].pc = "failed"
             \/ boot[s] \in Late /\ b \in Late
             \/ Fault
    <3>1. CASE Start(s)
      BY <3>1 DEF Start
    <3>2. CASE StartScheduled(s)
      BY <3>2 DEF StartScheduled
    <3>3. CASE StartQueue(s)
      BY <3>3 DEF StartQueue
    <3>4. CASE StartCrons(s)
      BY <3>4 DEF StartCrons
    <3>5. CASE ListenEvents(s)
      BY <3>5 DEF ListenEvents
    <3>6. CASE EventsFailed(s)
      BY <3>6 DEF EventsFailed
    <3>7. CASE CatchUp(s)
      BY <3>7 DEF CatchUp, Late
    <3>8. CASE StartActions(s)
      BY <3>8 DEF StartActions, Late
    <3>9. CASE StartSubscriptions(s)
      BY <3>9 DEF StartSubscriptions, Late
    <3>10. CASE Listen(s)
      BY <3>10 DEF Listen, Late
    <3> QED
      BY <1>3, <3>1, <3>2, <3>3, <3>4, <3>5, <3>6, <3>7, <3>8, <3>9, <3>10 DEF BootStep
  <2>2. UNCHANGED <<rec, stops>> /\ (Fault \/ faults' = faults)
    BY <1>3 DEF BootStep, Start, StartScheduled, StartQueue, StartCrons, ListenEvents, EventsFailed,
                CatchUp, StartActions, StartSubscriptions, Listen, Quietly, recVars
  <2>3. CASE Fault
    BY <1>1, <2>3
  <2>4. CASE faults' = faults /\ ~Fault
    <3> SUFFICES ASSUME faults = 0, NEW o \in Servers
                 PROVE  /\ boot'[o] \in Late => rec[o].pc \in {"done", "failed"}
                        /\ boot'[o] \in Late /\ rec[o].pc = "done" /\ stops[o] = <<>>
                             => "events" \in on'[o]
                        /\ boot'[o] = "crons" => "queue" \in on'[o]
      BY <2>2, <2>4 DEF DeliverBootInv
    <3>1. /\ boot[o] \in Late => rec[o].pc \in {"done", "failed"}
          /\ boot[o] \in Late /\ rec[o].pc = "done" /\ stops[o] = <<>> => "events" \in on[o]
          /\ boot[o] = "crons" => "queue" \in on[o]
      BY DEF DeliverBootInv
    <3>2. CASE o # s
      BY <2>1, <3>1, <3>2, BootedLemma
    <3>3. CASE o = s
      <4>1. boot'[o] = b /\ on'[o] = on[o] \cup p
        BY <2>1, <3>3, BootedLemma
      <4>2. CASE boot[s] \in Late /\ b \in Late
        BY <3>1, <3>3, <4>1, <4>2 DEF Late
      <4>3. CASE ~(boot[s] \in Late /\ b \in Late)
        BY <2>1, <2>4, <3>1, <3>3, <4>1, <4>3 DEF Late
      <4> QED
        BY <4>2, <4>3
    <3> QED
      BY <3>2, <3>3
  <2> QED
    BY <2>2, <2>3, <2>4
<1> QED
  BY <1>2, <1>3

\* Every step does.
LEMMA DeliverBootStep ==
  ASSUME TypeInv, BootInv, DeliverBootInv, [Next]_vars
  PROVE  DeliverBootInv'
<1>1. ASSUME NEW s \in Servers, BootStep(s) PROVE DeliverBootInv'
  BY <1>1, DeliverBootOfStart
<1>2. ASSUME NEW s \in Servers, Gone(s) PROVE DeliverBootInv'
  <2>1. /\ boot'[s] = "exited"
        /\ \A o \in Servers : o # s => /\ boot'[o] = boot[o] /\ stops'[o] = stops[o]
                                       /\ rec'[o] = rec[o]
    BY <1>2, GoneLemma
  <2>2. \A o \in Servers : o # s => on'[o] = on[o]
    BY <1>2 DEF Gone, TypeInv, ServerTypes
  <2>3. faults' = 0 => faults = 0
    BY StepEffect
  <2> QED
    BY <2>1, <2>2, <2>3 DEF DeliverBootInv, Late
<1>3. ASSUME UNCHANGED <<rec, boot, on>>,
             \A o \in Servers : stops'[o] = <<>> => stops[o] = <<>>
      PROVE  DeliverBootInv'
  <2>1. faults' = 0 => faults = 0
    BY StepEffect
  <2> QED
    BY <1>3, <2>1 DEF DeliverBootInv
<1>4. ASSUME NEW s \in Servers, ReloadStep(s) PROVE DeliverBootInv'
  <2>1. Still
    BY <1>4 DEF ReloadStep, WatchEvent, BeginReload, ReadConfig, Apply, ReloadFails
  <2> QED
    BY <1>3, <2>1 DEF Still, recVars
<1>5. ASSUME NEW s \in Servers, Signal(s) PROVE DeliverBootInv'
  <2>1. UNCHANGED <<rec, boot, on>> /\ stops' = [stops EXCEPT ![s] = Append(stops[s], 1)]
    BY <1>5 DEF Signal, recVars
  <2>2. Append(stops[s], 1) # <<>>
    <3>1. stops[s] \in Seq(1 .. 7) /\ 1 \in 1 .. 7
      BY DEF TypeInv, ServerTypes
    <3>2. Len(Append(stops[s], 1)) = Len(stops[s]) + 1 /\ Len(stops[s]) \in Nat
      BY <3>1, AppendProperties, LenProperties
    <3>3. Len(Append(stops[s], 1)) # 0
      BY <3>2
    <3> QED
      BY <3>3, EmptySeq
  <2>3. \A o \in Servers : stops'[o] = <<>> => stops[o] = <<>>
    BY <2>1, <2>2 DEF TypeInv, ServerTypes
  <2> QED
    BY <1>3, <2>1, <2>3
<1>6. ASSUME NEW s \in Servers, StopStep(s) PROVE DeliverBootInv'
  <2>1. PICK k \in DOMAIN stops[s] :
          BeginStop(s, k) \/ EndStop(s, k) \/ EndPools(s, k) \/ Exit(s, k)
    BY <1>6 DEF StopStep
  <2>2. CASE Exit(s, k)
    BY <1>2, <2>2 DEF Exit
  <2>3. CASE BeginStop(s, k)
    <3>1. UNCHANGED <<rec, boot, stops, faults>> /\ stops[s] # <<>>
          /\ \A o \in Servers : o # s => on'[o] = on[o]
      BY <2>3 DEF BeginStop, recVars, TypeInv, ServerTypes
    <3>2. boot[s] \in {"listen", "serving"}
      BY <3>1 DEF BootInv
    <3> QED
      BY <3>1, <3>2 DEF DeliverBootInv
  <2>4. CASE EndStop(s, k) \/ EndPools(s, k)
    <3>1. UNCHANGED <<rec, boot, on>> /\ stops' = [stops EXCEPT ![s][k] = stops[s][k] + 1]
      BY <2>4 DEF EndStop, EndPools, recVars
    <3>2. stops[s] \in Seq(1 .. 7) /\ k \in 1 .. Len(stops[s])
      BY LenProperties DEF TypeInv, ServerTypes
    <3>3. \A o \in Servers : DOMAIN stops'[o] = DOMAIN stops[o]
      BY <3>1 DEF TypeInv, ServerTypes
    <3>4. \A o \in Servers : stops'[o] = <<>> => stops[o] = <<>>
      <4> SUFFICES ASSUME NEW o \in Servers, stops'[o] = <<>> PROVE stops[o] = <<>>
        OBVIOUS
      <4>1. DOMAIN stops[o] = {}
        BY <3>3
      <4>2. stops[o] \in Seq(1 .. 7)
        BY DEF TypeInv, ServerTypes
      <4>3. 1 \notin 1 .. Len(stops[o]) /\ Len(stops[o]) \in Nat
        BY <4>1, <4>2, LenProperties
      <4>4. Len(stops[o]) = 0
        <5> DEFINE n == Len(stops[o])
        <5>1. n \in Nat /\ 1 \notin 1 .. n
          BY <4>3
        <5> HIDE DEF n
        <5>2. n = 0
          BY <5>1
        <5> QED
          BY <5>2 DEF n
      <4> QED
        BY <4>2, <4>4, EmptySeq
    <3> QED
      BY <1>3, <3>1, <3>4
  <2> QED
    BY <2>1, <2>2, <2>3, <2>4
<1>7. CASE Edit
  BY <1>3, <1>7 DEF Edit, Still, recVars
<1>8. ASSUME NEW s \in Servers, NEW w \in Work, BeginWork(s, w) \/ EndWork(s, w)
      PROVE  DeliverBootInv'
  BY <1>3, <1>8 DEF BeginWork, EndWork, Unmoved, recVars
<1>9. CASE UNCHANGED vars
  BY <1>3, <1>9 DEF vars, recVars, lifeVars
<1> QED
  BY <1>1, <1>2, <1>4, <1>5, <1>6, <1>7, <1>8, <1>9 DEF Next, Crash

\* What is assumed of the configuration and the database: an event trigger asks for an
\* operation, and no view has a row trigger yet.
DeliveryAssumption ==
  /\ Servers # {}
  /\ \A t \in ToSet(Order) : Desired[t] # {}
  /\ \A t \in Views : Installed[t] = {}

\* A server takes it that t has no trigger now.
Expects(r, t) == \/ r.pc \in Active /\ r.seen[t] = {}
                 \/ r.pc = "create" /\ Head(r.left) = t

SomePassed(t) == \E o \in Servers : PassedBy(rec[o], t)

\* Without faults, a server finds a trigger where it takes it that there is none only if
\* another one has gone past it: not all of them have failed.
DeliverRecInv ==
  faults = 0 =>
    /\ \A t \in Views : /\ catalog[t] = {}
                        /\ \A s \in Servers : rec[s].pc \in Active => rec[s].seen[t] = {}
    /\ \A s \in Servers, t \in ToSet(Order) \ Views :
         Expects(rec[s], t) => catalog[t] = {} \/ SomePassed(t)
    /\ \E s \in Servers : rec[s].pc # "failed"

\* A step that does not fail keeps that, if it goes past what it creates and takes no
\* more for granted than what it finds or does.
LEMMA DeliverTurn ==
  ASSUME RecInv, DeliverRecInv, faults' = faults, NEW s \in Servers, NEW r, Turns(s, r),
         r.pc # "failed", \A t \in ToSet(Order) : PassedBy(rec[s], t) => PassedBy(r, t),
         faults = 0 => \A t \in Views : /\ catalog'[t] = catalog[t]
                                        /\ r.pc \in Active => r.seen[t] = {},
         \A t \in ToSet(Order) \ Views :
           /\ \/ catalog'[t] = catalog[t]
              \/ catalog'[t] = {}
              \/ PassedBy(r, t)
           /\ Expects(r, t) => Expects(rec[s], t) \/ catalog'[t] = {}
  PROVE  DeliverRecInv'
<1> SUFFICES ASSUME faults = 0 PROVE DeliverRecInv'
  BY DEF DeliverRecInv
<1>1. rec'[s] = r /\ \A o \in Servers : o # s => rec'[o] = rec[o]
  BY TurnsLemma
<1>2. \A t \in Views : /\ catalog'[t] = {}
                       /\ \A o \in Servers : rec'[o].pc \in Active => rec'[o].seen[t] = {}
  BY <1>1 DEF DeliverRecInv
<1>3. \E o \in Servers : rec'[o].pc # "failed"
  BY <1>1
<1>4. ASSUME NEW o \in Servers, NEW t \in ToSet(Order) \ Views, Expects(rec'[o], t)
      PROVE  catalog'[t] = {} \/ SomePassed(t)'
  <2>1. SomePassed(t) => SomePassed(t)'
    BY <1>1 DEF SomePassed
  <2>2. CASE PassedBy(r, t)
    BY <1>1, <2>2 DEF SomePassed
  <2>3. CASE catalog'[t] = {}
    BY <2>3
  <2>4. CASE catalog'[t] = catalog[t] /\ ~PassedBy(r, t) /\ catalog'[t] # {}
    <3>1. Expects(rec[o], t)
      BY <1>1, <1>4, <2>4
    <3> QED
      BY <2>1, <2>4, <3>1 DEF DeliverRecInv
  <2> QED
    BY <2>2, <2>3, <2>4
<1> QED
  BY <1>2, <1>3, <1>4 DEF DeliverRecInv, Expects

\* A reconciliation that goes on to its next table is past the one it leaves.
LEMMA PastCurrent ==
  ASSUME RecInv, NEW s \in Servers, NEW r, rec[s].pc \in {"function", "create"},
         r.pc \in {"function", "orphans"}, r.left = Tail(rec[s].left)
  PROVE  /\ PassedBy(r, Current(s))
         /\ \A t : PassedBy(rec[s], t) => PassedBy(r, t)
<1>1. /\ rec[s].left \in Seq(ToSet(Order)) /\ IsSuffix(rec[s].left, Order) /\ rec[s].left # <<>>
  BY RecTypes DEF RecOk
<1>2. Order \in Seq(ToSet(Order)) /\ IsInjective(Order)
  BY ReconcilerAssumption
<1>3. PICK w \in Seq(ToSet(Order)) : w = rec[s].left
  BY <1>1
<1>4. Head(w) \notin ToSet(Tail(w))
  <2>1. IsSuffix(w, Order) /\ w # <<>>
    BY <1>1, <1>3
  <2> QED
    BY <1>2, <2>1, SuffixHead
<1>5. ToSet(rec[s].left) = {Current(s)} \cup ToSet(Tail(rec[s].left))
  BY CurrentLemma
<1> QED
  BY <1>3, <1>4, <1>5 DEF PassedBy, Active, Current

\* The steps that do not fail.
LEMMA DeliverGoesOn ==
  ASSUME RecTypeInv, DeliveryAssumption, DeliverRecInv, faults' = faults, NEW s \in Servers,
         \/ Discover(s) \/ ReplaceFunction(s) \/ DropChanged(s) \/ DropOrphan(s) \/ Reconciled(s)
  PROVE  DeliverRecInv'
<1>1. Views \subseteq ToSet(Order)
  BY ReconcilerAssumption
<1>2. RecInv /\ catalog \in [TableSet -> SUBSET Ops]
  BY DEF RecTypeInv
<1>3. CASE Discover(s)
  <2>1. PICK r : /\ Turns(s, r) /\ r.pc \in {"function", "orphans"}
                 /\ r.left = Order /\ r.seen = catalog
    BY <1>2, <1>3, DiscoverTurns
  <2>2. catalog' = catalog /\ rec[s].pc = "idle"
    BY <1>3 DEF Discover
  <2>3. \A t : ~PassedBy(rec[s], t)
    BY <2>2 DEF PassedBy, Active
  <2>4. faults = 0 => \A t \in Views : catalog[t] = {}
    BY DEF DeliverRecInv
  <2>5. \A t : Expects(r, t) => catalog[t] = {}
    BY <2>1 DEF Expects
  <2> QED
    BY <1>2, <2>1, <2>2, <2>3, <2>4, <2>5, DeliverTurn
<1>4. CASE ReplaceFunction(s)
  <2>1. rec[s].pc = "function" /\ catalog' = catalog
    BY <1>4 DEF ReplaceFunction
  <2>2. PICK r :
          /\ Turns(s, r) /\ r.seen = rec[s].seen
          /\ \/ r.pc \in {"function", "orphans"} /\ r.left = Tail(rec[s].left)
             \/ r.pc = "create" /\ r.left = rec[s].left /\ rec[s].seen[Current(s)] = {}
             \/ r.pc = "trigger" /\ r.left = rec[s].left
    BY <1>2, <1>4, ReplaceTurns
  <2>3. \A t : PassedBy(rec[s], t) => PassedBy(r, t)
    <3>1. CASE r.pc \in {"function", "orphans"} /\ r.left = Tail(rec[s].left)
      BY <1>2, <2>1, <3>1, PastCurrent
    <3>2. CASE r.pc \in {"trigger", "create"} /\ r.left = rec[s].left
      BY <2>1, <3>2, PassedHere DEF Active
    <3> QED
      BY <2>2, <3>1, <3>2
  <2>4. \A t : Expects(r, t) => Expects(rec[s], t)
    BY <2>1, <2>2 DEF Expects, Active, Current
  <2>5. rec[s].pc \in Active /\ r.pc # "failed"
    BY <2>1, <2>2 DEF Active
  <2>6. faults = 0 => \A t \in Views : r.seen[t] = {}
    BY <2>2, <2>5 DEF DeliverRecInv
  <2> QED
    BY <1>2, <2>1, <2>2, <2>3, <2>4, <2>5, <2>6, DeliverTurn
<1>5. CASE DropChanged(s)
  <2>1. rec[s].pc = "trigger" /\ catalog' = [catalog EXCEPT ![Current(s)] = {}]
    BY <1>5 DEF DropChanged
  <2>2. PICK r : Turns(s, r) /\ r.pc = "create" /\ r.left = rec[s].left /\ r.seen = rec[s].seen
    BY <1>2, <1>5, DropTurns
  <2>3. \A t \in ToSet(Order) : catalog'[t] = IF t = Current(s) THEN {} ELSE catalog[t]
    BY <1>2, <2>1, RecConstants
  <2>4. rec[s].pc \in Active /\ \A t : PassedBy(rec[s], t) => PassedBy(r, t)
    BY <2>1, <2>2, PassedHere DEF Active
  <2>5. \A t : Expects(r, t) => Expects(rec[s], t) \/ t = Current(s)
    BY <2>1, <2>2 DEF Expects, Active, Current
  <2>6. faults = 0 => \A t \in Views : r.seen[t] = {} /\ catalog'[t] = catalog[t]
    BY <1>1, <2>2, <2>3, <2>4 DEF DeliverRecInv
  <2> QED
    BY <1>2, <2>2, <2>3, <2>4, <2>5, <2>6, DeliverTurn
<1>6. CASE DropOrphan(s) \/ Reconciled(s)
  <2>1. rec[s].pc = "orphans" /\ rec[s].left = <<>> /\ rec[s].pc \in Active
    BY <1>2, <1>6, RecTypes DEF DropOrphan, Reconciled, RecOk, Active
  <2>2. PICK r : /\ Turns(s, r)
                 /\ \/ r.pc = "done"
                    \/ r.pc = "orphans" /\ r.left = rec[s].left /\ r.seen = rec[s].seen
    BY <1>2, <1>6, OrphanTurns, ReconciledTurns
  <2>3. \A t : /\ PassedBy(rec[s], t) => PassedBy(r, t)
               /\ Expects(r, t) => Expects(rec[s], t)
    BY <2>1, <2>2 DEF PassedBy, Expects, Active
  <2>4. \A t \in ToSet(Order) : catalog'[t] = catalog[t]
    <3>1. CASE DropOrphan(s)
      <4>1. PICK u \in Orphans : catalog' = [catalog EXCEPT ![u] = {}]
        BY <1>2, <3>1, OrphanTurns
      <4> QED
        BY <1>2, <4>1, RecConstants
    <3>2. CASE Reconciled(s)
      BY <3>2 DEF Reconciled
    <3> QED
      BY <1>6, <3>1, <3>2
  <2>5. r.pc \in Active => r.seen = rec[s].seen
    BY <2>2 DEF Active
  <2>6. faults = 0 => \A t \in Views : /\ catalog'[t] = catalog[t]
                                       /\ r.pc \in Active => r.seen[t] = {}
    BY <1>1, <2>1, <2>4, <2>5 DEF DeliverRecInv
  <2> QED
    BY <1>2, <2>2, <2>3, <2>4, <2>6, DeliverTurn
<1> QED
  BY <1>3, <1>4, <1>5, <1>6

\* A server that fails next to another one that has gone further leaves that one.
LEMMA DeliverFails ==
  ASSUME RecInv, DeliverRecInv, faults' = faults, NEW s \in Servers, rec' = Fails(s),
         catalog' = catalog, NEW o \in Servers \ {s}, rec[o].pc # "failed",
         \A t \in ToSet(Order) : PassedBy(rec[s], t) => PassedBy(rec[o], t)
  PROVE  DeliverRecInv'
<1> SUFFICES ASSUME faults = 0 PROVE DeliverRecInv'
  BY DEF DeliverRecInv
<1>1. PICK r : Turns(s, r) /\ r.pc = "failed"
  BY FailsTurns
<1>2. rec'[s] = r /\ \A q \in Servers : q # s => rec'[q] = rec[q]
  BY <1>1, TurnsLemma
<1>3. r.pc \notin Active /\ \A t : ~Expects(r, t)
  BY <1>1 DEF Active, Expects
<1>4. \A t \in ToSet(Order) : SomePassed(t) => SomePassed(t)'
  BY <1>2 DEF SomePassed
<1>5. \A t \in Views : /\ catalog'[t] = {}
                       /\ \A q \in Servers : rec'[q].pc \in Active => rec'[q].seen[t] = {}
  BY <1>2, <1>3 DEF DeliverRecInv
<1>6. \E q \in Servers : rec'[q].pc # "failed"
  BY <1>2
<1>7. ASSUME NEW q \in Servers, NEW t \in ToSet(Order) \ Views, Expects(rec'[q], t)
      PROVE  catalog'[t] = {} \/ SomePassed(t)'
  <2>1. Expects(rec[q], t)
    BY <1>2, <1>3, <1>7
  <2> QED
    BY <1>4, <2>1 DEF DeliverRecInv
<1> QED
  BY <1>5, <1>6, <1>7 DEF DeliverRecInv, Expects

\* Of two servers, the one with no more left has passed what the other one has.
LEMMA PassedFurther ==
  ASSUME RecInv, NEW s \in Servers, NEW o \in Servers, rec[s].pc \in Active, rec[o].pc \in Active,
         Len(rec[o].left) <= Len(rec[s].left), NEW t, PassedBy(rec[s], t)
  PROVE  PassedBy(rec[o], t)
<1>1. /\ rec[s].left \in Seq(ToSet(Order)) /\ IsSuffix(rec[s].left, Order)
      /\ rec[o].left \in Seq(ToSet(Order)) /\ IsSuffix(rec[o].left, Order)
  BY RecTypes DEF RecOk
<1>2. PICK v \in Seq(ToSet(Order)), w \in Seq(ToSet(Order)) : v = rec[o].left /\ w = rec[s].left
  BY <1>1
<1>3. ToSet(v) \subseteq ToSet(w)
  <2>1. Order \in Seq(ToSet(Order)) /\ IsSuffix(v, Order) /\ IsSuffix(w, Order) /\ Len(v) <= Len(w)
    BY <1>1, <1>2, RecConstants
  <2> QED
    BY <2>1, SuffixesNest
<1> QED
  BY <1>2, <1>3 DEF PassedBy, Active

\* Two servers at the same function: the one that fails is not the further one.
LEMMA DeliverConflict ==
  ASSUME RecTypeInv, DeliverRecInv, faults' = faults, NEW s \in Servers, FunctionConflict(s)
  PROVE  DeliverRecInv'
<1>1. PICK o \in Servers \ {s} : /\ rec[o].pc \in Active
                                 /\ Len(rec[o].left) <= Len(rec[s].left)
  BY DEF FunctionConflict, Active
<1>2. rec[s].pc \in Active /\ rec' = Fails(s) /\ catalog' = catalog
  BY DEF FunctionConflict, Active
<1>3. \A t \in ToSet(Order) : PassedBy(rec[s], t) => PassedBy(rec[o], t)
  BY <1>1, <1>2, PassedFurther DEF RecTypeInv
<1>4. rec[o].pc # "failed"
  BY <1>1 DEF Active
<1> QED
  BY <1>1, <1>2, <1>3, <1>4, DeliverFails DEF RecTypeInv

\* A trigger that exists already has been created by a server that has gone further.
LEMMA DeliverCreate ==
  ASSUME RecTypeInv, DeliveryAssumption, DeliverRecInv, faults' = faults, NEW s \in Servers,
         CreateTrigger(s)
  PROVE  DeliverRecInv'
<1> SUFFICES ASSUME faults = 0 PROVE DeliverRecInv'
  BY DEF DeliverRecInv
<1>1. rec[s].pc = "create" /\ rec[s].pc \in Active
  BY DEF CreateTrigger, Active
<1>2. /\ Current(s) \in ToSet(Order) /\ Current(s) \in TableSet
      /\ Current(s) \in ToSet(rec[s].left)
  BY <1>1, CurrentLemma DEF RecTypeInv
<1>3. /\ Desired[Current(s)] # {}
      /\ \A t \in Views : catalog[t] = {} /\ rec[s].seen[t] = {}
  BY <1>1, <1>2 DEF DeliveryAssumption, DeliverRecInv
<1>4. PICK r : Turns(s, r) /\
        \/ /\ r.pc = "failed" /\ catalog' = catalog
           /\ ~(Current(s) \in Views /\ rec[s].seen[Current(s)] = {})
           /\ \/ catalog[Current(s)] # {}
              \/ Desired[Current(s)] = {}
              \/ Current(s) \in Views
        \/ /\ r.pc \in {"function", "orphans"} /\ r.left = Tail(rec[s].left)
           /\ r.seen = rec[s].seen
           /\ \/ Current(s) \in Views /\ catalog' = catalog
              \/ /\ Current(s) \notin Views
                 /\ catalog[Current(s)] = {}
                 /\ catalog' = [catalog EXCEPT ![Current(s)] = Desired[Current(s)]]
  BY CreateTurns DEF RecTypeInv
<1>5. CASE r.pc = "failed"
  <2>1. catalog[Current(s)] # {} /\ Current(s) \notin Views /\ catalog' = catalog
    BY <1>3, <1>4, <1>5
  <2>2. Expects(rec[s], Current(s))
    BY <1>1 DEF Expects, Current
  <2>3. PICK o \in Servers : PassedBy(rec[o], Current(s))
    BY <1>2, <2>1, <2>2 DEF DeliverRecInv, SomePassed
  <2>4. ~PassedBy(rec[s], Current(s))
    BY <1>1, <1>2 DEF PassedBy
  <2>5. o # s /\ rec[o].pc # "failed"
    BY <2>3, <2>4 DEF PassedBy, Active
  <2>6. ASSUME NEW t \in ToSet(Order), PassedBy(rec[s], t) PROVE PassedBy(rec[o], t)
    <3>1. CASE rec[o].pc = "done"
      BY <3>1 DEF PassedBy
    <3>2. CASE rec[o].pc # "done"
      <4>1. rec[o].pc \in Active
        BY <2>3, <3>2 DEF PassedBy
      <4>2. Len(rec[o].left) \in Nat /\ Len(rec[s].left) \in Nat
        BY RecTypes, LenProperties DEF RecTypeInv
      <4>3. CASE Len(rec[o].left) <= Len(rec[s].left)
        BY <1>1, <2>6, <4>1, <4>3, PassedFurther DEF RecTypeInv
      <4>4. CASE Len(rec[s].left) <= Len(rec[o].left)
        BY <1>1, <2>3, <2>4, <4>1, <4>4, PassedFurther DEF RecTypeInv
      <4> QED
        BY <4>2, <4>3, <4>4
    <3> QED
      BY <3>1, <3>2
  <2>7. rec' = Fails(s)
    BY <1>3, <2>1 DEF CreateTrigger
  <2> QED
    BY <2>1, <2>5, <2>6, <2>7, DeliverFails DEF RecTypeInv
<1>6. CASE r.pc # "failed"
  <2>1. /\ r.pc \in {"function", "orphans"} /\ r.left = Tail(rec[s].left)
        /\ r.seen = rec[s].seen
        /\ \/ Current(s) \in Views /\ catalog' = catalog
           \/ /\ Current(s) \notin Views
              /\ catalog' = [catalog EXCEPT ![Current(s)] = Desired[Current(s)]]
    BY <1>4, <1>6
  <2>2. PassedBy(r, Current(s)) /\ \A t : PassedBy(rec[s], t) => PassedBy(r, t)
    BY <1>1, <2>1, PastCurrent DEF RecTypeInv
  <2>3. Views \subseteq ToSet(Order)
    BY ReconcilerAssumption
  <2>4. \A t \in ToSet(Order) : /\ t # Current(s) => catalog'[t] = catalog[t]
                                /\ t \in Views => catalog'[t] = catalog[t]
    BY <2>1, RecConstants DEF RecTypeInv
  <2>5. \A t : Expects(r, t) => Expects(rec[s], t)
    BY <1>1, <2>1 DEF Expects, Active
  <2> QED
    BY <1>3, <1>4, <1>6, <2>1, <2>2, <2>3, <2>4, <2>5, DeliverTurn DEF RecTypeInv
<1> QED
  BY <1>5, <1>6

\* Every step keeps it.
LEMMA DeliverRecStep ==
  ASSUME TypeInv, BootInv, DeliveryAssumption, DeliverBootInv, DeliverRecInv, [Next]_vars
  PROVE  DeliverRecInv'
<1>1. RecTypeInv
  BY DEF TypeInv
<1>2. faults' = 0 => faults = 0
  BY StepEffect
<1>3. ASSUME NEW s \in Servers, Reconcile(s), faults' = faults PROVE DeliverRecInv'
  BY <1>1, <1>3, DeliverGoesOn, DeliverConflict, DeliverCreate DEF Reconcile
<1>4. ASSUME NEW s \in Servers, rec' = Fails(s), UNCHANGED <<catalog, body>>,
             faults' # 0 \/ Stopped(s)
      PROVE  DeliverRecInv'
  <2> SUFFICES ASSUME faults' = 0 PROVE DeliverRecInv'
    BY DEF DeliverRecInv
  <2>1. Stopped(s) /\ faults = 0
    BY <1>2, <1>4
  <2>2. rec[s].pc = "failed"
    BY <2>1 DEF Stopped, DeliverBootInv, Late
  <2>3. PICK o \in Servers \ {s} : rec[o].pc # "failed"
    BY <2>1, <2>2 DEF DeliverRecInv
  <2>4. \A t : ~PassedBy(rec[s], t)
    BY <2>2 DEF PassedBy, Active
  <2>5. faults' = faults
    BY <2>1
  <2> QED
    BY <1>1, <1>4, <2>3, <2>4, <2>5, DeliverFails DEF RecTypeInv
<1>5. CASE UNCHANGED <<catalog, body, rec>>
  BY <1>2, <1>5 DEF DeliverRecInv, SomePassed
<1> QED
  BY <1>3, <1>4, <1>5, StepEffect

\* Both at the start.
LEMMA DeliverInit == DeliveryAssumption /\ Init => DeliverBootInv /\ DeliverRecInv
<1> SUFFICES ASSUME DeliveryAssumption, Init PROVE DeliverBootInv /\ DeliverRecInv
  OBVIOUS
<1>1. DeliverBootInv
  BY DEF Init, DeliverBootInv, Late
<1>2. \A s \in Servers : rec[s].pc = "idle"
  BY DEF Init, RecInit, NotStarted
<1>3. \A t \in Views : catalog[t] = {}
  BY DEF Init, RecInit, DeliveryAssumption
<1>4. \A s \in Servers, t \in ToSet(Order) \ Views : ~Expects(rec[s], t)
  BY <1>2 DEF Expects, Active
<1> QED
  BY <1>1, <1>2, <1>3, <1>4 DEF DeliverRecInv, DeliveryAssumption, Active

\* Servers that start at once make each other fail, by a function replaced under their
\* hands or by a trigger that exists already, but not all of them: if nothing else
\* fails some server delivers events once all have started.  The assumption: there is a
\* server, every event trigger asks for an operation, no view has a row trigger.
THEOREM SomeoneDelivers == ASSUME DeliveryAssumption PROVE Spec => []SomeServerDelivers
<1> DEFINE I == TypeInv /\ BootInv /\ DeliverBootInv /\ DeliverRecInv
<1>1. Init => I
  BY TypeInit, BootInit, DeliverInit
<1>2. I /\ [Next]_vars => I'
  BY TypeStep, BootOrder, DeliverBootStep, DeliverRecStep
<1>3. I => SomeServerDelivers
  BY DEF SomeServerDelivers, DeliverBootInv, DeliverRecInv, Late
<1> HIDE DEF I
<1> QED
  BY <1>1, <1>2, <1>3, PTL DEF Spec

-----------------------------------------------------------------------------
(* What a shutdown leaves behind.                                          *)

\* Per server: work is for servers that have started, nothing is closed before a shutdown;
\* what takes deliveries has a handle, and takes none once it is closed; a shutdown past a
\* part has left no work of it.
StopOk(s) ==
  /\ work[s] # {} => boot[s] \in {"listen", "serving"}
  /\ closed[s] # {} => stops[s] # <<>>
  /\ boot[s] \in {"down", "sched", "exited"} => on[s] = {}
  /\ \A p \in {"sched", "queue"} : /\ p \in on[s] => p \in kept[s]
                                   /\ p \in closed[s] => p \notin on[s]
  /\ "tick" \in work[s] => "sched" \in kept[s]
  /\ "job" \in work[s] => "queue" \in kept[s]
  /\ Len(stops[s]) = 1 =>
       /\ stops[s][1] > 3 => "sched" \notin on[s] /\ "tick" \notin work[s]
       /\ stops[s][1] > 4 => "queue" \notin on[s] /\ "job" \notin work[s]
       /\ stops[s][1] > 5 => "http" \in closed[s] /\ "request" \notin work[s]
       /\ "pools" \in closed[s] => stops[s][1] = 7

StopInv == \A s \in Servers : StopOk(s)

\* What a server does to itself.
LEMMA StopsOwn ==
  ASSUME StopInv, NEW s \in Servers, StopOk(s)',
         \A o \in Servers : o # s =>
           /\ boot'[o] = boot[o] /\ on'[o] = on[o] /\ kept'[o] = kept[o]
           /\ work'[o] = work[o] /\ closed'[o] = closed[o] /\ stops'[o] = stops[o]
  PROVE  StopInv'
<1> SUFFICES ASSUME NEW o \in Servers PROVE StopOk(o)'
  BY DEF StopInv
<1>1. CASE o = s
  BY <1>1
<1>2. CASE o # s
  <2>1. StopOk(o)
    BY DEF StopInv
  <2> QED
    BY <1>2, <2>1 DEF StopOk
<1> QED
  BY <1>1, <1>2

\* A start keeps it.
LEMMA StopOfStart ==
  ASSUME TypeInv, BootInv, StopInv, NEW s \in Servers, BootStep(s)
  PROVE  StopInv'
<1>1. StopOk(s) /\ UNCHANGED <<work, closed, stops>>
  BY DEF StopInv, BootStep, Start, StartScheduled, StartQueue, StartCrons, StartEvents,
         ListenEvents, EventsFailed, CatchUp, StartActions, StartSubscriptions, Listen, Quietly
<1>2. CASE StartEvents(s)
  <2>1. UNCHANGED <<boot, on, kept>>
    BY <1>2 DEF StartEvents
  <2> QED
    BY <1>1, <2>1 DEF StopInv, StopOk
<1>3. CASE ~StartEvents(s)
  <2>1. PICK b, p, h :
          /\ Booted(s, b, p, h)
          /\ \/ /\ boot[s] \notin {"listen", "serving"} /\ b \notin {"down", "sched", "exited"}
                /\ boot[s] # "exited"
                /\ boot[s] \in {"down", "sched"} \/ \A q \in {"sched", "queue"} : q \in kept[s] => q \in h
                /\ \A q \in {"sched", "queue"} : q \in p => q \in h
             \/ boot[s] = "down" /\ b = "sched" /\ p = {}
             \/ boot[s] = "listen" /\ b = "serving" /\ p = {} /\ h = kept[s]
    <3>1. CASE Start(s)
      BY <3>1 DEF Start
    <3>2. CASE StartScheduled(s)
      BY <3>2 DEF StartScheduled
    <3>3. CASE StartQueue(s)
      BY <3>3 DEF StartQueue
    <3>4. CASE StartCrons(s)
      BY <3>4 DEF StartCrons
    <3>5. CASE ListenEvents(s)
      BY <3>5 DEF ListenEvents
    <3>6. CASE EventsFailed(s)
      BY <3>6 DEF EventsFailed
    <3>7. CASE CatchUp(s)
      BY <3>7 DEF CatchUp
    <3>8. CASE StartActions(s)
      BY <3>8 DEF StartActions
    <3>9. CASE StartSubscriptions(s)
      BY <3>9 DEF StartSubscriptions
    <3>10. CASE Listen(s)
      BY <3>10 DEF Listen
    <3> QED
      BY <1>3, <3>1, <3>2, <3>3, <3>4, <3>5, <3>6, <3>7, <3>8, <3>9, <3>10 DEF BootStep
  <2>2. /\ boot'[s] = b /\ on'[s] = on[s] \cup p /\ kept'[s] = h
        /\ \A o \in Servers : o # s =>
             boot'[o] = boot[o] /\ on'[o] = on[o] /\ kept'[o] = kept[o]
    BY <2>1 DEF Booted, TypeInv, ServerTypes
  <2>3. StopOk(s)'
    <3>1. CASE boot[s] \notin {"listen", "serving"}
      <4>1. work[s] = {} /\ closed[s] = {} /\ stops[s] = <<>>
        BY <1>1, <3>1 DEF StopOk, BootInv
      <4>2. Len(stops[s]) # 1
        BY <4>1, EmptySeq
      <4>3. b \in {"down", "sched", "exited"} => on[s] \cup p = {}
        BY <1>1, <2>1, <3>1 DEF StopOk
      <4>4. \A q \in {"sched", "queue"} : q \in on[s] \cup p => q \in h
        BY <1>1, <2>1, <3>1 DEF StopOk
      <4> QED
        BY <1>1, <2>2, <4>1, <4>2, <4>3, <4>4 DEF StopOk
    <3>2. CASE boot[s] \in {"listen", "serving"}
      <4>1. b = "serving" /\ p = {} /\ h = kept[s]
        BY <2>1, <3>2
      <4>2. on[s] \cup p = on[s]
        BY <4>1
      <4> QED
        BY <1>1, <2>2, <4>1, <4>2 DEF StopOk
    <3> QED
      BY <3>1, <3>2
  <2> QED
    BY <1>1, <2>2, <2>3, StopsOwn
<1> QED
  BY <1>2, <1>3

\* A step of a shutdown that is not its last goes one further.
LEMMA StopsLemma ==
  ASSUME TypeInv, NEW s \in Servers, NEW k \in DOMAIN stops[s],
         stops' = [stops EXCEPT ![s][k] = @ + 1]
  PROVE  /\ stops[s] # <<>> /\ stops'[s] # <<>>
         /\ Len(stops'[s]) = Len(stops[s]) /\ k \in 1 .. Len(stops[s])
         /\ stops'[s][k] = stops[s][k] + 1 /\ stops[s][k] \in 1 .. 7
         /\ \A o \in Servers : o # s => stops'[o] = stops[o]
<1>1. stops \in [Servers -> Seq(1 .. 7)] /\ stops[s] \in Seq(1 .. 7)
  BY DEF TypeInv, ServerTypes
<1>2. k \in 1 .. Len(stops[s]) /\ Len(stops[s]) \in Nat /\ stops[s][k] \in 1 .. 7
  BY <1>1, LenProperties, ElementOfSeq
<1> DEFINE w == stops[s]
           n == stops[s][k] + 1
           z == [w EXCEPT ![k] = n]
<1>3. z \in Seq(Int) /\ Len(z) = Len(w) /\ z[k] = n
  <2>1. w \in Seq(Int) /\ k \in 1 .. Len(w) /\ n \in Int
    <3>1. \A i \in 1 .. Len(w) : w[i] \in Int
      BY <1>1, ElementOfSeq
    <3>2. w \in [1 .. Len(w) -> Int] /\ Len(w) \in Nat
      BY <1>1, <3>1, LenProperties
    <3> QED
      BY <1>2, <3>2, SeqDef
  <2> HIDE DEF w, n
  <2>2. DOMAIN w = 1 .. Len(w)
    BY <2>1, LenProperties
  <2>3. z \in Seq(Int) /\ Len(z) = Len(w)
    BY <2>1, ExceptSeq
  <2> QED
    BY <2>1, <2>2, <2>3
<1>4. stops'[s] = z /\ \A o \in Servers : o # s => stops'[o] = stops[o]
  BY <1>1
<1>5. Len(w) # 0 /\ z # <<>>
  <2> HIDE DEF z, w
  <2>1. k \in 1 .. Len(w) /\ Len(w) \in Nat
    BY <1>2 DEF w
  <2>2. Len(w) # 0
    BY <2>1
  <2> QED
    BY <1>3, <2>2, EmptySeq
<1> QED
  BY <1>1, <1>2, <1>3, <1>4, <1>5, EmptySeq

\* What the parts are that a shutdown stops.
LEMMA StopParts ==
  /\ \A x \in 1 .. 5 : StopOrder[x] # "pools"
  /\ StopOrder[3] = "sched" /\ StopOrder[4] = "queue" /\ StopOrder[5] = "http"
  /\ \A x \in 1 .. 7 : x < Len(StopOrder) => x \in 1 .. 5
<1>1. \A x \in 1 .. 5 : x = 1 \/ x = 2 \/ x = 3 \/ x = 4 \/ x = 5
  OBVIOUS
<1>2. Len(StopOrder) = 6
  BY Bounds
<1>3. \A x \in 1 .. 7 : x < 6 => x \in 1 .. 5
  OBVIOUS
<1> QED
  BY <1>1, <1>2, <1>3 DEF StopOrder

\* Work that begins or ends keeps it.
LEMMA StopOfWork ==
  ASSUME TypeInv, StopInv, NEW s \in Servers, NEW w \in Work, BeginWork(s, w) \/ EndWork(s, w)
  PROVE  StopInv'
<1>1. StopOk(s) /\ UNCHANGED <<boot, on, kept, closed, stops>>
  BY DEF StopInv, BeginWork, EndWork, Unmoved
<1>2. \A o \in Servers : o # s => work'[o] = work[o]
  BY DEF BeginWork, EndWork, TypeInv, ServerTypes
<1>3. CASE EndWork(s, w)
  <2>1. work'[s] = work[s] \ {w}
    BY <1>3 DEF EndWork, TypeInv, ServerTypes
  <2>2. StopOk(s)'
    BY <1>1, <2>1 DEF StopOk
  <2> QED
    BY <1>1, <1>2, <2>2, StopsOwn
<1>4. CASE BeginWork(s, w)
  <2>1. work'[s] = work[s] \cup {w} /\ Accepts(s, w)
    BY <1>4 DEF BeginWork, TypeInv, ServerTypes
  <2>2. /\ boot[s] \in {"listen", "serving", "exited"}
        /\ w \in {"request", "job", "tick"}
        /\ w = "request" => boot[s] = "serving" /\ "http" \notin closed[s]
        /\ w = "job" => "queue" \in on[s]
        /\ w = "tick" => "sched" \in on[s]
    BY <2>1 DEF Accepts, AllStarted, Work
  <2>3. boot[s] \in {"listen", "serving"}
    BY <1>1, <2>2 DEF StopOk
  <2>4. /\ w = "tick" => "sched" \in kept[s]
        /\ w = "job" => "queue" \in kept[s]
    BY <1>1, <2>2 DEF StopOk
  <2>5. ASSUME Len(stops[s]) = 1
        PROVE  /\ stops[s][1] > 3 => w # "tick"
               /\ stops[s][1] > 4 => w # "job"
               /\ stops[s][1] > 5 => w # "request"
    BY <1>1, <2>2, <2>5 DEF StopOk
  <2>6. StopOk(s)'
    BY <1>1, <2>1, <2>3, <2>4, <2>5 DEF StopOk
  <2> QED
    BY <1>1, <1>2, <2>6, StopsOwn
<1> QED
  BY <1>3, <1>4

\* A step of a shutdown keeps it, if jobs end in time.
LEMMA StopOfStop ==
  ASSUME TypeInv, BootInv, StopInv, ~SlowJobs, NEW s \in Servers, NEW k \in DOMAIN stops[s],
         BeginStop(s, k) \/ EndStop(s, k) \/ EndPools(s, k)
  PROVE  StopInv'
<1>1. StopOk(s) /\ boot[s] \in {"listen", "serving"}
  BY DEF StopInv, BootInv
<1>2. /\ stops[s] \in Seq(1 .. 7) /\ k \in 1 .. Len(stops[s]) /\ stops[s][k] \in 1 .. 7
      /\ Len(stops[s]) \in Nat /\ stops[s] # <<>>
  BY LenProperties, ElementOfSeq DEF TypeInv, ServerTypes
<1>3. Len(stops[s]) = 1 => k = 1
  BY <1>2
<1>4. CASE BeginStop(s, k)
  <2>1. PICK part : part = StopOrder[stops[s][k]]
    OBVIOUS
  <2>2. part # "pools"
    BY <1>2, <1>4, <2>1, StopParts DEF BeginStop
  <2>3. UNCHANGED <<boot, kept, work, stops>>
    BY <1>4 DEF BeginStop
  <2>4. /\ on'[s] = on[s] \ {part} /\ closed'[s] = closed[s] \cup {part}
        /\ \A o \in Servers : o # s => on'[o] = on[o] /\ closed'[o] = closed[o]
    BY <1>4, <2>1 DEF BeginStop, TypeInv, ServerTypes
  <2>5. StopOk(s)'
    BY <1>1, <1>2, <2>2, <2>3, <2>4 DEF StopOk
  <2> QED
    BY <2>3, <2>4, <2>5, StopsOwn
<1>5. CASE EndStop(s, k)
  <2>1. UNCHANGED <<boot, on, kept, work, closed>> /\ stops' = [stops EXCEPT ![s][k] = @ + 1]
    BY <1>5 DEF EndStop
  <2>2. /\ stops'[s] # <<>> /\ Len(stops'[s]) = Len(stops[s]) /\ stops'[s][k] = stops[s][k] + 1
        /\ \A o \in Servers : o # s => stops'[o] = stops[o]
    BY <2>1, StopsLemma
  <2>3. stops[s][k] \in 1 .. 5
    BY <1>2, <1>5, StopParts DEF EndStop
  <2>4. PICK part : part = StopOrder[stops[s][k]]
    OBVIOUS
  <2>5. part \in kept[s] \cup {"http"} => part \in closed[s] /\ Awaits(s, k, part)
    BY <1>5, <2>4 DEF EndStop
  <2>6. ASSUME Len(stops[s]) = 1
        PROVE  /\ stops'[s][1] > 3 => "sched" \notin on[s] /\ "tick" \notin work[s]
               /\ stops'[s][1] > 4 => "queue" \notin on[s] /\ "job" \notin work[s]
               /\ stops'[s][1] > 5 => "http" \in closed[s] /\ "request" \notin work[s]
               /\ "pools" \notin closed[s]
    <3>1. k = 1 /\ ~SlowJobs
      BY <1>3, <2>6
    <3>2. PICK x \in 1 .. 5 : x = stops[s][1] /\ stops'[s][1] = x + 1
      BY <2>2, <2>3, <3>1
    <3>3. "pools" \notin closed[s]
      BY <1>1, <2>6, <3>2 DEF StopOk
    <3>4. x = 3 => "sched" \notin on[s] /\ "tick" \notin work[s]
      BY <1>1, <2>4, <2>5, <3>1, <3>2, StopParts DEF StopOk, Awaits
    <3>5. x = 4 => "queue" \notin on[s] /\ "job" \notin work[s]
      BY <1>1, <2>4, <2>5, <3>1, <3>2, StopParts DEF StopOk, Awaits
    <3>6. x = 5 => "http" \in closed[s] /\ "request" \notin work[s]
      BY <2>4, <2>5, <3>1, <3>2, StopParts DEF Awaits
    <3>7. /\ x > 3 => "sched" \notin on[s] /\ "tick" \notin work[s]
          /\ x > 4 => "queue" \notin on[s] /\ "job" \notin work[s]
      BY <1>1, <2>6, <3>2 DEF StopOk
    <3>8. /\ x + 1 > 3 => x = 3 \/ x > 3
          /\ x + 1 > 4 => x = 4 \/ x > 4
          /\ x + 1 > 5 => x = 5
      OBVIOUS
    <3> QED
      BY <3>2, <3>3, <3>4, <3>5, <3>6, <3>7, <3>8
  <2>7. StopOk(s)'
    BY <1>1, <2>1, <2>2, <2>6 DEF StopOk
  <2> QED
    BY <2>1, <2>2, <2>7, StopsOwn
<1>6. CASE EndPools(s, k)
  <2>1. /\ UNCHANGED <<boot, on, kept, work>> /\ stops' = [stops EXCEPT ![s][k] = @ + 1]
        /\ stops[s][k] = 6
    BY <1>6, Bounds DEF EndPools
  <2>2. /\ stops'[s] # <<>> /\ Len(stops'[s]) = Len(stops[s]) /\ stops'[s][k] = stops[s][k] + 1
        /\ \A o \in Servers : o # s => stops'[o] = stops[o]
    BY <2>1, StopsLemma
  <2>3. /\ closed'[s] = closed[s] \cup {"pools"}
        /\ \A o \in Servers : o # s => closed'[o] = closed[o]
    BY <1>6 DEF EndPools, TypeInv, ServerTypes
  <2>4. ASSUME Len(stops[s]) = 1
        PROVE  /\ stops'[s][1] = 7 /\ "sched" \notin on[s] /\ "tick" \notin work[s]
               /\ "queue" \notin on[s] /\ "job" \notin work[s]
               /\ "http" \in closed[s] /\ "request" \notin work[s]
    <3>1. stops[s][1] = 6 /\ stops'[s][1] = 7
      BY <1>3, <2>1, <2>2, <2>4
    <3> QED
      BY <1>1, <2>4, <3>1 DEF StopOk
  <2>5. StopOk(s)'
    BY <1>1, <2>1, <2>2, <2>3, <2>4 DEF StopOk
  <2> QED
    BY <2>1, <2>2, <2>3, <2>5, StopsOwn
<1> QED
  BY <1>4, <1>5, <1>6

\* A signal does.
LEMMA StopOfSignal ==
  ASSUME TypeInv, StopInv, NEW s \in Servers, Signal(s)
  PROVE  StopInv'
<1>1. StopOk(s) /\ boot[s] \in {"listen", "serving"} /\ UNCHANGED <<boot, on, kept, work, closed>>
  BY DEF StopInv, Signal
<1>2. stops'[s] = Append(stops[s], 1) /\ \A o \in Servers : o # s => stops'[o] = stops[o]
  BY DEF Signal, TypeInv, ServerTypes
<1>3. stops[s] \in Seq(1 .. 7) /\ Len(stops[s]) \in Nat /\ 1 \in 1 .. 7
  BY LenProperties DEF TypeInv, ServerTypes
<1>4. /\ Append(stops[s], 1) \in Seq(1 .. 7)
      /\ Len(Append(stops[s], 1)) = Len(stops[s]) + 1
      /\ Append(stops[s], 1)[Len(stops[s]) + 1] = 1
  BY <1>3, AppendProperties
<1>5. Append(stops[s], 1) # <<>>
  <2>1. Len(Append(stops[s], 1)) # 0
    BY <1>3, <1>4
  <2> QED
    BY <2>1, EmptySeq
<1>6. Len(Append(stops[s], 1)) = 1 => Append(stops[s], 1)[1] = 1 /\ closed[s] = {}
  <2> SUFFICES ASSUME Len(Append(stops[s], 1)) = 1
               PROVE  Append(stops[s], 1)[1] = 1 /\ closed[s] = {}
    OBVIOUS
  <2>1. Len(stops[s]) = 0
    BY <1>3, <1>4
  <2>2. stops[s] = <<>>
    BY <1>3, <2>1, EmptySeq
  <2>3. Append(stops[s], 1)[1] = 1
    BY <1>4, <2>1
  <2> QED
    BY <1>1, <2>2, <2>3 DEF StopOk
<1>7. StopOk(s)'
  BY <1>1, <1>2, <1>5, <1>6 DEF StopOk
<1> QED
  BY <1>1, <1>2, <1>7, StopsOwn

\* What a process that ends leaves.
LEMMA StopOfGone ==
  ASSUME TypeInv, StopInv, NEW s \in Servers, Gone(s)
  PROVE  StopInv'
<1>1. /\ boot'[s] = "exited" /\ on'[s] = {} /\ kept'[s] = {} /\ work'[s] = {}
      /\ closed'[s] = {} /\ stops'[s] = <<>>
      /\ \A o \in Servers : o # s =>
           /\ boot'[o] = boot[o] /\ on'[o] = on[o] /\ kept'[o] = kept[o]
           /\ work'[o] = work[o] /\ closed'[o] = closed[o] /\ stops'[o] = stops[o]
  BY DEF Gone, TypeInv, ServerTypes
<1>2. Len(stops'[s]) # 1
  BY <1>1, EmptySeq
<1>3. StopOk(s)'
  BY <1>1, <1>2 DEF StopOk
<1> QED
  BY <1>1, <1>3, StopsOwn

\* Every step keeps it.
LEMMA StopInvStep ==
  ASSUME TypeInv, BootInv, StopInv, ~SlowJobs, [Next]_vars
  PROVE  StopInv'
<1>1. ASSUME UNCHANGED <<boot, on, kept, work, closed, stops>> PROVE StopInv'
  BY <1>1 DEF StopInv, StopOk
<1>2. ASSUME NEW s \in Servers, ReloadStep(s) PROVE StopInv'
  BY <1>1, <1>2 DEF ReloadStep, WatchEvent, BeginReload, ReadConfig, Apply, ReloadFails, Still
<1>3. ASSUME NEW s \in Servers, StopStep(s) PROVE StopInv'
  <2>1. PICK k \in DOMAIN stops[s] :
          BeginStop(s, k) \/ EndStop(s, k) \/ EndPools(s, k) \/ Exit(s, k)
    BY <1>3 DEF StopStep
  <2> QED
    BY <2>1, StopOfStop, StopOfGone DEF Exit
<1>4. CASE Edit
  BY <1>1, <1>4 DEF Edit, Still
<1>5. CASE UNCHANGED vars
  BY <1>1, <1>5 DEF vars, lifeVars
<1> QED
  BY <1>2, <1>3, <1>4, <1>5, StopOfStart, StopOfWork, StopOfSignal, StopOfGone DEF Next, Crash

\* It holds at the start.
LEMMA StopInvInit == Init => StopInv
<1> SUFFICES ASSUME Init, NEW s \in Servers PROVE StopOk(s)
  BY DEF StopInv
<1>1. on[s] = {} /\ work[s] = {} /\ closed[s] = {} /\ stops[s] = <<>>
  BY DEF Init
<1>2. Len(stops[s]) # 1
  BY <1>1, EmptySeq
<1> QED
  BY <1>1, <1>2 DEF StopOk

\* A graceful shutdown ends the pools when no request, no tick of the scheduled events and
\* no job is left, whatever parts failed in the start and whenever the signal came, if jobs
\* end within graceful_shutdown_ms and no second signal starts a second shutdown
\* (shutdown, server.ts:386-408).
THEOREM PoolsOutliveWork == ASSUME ~SlowJobs PROVE Spec => []PoolOutlivesWork
<1> DEFINE I == TypeInv /\ BootInv /\ StopInv
<1>1. Init => I
  BY TypeInit, BootInit, StopInvInit
<1>2. I /\ [Next]_vars => I'
  BY TypeStep, BootOrder, StopInvStep
<1>3. I => PoolOutlivesWork
  <2> SUFFICES ASSUME I, NEW s \in Servers, "pools" \in closed[s], Len(stops[s]) = 1
               PROVE  work[s] \cap {"request", "tick", "job"} = {}
    BY DEF PoolOutlivesWork
  <2>1. StopOk(s)
    BY DEF StopInv
  <2>2. stops[s][1] = 7
    BY <2>1 DEF StopOk
  <2>3. "tick" \notin work[s] /\ "job" \notin work[s] /\ "request" \notin work[s]
    BY <2>1, <2>2 DEF StopOk
  <2> QED
    BY <2>3
<1> HIDE DEF I
<1> QED
  BY <1>1, <1>2, <1>3, PTL DEF Spec

-----------------------------------------------------------------------------
(* What a server in dev mode serves.                                       *)

FilesServed(s) == served[s].schema = files /\ served[s].permissions = files

\* Per server: only one that has started watches and reloads.  Unless it is excused, it
\* starts with the files there are; then a change waits to be seen, or a reload has still
\* to read the files or has read them as they are, or it serves them.
FilesOk(s) ==
  /\ boot[s] \notin {"listen", "serving"} => watch[s] = "quiet" /\ reloads[s] = <<>>
  /\ ~excused[s] /\ boot[s] \notin {"down", "exited", "listen", "serving"} => FilesServed(s)
  /\ ~excused[s] /\ boot[s] \in {"listen", "serving"} /\ stops[s] = <<>> =>
       /\ Len(reloads[s]) <= 1
       /\ watch[s] = "quiet" =>
            /\ reloads[s] = <<>> => FilesServed(s)
            /\ reloads[s] # <<>> => reloads[s][1] \in {NoVersion, files}

FilesInv == \A s \in DevServers : FilesOk(s)

\* What it is about, of a server.
FilesSame(o) ==
  /\ boot'[o] = boot[o] /\ stops'[o] = stops[o] /\ watch'[o] = watch[o]
  /\ reloads'[o] = reloads[o] /\ served'[o] = served[o] /\ excused'[o] = excused[o]

\* What a server does to itself.
LEMMA FilesOwn ==
  ASSUME FilesInv, files' = files, NEW s \in Servers, s \in DevServers => FilesOk(s)',
         \A o \in Servers : o # s => FilesSame(o)
  PROVE  FilesInv'
<1>1. DevServers \subseteq Servers
  BY LifecycleAssumption
<1> SUFFICES ASSUME NEW o \in DevServers PROVE FilesOk(o)'
  BY DEF FilesInv
<1>2. CASE o = s
  BY <1>2
<1>3. CASE o # s
  <2>1. FilesOk(o) /\ FilesSame(o)
    BY <1>1, <1>3 DEF FilesInv
  <2> QED
    BY <2>1 DEF FilesOk, FilesServed, FilesSame
<1> QED
  BY <1>2, <1>3

\* A start keeps it.
LEMMA FilesOfStart ==
  ASSUME TypeInv, FilesInv, NEW s \in Servers, BootStep(s)
  PROVE  FilesInv'
<1>1. UNCHANGED <<stops, files, watch, reloads, excused>>
  BY DEF BootStep, Start, StartScheduled, StartQueue, StartCrons, StartEvents, ListenEvents,
         EventsFailed, CatchUp, StartActions, StartSubscriptions, Listen, Quietly
<1>2. s \in DevServers => FilesOk(s)
  BY DEF FilesInv
<1>3. CASE Start(s)
  <2>1. /\ boot[s] = "down" /\ boot'[s] = "sched"
        /\ served'[s] = [schema |-> files, permissions |-> files, functions |-> files,
                         rest |-> files]
        /\ \A o \in Servers : o # s => boot'[o] = boot[o] /\ served'[o] = served[o]
    BY <1>3 DEF Start, Booted, TypeInv, ServerTypes, ReloadTypes
  <2>2. FilesServed(s)'
    BY <1>1, <2>1 DEF FilesServed
  <2>3. s \in DevServers => FilesOk(s)'
    BY <1>1, <1>2, <2>1, <2>2 DEF FilesOk
  <2> QED
    BY <1>1, <2>1, <2>3, FilesOwn DEF FilesSame
<1>4. CASE StartEvents(s)
  BY <1>1, <1>4 DEF StartEvents, FilesInv, FilesOk, FilesServed
<1>5. CASE ~Start(s) /\ ~StartEvents(s)
  <2>1. PICK b, p, h :
          /\ Booted(s, b, p, h) /\ boot[s] \notin {"down", "exited"}
          /\ b \notin {"down", "exited"}
          /\ boot[s] \in {"listen", "serving"} => b = "serving"
    <3>2. CASE StartScheduled(s)
      BY <3>2 DEF StartScheduled
    <3>3. CASE StartQueue(s)
      BY <3>3 DEF StartQueue
    <3>4. CASE StartCrons(s)
      BY <3>4 DEF StartCrons
    <3>5. CASE ListenEvents(s)
      BY <3>5 DEF ListenEvents
    <3>6. CASE EventsFailed(s)
      BY <3>6 DEF EventsFailed
    <3>7. CASE CatchUp(s)
      BY <3>7 DEF CatchUp
    <3>8. CASE StartActions(s)
      BY <3>8 DEF StartActions
    <3>9. CASE StartSubscriptions(s)
      BY <3>9 DEF StartSubscriptions
    <3>10. CASE Listen(s)
      BY <3>10 DEF Listen
    <3> QED
      BY <1>5, <3>2, <3>3, <3>4, <3>5, <3>6, <3>7, <3>8, <3>9, <3>10 DEF BootStep
  <2>2. served' = served
    BY <1>5 DEF BootStep, StartScheduled, StartQueue, StartCrons, ListenEvents, EventsFailed,
                CatchUp, StartActions, StartSubscriptions, Listen
  <2>3. boot'[s] = b /\ \A o \in Servers : o # s => boot'[o] = boot[o]
    BY <2>1 DEF Booted, TypeInv, ServerTypes
  <2>4. s \in DevServers => FilesOk(s)'
    <3> SUFFICES ASSUME s \in DevServers PROVE FilesOk(s)'
      OBVIOUS
    <3>1. FilesServed(s)' <=> FilesServed(s)
      BY <1>1, <2>2 DEF FilesServed
    <3>2. CASE boot[s] \in {"listen", "serving"}
      <4>1. b = "serving"
        BY <2>1, <3>2
      <4> QED
        BY <1>1, <1>2, <2>3, <3>1, <3>2, <4>1 DEF FilesOk
    <3>3. CASE boot[s] \notin {"listen", "serving"}
      <4>1. watch[s] = "quiet" /\ reloads[s] = <<>> /\ (~excused[s] => FilesServed(s))
        BY <1>2, <2>1, <3>3 DEF FilesOk
      <4>2. Len(reloads[s]) <= 1
        BY <4>1, EmptySeq
      <4> QED
        BY <1>1, <3>1, <4>1, <4>2 DEF FilesOk
    <3> QED
      BY <3>2, <3>3
  <2> QED
    BY <1>1, <2>2, <2>3, <2>4, FilesOwn DEF FilesSame
<1> QED
  BY <1>3, <1>4, <1>5

\* A reload keeps it: the only one under way reads the files after the change it follows.
LEMMA FilesOfReload ==
  ASSUME TypeInv, FilesInv, NEW s \in Servers, ReloadStep(s)
  PROVE  FilesInv'
<1>1. UNCHANGED <<boot, stops, files>>
  BY DEF ReloadStep, WatchEvent, BeginReload, ReadConfig, Apply, ReloadFails, Still
<1>2. s \in DevServers => FilesOk(s)
  BY DEF FilesInv
<1>3. /\ reloads \in [Servers -> Seq(NoVersion .. MaxOutside)]
      /\ reloads[s] \in Seq(NoVersion .. MaxOutside) /\ Len(reloads[s]) \in Nat
      /\ NoVersion \in NoVersion .. MaxOutside
      /\ served \in [Servers -> Served] /\ watch \in [Servers -> Watching]
      /\ excused \in [Servers -> BOOLEAN] /\ files \in NoVersion .. MaxOutside
  BY Bounds, LenProperties DEF TypeInv, ReloadTypes
<1>4. CASE WatchEvent(s)
  <2>1. /\ watch[s] = "event" /\ watch'[s] = "timer" /\ UNCHANGED <<reloads, served, excused>>
        /\ \A o \in Servers : o # s => watch'[o] = watch[o]
    BY <1>3, <1>4 DEF WatchEvent
  <2>2. s \in DevServers => FilesOk(s)'
    BY <1>1, <1>2, <2>1 DEF FilesOk, FilesServed
  <2> QED
    BY <1>1, <2>1, <2>2, FilesOwn DEF FilesSame
<1>5. CASE BeginReload(s)
  <2>1. /\ watch[s] = "timer" /\ watch'[s] = "quiet" /\ served' = served
        /\ reloads'[s] = Append(reloads[s], NoVersion)
        /\ excused'[s] = (excused[s] \/ reloads[s] # <<>>)
        /\ \A o \in Servers : o # s => /\ watch'[o] = watch[o] /\ reloads'[o] = reloads[o]
                                       /\ excused'[o] = excused[o]
    BY <1>3, <1>5 DEF BeginReload
  <2>2. /\ Len(Append(reloads[s], NoVersion)) = Len(reloads[s]) + 1
        /\ Append(reloads[s], NoVersion)[Len(reloads[s]) + 1] = NoVersion
    BY <1>3, AppendProperties
  <2>3. reloads[s] = <<>> => /\ Len(Append(reloads[s], NoVersion)) <= 1
                             /\ Append(reloads[s], NoVersion) # <<>>
                             /\ Append(reloads[s], NoVersion)[1] = NoVersion
    <3> SUFFICES ASSUME reloads[s] = <<>>
                 PROVE  /\ Len(Append(reloads[s], NoVersion)) <= 1
                        /\ Append(reloads[s], NoVersion) # <<>>
                        /\ Append(reloads[s], NoVersion)[1] = NoVersion
      OBVIOUS
    <3>1. Len(reloads[s]) = 0
      BY EmptySeq
    <3>2. /\ Len(Append(reloads[s], NoVersion)) = 1
          /\ Append(reloads[s], NoVersion)[1] = NoVersion
      BY <2>2, <3>1
    <3> QED
      BY <3>2, EmptySeq
  <2>4. s \in DevServers => boot[s] \in {"listen", "serving"}
    BY <1>2, <2>1 DEF FilesOk
  <2>5. s \in DevServers => FilesOk(s)'
    BY <1>1, <2>1, <2>3, <2>4 DEF FilesOk
  <2> QED
    BY <1>1, <2>1, <2>5, FilesOwn DEF FilesSame
<1>6. ASSUME NEW k \in DOMAIN reloads[s], ReadConfig(s, k) \/ Apply(s, k) \/ ReloadFails(s, k)
      PROVE  FilesInv'
  <2>1. k \in 1 .. Len(reloads[s]) /\ reloads[s] # <<>> /\ (Len(reloads[s]) <= 1 => k = 1)
    <3>1. k \in 1 .. Len(reloads[s])
      BY <1>3, LenProperties
    <3>2. Len(reloads[s]) # 0 /\ (Len(reloads[s]) <= 1 => k = 1)
      BY <1>3, <3>1
    <3> QED
      BY <3>1, <3>2, EmptySeq
  <2>2. s \in DevServers => boot[s] \in {"listen", "serving"}
    BY <1>2, <2>1 DEF FilesOk
  <2>3. CASE ReadConfig(s, k)
    <3>1. UNCHANGED <<watch, served, excused>> /\ reloads' = [reloads EXCEPT ![s][k] = files]
      BY <2>3 DEF ReadConfig
    <3>2. /\ reloads'[s] = [reloads[s] EXCEPT ![k] = files]
          /\ \A o \in Servers : o # s => reloads'[o] = reloads[o]
      BY <1>3, <3>1
    <3>3. /\ [reloads[s] EXCEPT ![k] = files] \in Seq(NoVersion .. MaxOutside)
          /\ Len([reloads[s] EXCEPT ![k] = files]) = Len(reloads[s])
      BY <1>3, <2>1, ExceptSeq
    <3>4. k = 1 => [reloads[s] EXCEPT ![k] = files][1] = files
      BY <1>3, <2>1, LenProperties
    <3>5. [reloads[s] EXCEPT ![k] = files] # <<>>
      <4>1. Len([reloads[s] EXCEPT ![k] = files]) # 0
        BY <1>3, <2>1, <3>3, EmptySeq
      <4> QED
        BY <4>1, EmptySeq
    <3>6. s \in DevServers => FilesOk(s)'
      BY <1>1, <1>2, <2>1, <2>2, <3>1, <3>2, <3>3, <3>4, <3>5 DEF FilesOk
    <3> QED
      BY <1>1, <3>1, <3>2, <3>6, FilesOwn DEF FilesSame
  <2>4. /\ Len(RemoveAt(reloads[s], k)) = Len(reloads[s]) - 1
        /\ Len(reloads[s]) <= 1 => RemoveAt(reloads[s], k) = <<>>
    <3>1. /\ RemoveAt(reloads[s], k) \in Seq(NoVersion .. MaxOutside)
          /\ Len(RemoveAt(reloads[s], k)) = Len(reloads[s]) - 1
      BY <1>3, <2>1, RemoveAtLemma
    <3>2. Len(reloads[s]) <= 1 => Len(RemoveAt(reloads[s], k)) = 0
      BY <1>3, <2>1, <3>1
    <3> QED
      BY <3>1, <3>2, EmptySeq
  <2>5. CASE Apply(s, k)
    <3>1. PICK v \in NoVersion .. MaxOutside : v = reloads[s][k]
      BY <1>3, <2>1, ElementOfSeq
    <3>2. /\ UNCHANGED <<watch, excused>> /\ v # NoVersion
          /\ reloads'[s] = RemoveAt(reloads[s], k)
          /\ served'[s].schema = v /\ served'[s].permissions = v
          /\ \A o \in Servers : o # s => reloads'[o] = reloads[o] /\ served'[o] = served[o]
      <4>1. /\ served' = [served EXCEPT ![s] = [served[s] EXCEPT !.schema = v, !.permissions = v,
                                                                 !.functions = NoVersion]]
            /\ served[s] \in Served
        BY <1>3, <2>5, <3>1 DEF Apply
      <4>2. served'[s].schema = v /\ served'[s].permissions = v
        BY <1>3, <4>1 DEF Served
      <4> QED
        BY <1>3, <2>5, <3>1, <4>1, <4>2 DEF Apply
    <3>3. s \in DevServers => FilesOk(s)'
      <4> SUFFICES ASSUME s \in DevServers, ~excused[s], stops[s] = <<>>
                   PROVE  /\ Len(RemoveAt(reloads[s], k)) <= 1
                          /\ watch[s] = "quiet" =>
                               RemoveAt(reloads[s], k) = <<>> /\ v = files
        BY <1>1, <2>2, <3>2 DEF FilesOk, FilesServed
      <4>1. /\ Len(reloads[s]) <= 1
            /\ watch[s] = "quiet" => reloads[s][1] \in {NoVersion, files}
        BY <1>2, <2>1, <2>2 DEF FilesOk
      <4>2. k = 1 /\ RemoveAt(reloads[s], k) = <<>>
        BY <2>1, <2>4, <4>1
      <4>3. Len(RemoveAt(reloads[s], k)) <= 1
        BY <4>2, EmptySeq
      <4> QED
        BY <3>1, <3>2, <4>1, <4>2, <4>3
    <3> QED
      BY <1>1, <3>2, <3>3, FilesOwn DEF FilesSame
  <2>6. CASE ReloadFails(s, k)
    <3>1. /\ UNCHANGED <<watch, served>> /\ excused'[s] = TRUE
          /\ \A o \in Servers : o # s => reloads'[o] = reloads[o] /\ excused'[o] = excused[o]
      BY <1>3, <2>6 DEF ReloadFails
    <3>2. s \in DevServers => FilesOk(s)'
      BY <1>1, <2>2, <3>1 DEF FilesOk
    <3> QED
      BY <1>1, <3>1, <3>2, FilesOwn DEF FilesSame
  <2> QED
    BY <1>6, <2>3, <2>5, <2>6
<1> QED
  BY <1>4, <1>5, <1>6 DEF ReloadStep

\* An edit, a signal, a shutdown and an exit keep it.
LEMMA FilesOfOutside ==
  ASSUME TypeInv, BootInv, FilesInv,
         \/ Edit
         \/ \E s \in Servers : Signal(s) \/ StopStep(s) \/ Gone(s)
  PROVE  FilesInv'
<1>1. DevServers \subseteq Servers
  BY LifecycleAssumption
<1>2. CASE Edit
  <2> SUFFICES ASSUME NEW s \in DevServers PROVE FilesOk(s)'
    BY DEF FilesInv
  <2>1. /\ UNCHANGED <<boot, stops, reloads, served>> /\ s \in Servers /\ stops[s] = <<>>
        /\ watch'[s] = IF Watches(s) THEN "event" ELSE watch[s]
        /\ excused'[s] = (excused[s] \/ (Up(s) /\ ~Watches(s)))
    BY <1>1, <1>2 DEF Edit, Still
  <2>2. FilesOk(s)
    BY DEF FilesInv
  <2>3. CASE Watches(s)
    <3>1. boot[s] \in {"listen", "serving"} /\ watch'[s] = "event" /\ excused'[s] = excused[s]
      BY <1>1, <2>1, <2>3 DEF Watches, TypeInv, ReloadTypes
    <3> QED
      BY <2>1, <2>2, <3>1 DEF FilesOk
  <2>4. CASE ~Watches(s)
    <3>1. boot[s] \notin {"listen", "serving"} /\ watch'[s] = watch[s]
      BY <2>1, <2>4 DEF Watches
    <3>2. boot[s] \notin {"down", "exited"} => excused'[s] = TRUE
      BY <2>1, <2>4 DEF Up
    <3> QED
      BY <2>1, <2>2, <3>1, <3>2 DEF FilesOk
  <2> QED
    BY <2>3, <2>4
<1>3. ASSUME NEW s \in Servers, Gone(s) PROVE FilesInv'
  <2>1. /\ files' = files /\ boot'[s] = "exited" /\ watch'[s] = "quiet" /\ reloads'[s] = <<>>
        /\ \A o \in Servers : o # s => FilesSame(o)
    BY <1>3 DEF Gone, FilesSame, TypeInv, ServerTypes, ReloadTypes
  <2>2. FilesOk(s)'
    BY <2>1 DEF FilesOk
  <2> QED
    BY <2>1, <2>2, FilesOwn
<1>4. ASSUME NEW s \in Servers, Signal(s) PROVE FilesInv'
  <2>1. /\ UNCHANGED <<boot, files, reloads, served, excused>> /\ boot[s] \in {"listen", "serving"}
        /\ stops'[s] = Append(stops[s], 1) /\ watch'[s] = "quiet"
        /\ \A o \in Servers : o # s => stops'[o] = stops[o] /\ watch'[o] = watch[o]
    BY <1>4 DEF Signal, TypeInv, ServerTypes, ReloadTypes
  <2>2. Append(stops[s], 1) # <<>>
    <3>1. stops[s] \in Seq(1 .. 7) /\ 1 \in 1 .. 7
      BY DEF TypeInv, ServerTypes
    <3>2. Len(Append(stops[s], 1)) = Len(stops[s]) + 1 /\ Len(stops[s]) \in Nat
      BY <3>1, AppendProperties, LenProperties
    <3>3. Len(Append(stops[s], 1)) # 0
      BY <3>2
    <3> QED
      BY <3>3, EmptySeq
  <2>3. FilesOk(s)'
    BY <2>1, <2>2 DEF FilesOk
  <2>4. \A o \in Servers : o # s => FilesSame(o)
    BY <2>1 DEF FilesSame
  <2> QED
    BY <2>1, <2>3, <2>4, FilesOwn
<1>5. ASSUME NEW s \in Servers, StopStep(s) PROVE FilesInv'
  <2>1. PICK k \in DOMAIN stops[s] :
          BeginStop(s, k) \/ EndStop(s, k) \/ EndPools(s, k) \/ Exit(s, k)
    BY <1>5 DEF StopStep
  <2>2. CASE Exit(s, k)
    BY <1>3, <2>2 DEF Exit
  <2>3. CASE BeginStop(s, k)
    <3>1. UNCHANGED <<boot, stops, files, watch, reloads, served, excused>>
      BY <2>3 DEF BeginStop
    <3> QED
      BY <3>1 DEF FilesInv, FilesOk, FilesServed
  <2>4. CASE EndStop(s, k) \/ EndPools(s, k)
    <3>1. /\ UNCHANGED <<boot, files, watch, reloads, served, excused>>
          /\ stops' = [stops EXCEPT ![s][k] = @ + 1]
      BY <2>4 DEF EndStop, EndPools
    <3>2. /\ stops[s] # <<>> /\ stops'[s] # <<>>
          /\ \A o \in Servers : o # s => stops'[o] = stops[o]
      BY <3>1, StopsLemma
    <3>3. boot[s] \in {"listen", "serving"} /\ (s \in DevServers => FilesOk(s))
      BY <3>2 DEF BootInv, FilesInv
    <3>4. s \in DevServers => FilesOk(s)'
      BY <3>1, <3>2, <3>3 DEF FilesOk, FilesServed
    <3>5. \A o \in Servers : o # s => FilesSame(o)
      BY <3>1, <3>2 DEF FilesSame
    <3> QED
      BY <3>1, <3>4, <3>5, FilesOwn
  <2> QED
    BY <2>1, <2>2, <2>3, <2>4
<1> QED
  BY <1>2, <1>3, <1>4, <1>5

\* Every step does.
LEMMA FilesStep ==
  ASSUME TypeInv, BootInv, FilesInv, [Next]_vars
  PROVE  FilesInv'
<1>1. ASSUME UNCHANGED <<boot, stops, files, watch, reloads, served, excused>> PROVE FilesInv'
  BY <1>1 DEF FilesInv, FilesOk, FilesServed
<1>2. ASSUME NEW s \in Servers, NEW w \in Work, BeginWork(s, w) \/ EndWork(s, w) PROVE FilesInv'
  BY <1>1, <1>2 DEF BeginWork, EndWork, Unmoved
<1>3. CASE UNCHANGED vars
  BY <1>1, <1>3 DEF vars, lifeVars
<1> QED
  BY <1>2, <1>3, FilesOfStart, FilesOfReload, FilesOfOutside DEF Next, Crash

\* It holds at the start.
LEMMA FilesInit == Init => FilesInv
<1> SUFFICES ASSUME Init, NEW s \in DevServers PROVE FilesOk(s)
  BY DEF FilesInv
<1>1. s \in Servers
  BY LifecycleAssumption
<1> QED
  BY <1>1 DEF Init, FilesOk

\* A server in dev mode that has seen every change and has no reload under way serves the
\* schema and the permissions of the files as they are, unless reloads overlapped or
\* rejected or an edit fell between the start's look at the files and its watch of them
\* (handleChange, config/watcher.ts:51-68, and the watcher's handler, server.ts:332-371).
THEOREM FilesAreServed == Spec => []ServesTheFiles
<1> DEFINE I == TypeInv /\ BootInv /\ FilesInv
<1>1. Init => I
  BY TypeInit, BootInit, FilesInit
<1>2. I /\ [Next]_vars => I'
  BY TypeStep, BootOrder, FilesStep
<1>3. I => ServesTheFiles
  BY DEF ServesTheFiles, FilesInv, FilesOk, FilesServed
<1> HIDE DEF I
<1> QED
  BY <1>1, <1>2, <1>3, PTL DEF Spec
=============================================================================
