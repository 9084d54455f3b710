-------------------------- MODULE LiveQueries_proofs --------------------------
(***************************************************************************)
(* Proofs about LiveQueries, for any number of tables, servers,            *)
(* subscriptions, values, writes and mishaps.                              *)
(***************************************************************************)
EXTENDS LiveQueries, SequenceTheorems, TLAPS

-----------------------------------------------------------------------------
(* Sequences.                                                              *)

\* Removing an element leaves a sequence of elements, one shorter.
LEMMA RemoveAtLemma ==
  ASSUME NEW S, NEW q \in Seq(S), NEW k \in 1 .. Len(q)
  PROVE  RemoveAt(q, k) \in Seq(S) /\ Len(RemoveAt(q, k)) = Len(q) - 1
<1>1. Len(q) \in Nat /\ k \in Nat /\ 1 <= k /\ k <= Len(q)
  BY LenProperties
<1>2. \A i \in 1 .. Len(q) : q[i] \in S
  BY ElementOfSeq
<1> DEFINE a == SubSeq(q, 1, k - 1)
           b == SubSeq(q, k + 1, Len(q))
<1>3. /\ a \in Seq(S) /\ Len(a) = k - 1
      /\ b \in Seq(S) /\ Len(b) = Len(q) - k
  BY <1>1, <1>2, SubSeqProperties
<1>4. RemoveAt(q, k) = a \o b
  BY DEF RemoveAt
<1> HIDE DEF a, b
<1>5. a \o b \in Seq(S) /\ Len(a \o b) = Len(a) + Len(b)
  BY <1>3, ConcatProperties
<1> QED
  BY <1>1, <1>3, <1>4, <1>5

-----------------------------------------------------------------------------
(* Type correctness.  A result sent is a value because the snapshot it was *)
(* read in exists: SnapshotInv is what TypeOK needs to be inductive.       *)

SnapshotInv ==
  /\ \A c \in Subs : sub[c].first <= Len(history)
  /\ \A c \in Subs : sub[c].phase = "asked" => sub[c].first > 0
  /\ \A c \in Subs : \A k \in DOMAIN flights[c] : flights[c][k].snap <= Len(history)

\* The history is never empty, and what a query may see is in it.
LEMMA HistoryLemma ==
  ASSUME TypeOK
  PROVE  /\ Len(history) \in 1 .. MaxWrites + 1
         /\ \A n \in 1 .. Len(history) : n \in Versions /\ history[n] \in Values
         /\ Visible \subseteq 1 .. Len(history)
BY LiveQueriesAssumption DEF TypeOK, Versions, Visible

\* Types of the fields of subscriptions and flights.
LEMMA FieldTypes ==
  ASSUME TypeOK, NEW c \in Subs
  PROVE  /\ sub[c] \in Sub /\ sub[c].sent \in Seq(Result) /\ sub[c].hash \in Values
         /\ sub[c].first \in 0 .. MaxWrites + 1 /\ sub[c].since \in 0 .. MaxWrites + 1
         /\ flights[c] \in Seq(Flight) /\ DOMAIN flights[c] = 1 .. Len(flights[c])
         /\ \A k \in DOMAIN flights[c] : flights[c][k] \in Flight
<1>1. sub[c] \in Sub /\ flights[c] \in Seq(Flight)
  BY DEF TypeOK
<1> QED
  BY <1>1 DEF Sub

\* What comparing a result with the hash does to a subscription.
LEMMA CompareLemma ==
  ASSUME TypeOK, NEW c \in Subs, NEW n \in 1 .. Len(history)
  PROVE  LET s == sub[c]
             d == Compare(s, n)
             r == [val |-> history[n], ver |-> n] IN
         /\ d \in Sub /\ r \in Result
         /\ d.phase = s.phase /\ d.at = s.at /\ d.first = s.first
         /\ d.since = s.since /\ d.failed = s.failed
         /\ \/ /\ s.phase = "live" /\ history[n] # s.hash
               /\ d.hash = history[n] /\ d.sent = Append(s.sent, r)
            \/ d = s
<1> DEFINE s == sub[c]
           r == [val |-> history[n], ver |-> n]
<1>1. r \in Result
  BY HistoryLemma DEF Result
<1>2. s \in Sub /\ s.sent \in Seq(Result)
  BY FieldTypes
<1>3. Append(s.sent, r) \in Seq(Result) /\ history[n] \in Values
  BY <1>1, <1>2, HistoryLemma, AppendProperties
<1> HIDE DEF s, r
<1>4. LET d == [s EXCEPT !.hash = history[n], !.sent = Append(@, r)] IN
      /\ d \in Sub
      /\ d.phase = s.phase /\ d.at = s.at /\ d.first = s.first
      /\ d.since = s.since /\ d.failed = s.failed
      /\ d.hash = history[n] /\ d.sent = Append(s.sent, r)
  BY <1>2, <1>3 DEF Sub
<1>5. Compare(s, n) = IF s.phase = "live" /\ history[n] # s.hash
                        THEN [s EXCEPT !.hash = history[n], !.sent = Append(@, r)] ELSE s
  BY DEF Compare, r
<1>6. /\ Compare(s, n) \in Sub
      /\ Compare(s, n).phase = s.phase /\ Compare(s, n).at = s.at
      /\ Compare(s, n).first = s.first
      /\ Compare(s, n).since = s.since /\ Compare(s, n).failed = s.failed
      /\ \/ /\ s.phase = "live" /\ history[n] # s.hash
            /\ Compare(s, n).hash = history[n] /\ Compare(s, n).sent = Append(s.sent, r)
         \/ Compare(s, n) = s
  BY <1>2, <1>4, <1>5
<1> QED
  BY <1>1, <1>6 DEF s, r

\* What a query and its answer do to the flights of a subscription.
LEMMA FlightLemma ==
  ASSUME TypeOK, NEW c \in Subs, NEW k \in DOMAIN flights[c], NEW n \in 1 .. Len(history)
  PROVE  /\ [flights EXCEPT ![c][k].snap = n] \in [Subs -> Seq(Flight)]
         /\ DOMAIN [flights EXCEPT ![c][k].snap = n][c] = DOMAIN flights[c]
         /\ [flights EXCEPT ![c][k].snap = n][c][k].snap = n
         /\ [flights EXCEPT ![c][k].snap = n][c][k].table = flights[c][k].table
         /\ \A j \in DOMAIN flights[c] \ {k} :
              [flights EXCEPT ![c][k].snap = n][c][j] = flights[c][j]
         /\ \A b \in Subs \ {c} : [flights EXCEPT ![c][k].snap = n][b] = flights[b]
<1> DEFINE f == [flights[c][k] EXCEPT !.snap = n]
           q == [flights[c] EXCEPT ![k] = f]
<1>1. /\ flights[c] \in Seq(Flight) /\ k \in 1 .. Len(flights[c])
      /\ DOMAIN flights[c] = 1 .. Len(flights[c]) /\ flights[c][k] \in Flight
  BY FieldTypes
<1>2. f \in Flight /\ f.snap = n /\ f.table = flights[c][k].table
  BY <1>1, HistoryLemma DEF Flight, Versions
<1>3. [flights EXCEPT ![c][k].snap = n] = [flights EXCEPT ![c] = q]
  OBVIOUS
<1> HIDE DEF f
<1>4. /\ q \in Seq(Flight) /\ DOMAIN q = DOMAIN flights[c]
      /\ \A j \in DOMAIN flights[c] : q[j] = IF j = k THEN f ELSE flights[c][j]
  BY <1>1, <1>2, ExceptSeq
<1> HIDE DEF q
<1>5. /\ [flights EXCEPT ![c] = q] \in [Subs -> Seq(Flight)]
      /\ [flights EXCEPT ![c] = q][c] = q
      /\ \A b \in Subs \ {c} : [flights EXCEPT ![c] = q][b] = flights[b]
  BY <1>4 DEF TypeOK
<1> QED
  BY <1>2, <1>3, <1>4, <1>5
\* Steps that leave subscriptions and flights alone, and add to the history.
LEMMA HistoryGrows ==
  ASSUME TypeOK, [Next]_vars
  PROVE  /\ history' \in Seq(Values) /\ Len(history') \in Versions
         /\ Len(history') >= Len(history)
         /\ \A n \in 1 .. Len(history) : history'[n] = history[n]
<1>1. history \in Seq(Values) /\ Len(history) \in Versions
  BY DEF TypeOK
<1>2. CASE history' = history
  BY <1>1, <1>2 DEF Versions
<1>3. ASSUME NEW t \in Tables, NEW v \in Values, Write(t, v)
      PROVE  /\ history' \in Seq(Values) /\ Len(history') \in Versions
             /\ Len(history') >= Len(history)
             /\ \A n \in 1 .. Len(history) : history'[n] = history[n]
  <2>1. history' = Append(history, v) /\ Len(history) <= MaxWrites
    BY <1>3 DEF Write
  <2> QED
    BY <1>1, <2>1, AppendProperties, LiveQueriesAssumption DEF Versions
<1>4. CASE Next
  BY <1>2, <1>3, <1>4
     DEF Next, Disconnect, Reconnect, Change, Notified, RemoteChange, Fire, LoseMessage,
         FlightStep, Snapshot, Answer, QueryFails, Subscribe, InitialSnapshot, Register,
         RegisterFails, Unregister
<1> QED
  BY <1>2, <1>4 DEF vars

\* What any step does to one subscription: nothing that the client could see,
\* or its registration, or the answer of a flight.
SentKept(c) ==
  /\ sub'[c].sent = sub[c].sent /\ sub'[c].hash = sub[c].hash
  /\ sub'[c].phase \in {"live", "closed"} <=> sub[c].phase \in {"live", "closed"}
  /\ sub'[c].phase = "live" => sub[c].phase = "live"

Registered(c) ==
  /\ sub[c].phase = "asked" /\ sub'[c].phase = "live"
  /\ sub[c].first \in 1 .. Len(history)
  /\ sub'[c].hash = history[sub[c].first]
  /\ sub'[c].sent = <<[val |-> history[sub[c].first], ver |-> sub[c].first]>>

Pushed(c, n) ==
  /\ sub[c].phase = "live" /\ sub'[c].phase = "live"
  /\ history[n] # sub[c].hash
  /\ sub'[c].hash = history[n]
  /\ sub'[c].sent = Append(sub[c].sent, [val |-> history[n], ver |-> n])

\* A subscription's own fields, as every step leaves them.
SubStep(c) ==
  /\ sub'[c] \in Sub
  /\ sub'[c].first <= Len(history)
  /\ sub'[c].phase = "asked" => sub'[c].first > 0
  /\ \/ SentKept(c)
     \/ Registered(c)
     \/ \E k \in DOMAIN flights[c] : flights[c][k].snap \in 1 .. Len(history) /\ Pushed(c, flights[c][k].snap)

\* Every step is a SubStep of every subscription.
LEMMA SubSteps ==
  ASSUME TypeOK, SnapshotInv, [Next]_vars, NEW c \in Subs
  PROVE  SubStep(c) /\ sub' \in [Subs -> Sub]
<1> USE LiveQueriesAssumption
<1>t. \A b \in Subs : sub[b] \in Sub
  BY FieldTypes
<1>1. ASSUME NEW b \in Subs, sub'[b] = sub[b]
      PROVE  SubStep(b)
  BY <1>t, <1>1 DEF SubStep, SentKept, SnapshotInv
<1>2. CASE sub' = sub
  BY <1>1, <1>2 DEF TypeOK
<1>3. ASSUME NEW b \in Subs, NEW d \in Sub, sub' = [sub EXCEPT ![b] = d],
             sub'[b] = d => SubStep(b)
      PROVE  SubStep(c) /\ sub' \in [Subs -> Sub]
  <2>1. sub' \in [Subs -> Sub] /\ sub'[b] = d /\ \A a \in Subs \ {b} : sub'[a] = sub[a]
    BY <1>3 DEF TypeOK
  <2> QED
    BY <1>1, <1>3, <2>1
<1>4. ASSUME NEW b \in Subs, NEW s \in Servers, Subscribe(b, s)
      PROVE  SubStep(c) /\ sub' \in [Subs -> Sub]
  <2> DEFINE d == [sub[b] EXCEPT !.phase = "asking", !.at = s]
  <2>1. sub' = [sub EXCEPT ![b] = d] /\ sub[b].phase = "new"
    BY <1>4 DEF Subscribe
  <2>2. /\ d \in Sub /\ d.phase = "asking" /\ d.first = sub[b].first
        /\ d.sent = sub[b].sent /\ d.hash = sub[b].hash
    BY <1>t DEF Sub
  <2> HIDE DEF d
  <2>3. sub'[b] = d => SubStep(b)
    BY <2>1, <2>2 DEF SubStep, SentKept, SnapshotInv
  <2> QED
    BY <1>3, <2>1, <2>2, <2>3
<1>5. ASSUME NEW b \in Subs, InitialSnapshot(b)
      PROVE  SubStep(c) /\ sub' \in [Subs -> Sub]
  <2>1. PICK n \in Visible : sub' = [sub EXCEPT ![b].phase = "asked", ![b].first = n]
    BY <1>5 DEF InitialSnapshot
  <2>2. n \in 1 .. Len(history) /\ n \in 0 .. MaxWrites + 1
    BY HistoryLemma
  <2> DEFINE d == [sub[b] EXCEPT !.phase = "asked", !.first = n]
  <2>3. sub' = [sub EXCEPT ![b] = d] /\ sub[b].phase = "asking"
    BY <1>5, <2>1 DEF InitialSnapshot
  <2>4. /\ d \in Sub /\ d.phase = "asked" /\ d.first = n
        /\ d.sent = sub[b].sent /\ d.hash = sub[b].hash
    BY <1>t, <2>2 DEF Sub
  <2> HIDE DEF d
  <2>5. sub'[b] = d => SubStep(b)
    BY <2>2, <2>3, <2>4 DEF SubStep, SentKept
  <2> QED
    BY <1>3, <2>3, <2>4, <2>5
<1>6. ASSUME NEW b \in Subs, Register(b)
      PROVE  SubStep(c) /\ sub' \in [Subs -> Sub]
  <2> DEFINE v == history[sub[b].first]
             q == <<[val |-> v, ver |-> sub[b].first]>>
             d == [sub[b] EXCEPT !.phase = "live", !.hash = v, !.since = Len(history), !.sent = q]
  <2>1. sub[b].phase = "asked" /\ sub' = [sub EXCEPT ![b] = d]
    BY <1>6 DEF Register
  <2>2. sub[b].first \in 1 .. Len(history)
    BY <2>1, FieldTypes, HistoryLemma DEF SnapshotInv
  <2>3. v \in Values /\ [val |-> v, ver |-> sub[b].first] \in Result
    BY <2>2, HistoryLemma DEF Result
  <2>4. q \in Seq(Result)
    BY <2>3
  <2>5. Len(history) \in 0 .. MaxWrites + 1
    BY HistoryLemma
  <2> HIDE DEF v, q
  <2>6. /\ d \in Sub /\ d.phase = "live" /\ d.first = sub[b].first /\ d.hash = v /\ d.sent = q
    BY <1>t, <2>3, <2>4, <2>5 DEF Sub
  <2> HIDE DEF d
  <2>7. sub'[b] = d => SubStep(b)
    BY <2>1, <2>2, <2>6 DEF SubStep, Registered, v, q
  <2> QED
    BY <1>3, <2>1, <2>6, <2>7
<1>7. ASSUME NEW b \in Subs, RegisterFails(b) \/ Unregister(b)
      PROVE  SubStep(c) /\ sub' \in [Subs -> Sub]
  <2>1. PICK ph \in {"refused", "closed"} :
          /\ sub' = [sub EXCEPT ![b].phase = ph]
          /\ ph = "refused" => sub[b].phase \in {"asking", "asked"}
          /\ ph = "closed" => sub[b].phase = "live"
    BY <1>7 DEF RegisterFails, Unregister
  <2> DEFINE d == [sub[b] EXCEPT !.phase = ph]
  <2>2. sub' = [sub EXCEPT ![b] = d]
    BY <2>1
  <2>3. /\ d \in Sub /\ d.phase = ph /\ d.first = sub[b].first
        /\ d.sent = sub[b].sent /\ d.hash = sub[b].hash
    BY <1>t DEF Sub
  <2> HIDE DEF d
  <2>4. sub'[b] = d => SubStep(b)
    BY <2>1, <2>3 DEF SubStep, SentKept, SnapshotInv
  <2> QED
    BY <1>3, <2>2, <2>3, <2>4
<1>8. ASSUME NEW b \in Subs, NEW k \in DOMAIN flights[b], Answer(b, k)
      PROVE  SubStep(c) /\ sub' \in [Subs -> Sub]
  <2> DEFINE n == flights[b][k].snap
             d == Compare(sub[b], n)
  <2>1. n \in 1 .. Len(history)
    BY <1>8, FieldTypes, HistoryLemma DEF Answer, SnapshotInv, Flight
  <2>2. sub' = [sub EXCEPT ![b] = d]
    BY <1>8 DEF Answer
  <2>3. /\ d \in Sub /\ d.phase = sub[b].phase /\ d.first = sub[b].first
        /\ \/ /\ sub[b].phase = "live" /\ history[n] # sub[b].hash
              /\ d.hash = history[n]
              /\ d.sent = Append(sub[b].sent, [val |-> history[n], ver |-> n])
           \/ d = sub[b]
    BY <2>1, CompareLemma
  <2> HIDE DEF d
  <2>4. sub'[b] = d => SubStep(b)
    BY <2>1, <2>3 DEF SubStep, SentKept, Pushed, SnapshotInv
  <2> QED
    BY <1>3, <2>2, <2>3, <2>4
<1>9. ASSUME NEW b \in Subs, NEW k \in DOMAIN flights[b], QueryFails(b, k)
      PROVE  SubStep(c) /\ sub' \in [Subs -> Sub]
  <2> DEFINE d == [sub[b] EXCEPT !.failed = TRUE]
  <2>1. sub' = [sub EXCEPT ![b] = d]
    BY <1>9 DEF QueryFails
  <2>2. /\ d \in Sub /\ d.phase = sub[b].phase /\ d.first = sub[b].first
        /\ d.sent = sub[b].sent /\ d.hash = sub[b].hash
    BY <1>t DEF Sub
  <2> HIDE DEF d
  <2>3. sub'[b] = d => SubStep(b)
    BY <2>2 DEF SubStep, SentKept, SnapshotInv
  <2> QED
    BY <1>3, <2>1, <2>2, <2>3
<1>10. CASE Next
  BY <1>2, <1>4, <1>5, <1>6, <1>7, <1>8, <1>9, <1>10
     DEF Next, Write, Disconnect, Reconnect, Change, Notified, RemoteChange, Fire, LoseMessage,
         FlightStep, Snapshot
<1> QED
  BY <1>2, <1>10 DEF vars
\* What any step does to the flights of one subscription.
Fired(c, t) ==
  /\ sub[c].phase = "live" /\ sub' = sub
  /\ SlowQueries \/ ~Flying(c, t)
  /\ flights'[c] = Append(flights[c], [table |-> t, snap |-> 0])

Read(c, k, n) ==
  /\ sub' = sub
  /\ flights[c][k].snap = 0 /\ n \in Visible
  /\ flights'[c] = [flights[c] EXCEPT ![k].snap = n]

FlightStepOf(c) ==
  /\ flights'[c] \in Seq(Flight)
  /\ \A k \in DOMAIN flights'[c] : flights'[c][k].snap <= Len(history)
  /\ \/ flights'[c] = flights[c] /\ (SentKept(c) \/ Registered(c))
     \/ \E t \in Tables : Fired(c, t)
     \/ \E k \in DOMAIN flights[c] : \E n \in 1 .. Len(history) : Read(c, k, n)
     \/ \E k \in DOMAIN flights[c] : flights'[c] = RemoveAt(flights[c], k)

\* A flight that is removed leaves flights that were there.
LEMMA RemovedFlight ==
  ASSUME TypeOK, SnapshotInv, NEW c \in Subs, NEW k \in DOMAIN flights[c]
  PROVE  /\ RemoveAt(flights[c], k) \in Seq(Flight)
         /\ \A j \in DOMAIN RemoveAt(flights[c], k) : RemoveAt(flights[c], k)[j].snap <= Len(history)
<1> DEFINE S == {f \in Flight : f.snap <= Len(history)}
           q == flights[c]
<1>1. q \in Seq(Flight) /\ k \in 1 .. Len(q) /\ DOMAIN q = 1 .. Len(q)
  BY FieldTypes
<1>2. \A i \in 1 .. Len(q) : q[i] \in S
  BY <1>1, ElementOfSeq DEF SnapshotInv
<1> HIDE DEF S, q
<1>3. q \in Seq(S)
  BY <1>1, <1>2, LenProperties, SeqDef
<1>4. RemoveAt(q, k) \in Seq(S)
  BY <1>1, <1>3, RemoveAtLemma
<1>5. \A j \in DOMAIN RemoveAt(q, k) : RemoveAt(q, k)[j] \in S
  BY <1>4, LenProperties, ElementOfSeq
<1>6. RemoveAt(q, k) \in Seq(Flight)
  BY <1>1, RemoveAtLemma
<1> QED
  BY <1>5, <1>6 DEF S, q

\* Every step is a FlightStepOf every subscription.
LEMMA FlightSteps ==
  ASSUME TypeOK, SnapshotInv, [Next]_vars, NEW c \in Subs
  PROVE  FlightStepOf(c) /\ flights' \in [Subs -> Seq(Flight)]
<1> USE LiveQueriesAssumption
<1>t. \A b \in Subs : /\ flights[b] \in Seq(Flight)
                      /\ DOMAIN flights[b] = 1 .. Len(flights[b])
  BY FieldTypes
<1>s. \A k \in DOMAIN flights[c] : flights[c][k].snap <= Len(history)
  BY DEF SnapshotInv
<1>1. ASSUME flights' = flights, sub' = sub \/ SentKept(c) \/ Registered(c)
      PROVE  FlightStepOf(c) /\ flights' \in [Subs -> Seq(Flight)]
  BY <1>t, <1>s, <1>1 DEF FlightStepOf, SentKept, TypeOK
<1>2. ASSUME NEW s \in Servers, NEW t \in Tables, Fire(s, t)
      PROVE  FlightStepOf(c) /\ flights' \in [Subs -> Seq(Flight)]
  <2> DEFINE f == [table |-> t, snap |-> 0]
  <2>1. /\ sub' = sub
        /\ flights' = [b \in Subs |-> IF sub[b].phase = "live" /\ sub[b].at = s
                                        THEN Append(flights[b], f) ELSE flights[b]]
        /\ SlowQueries \/ \A b \in Subs : sub[b].at = s => ~Flying(b, t)
    BY <1>2 DEF Fire
  <2>2. f \in Flight /\ f.snap = 0
    BY HistoryLemma DEF Flight
  <2> HIDE DEF f
  <2>3. \A b \in Subs : Append(flights[b], f) \in Seq(Flight)
    BY <1>t, <2>2
  <2>4. flights' \in [Subs -> Seq(Flight)]
    BY <1>t, <2>1, <2>3
  <2>5. CASE sub[c].phase = "live" /\ sub[c].at = s
    <3>1. flights'[c] = Append(flights[c], f)
      BY <2>1, <2>5
    <3>2. /\ Len(flights'[c]) = Len(flights[c]) + 1
          /\ \A i \in 1 .. Len(flights[c]) : flights'[c][i] = flights[c][i]
          /\ flights'[c][Len(flights[c]) + 1] = f
      BY <1>t, <2>2, <3>1, AppendProperties
    <3>3. DOMAIN flights'[c] = 1 .. Len(flights[c]) + 1 /\ Len(flights[c]) \in Nat
      BY <1>t, <2>4, <3>2
    <3>4. \A k \in DOMAIN flights'[c] : flights'[c][k].snap <= Len(history)
      <4>1. 0 <= Len(history)
        BY HistoryLemma
      <4>2. ASSUME NEW k \in DOMAIN flights'[c] PROVE k \in DOMAIN flights[c] \/ k = Len(flights[c]) + 1
        BY <1>t, <3>3
      <4> QED
        BY <1>t, <1>s, <2>2, <3>2, <4>1, <4>2
    <3>5. Fired(c, t)
      BY <2>1, <2>5, <3>1 DEF Fired, f
    <3> QED
      BY <2>4, <3>4, <3>5 DEF FlightStepOf
  <2>6. CASE ~(sub[c].phase = "live" /\ sub[c].at = s)
    <3>1. flights'[c] = flights[c]
      BY <2>1, <2>6
    <3> QED
      BY <1>t, <1>s, <2>1, <2>4, <3>1 DEF FlightStepOf, SentKept
  <2> QED
    BY <2>5, <2>6
<1>3. ASSUME NEW b \in Subs, NEW k \in DOMAIN flights[b], Snapshot(b, k)
      PROVE  FlightStepOf(c) /\ flights' \in [Subs -> Seq(Flight)]
  <2>1. PICK n \in Visible : flights' = [flights EXCEPT ![b][k].snap = n]
    BY <1>3 DEF Snapshot
  <2>2. n \in 1 .. Len(history) /\ Len(history) \in Nat
    BY HistoryLemma
  <2>3. /\ flights' \in [Subs -> Seq(Flight)]
        /\ DOMAIN flights'[b] = DOMAIN flights[b]
        /\ flights'[b][k].snap = n
        /\ \A j \in DOMAIN flights[b] \ {k} : flights'[b][j] = flights[b][j]
        /\ \A a \in Subs \ {b} : flights'[a] = flights[a]
    BY <2>1, <2>2, FlightLemma
  <2>4. sub' = sub
    BY <1>3 DEF Snapshot
  <2>5. CASE c # b
    BY <1>t, <1>s, <2>3, <2>4, <2>5 DEF FlightStepOf, SentKept
  <2>6. CASE c = b
    <3>1. Read(b, k, n)
      BY <1>3, <2>1, <2>4 DEF Read, Snapshot, TypeOK
    <3>2. \A j \in DOMAIN flights'[b] : flights'[b][j].snap <= Len(history)
      BY <1>s, <2>2, <2>3, <2>6
    <3> QED
      BY <2>2, <2>3, <2>6, <3>1, <3>2 DEF FlightStepOf
  <2> QED
    BY <2>5, <2>6
<1>4. ASSUME NEW b \in Subs, NEW k \in DOMAIN flights[b], Answer(b, k) \/ QueryFails(b, k)
      PROVE  FlightStepOf(c) /\ flights' \in [Subs -> Seq(Flight)]
  <2>1. flights' = [flights EXCEPT ![b] = RemoveAt(@, k)]
    BY <1>4 DEF Answer, QueryFails
  <2>2. /\ RemoveAt(flights[b], k) \in Seq(Flight)
        /\ \A j \in DOMAIN RemoveAt(flights[b], k) : RemoveAt(flights[b], k)[j].snap <= Len(history)
    BY RemovedFlight
  <2>3. flights' \in [Subs -> Seq(Flight)]
    BY <2>1, <2>2 DEF TypeOK
  <2>4. CASE c # b
    <3>1. flights'[c] = flights[c] /\ sub'[c] = sub[c]
      BY <1>4, <2>1, <2>4 DEF Answer, QueryFails, TypeOK
    <3> QED
      BY <1>t, <1>s, <2>3, <3>1 DEF FlightStepOf, SentKept
  <2>5. CASE c = b
    <3>1. flights'[c] = RemoveAt(flights[c], k)
      BY <2>1, <2>5 DEF TypeOK
    <3> QED
      BY <2>2, <2>3, <2>5, <3>1 DEF FlightStepOf
  <2> QED
    BY <2>4, <2>5
<1>5. SubStep(c)
  BY SubSteps
<1>6. ASSUME NEW b \in Subs,
             \/ \E s \in Servers : Subscribe(b, s)
             \/ InitialSnapshot(b) \/ Register(b) \/ RegisterFails(b) \/ Unregister(b)
      PROVE  FlightStepOf(c) /\ flights' \in [Subs -> Seq(Flight)]
  <2>1. flights' = flights
    BY <1>6 DEF Subscribe, InitialSnapshot, Register, RegisterFails, Unregister
  <2>2. ~(sub[b].phase = "live" /\ sub'[b].phase = "live")
    <3>1. sub[b] \in Sub /\ sub \in [Subs -> Sub]
      BY DEF TypeOK
    <3>2. CASE \E s \in Servers : Subscribe(b, s)
      BY <3>1, <3>2 DEF Subscribe, Sub
    <3>3. CASE InitialSnapshot(b)
      BY <3>1, <3>3 DEF InitialSnapshot, Sub
    <3>4. CASE Register(b)
      BY <3>4 DEF Register
    <3>5. CASE RegisterFails(b) \/ Unregister(b)
      BY <3>1, <3>5 DEF RegisterFails, Unregister, Sub
    <3> QED
      BY <1>6, <3>2, <3>3, <3>4, <3>5
  <2>3. c # b => sub'[c] = sub[c]
    BY <1>6 DEF Subscribe, InitialSnapshot, Register, RegisterFails, Unregister, TypeOK
  <2>4. SentKept(c) \/ Registered(c)
    BY <1>5, <2>2, <2>3 DEF SubStep, Pushed, SentKept
  <2> QED
    BY <1>1, <2>1, <2>4
<1>7. CASE Next
  BY <1>1, <1>2, <1>3, <1>4, <1>6, <1>7
     DEF Next, Write, Disconnect, Reconnect, Change, Notified, RemoteChange, LoseMessage, FlightStep
<1> QED
  BY <1>1, <1>7 DEF vars
\* The notifications, timers and mishaps keep their types.
LEMMA ServerTypes ==
  ASSUME TypeOK, [Next]_vars
  PROVE  /\ listening' \subseteq Servers
         /\ pg' \in [Servers -> [Tables -> Nat]]
         /\ forwarded' \in [Servers -> [Tables -> Nat]]
         /\ timer' \in [Servers -> [Tables -> BOOLEAN]]
         /\ mishaps' \in 0..MaxMishaps
<1> USE LiveQueriesAssumption
<1> DEFINE Goal == /\ listening' \subseteq Servers
                   /\ pg' \in [Servers -> [Tables -> Nat]]
                   /\ forwarded' \in [Servers -> [Tables -> Nat]]
                   /\ timer' \in [Servers -> [Tables -> BOOLEAN]]
                   /\ mishaps' \in 0..MaxMishaps
<1>1. ASSUME NEW f \in [Servers -> [Tables -> Nat]], NEW s \in Servers, NEW t \in Tables
      PROVE  /\ [f[s] EXCEPT ![t] = @ + 1] \in [Tables -> Nat]
             /\ f[s][t] > 0 => [f EXCEPT ![s][t] = @ - 1] \in [Servers -> [Tables -> Nat]]
  <2>1. f[s] \in [Tables -> Nat] /\ f[s][t] \in Nat
    OBVIOUS
  <2>2. [f[s] EXCEPT ![t] = @ + 1] \in [Tables -> Nat]
    BY <2>1
  <2>3. ASSUME f[s][t] > 0 PROVE [f EXCEPT ![s][t] = @ - 1] \in [Servers -> [Tables -> Nat]]
    <3>1. f[s][t] - 1 \in Nat
      BY <2>1, <2>3
    <3>2. [f[s] EXCEPT ![t] = @ - 1] \in [Tables -> Nat]
      BY <2>1, <3>1
    <3>3. [f EXCEPT ![s] = [f[s] EXCEPT ![t] = @ - 1]] \in [Servers -> [Tables -> Nat]]
      BY <3>2
    <3> QED
      BY <3>3
  <2> QED
    BY <2>2, <2>3
<1>2. ASSUME NEW s \in Servers, NEW t \in Tables, HandleChange(s, t)
      PROVE  timer' \in [Servers -> [Tables -> BOOLEAN]]
  BY <1>2 DEF HandleChange, TypeOK, Watched
<1>3. ASSUME Mishap PROVE mishaps' \in 0..MaxMishaps
  BY <1>3 DEF Mishap, TypeOK
<1>4. ASSUME NEW t \in Tables, NEW v \in Values, Write(t, v)
      PROVE  Goal
  <2>1. pg' \in [Servers -> [Tables -> Nat]]
    BY <1>1, <1>4 DEF Write, TypeOK
  <2> QED
    BY <1>4, <2>1 DEF Write, TypeOK
<1>5. ASSUME NEW s \in Servers, Disconnect(s) \/ Reconnect(s)
      PROVE  Goal
  <2>1. pg' \in [Servers -> [Tables -> Nat]]
    <3>1. [t \in Tables |-> 0] \in [Tables -> Nat]
      OBVIOUS
    <3>2. [pg EXCEPT ![s] = [t \in Tables |-> 0]] \in [Servers -> [Tables -> Nat]]
      BY <3>1 DEF TypeOK
    <3> QED
      BY <1>5, <3>2 DEF Disconnect, Reconnect, TypeOK
  <2> QED
    BY <1>3, <1>5, <2>1 DEF Disconnect, Reconnect, TypeOK
<1>6. ASSUME NEW s \in Servers, NEW t \in Tables, Notified(s, t)
      PROVE  Goal
  <2>1. forwarded' \in [Servers -> [Tables -> Nat]]
    BY <1>1, <1>6 DEF Notified, TypeOK
  <2>2. pg' \in [Servers -> [Tables -> Nat]]
    BY <1>1, <1>6 DEF Notified, TypeOK
  <2> QED
    BY <1>2, <1>6, <2>1, <2>2 DEF Notified, TypeOK
<1>7. ASSUME NEW s \in Servers, NEW t \in Tables, RemoteChange(s, t) \/ LoseMessage(s, t)
      PROVE  Goal
  <2>1. forwarded' \in [Servers -> [Tables -> Nat]]
    <3>1. forwarded \in [Servers -> [Tables -> Nat]]
      BY DEF TypeOK
    <3>2. forwarded[s][t] > 0 /\ forwarded' = [forwarded EXCEPT ![s][t] = @ - 1]
      BY <1>7 DEF RemoteChange, LoseMessage
    <3> QED
      BY <1>1, <3>1, <3>2
  <2>2. timer' \in [Servers -> [Tables -> BOOLEAN]]
    BY <1>2, <1>7 DEF RemoteChange, LoseMessage, TypeOK
  <2> QED
    BY <1>3, <1>7, <2>1, <2>2 DEF RemoteChange, LoseMessage, TypeOK
<1>8. ASSUME NEW s \in Servers, NEW t \in Tables, Fire(s, t)
      PROVE  Goal
  BY <1>8 DEF Fire, TypeOK
<1>9. CASE UNCHANGED <<listening, pg, forwarded, timer>> /\ (Mishap \/ mishaps' = mishaps)
  BY <1>3, <1>9 DEF TypeOK
<1>10. CASE Next
  BY <1>4, <1>5, <1>6, <1>7, <1>8, <1>9, <1>10
     DEF Next, Change, FlightStep, Snapshot, Answer, QueryFails, Subscribe, InitialSnapshot,
         Register, RegisterFails, Unregister
<1> QED
  BY <1>9, <1>10 DEF vars

\* Every action keeps the types, and queries read versions that exist.
LEMMA TypeStep == TypeOK /\ SnapshotInv /\ [Next]_vars => TypeOK' /\ SnapshotInv'
<1> SUFFICES ASSUME TypeOK, SnapshotInv, [Next]_vars PROVE TypeOK' /\ SnapshotInv'
  OBVIOUS
<1>1. /\ history' \in Seq(Values) /\ Len(history') \in Versions
      /\ Len(history') >= Len(history)
  BY HistoryGrows
<1>2. Len(history') \in Nat /\ Len(history) \in Nat
  BY HistoryLemma, HistoryGrows, LiveQueriesAssumption DEF Versions
<1>3. \A c \in Subs : SubStep(c) /\ FlightStepOf(c)
  BY SubSteps, FlightSteps
<1>4. sub' \in [Subs -> Sub] /\ flights' \in [Subs -> Seq(Flight)]
  <2>1. CASE Subs = {}
    <3>1. \/ sub' = sub /\ flights' = flights
          \/ DOMAIN sub' = Subs /\ DOMAIN flights' = Subs
      BY <2>1 DEF vars, Next, Write, Disconnect, Reconnect, Change, Notified, RemoteChange,
         LoseMessage, Fire, TypeOK
    <3> QED
      BY <2>1, <3>1 DEF TypeOK, vars, Next, Write, Disconnect, Reconnect, Change, Notified, RemoteChange,
         LoseMessage, Fire
  <2>2. CASE Subs # {}
    BY <2>2, SubSteps, FlightSteps
  <2> QED
    BY <2>1, <2>2
<1>5. TypeOK'
  BY <1>1, <1>4, ServerTypes DEF TypeOK
<1>6. SnapshotInv'
  <2>1. \A c \in Subs : sub'[c].first \in Int
    BY <1>4 DEF Sub
  <2>2. \A c \in Subs : sub'[c].first <= Len(history')
    BY <1>1, <1>2, <1>3, <2>1 DEF SubStep
  <2>3. \A c \in Subs : \A k \in DOMAIN flights'[c] : flights'[c][k].snap \in Int
    <3> SUFFICES ASSUME NEW c \in Subs, NEW k \in DOMAIN flights'[c]
                 PROVE  flights'[c][k].snap \in Int
      OBVIOUS
    <3>1. flights'[c] \in Seq(Flight)
      BY <1>4
    <3>2. flights'[c][k] \in Flight
      BY <3>1
    <3> QED
      BY <3>2 DEF Flight
  <2>4. \A c \in Subs : \A k \in DOMAIN flights'[c] : flights'[c][k].snap <= Len(history')
    BY <1>1, <1>2, <1>3, <2>3 DEF FlightStepOf
  <2> QED
    BY <1>3, <2>2, <2>4 DEF SnapshotInv, SubStep
<1> QED
  BY <1>5, <1>6

\* The first state has the types.
LEMMA TypeInit == Init => TypeOK /\ SnapshotInv
<1> SUFFICES ASSUME Init PROVE TypeOK /\ SnapshotInv
  OBVIOUS
<1> USE LiveQueriesAssumption
<1>1. history \in Seq(Values) /\ Len(history) = 1
  BY DEF Init
<1>2. sub \in [Subs -> Sub]
  <2>1. <<>> \in Seq(Result)
    OBVIOUS
  <2> QED
    BY <2>1 DEF Init, Sub
<1>3. \A c \in Subs : sub[c].first = 0 /\ sub[c].phase = "new" /\ flights[c] = <<>>
  BY DEF Init
<1>4. TypeOK
  <2>1. [t \in Tables |-> 0] \in [Tables -> Nat] /\ [t \in Tables |-> FALSE] \in [Tables -> BOOLEAN]
    OBVIOUS
  <2>2. /\ pg \in [Servers -> [Tables -> Nat]]
        /\ forwarded \in [Servers -> [Tables -> Nat]]
        /\ timer \in [Servers -> [Tables -> BOOLEAN]]
    BY <2>1 DEF Init
  <2>3. <<>> \in Seq(Flight)
    OBVIOUS
  <2>4. flights \in [Subs -> Seq(Flight)]
    BY <2>3 DEF Init
  <2>5. Len(history) \in Versions /\ listening \subseteq Servers /\ mishaps \in 0..MaxMishaps
    BY <1>1 DEF Init, Versions
  <2> QED
    BY <1>1, <1>2, <2>2, <2>4, <2>5 DEF TypeOK
<1>5. SnapshotInv
  BY <1>1, <1>3 DEF SnapshotInv
<1> QED
  BY <1>4, <1>5

\* The variables of LiveQueries have their types in every reachable state.
THEOREM TypeCorrect == Spec => []TypeOK
BY TypeInit, TypeStep, PTL DEF Spec

\* Queries only read versions that exist.
LEMMA SnapshotsExist == Spec => [](TypeOK /\ SnapshotInv)
BY TypeInit, TypeStep, PTL DEF Spec

-----------------------------------------------------------------------------
(* No result twice in a row.  The inductive invariant says in addition     *)
(* that a registered subscription has been sent something.                 *)

HasResult(c) == sub[c].phase \in {"live", "closed"} => sub[c].sent # <<>>

NoRepeatInv == NoRepeat /\ \A c \in Subs : HasResult(c)

\* The sequence a push makes.
LEMMA PushLemma ==
  ASSUME NEW S, NEW q \in Seq(S), NEW r \in S
  PROVE  /\ Append(q, r) # <<>> /\ Last(Append(q, r)) = r
         /\ Len(Append(q, r)) = Len(q) + 1 /\ Len(q) \in Nat
         /\ \A i \in 1 .. Len(q) : Append(q, r)[i] = q[i]
         /\ Append(q, r)[Len(q) + 1] = r
BY AppendProperties DEF Last

\* Every step keeps NoRepeatInv.
LEMMA NoRepeatStep == TypeOK /\ SnapshotInv /\ NoRepeatInv /\ [Next]_vars => NoRepeatInv'
<1> SUFFICES ASSUME TypeOK, SnapshotInv, NoRepeatInv, [Next]_vars,
                    NEW c \in Subs, sub'[c].phase \in {"live", "closed"}
             PROVE  /\ sub'[c].sent # <<>>
                    /\ Last(sub'[c].sent).val = sub'[c].hash
                    /\ \A i \in 1 .. (Len(sub'[c].sent) - 1) :
                         sub'[c].sent[i].val # sub'[c].sent[i + 1].val
  BY DEF NoRepeatInv, NoRepeat, HasResult
<1>1. SubStep(c)
  BY SubSteps
<1>2. CASE SentKept(c)
  BY <1>2 DEF SentKept, NoRepeatInv, NoRepeat, HasResult
<1>3. CASE Registered(c)
  BY <1>3 DEF Registered, Last
<1>4. ASSUME NEW n \in 1 .. Len(history), Pushed(c, n)
      PROVE  /\ sub'[c].sent # <<>>
             /\ Last(sub'[c].sent).val = sub'[c].hash
             /\ \A i \in 1 .. (Len(sub'[c].sent) - 1) :
                  sub'[c].sent[i].val # sub'[c].sent[i + 1].val
  <2> DEFINE q == sub[c].sent
             r == [val |-> history[n], ver |-> n]
             p == sub'[c].sent
  <2>1. q \in Seq(Result) /\ r \in Result /\ r.val = history[n]
    BY FieldTypes, HistoryLemma DEF Result
  <2>2. p = Append(q, r) /\ sub'[c].hash = history[n] /\ history[n] # sub[c].hash
    BY <1>4 DEF Pushed
  <2>3. /\ q # <<>> /\ Last(q).val = sub[c].hash
        /\ \A i \in 1 .. (Len(q) - 1) : q[i].val # q[i + 1].val
    BY <1>4 DEF Pushed, NoRepeatInv, NoRepeat, HasResult
  <2> HIDE DEF q, r, p
  <2>4. /\ p # <<>> /\ Last(p) = r /\ Len(p) = Len(q) + 1 /\ Len(q) \in Nat
        /\ \A i \in 1 .. Len(q) : p[i] = q[i]
        /\ p[Len(q) + 1] = r
    BY <2>1, <2>2, PushLemma
  <2>5. Len(q) > 0
    BY <2>1, <2>3
  <2>6. ASSUME NEW i \in 1 .. (Len(p) - 1) PROVE p[i].val # p[i + 1].val
    <3>1. CASE i < Len(q)
      <4>1. i \in 1 .. Len(q) /\ i + 1 \in 1 .. Len(q) /\ i \in 1 .. (Len(q) - 1)
        BY <2>4, <3>1
      <4> QED
        BY <2>3, <2>4, <4>1
    <3>2. CASE i = Len(q)
      <4>1. p[i] = q[Len(q)] /\ p[i + 1] = r
        BY <2>4, <2>5, <3>2
      <4> QED
        BY <2>1, <2>2, <2>3, <4>1 DEF Last
    <3> QED
      BY <2>4, <3>1, <3>2
  <2>7. sub'[c].hash = r.val
    BY <2>1, <2>2
  <2> QED
    BY <2>4, <2>6, <2>7 DEF p
<1> QED
  BY <1>1, <1>2, <1>3, <1>4 DEF SubStep

\* A client is never sent twice in a row what it already has, and what it has
\* is what the next result is compared with: for any number of servers, tables
\* and queries in flight.
THEOREM NeverRepeats == Spec => []NoRepeat
<1>1. Init => NoRepeatInv
  BY DEF Init, NoRepeatInv, NoRepeat, HasResult
<1>2. NoRepeatInv => NoRepeat
  BY DEF NoRepeatInv
<1> QED
  BY <1>1, <1>2, SnapshotsExist, NoRepeatStep, PTL DEF Spec
-----------------------------------------------------------------------------
(* What is sent was read: a result is what the query returned at the       *)
(* version its snapshot was taken of.                                      *)

WasRead(q) == \A i \in 1 .. Len(q) :
  q[i].ver \in 1 .. Len(history) /\ q[i].val = history[q[i].ver]

SentInv == NoRepeatInv /\ \A c \in Subs : WasRead(sub[c].sent)

\* Every step keeps SentInv.
LEMMA SentStep == TypeOK /\ SnapshotInv /\ SentInv /\ [Next]_vars => SentInv'
<1> SUFFICES ASSUME TypeOK, SnapshotInv, SentInv, [Next]_vars, NEW c \in Subs
             PROVE  \A i \in 1 .. Len(sub'[c].sent) :
                      /\ sub'[c].sent[i].ver \in 1 .. Len(history')
                      /\ sub'[c].sent[i].val = history'[sub'[c].sent[i].ver]
  BY NoRepeatStep DEF SentInv, WasRead
<1>1. SubStep(c)
  BY SubSteps
<1>2. /\ Len(history) \in Nat /\ Len(history') \in Nat /\ Len(history') >= Len(history)
      /\ \A n \in 1 .. Len(history) : n \in 1 .. Len(history') /\ history'[n] = history[n]
  BY HistoryLemma, HistoryGrows, LiveQueriesAssumption DEF Versions
<1>3. \A i \in 1 .. Len(sub[c].sent) :
        /\ sub[c].sent[i].ver \in 1 .. Len(history')
        /\ sub[c].sent[i].val = history'[sub[c].sent[i].ver]
  BY <1>2 DEF SentInv, WasRead
<1>4. CASE SentKept(c)
  BY <1>3, <1>4 DEF SentKept
<1>5. CASE Registered(c)
  BY <1>2, <1>5 DEF Registered
<1>6. ASSUME NEW n \in 1 .. Len(history), Pushed(c, n)
      PROVE  \A i \in 1 .. Len(sub'[c].sent) :
               /\ sub'[c].sent[i].ver \in 1 .. Len(history')
               /\ sub'[c].sent[i].val = history'[sub'[c].sent[i].ver]
  <2> DEFINE q == sub[c].sent
             r == [val |-> history[n], ver |-> n]
             p == sub'[c].sent
  <2>1. q \in Seq(Result) /\ r \in Result /\ r.val = history[n] /\ r.ver = n
    BY FieldTypes, HistoryLemma DEF Result
  <2>2. p = Append(q, r)
    BY <1>6 DEF Pushed
  <2>3. \A i \in 1 .. Len(q) : q[i].ver \in 1 .. Len(history') /\ q[i].val = history'[q[i].ver]
    BY <1>3
  <2> HIDE DEF q, r, p
  <2>4. /\ Len(p) = Len(q) + 1 /\ Len(q) \in Nat
        /\ \A i \in 1 .. Len(q) : p[i] = q[i]
        /\ p[Len(q) + 1] = r
    BY <2>1, <2>2, PushLemma
  <2>5. r.ver \in 1 .. Len(history') /\ r.val = history'[r.ver]
    BY <1>2, <2>1
  <2>6. \A i \in 1 .. Len(p) : p[i].ver \in 1 .. Len(history') /\ p[i].val = history'[p[i].ver]
    BY <2>3, <2>4, <2>5
  <2> QED
    BY <2>6 DEF p
<1> QED
  BY <1>1, <1>4, <1>5, <1>6 DEF SubStep

\* In every reachable state, what a client has is what its query returned.
LEMMA SentWasRead == Spec => [](TypeOK /\ SnapshotInv /\ SentInv)
<1>1. Init => SentInv
  BY DEF Init, SentInv, WasRead, NoRepeatInv, NoRepeat, HasResult
<1> QED
  BY <1>1, SnapshotsExist, SentStep, PTL DEF Spec

-----------------------------------------------------------------------------
(* Never back.  With one table, queries shorter than the debounce interval *)
(* and queries that read the primary, a subscription has at most one       *)
(* re-query in flight, and its snapshot is not older than what was sent.   *)

InOrder(c) ==
  /\ sub[c].phase \notin {"live", "closed"} => flights[c] = <<>>
  /\ Len(flights[c]) <= 1
  /\ sub[c].phase \in {"live", "closed"} =>
       \A k \in DOMAIN flights[c] :
         flights[c][k].snap > 0 => Last(sub[c].sent).ver <= flights[c][k].snap

OrderInv == NoGoingBack /\ \A c \in Subs : InOrder(c)

\* The subscription's part of a step: the versions sent keep growing.
LEMMA VersionsGrow ==
  ASSUME TypeOK, SnapshotInv, SentInv, OrderInv, [Next]_vars, NEW c \in Subs
  PROVE  \A i \in 1 .. (Len(sub'[c].sent) - 1) : sub'[c].sent[i].ver < sub'[c].sent[i + 1].ver
<1>1. SubStep(c)
  BY SubSteps
<1>2. CASE SentKept(c)
  BY <1>2 DEF SentKept, OrderInv, NoGoingBack
<1>3. CASE Registered(c)
  BY <1>3 DEF Registered
<1>4. ASSUME NEW k \in DOMAIN flights[c], flights[c][k].snap \in 1 .. Len(history),
             Pushed(c, flights[c][k].snap)
      PROVE  \A i \in 1 .. (Len(sub'[c].sent) - 1) : sub'[c].sent[i].ver < sub'[c].sent[i + 1].ver
  <2> DEFINE n == flights[c][k].snap
             q == sub[c].sent
             r == [val |-> history[n], ver |-> n]
             p == sub'[c].sent
  <2>1. q \in Seq(Result) /\ r \in Result /\ r.val = history[n] /\ r.ver = n
    BY <1>4, FieldTypes, HistoryLemma DEF Result
  <2>2. p = Append(q, r) /\ history[n] # sub[c].hash /\ sub[c].phase = "live"
    BY <1>4 DEF Pushed
  <2>3. q # <<>> /\ Last(q).val = sub[c].hash
    BY <2>2 DEF SentInv, NoRepeatInv, NoRepeat, HasResult
  <2>4. Last(q).ver <= n
    BY <1>4, <2>2 DEF OrderInv, InOrder
  <2>5. \A i \in 1 .. (Len(q) - 1) : q[i].ver < q[i + 1].ver
    BY DEF OrderInv, NoGoingBack
  <2>6. \A i \in 1 .. Len(q) : q[i].ver \in 1 .. Len(history) /\ q[i].val = history[q[i].ver]
    BY DEF SentInv, WasRead
  <2>7. n \in Nat
    BY <1>4
  <2> HIDE DEF q, r, p, n
  <2>8. /\ Len(p) = Len(q) + 1 /\ Len(q) \in Nat
        /\ \A i \in 1 .. Len(q) : p[i] = q[i]
        /\ p[Len(q) + 1] = r
    BY <2>1, <2>2, PushLemma
  <2>9. Len(q) > 0
    BY <2>1, <2>3
  <2>10. q[Len(q)].ver < r.ver
    <3>1. q[Len(q)].ver # n
      BY <2>2, <2>3, <2>6, <2>8, <2>9 DEF Last
    <3>2. q[Len(q)].ver \in Int /\ q[Len(q)].ver <= n
      BY <2>4, <2>6, <2>8, <2>9 DEF Last
    <3> QED
      BY <2>1, <2>7, <3>1, <3>2
  <2>11. ASSUME NEW i \in 1 .. (Len(p) - 1) PROVE p[i].ver < p[i + 1].ver
    <3>1. CASE i < Len(q)
      <4>1. i \in 1 .. Len(q) /\ i + 1 \in 1 .. Len(q) /\ i \in 1 .. (Len(q) - 1)
        BY <2>8, <3>1
      <4> QED
        BY <2>5, <2>8, <4>1
    <3>2. CASE i = Len(q)
      BY <2>8, <2>9, <2>10, <3>2
    <3> QED
      BY <2>8, <3>1, <3>2
  <2> QED
    BY <2>11 DEF p
<1> QED
  BY <1>1, <1>2, <1>3, <1>4 DEF SubStep

\* An index into a sequence of at most one element.
LEMMA OnlyOne ==
  ASSUME NEW n \in Nat, n <= 1, NEW k \in 1 .. n
  PROVE  n = 1 /\ k = 1
OBVIOUS

\* The flights' part of a step.
LEMMA OneFlight ==
  ASSUME ~SlowQueries, ~Replica, \A t, u \in Tables : t = u,
         TypeOK, SnapshotInv, SentInv, OrderInv, [Next]_vars, NEW c \in Subs
  PROVE  InOrder(c)'
<1>1. SubStep(c) /\ FlightStepOf(c)
  BY SubSteps, FlightSteps
<1>2. /\ flights[c] \in Seq(Flight) /\ Len(flights[c]) \in Nat
      /\ DOMAIN flights[c] = 1 .. Len(flights[c])
  BY FieldTypes
<1>3. InOrder(c)
  BY DEF OrderInv
<1>4. CASE flights'[c] = flights[c] /\ SentKept(c)
  BY <1>3, <1>4 DEF InOrder, SentKept
<1>5. CASE flights'[c] = flights[c] /\ Registered(c)
  <2>1. flights'[c] = <<>> /\ sub'[c].phase = "live"
    BY <1>3, <1>5 DEF InOrder, Registered
  <2> QED
    BY <2>1 DEF InOrder
<1>6. ASSUME NEW t \in Tables, Fired(c, t)
      PROVE  InOrder(c)'
  <2>1. flights[c] = <<>>
    <3> SUFFICES ASSUME flights[c] # <<>> PROVE FALSE
      OBVIOUS
    <3>1. 1 \in DOMAIN flights[c] /\ flights[c][1] \in Flight
      BY <1>2
    <3>2. flights[c][1].table = t
      BY <3>1 DEF Flight
    <3> QED
      BY <1>6, <3>1, <3>2 DEF Fired, Flying
  <2>2. flights'[c] = <<[table |-> t, snap |-> 0]>>
    BY <1>6, <2>1 DEF Fired
  <2>3. /\ Len(flights'[c]) = 1
        /\ \A k \in DOMAIN flights'[c] : flights'[c][k].snap = 0
    BY <2>2
  <2>4. sub'[c].phase = "live"
    BY <1>6 DEF Fired
  <2> QED
    BY <2>3, <2>4 DEF InOrder
<1>7. ASSUME NEW k \in DOMAIN flights[c], NEW n \in 1 .. Len(history), Read(c, k, n)
      PROVE  InOrder(c)'
  <2>1. n = Len(history) /\ sub' = sub /\ flights'[c] = [flights[c] EXCEPT ![k].snap = n]
    BY <1>7 DEF Read, Visible
  <2>2. flights[c][k] \in Flight /\ k \in 1 .. Len(flights[c])
    BY <1>2, FieldTypes
  <2>3. k = 1 /\ Len(flights[c]) = 1
    <3>1. Len(flights[c]) <= 1
      BY <1>3 DEF InOrder
    <3> QED
      BY <1>2, <2>2, <3>1, OnlyOne
  <2>4. Len(flights'[c]) = 1 /\ DOMAIN flights'[c] = {1} /\ flights'[c][1].snap = n
    <3> DEFINE e == [flights[c][k] EXCEPT !.snap = n]
    <3>1. e \in Flight /\ e.snap = n
      BY <2>2, HistoryLemma, LiveQueriesAssumption DEF Flight, Versions
    <3>2. flights'[c] = [flights[c] EXCEPT ![k] = e]
      BY <2>1
    <3> HIDE DEF e
    <3>3. /\ flights'[c] \in Seq(Flight) /\ Len(flights'[c]) = 1
          /\ flights'[c][1] = e
      BY <1>2, <2>2, <2>3, <3>1, <3>2, ExceptSeq
    <3>4. DOMAIN flights'[c] = 1 .. 1
      BY <3>3
    <3> QED
      BY <3>1, <3>3, <3>4
  <2>5. ASSUME sub[c].phase \in {"live", "closed"} PROVE Last(sub[c].sent).ver <= n
    <3> DEFINE q == sub[c].sent
    <3>1. q \in Seq(Result) /\ q # <<>>
      BY <2>5, FieldTypes DEF SentInv, NoRepeatInv, HasResult
    <3>2. \A i \in 1 .. Len(q) : q[i].ver \in 1 .. Len(history)
      BY DEF SentInv, WasRead
    <3> HIDE DEF q
    <3>3. Len(q) \in 1 .. Len(q)
      BY <3>1
    <3>4. q[Len(q)].ver \in 1 .. Len(history)
      BY <3>2, <3>3
    <3> QED
      BY <2>1, <3>4 DEF Last, q
  <2>6. sub[c].phase \in {"live", "closed"}
    <3>1. flights[c] # <<>>
      BY <2>3, EmptySeq
    <3>2. sub[c].phase \notin {"live", "closed"} => flights[c] = <<>>
      BY <1>3 DEF InOrder
    <3> QED
      BY <3>1, <3>2
  <2>7. sub'[c] = sub[c]
    BY <2>1
  <2> QED
    BY <2>4, <2>5, <2>6, <2>7 DEF InOrder
<1>8. ASSUME NEW k \in DOMAIN flights[c], flights'[c] = RemoveAt(flights[c], k)
      PROVE  InOrder(c)'
  <2>1. k \in 1 .. Len(flights[c]) /\ Len(flights[c]) = 1
    <3>1. Len(flights[c]) <= 1 /\ k \in 1 .. Len(flights[c])
      BY <1>2, <1>3 DEF InOrder
    <3> QED
      BY <1>2, <3>1, OnlyOne
  <2>2. flights'[c] \in Seq(Flight) /\ Len(flights'[c]) = 0
    <3>1. /\ RemoveAt(flights[c], k) \in Seq(Flight)
          /\ Len(RemoveAt(flights[c], k)) = Len(flights[c]) - 1
      BY <1>2, <2>1, RemoveAtLemma
    <3> QED
      BY <1>8, <2>1, <3>1
  <2>3. flights'[c] = <<>>
    BY <2>2
  <2> QED
    BY <2>3 DEF InOrder
<1> QED
  BY <1>1, <1>4, <1>5, <1>6, <1>7, <1>8 DEF FlightStepOf

\* With one tracked table, queries that are over when the next round begins,
\* and subscriptions that read the primary, a client is never taken back to an
\* older state of the database.  Each of the three is needed.
THEOREM NeverGoesBack ==
  ASSUME ~SlowQueries, ~Replica, \A t, u \in Tables : t = u
  PROVE  Spec => []NoGoingBack
<1>1. Init => OrderInv
  BY DEF Init, OrderInv, NoGoingBack, InOrder
<1>2. TypeOK /\ SnapshotInv /\ SentInv /\ OrderInv /\ [Next]_vars => OrderInv'
  <2> SUFFICES ASSUME TypeOK, SnapshotInv, SentInv, OrderInv, [Next]_vars PROVE OrderInv'
    OBVIOUS
  <2>1. NoGoingBack'
    BY VersionsGrow DEF NoGoingBack
  <2>2. \A c \in Subs : InOrder(c)'
    BY OneFlight
  <2> QED
    BY <2>1, <2>2 DEF OrderInv
<1>3. OrderInv => NoGoingBack
  BY DEF OrderInv
<1> QED
  BY <1>1, <1>2, <1>3, SentWasRead, PTL DEF Spec

-----------------------------------------------------------------------------
(* LiveQueries implements LiveView.                                        *)

Seen == [c \in Subs |-> PhaseSeen(sub[c])]
SentTo == [c \in Subs |-> sub[c].sent]

\* What holds of every state, and OrderInv where results come in sequence.
ViewInv == TypeOK /\ SnapshotInv /\ SentInv /\ (InSequence => OrderInv)

\* A step that changes one subscription changes one entry of what is seen.
LEMMA OneSeen ==
  ASSUME TypeOK, NEW b \in Subs, NEW d \in Sub, sub' = [sub EXCEPT ![b] = d]
  PROVE  /\ Seen' = [Seen EXCEPT ![b] = PhaseSeen(d)]
         /\ SentTo' = [SentTo EXCEPT ![b] = d.sent]
<1>1. \A c \in Subs : sub'[c] = IF c = b THEN d ELSE sub[c]
  BY DEF TypeOK
<1>2. \A c \in Subs : /\ Seen'[c] = IF c = b THEN PhaseSeen(d) ELSE Seen[c]
                      /\ SentTo'[c] = IF c = b THEN d.sent ELSE SentTo[c]
  BY <1>1 DEF Seen, SentTo
<1> QED
  BY <1>2 DEF Seen, SentTo

\* If it is seen in no other phase, and is sent nothing, nothing is seen.
LEMMA UnseenStep ==
  ASSUME TypeOK, NEW b \in Subs, NEW d \in Sub, sub' = [sub EXCEPT ![b] = d],
         PhaseSeen(d) = PhaseSeen(sub[b]), d.sent = sub[b].sent, history' = history
  PROVE  UNCHANGED <<history, Seen, SentTo>>
<1>1. [Seen EXCEPT ![b] = PhaseSeen(d)] = Seen /\ [SentTo EXCEPT ![b] = d.sent] = SentTo
  BY DEF Seen, SentTo
<1> QED
  BY <1>1, OneSeen

\* A result whose snapshot is not older than what the client has, and that
\* differs from it, is younger.
LEMMA Younger ==
  ASSUME ViewInv, InSequence, NEW c \in Subs, sub[c].phase = "live",
         NEW k \in DOMAIN flights[c], flights[c][k].snap \in 1 .. Len(history),
         history[flights[c][k].snap] # sub[c].hash
  PROVE  Last(sub[c].sent).ver < flights[c][k].snap
<1> DEFINE q == sub[c].sent
           n == flights[c][k].snap
<1>1. q \in Seq(Result) /\ q # <<>> /\ Last(q).val = sub[c].hash
  BY FieldTypes DEF ViewInv, SentInv, NoRepeatInv, NoRepeat, HasResult
<1>2. \A i \in 1 .. Len(q) : q[i].ver \in 1 .. Len(history) /\ q[i].val = history[q[i].ver]
  BY DEF ViewInv, SentInv, WasRead
<1>3. Last(q).ver <= n
  BY DEF ViewInv, OrderInv, InOrder
<1>4. n \in Int /\ history[n] # sub[c].hash
  OBVIOUS
<1> HIDE DEF q, n
<1>5. Len(q) \in 1 .. Len(q)
  BY <1>1
<1>6. Last(q).ver \in 1 .. Len(history) /\ Last(q).val = history[Last(q).ver]
  BY <1>2, <1>5 DEF Last
<1>7. Last(q).ver # n /\ Last(q).ver \in Int
  BY <1>1, <1>4, <1>6
<1> QED
  BY <1>3, <1>4, <1>7 DEF q, n

\* Register opens the view with what its query read.
LEMMA RegisterOpens ==
  ASSUME ViewInv, NEW b \in Subs, Register(b)
  PROVE  \E n \in DOMAIN history : View!Open(b, n)
<1>1. TypeOK /\ sub[b] \in Sub /\ sub[b].phase = "asked"
  BY FieldTypes DEF ViewInv, Register
<1>2. sub[b].first \in 1 .. Len(history)
  BY <1>1, HistoryLemma DEF ViewInv, SnapshotInv, Sub
<1>3. PICK n \in 1 .. Len(history) : n = sub[b].first
  BY <1>2
<1> DEFINE v == history[n]
           q == <<[val |-> v, ver |-> n]>>
           d == [sub[b] EXCEPT !.phase = "live", !.hash = v, !.since = Len(history), !.sent = q]
<1>4. sub' = [sub EXCEPT ![b] = d] /\ history' = history
  BY <1>3 DEF Register
<1>5. /\ v \in Values /\ [val |-> v, ver |-> n] \in Result /\ n \in DOMAIN history
      /\ Len(history) \in 0 .. MaxWrites + 1
  BY <1>1, HistoryLemma, LiveQueriesAssumption DEF Result
<1>6. q \in Seq(Result)
  BY <1>5
<1>7. q = <<View!Result(n)>>
  BY DEF View!Result
<1> HIDE DEF v, q
<1>8. d \in Sub /\ d.phase = "live" /\ d.sent = q
  BY <1>1, <1>5, <1>6 DEF Sub
<1> HIDE DEF d
<1>9. Seen' = [Seen EXCEPT ![b] = "open"] /\ SentTo' = [SentTo EXCEPT ![b] = q]
  BY <1>1, <1>4, <1>8, OneSeen DEF PhaseSeen
<1>10. Seen[b] = "waiting"
  BY <1>1 DEF Seen, PhaseSeen
<1>11. View!Open(b, n)
  BY <1>4, <1>7, <1>9, <1>10 DEF View!Open, Seen, SentTo
<1> QED
  BY <1>5, <1>11

\* An answer that differs is pushed; one that does not, or comes late, is not seen.
LEMMA AnswerPushes ==
  ASSUME ViewInv, NEW b \in Subs, NEW k \in DOMAIN flights[b], Answer(b, k)
  PROVE  \/ \E n \in DOMAIN history : View!Push(b, n)
         \/ UNCHANGED <<history, Seen, SentTo>>
<1>1. TypeOK /\ SnapshotInv
  BY DEF ViewInv
<1>2. flights[b][k].snap \in 1 .. Len(history)
  BY <1>1, FieldTypes, HistoryLemma DEF Answer, SnapshotInv, Flight
<1>3. PICK n \in 1 .. Len(history) : n = flights[b][k].snap
  BY <1>2
<1> DEFINE d == Compare(sub[b], n)
<1>4. /\ sub' = [sub EXCEPT ![b] = d] /\ history' = history
      /\ n \in DOMAIN history
  BY <1>1, <1>3, HistoryLemma DEF Answer
<1>5. /\ d \in Sub /\ d.phase = sub[b].phase
      /\ \/ /\ sub[b].phase = "live" /\ history[n] # sub[b].hash
            /\ d.sent = Append(sub[b].sent, View!Result(n))
         \/ d = sub[b]
  BY <1>1, CompareLemma DEF View!Result
<1> HIDE DEF d
<1>6. CASE d = sub[b]
  BY <1>1, <1>4, <1>5, <1>6, UnseenStep
<1>7. CASE /\ sub[b].phase = "live" /\ history[n] # sub[b].hash
           /\ d.sent = Append(sub[b].sent, View!Result(n))
  <2>1. Seen' = [Seen EXCEPT ![b] = "open"] /\ SentTo' = [SentTo EXCEPT ![b] = d.sent]
    BY <1>1, <1>4, <1>5, <1>7, OneSeen DEF PhaseSeen
  <2>2. Seen[b] = "open" /\ Seen' = Seen
    BY <1>7, <2>1 DEF Seen, PhaseSeen
  <2>3. sub[b].sent # <<>> /\ Last(sub[b].sent).val = sub[b].hash
    BY <1>7 DEF ViewInv, SentInv, NoRepeatInv, NoRepeat, HasResult
  <2>4. InSequence => Last(sub[b].sent).ver < n
    BY <1>3, <1>7, Younger
  <2>5. SentTo[b] = sub[b].sent
    BY DEF SentTo
  <2>6. \E latest \in {SentTo[b][Len(SentTo[b])]} : /\ latest.val # history[n]
                                                    /\ InSequence => latest.ver < n
    BY <1>7, <2>3, <2>4, <2>5 DEF Last
  <2>7. SentTo' = [SentTo EXCEPT ![b] = Append(@, View!Result(n))]
    BY <1>7, <2>1, <2>5
  <2>8. View!Push(b, n)
    BY <1>4, <2>2, <2>6, <2>7 DEF View!Push, Seen, SentTo
  <2> QED
    BY <1>4, <2>8
<1> QED
  BY <1>5, <1>6, <1>7

\* Every step is a step of the view, or none.
LEMMA ViewStep == ViewInv /\ [Next]_vars => [View!Next]_(View!vars)
<1> SUFFICES ASSUME ViewInv, [Next]_vars
             PROVE  View!Next \/ UNCHANGED <<history, Seen, SentTo>>
  BY DEF View!vars, Seen, SentTo
<1>1. TypeOK /\ \A b \in Subs : sub[b] \in Sub
  BY FieldTypes DEF ViewInv
<1>2. CASE history' = history /\ sub' = sub
  BY <1>2 DEF Seen, SentTo
<1>3. ASSUME NEW t \in Tables, NEW v \in Values, Write(t, v) PROVE View!Commit(v)
  BY <1>3 DEF Write, View!Commit
<1>4. ASSUME NEW b \in Subs, NEW s \in Servers, Subscribe(b, s)
      PROVE  UNCHANGED <<history, Seen, SentTo>>
  <2> DEFINE d == [sub[b] EXCEPT !.phase = "asking", !.at = s]
  <2>1. sub' = [sub EXCEPT ![b] = d] /\ sub[b].phase = "new" /\ history' = history
    BY <1>4 DEF Subscribe
  <2>2. d \in Sub /\ d.phase = "asking" /\ d.sent = sub[b].sent
    BY <1>1 DEF Sub
  <2> HIDE DEF d
  <2>3. PhaseSeen(d) = PhaseSeen(sub[b])
    BY <2>1, <2>2 DEF PhaseSeen
  <2> QED
    BY <1>1, <2>1, <2>2, <2>3, UnseenStep
<1>5. ASSUME NEW b \in Subs, InitialSnapshot(b)
      PROVE  UNCHANGED <<history, Seen, SentTo>>
  <2>1. PICK n \in Visible : sub' = [sub EXCEPT ![b].phase = "asked", ![b].first = n]
    BY <1>5 DEF InitialSnapshot
  <2>2. n \in 0 .. MaxWrites + 1
    BY <1>1, HistoryLemma, LiveQueriesAssumption
  <2> DEFINE d == [sub[b] EXCEPT !.phase = "asked", !.first = n]
  <2>3. sub' = [sub EXCEPT ![b] = d] /\ sub[b].phase = "asking" /\ history' = history
    BY <1>5, <2>1 DEF InitialSnapshot
  <2>4. d \in Sub /\ d.phase = "asked" /\ d.sent = sub[b].sent
    BY <1>1, <2>2 DEF Sub
  <2> HIDE DEF d
  <2>5. PhaseSeen(d) = PhaseSeen(sub[b])
    BY <2>3, <2>4 DEF PhaseSeen
  <2> QED
    BY <1>1, <2>3, <2>4, <2>5, UnseenStep
<1>6. ASSUME NEW b \in Subs, RegisterFails(b) \/ Unregister(b) PROVE View!Close(b)
  <2>1. PICK ph \in {"refused", "closed"} :
          /\ sub' = [sub EXCEPT ![b].phase = ph]
          /\ sub[b].phase \in {"asking", "asked", "live"} /\ history' = history
    BY <1>6 DEF RegisterFails, Unregister
  <2> DEFINE d == [sub[b] EXCEPT !.phase = ph]
  <2>2. sub' = [sub EXCEPT ![b] = d]
    BY <2>1
  <2>3. d \in Sub /\ d.phase = ph /\ d.sent = sub[b].sent
    BY <1>1 DEF Sub
  <2> HIDE DEF d
  <2>4. Seen' = [Seen EXCEPT ![b] = "over"] /\ SentTo' = [SentTo EXCEPT ![b] = SentTo[b]]
    BY <1>1, <2>2, <2>3, OneSeen DEF PhaseSeen, SentTo
  <2>5. Seen[b] \in {"waiting", "open"} /\ SentTo' = SentTo
    BY <2>1, <2>4 DEF Seen, PhaseSeen, SentTo
  <2> QED
    BY <2>1, <2>4, <2>5 DEF View!Close, Seen, SentTo
<1>7. ASSUME NEW b \in Subs, NEW k \in DOMAIN flights[b], QueryFails(b, k)
      PROVE  UNCHANGED <<history, Seen, SentTo>>
  <2> DEFINE d == [sub[b] EXCEPT !.failed = TRUE]
  <2>1. sub' = [sub EXCEPT ![b] = d] /\ history' = history
    BY <1>7 DEF QueryFails
  <2>2. d \in Sub /\ d.phase = sub[b].phase /\ d.sent = sub[b].sent
    BY <1>1 DEF Sub
  <2> HIDE DEF d
  <2>3. PhaseSeen(d) = PhaseSeen(sub[b])
    BY <2>2 DEF PhaseSeen
  <2> QED
    BY <1>1, <2>1, <2>2, <2>3, UnseenStep
<1>8. ASSUME NEW b \in Subs, Register(b) PROVE View!Next
  BY <1>8, RegisterOpens DEF View!Next
<1>9. ASSUME NEW b \in Subs, NEW k \in DOMAIN flights[b], Answer(b, k)
      PROVE  View!Next \/ UNCHANGED <<history, Seen, SentTo>>
  BY <1>9, AnswerPushes DEF View!Next
<1>10. CASE Next
  BY <1>2, <1>3, <1>4, <1>5, <1>6, <1>7, <1>8, <1>9, <1>10
     DEF Next, Disconnect, Reconnect, Change, Notified, RemoteChange, Fire, LoseMessage,
         FlightStep, Snapshot, View!Next
<1> QED
  BY <1>2, <1>10 DEF vars

\* LiveQueries implements LiveView, for any number of servers, tables,
\* subscriptions and queries in flight: each client is sent a first result and
\* then only results that differ from the one it has, none after it has left,
\* and none older than the one it has if results come in sequence.
THEOREM ImplementsView == Spec => ServesAsView
<1>1. Init => View!Init
  BY DEF Init, View!Init, PhaseSeen
<1>2. Init => (InSequence => OrderInv)
  BY DEF Init, OrderInv, NoGoingBack, InOrder
<1>3. /\ TypeOK /\ SnapshotInv /\ SentInv /\ (InSequence => OrderInv) /\ [Next]_vars
      => (InSequence => OrderInv)'
  <2>1. InSequence' = InSequence
    BY DEF InSequence
  <2>2. ASSUME InSequence, TypeOK, SnapshotInv, SentInv, OrderInv, [Next]_vars PROVE OrderInv'
    <3>1. NoGoingBack'
      BY <2>2, VersionsGrow DEF NoGoingBack
    <3>2. \A c \in Subs : InOrder(c)'
      BY <2>2, OneFlight DEF InSequence
    <3> QED
      BY <3>1, <3>2 DEF OrderInv
  <2> QED
    BY <2>1, <2>2
<1>4. Spec => [](TypeOK /\ SnapshotInv /\ SentInv /\ (InSequence => OrderInv))
  BY <1>2, <1>3, SentWasRead, PTL DEF Spec
<1>5. TypeOK /\ SnapshotInv /\ SentInv /\ (InSequence => OrderInv) /\ [Next]_vars
      => [View!Next]_(View!vars)
  BY ViewStep DEF ViewInv
<1> QED
  BY <1>1, <1>4, <1>5, PTL DEF Spec, ServesAsView, View!Spec
=============================================================================
