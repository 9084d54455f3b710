----------------------- MODULE ScheduledEvents_proofs -----------------------
(***************************************************************************)
(* Proofs about ScheduledEvents, for any number of events and servers and  *)
(* any NumRetries and BatchSize.  That an event has one holder, and what   *)
(* follows from it, assumes batches delivered within STALE_LOCK_SECONDS    *)
(* (~SlowBatches); the types and the invocation log assume nothing.        *)
(***************************************************************************)
EXTENDS ScheduledEvents, FiniteSetTheorems, TLAPS

-----------------------------------------------------------------------------
(* Type correctness.                                                       *)

\* Rows written by the actions are rows.
LEMMA RowTypes ==
  ASSUME NEW r \in Row
  PROVE  /\ Lock(r) \in Row /\ Unlock(r) \in Row
         /\ \A w : Outcome(r, w) \in Row
         /\ [r EXCEPT !.status = "deleted"] \in Row
         /\ [r EXCEPT !.due = TRUE] \in Row
         /\ [r EXCEPT !.stale = TRUE] \in Row
<1>1. /\ [r EXCEPT !.status = "delivered", !.tries = @ + 1, !.stale = FALSE] \in Row
      /\ [r EXCEPT !.status = "error", !.tries = @ + 1, !.stale = FALSE] \in Row
      /\ [r EXCEPT !.status = "scheduled", !.tries = @ + 1, !.stale = FALSE, !.due = FALSE] \in Row
  <2>1. r.tries + 1 \in Nat
    BY DEF Row
  <2>2. \A st \in Statuses : [r EXCEPT !.status = st, !.tries = @ + 1, !.stale = FALSE] \in Row
    BY <2>1 DEF Row
  <2>3. [r EXCEPT !.status = "scheduled", !.tries = @ + 1, !.stale = FALSE, !.due = FALSE] \in Row
    BY <2>1 DEF Row, Statuses
  <2> QED
    BY <2>2, <2>3 DEF Statuses
<1>2. \A w : Outcome(r, w) \in Row
  BY <1>1 DEF Outcome
<1>3. Lock(r) \in Row /\ Unlock(r) \in Row
  BY DEF Lock, Unlock, Row, Statuses
<1>4. /\ [r EXCEPT !.status = "deleted"] \in Row
      /\ [r EXCEPT !.due = TRUE] \in Row
      /\ [r EXCEPT !.stale = TRUE] \in Row
  BY DEF Row, Statuses
<1> QED
  BY <1>2, <1>3, <1>4

\* A server in a delivery has an event of its own.
LEMMA WorkingFacts ==
  ASSUME TypeOK, NEW s \in Servers, work[s].phase \in Phases
  PROVE  work[s] \in Working /\ work[s] # Idle /\ work[s].ev \in Events
BY DEF TypeOK, Working, Idle, Phases

\* Moving a delivery to its next phase.
LEMMA PhaseType ==
  ASSUME TypeOK, NEW s \in Servers, work[s] \in Working, NEW ph \in Phases
  PROVE  InPhase(s, ph) \in [Servers -> Working \cup {Idle}]
<1>1. [work[s] EXCEPT !.phase = ph] \in Working
  BY DEF Working
<1> QED
  BY <1>1 DEF InPhase, TypeOK

\* Every action keeps the types.
LEMMA TypeStep == TypeOK /\ [Next]_vars => TypeOK'
<1> SUFFICES ASSUME TypeOK, [Next]_vars PROVE TypeOK'
  OBVIOUS
<1>r. \A e \in Events : row[e] \in Row
  BY DEF TypeOK
<1>1. CASE UNCHANGED vars
  BY <1>1 DEF vars, TypeOK
<1>2. ASSUME NEW e \in Events, Create(e) \/ Delete(e) \/ Clock(e)
      PROVE  TypeOK'
  <2>1. row' \in [Events -> Row]
    <3>1. CASE Create(e)
      BY <3>1 DEF Create, TypeOK, Row, Statuses
    <3>2. /\ [row[e] EXCEPT !.status = "deleted"] \in Row
          /\ [row[e] EXCEPT !.due = TRUE] \in Row
          /\ [row[e] EXCEPT !.stale = TRUE] \in Row
      BY <1>r, RowTypes
    <3>3. CASE Delete(e)
      BY <3>2, <3>3 DEF Delete, TypeOK
    <3>4. CASE Clock(e)
      BY <3>2, <3>4 DEF Clock, BecomeDue, LockAges, TypeOK
    <3> QED
      BY <1>2, <3>1, <3>3, <3>4
  <2>2. logged' \in [Events -> Nat] /\ cancelled' \subseteq Events
    BY <1>2 DEF Create, Delete, Clock, BecomeDue, LockAges, TypeOK
  <2> QED
    BY <1>2, <2>1, <2>2 DEF Create, Delete, Clock, BecomeDue, LockAges, TypeOK
<1>3. ASSUME NEW s \in Servers, Start(s) \/ Stop(s) \/ Exit(s)
      PROVE  TypeOK'
  BY <1>3 DEF Start, Stop, Exit, TypeOK
<1>4. ASSUME NEW s \in Servers, Tick(s)
      PROVE  TypeOK'
  <2>1. PICK B \in Batches \ {{}} :
          /\ row' = [e \in Events |-> IF e \in B THEN Lock(row[e]) ELSE row[e]]
          /\ batch' = [batch EXCEPT ![s] = {[ev |-> e, tries |-> row[e].tries] : e \in B}]
    BY <1>4 DEF Tick
  <2>2. B \subseteq Events
    BY DEF Batches, Due
  <2>3. row' \in [Events -> Row]
    BY <1>r, <2>1, RowTypes
  <2>4. {[ev |-> e, tries |-> row[e].tries] : e \in B} \subseteq Claimed
    BY <1>r, <2>2 DEF Claimed, Row
  <2>5. batch' \in [Servers -> SUBSET Claimed]
    BY <2>1, <2>4 DEF TypeOK
  <2> QED
    BY <1>4, <2>3, <2>5 DEF Tick, TypeOK
<1>5. ASSUME NEW s \in Servers, Take(s)
      PROVE  TypeOK'
  <2>1. PICK c \in batch[s] :
          /\ batch' = [batch EXCEPT ![s] = @ \ {c}]
          /\ work' = [work EXCEPT ![s] = [phase |-> "posting", ev |-> c.ev, tries |-> c.tries]]
    BY <1>5 DEF Take
  <2>2. [phase |-> "posting", ev |-> c.ev, tries |-> c.tries] \in Working
    BY DEF TypeOK, Claimed, Working, Phases
  <2>3. work' \in [Servers -> Working \cup {Idle}]
    BY <2>1, <2>2 DEF TypeOK
  <2>4. batch' \in [Servers -> SUBSET Claimed]
    BY <2>1 DEF TypeOK
  <2> QED
    BY <1>5, <2>3, <2>4 DEF Take, TypeOK
<1>6. ASSUME NEW s \in Servers, Post(s)
      PROVE  TypeOK'
  <2>1. work[s] \in Working /\ work[s].ev \in Events
    BY <1>6, WorkingFacts DEF Post, Phases
  <2>2. InPhase(s, "ok") \in [Servers -> Working \cup {Idle}]
        /\ InPhase(s, "bad") \in [Servers -> Working \cup {Idle}]
    BY <2>1, PhaseType DEF Phases
  <2>3. posted' \in [Events -> Nat]
    BY <1>6, <2>1 DEF Post, TypeOK
  <2> QED
    BY <1>6, <2>1, <2>2, <2>3 DEF Post, TypeOK
<1>7. ASSUME NEW s \in Servers, LogInvocation(s)
      PROVE  TypeOK'
  <2>1. work[s] \in Working /\ work[s].ev \in Events
    BY <1>7, WorkingFacts DEF LogInvocation, Phases
  <2>2. \A ph \in Phases : InPhase(s, ph) \in [Servers -> Working \cup {Idle}]
    BY <2>1, PhaseType
  <2>3. work' \in [Servers -> Working \cup {Idle}]
    BY <1>7, <2>2 DEF LogInvocation, Phases
  <2>4. logged' \in [Events -> Nat]
    BY <1>7, <2>1 DEF LogInvocation, TypeOK
  <2> QED
    BY <1>7, <2>3, <2>4 DEF LogInvocation, TypeOK
<1>8. ASSUME NEW s \in Servers, Record(s)
      PROVE  TypeOK'
  <2>1. work[s].ev \in Events
    BY <1>8, WorkingFacts DEF Record, Phases
  <2>2. Outcome(row[work[s].ev], work[s]) \in Row
    BY <1>r, <2>1, RowTypes
  <2>3. row' \in [Events -> Row]
    BY <1>8, <2>2 DEF Record, SetRow, TypeOK
  <2> QED
    BY <1>8, <2>3 DEF Record, TypeOK
<1>9. ASSUME NEW s \in Servers, Release(s)
      PROVE  TypeOK'
  <2>1. work[s].ev \in Events
    BY <1>9, WorkingFacts DEF Release, Phases
  <2>2. Unlock(row[work[s].ev]) \in Row
    BY <1>r, <2>1, RowTypes
  <2>3. row' \in [Events -> Row]
    BY <1>9, <2>2 DEF Release, TypeOK
  <2> QED
    BY <1>9, <2>3 DEF Release, TypeOK
<1>10. ASSUME NEW s \in Servers, Mishap(s)
       PROVE  TypeOK'
  <2>1. CASE Throw(s)
    <3>1. work[s] \in Working
      BY <2>1, WorkingFacts DEF Throw
    <3>2. InPhase(s, "threw") \in [Servers -> Working \cup {Idle}]
      BY <3>1, PhaseType DEF Phases
    <3> QED
      BY <2>1, <3>2 DEF Throw, TypeOK
  <2>2. CASE ReleaseFails(s)
    BY <2>2 DEF ReleaseFails, TypeOK
  <2>3. CASE Crash(s)
    BY <2>3 DEF Crash, TypeOK
  <2> QED
    BY <1>10, <2>1, <2>2, <2>3 DEF Mishap
<1> QED
  BY <1>1, <1>2, <1>3, <1>4, <1>5, <1>6, <1>7, <1>8, <1>9, <1>10 DEF Next, Poll, Deliver

\* The variables of ScheduledEvents have their types in every reachable state.
THEOREM TypeCorrect == Spec => []TypeOK
<1>1. Init => TypeOK
  BY DEF Init, TypeOK, Row
<1> QED
  BY <1>1, TypeStep, PTL DEF Spec

-----------------------------------------------------------------------------
(* One holder.  Under ~SlowBatches what a server holds is locked and its   *)
(* lock is young, so neither a claim nor a release of somebody else can    *)
(* touch it: HoldingInv is inductive.                                      *)

\* An event somebody holds is locked, and its lock is young, or deleted.
LEMMA HeldIsLocked ==
  ASSUME HoldingInv, NEW s \in Servers, NEW e, Holds(s, e)
  PROVE  row[e].status = "deleted" \/ (row[e].status = "locked" /\ ~row[e].stale)
BY DEF HoldingInv, Holds, Locked

\* Steps that claim nothing: whoever still holds an event held it before, and
\* the event's row is untouched or deleted.
LEMMA HoldingKept ==
  ASSUME HoldingInv,
         \A s \in Servers : batch'[s] \subseteq batch[s],
         \A s \in Servers : \/ work'[s] = Idle
                            \/ /\ work[s] # Idle
                               /\ work'[s].ev = work[s].ev
                               /\ work'[s].tries = work[s].tries,
         \A s \in Servers : \A c \in batch'[s] :
           row'[c.ev] = row[c.ev] \/ row'[c.ev].status = "deleted",
         \A s \in Servers : work'[s] # Idle =>
           row'[work[s].ev] = row[work[s].ev] \/ row'[work[s].ev].status = "deleted"
  PROVE  HoldingInv'
<1>i. Idle' = Idle
  BY DEF Idle
<1>1. \A s \in Servers : \A c \in batch'[s] : Locked(c)'
  BY DEF HoldingInv, Locked
<1>2. ASSUME NEW s \in Servers, work'[s] # Idle
      PROVE  Locked(work[s])'
  <2>1. /\ Locked(work[s])
        /\ work'[s].ev = work[s].ev /\ work'[s].tries = work[s].tries
        /\ row'[work[s].ev] = row[work[s].ev] \/ row'[work[s].ev].status = "deleted"
    BY <1>2 DEF HoldingInv
  <2> QED
    BY <2>1 DEF Locked
<1>3. /\ \A s, t \in Servers : \A c \in batch'[s], d \in batch'[t] :
           c.ev = d.ev => s = t /\ c = d
      /\ \A s, t \in Servers :
           work'[s] # Idle /\ work'[t] # Idle /\ work'[s].ev = work'[t].ev => s = t
      /\ \A s, t \in Servers : \A c \in batch'[s] : work'[t] # Idle => c.ev # work'[t].ev
  BY DEF HoldingInv
<1> QED
  BY <1>i, <1>1, <1>2, <1>3 DEF HoldingInv

\* Nothing is held initially.
LEMMA HoldingInit == Init => HoldingInv
BY DEF Init, HoldingInv

\* A tick claims events that nobody holds.
LEMMA HoldingTick ==
  ASSUME TypeOK, HoldingInv, NEW s \in Servers, Tick(s)
  PROVE  HoldingInv'
<1> DEFINE Claim(B) == {[ev |-> e, tries |-> row[e].tries] : e \in B}
<1>1. PICK B \in Batches \ {{}} :
        /\ row' = [e \in Events |-> IF e \in B THEN Lock(row[e]) ELSE row[e]]
        /\ batch' = [batch EXCEPT ![s] = Claim(B)]
  BY DEF Tick
<1>2. B \subseteq Due /\ B \subseteq Events
  BY DEF Batches, Due
<1>3. \A e \in B : \A t \in Servers : ~Holds(t, e)
  BY <1>2, HeldIsLocked DEF Due
<1>4. batch[s] = {} /\ work[s] = Idle /\ work' = work
  BY DEF Tick
<1>5. \A t \in Servers : batch'[t] = IF t = s THEN Claim(B) ELSE batch[t]
  BY <1>1 DEF TypeOK
<1>6. ASSUME NEW e \in B
      PROVE  row'[e].status = "locked" /\ ~row'[e].stale /\ row'[e].tries = row[e].tries
  <2>1. row[e] \in Row /\ row'[e] = Lock(row[e])
    BY <1>1, <1>2 DEF TypeOK
  <2> QED
    BY <2>1 DEF Lock, Row
<1>7. \A c \in Claim(B) : c.ev \in B /\ c.tries = row[c.ev].tries
  OBVIOUS
<1>8. \A c, d \in Claim(B) : c.ev = d.ev => c = d
  OBVIOUS
<1> HIDE DEF Claim
<1>9. \A c \in Claim(B) : Locked(c)'
  BY <1>6, <1>7 DEF Locked
<1>10. ASSUME NEW t \in Servers, NEW c \in batch[t]
       PROVE  c.ev \notin B /\ c.ev \in Events
  BY <1>3 DEF Holds, TypeOK, Claimed
<1>11. ASSUME NEW t \in Servers, work[t] # Idle
       PROVE  work[t].ev \notin B /\ work[t].ev \in Events
  BY <1>3, <1>11 DEF Holds, TypeOK, Working
<1>12. ASSUME NEW t \in Servers, NEW c \in batch'[t]
       PROVE  Locked(c)'
  <2>1. CASE t = s
    BY <1>5, <1>9, <2>1
  <2>2. CASE t # s
    <3>1. c \in batch[t]
      BY <1>5, <2>2
    <3>2. Locked(c) /\ row'[c.ev] = row[c.ev]
      BY <1>1, <1>10, <3>1 DEF HoldingInv
    <3> QED
      BY <3>2 DEF Locked
  <2> QED
    BY <2>1, <2>2
<1>13. ASSUME NEW t \in Servers, work'[t] # Idle
       PROVE  Locked(work[t])'
  <2>1. Locked(work[t]) /\ row'[work[t].ev] = row[work[t].ev] /\ work'[t] = work[t]
    BY <1>1, <1>4, <1>11, <1>13 DEF HoldingInv
  <2> QED
    BY <2>1 DEF Locked
<1>14. \A t, u \in Servers : \A c \in batch'[t], d \in batch'[u] :
         c.ev = d.ev => t = u /\ c = d
  BY <1>5, <1>7, <1>8, <1>10 DEF HoldingInv
<1>15. /\ \A t, u \in Servers :
            work'[t] # Idle /\ work'[u] # Idle /\ work'[t].ev = work'[u].ev => t = u
       /\ \A t, u \in Servers : \A c \in batch'[t] : work'[u] # Idle => c.ev # work'[u].ev
  BY <1>4, <1>5, <1>7, <1>11 DEF HoldingInv
<1> QED
  BY <1>12, <1>13, <1>14, <1>15 DEF HoldingInv, Idle

\* The loop moves an event from the batch into work.
LEMMA HoldingTake ==
  ASSUME TypeOK, HoldingInv, NEW s \in Servers, Take(s)
  PROVE  HoldingInv'
<1>1. PICK c \in batch[s] :
        /\ batch' = [batch EXCEPT ![s] = @ \ {c}]
        /\ work' = [work EXCEPT ![s] = [phase |-> "posting", ev |-> c.ev, tries |-> c.tries]]
  BY DEF Take
<1>2. work[s] = Idle /\ row' = row
  BY DEF Take
<1>3. \A t \in Servers : batch'[t] = IF t = s THEN batch[s] \ {c} ELSE batch[t]
  BY <1>1 DEF TypeOK
<1>4. /\ work'[s] = [phase |-> "posting", ev |-> c.ev, tries |-> c.tries]
      /\ \A t \in Servers \ {s} : work'[t] = work[t]
  BY <1>1 DEF TypeOK
<1>5. work'[s].ev = c.ev /\ work'[s].tries = c.tries
  BY <1>4
<1>6. \A t \in Servers : \A d \in batch'[t] : Locked(d)'
  BY <1>2, <1>3 DEF HoldingInv, Locked
<1>7. ASSUME NEW t \in Servers, work'[t] # Idle
      PROVE  Locked(work[t])'
  <2>1. CASE t = s
    <3>1. Locked(c)
      BY DEF HoldingInv
    <3> QED
      BY <1>2, <1>5, <2>1, <3>1 DEF Locked
  <2>2. CASE t # s
    <3>1. work'[t] = work[t] /\ Locked(work[t])
      BY <1>4, <1>7, <2>2 DEF HoldingInv
    <3> QED
      BY <1>2, <3>1 DEF Locked
  <2> QED
    BY <2>1, <2>2
<1>8. \A t, u \in Servers : \A d \in batch'[t], x \in batch'[u] :
        d.ev = x.ev => t = u /\ d = x
  BY <1>3 DEF HoldingInv
<1>9. \A t, u \in Servers :
        work'[t] # Idle /\ work'[u] # Idle /\ work'[t].ev = work'[u].ev => t = u
  BY <1>4, <1>5 DEF HoldingInv
<1>10. ASSUME NEW t \in Servers, NEW u \in Servers, NEW d \in batch'[t], work'[u] # Idle
       PROVE  d.ev # work'[u].ev
  <2>1. d \in batch[t] /\ (t = s => d # c)
    BY <1>3
  <2>2. CASE u = s
    BY <1>5, <2>1, <2>2 DEF HoldingInv
  <2>3. CASE u # s
    BY <1>4, <1>10, <2>1, <2>3 DEF HoldingInv
  <2> QED
    BY <2>2, <2>3
<1> QED
  BY <1>6, <1>7, <1>8, <1>9, <1>10 DEF HoldingInv, Idle

\* When the event of a delivery is written, nobody else holds it.
LEMMA HoldingWrite ==
  ASSUME TypeOK, HoldingInv, NEW s \in Servers, work[s] # Idle,
         work' = [work EXCEPT ![s] = Idle], batch' = batch,
         \A e \in Events \ {work[s].ev} : row'[e] = row[e]
  PROVE  HoldingInv'
<1>1. \A t \in Servers : work'[t] = IF t = s THEN Idle ELSE work[t]
  BY DEF TypeOK
<1>2. \A t \in Servers : \A c \in batch[t] : c.ev \in Events /\ c.ev # work[s].ev
  BY DEF TypeOK, Claimed, HoldingInv
<1>3. \A t \in Servers : work[t] # Idle => work[t].ev \in Events
  BY DEF TypeOK, Working
<1>4. \A t \in Servers : work'[t] # Idle => work[t] # Idle /\ work[t].ev # work[s].ev
  BY <1>1 DEF HoldingInv
<1> QED
  BY <1>1, <1>2, <1>3, <1>4, HoldingKept

\* HoldingInv is inductive.
LEMMA HoldingStep ==
  ASSUME ~SlowBatches
  PROVE  TypeOK /\ HoldingInv /\ [Next]_vars => HoldingInv'
<1> SUFFICES ASSUME TypeOK, HoldingInv, [Next]_vars PROVE HoldingInv'
  OBVIOUS
<1>e. /\ \A s \in Servers : \A c \in batch[s] : c.ev \in Events
      /\ \A s \in Servers : work[s] # Idle => work[s].ev \in Events
  BY DEF TypeOK, Claimed, Working
<1>1. ASSUME UNCHANGED <<row, batch, work>>
      PROVE  HoldingInv'
  BY <1>1, HoldingKept
<1>2. ASSUME NEW e \in Events, Create(e) \/ Delete(e) \/ Clock(e)
      PROVE  HoldingInv'
  <2>1. batch' = batch /\ work' = work
    BY <1>2 DEF Create, Delete, Clock, BecomeDue, LockAges
  <2>2. \A x \in Events \ {e} : row'[x] = row[x]
    BY <1>2 DEF Create, Delete, Clock, BecomeDue, LockAges, TypeOK
  <2>3. CASE Delete(e)
    <3>1. row'[e].status = "deleted"
      BY <2>3 DEF Delete, TypeOK, Row
    <3> QED
      BY <1>e, <2>1, <2>2, <3>1, HoldingKept
  <2>4. CASE ~Delete(e)
    <3>1. \A s \in Servers : ~Holds(s, e)
      BY <1>2, <2>4, HeldIsLocked DEF Create, Clock, BecomeDue, LockAges
    <3>2. /\ \A s \in Servers : \A c \in batch[s] : c.ev # e
          /\ \A s \in Servers : work[s] # Idle => work[s].ev # e
      BY <3>1 DEF Holds
    <3> QED
      BY <1>e, <2>1, <2>2, <3>2, HoldingKept
  <2> QED
    BY <2>3, <2>4
<1>3. ASSUME NEW s \in Servers, Start(s) \/ Stop(s) \/ Exit(s)
      PROVE  HoldingInv'
  BY <1>1, <1>3 DEF Start, Stop, Exit
<1>4. ASSUME NEW s \in Servers, Tick(s) \/ Take(s)
      PROVE  HoldingInv'
  BY <1>4, HoldingTick, HoldingTake
<1>5. ASSUME NEW s \in Servers, Post(s) \/ LogInvocation(s) \/ Throw(s)
      PROVE  HoldingInv'
  <2>1. work[s].phase \in Phases
    BY <1>5 DEF Post, LogInvocation, Throw, Phases
  <2>2. work[s] \in Working /\ work[s] # Idle
    BY <2>1, WorkingFacts
  <2>3. row' = row /\ batch' = batch /\ \E ph : work' = InPhase(s, ph)
    BY <1>5 DEF Post, LogInvocation, Throw
  <2>4. work'[s].ev = work[s].ev /\ work'[s].tries = work[s].tries
    BY <2>2, <2>3 DEF InPhase, TypeOK, Working
  <2>5. \A t \in Servers \ {s} : work'[t] = work[t]
    BY <2>3 DEF InPhase, TypeOK
  <2> QED
    BY <2>2, <2>3, <2>4, <2>5, HoldingKept
<1>6. ASSUME NEW s \in Servers, Record(s) \/ Release(s) \/ ReleaseFails(s)
      PROVE  HoldingInv'
  <2>1. work[s].phase \in Phases
    BY <1>6 DEF Record, Release, ReleaseFails, Phases
  <2>2. work[s] # Idle /\ work[s].ev \in Events
    BY <2>1, WorkingFacts
  <2>3. /\ work' = [work EXCEPT ![s] = Idle] /\ batch' = batch
        /\ \A e \in Events \ {work[s].ev} : row'[e] = row[e]
    BY <1>6 DEF Record, Release, ReleaseFails, SetRow, TypeOK
  <2> QED
    BY <2>2, <2>3, HoldingWrite
<1>7. ASSUME NEW s \in Servers, Crash(s)
      PROVE  HoldingInv'
  <2>1. /\ \A t \in Servers : batch'[t] \subseteq batch[t]
        /\ \A t \in Servers : work'[t] = Idle \/ work'[t] = work[t]
        /\ row' = row
    BY <1>7 DEF Crash, TypeOK
  <2> QED
    BY <2>1, HoldingKept
<1> QED
  BY <1>1, <1>2, <1>3, <1>4, <1>5, <1>6, <1>7 DEF Next, Poll, Deliver, Mishap, vars

\* HoldingInv holds in every reachable state.
LEMMA HoldingAlways ==
  ASSUME ~SlowBatches
  PROVE  Spec => [](TypeOK /\ HoldingInv)
<1>1. Init => TypeOK
  BY DEF Init, TypeOK, Row
<1>2. TypeOK /\ HoldingInv /\ [Next]_vars => TypeOK' /\ HoldingInv'
  BY TypeStep, HoldingStep
<1> QED
  BY <1>1, <1>2, HoldingInit, PTL DEF Spec

\* No two servers work on the same event, as long as no batch outlives the
\* lock timeout.
THEOREM OneHolderOnly ==
  ASSUME ~SlowBatches
  PROVE  Spec => []OneHolder
<1>1. HoldingInv => OneHolder
  BY DEF HoldingInv, OneHolder, Holds
<1> QED
  BY <1>1, HoldingAlways, PTL

-----------------------------------------------------------------------------
(* The life of an event: retries are counted on the row the claim saw.     *)

\* What recording an outcome does to the row of an event that still exists,
\* under HoldingInv: the claim's tries are the row's.
LEMMA RecordOutcome ==
  ASSUME TypeOK, HoldingInv, NEW s \in Servers, Record(s),
         NEW e, e = work[s].ev
  PROVE  /\ e \in Events
         /\ \A x \in Events \ {e} : row'[x] = row[x]
         /\ row[e].status # "locked" => row' = row
         /\ row[e].status = "locked" =>
              /\ row'[e].tries = row[e].tries + 1
              /\ row'[e].status =
                   IF work[s].phase = "okLogged" THEN "delivered"
                   ELSE IF row[e].tries + 1 > NumRetries THEN "error" ELSE "scheduled"
<1>1. work[s] # Idle /\ e \in Events
  BY WorkingFacts DEF Record, Phases
<1>2. Locked(work[s])
  BY <1>1 DEF HoldingInv
<1>3. \A x \in Events \ {e} : row'[x] = row[x]
  BY DEF Record, SetRow, TypeOK
<1>4. row[e].status # "locked" => row' = row
  BY <1>2 DEF Locked, Record, SetRow, Exists, Statuses
<1>5. ASSUME row[e].status = "locked"
      PROVE  /\ row'[e].tries = row[e].tries + 1
             /\ row'[e].status =
                  IF work[s].phase = "okLogged" THEN "delivered"
                  ELSE IF row[e].tries + 1 > NumRetries THEN "error" ELSE "scheduled"
  <2>1. work[s].tries = row[e].tries
    BY <1>2, <1>5 DEF Locked
  <2>2. row'[e] = Outcome(row[e], work[s])
    BY <1>1, <1>5 DEF Record, SetRow, Exists, Statuses, TypeOK
  <2>3. row[e] \in Row
    BY <1>1 DEF TypeOK
  <2>4. Exhausted(work[s]) <=> row[e].tries + 1 > NumRetries
    BY <2>1 DEF Exhausted
  <2> QED
    BY <2>2, <2>3, <2>4 DEF Outcome, Row
<1> QED
  BY <1>1, <1>3, <1>4, <1>5

\* The steps that leave the status (up to the lock) and the tries of every row.
LEMMA QuietSteps ==
  ASSUME TypeOK, [Next]_vars,
         \A e \in Events : ~Create(e) /\ ~Delete(e),
         \A s \in Servers : ~Record(s)
  PROVE  \A e \in Events :
           /\ row'[e].tries = row[e].tries
           /\ \/ row'[e].status = row[e].status
              \/ {row[e].status, row'[e].status} = {"scheduled", "locked"}
<1>r. \A e \in Events : row[e] \in Row
  BY DEF TypeOK
<1>1. CASE UNCHANGED row
  BY <1>1
<1>2. ASSUME NEW x \in Events, Clock(x)
      PROVE  \A e \in Events : row'[e].tries = row[e].tries /\ row'[e].status = row[e].status
  BY <1>r, <1>2 DEF Clock, BecomeDue, LockAges, TypeOK, Row
<1>3. ASSUME NEW s \in Servers, Tick(s)
      PROVE  \A e \in Events :
               /\ row'[e].tries = row[e].tries
               /\ \/ row'[e].status = row[e].status
                  \/ row[e].status = "scheduled" /\ row'[e].status = "locked"
  <2>1. PICK B \in Batches :
          row' = [e \in Events |-> IF e \in B THEN Lock(row[e]) ELSE row[e]]
    BY <1>3 DEF Tick
  <2>2. \A e \in B : row[e].status \in {"scheduled", "locked"}
    BY DEF Batches, Due
  <2>3. \A e \in Events : Lock(row[e]).status = "locked" /\ Lock(row[e]).tries = row[e].tries
    BY <1>r DEF Lock, Row
  <2> QED
    BY <2>1, <2>2, <2>3
<1>4. ASSUME NEW s \in Servers, Release(s)
      PROVE  \A e \in Events :
               /\ row'[e].tries = row[e].tries
               /\ \/ row'[e].status = row[e].status
                  \/ row[e].status = "locked" /\ row'[e].status = "scheduled"
  BY <1>r, <1>4 DEF Release, Unlock, TypeOK, Row
<1>5. ASSUME NEW s \in Servers,
             Start(s) \/ Take(s) \/ Exit(s) \/ Stop(s) \/ Post(s) \/ LogInvocation(s) \/ Mishap(s)
      PROVE  UNCHANGED row
  BY <1>5 DEF Start, Take, Exit, Stop, Post, LogInvocation, Mishap, Throw, ReleaseFails, Crash
<1> QED
  BY <1>1, <1>2, <1>3, <1>4, <1>5 DEF Next, Poll, Deliver, vars

\* TriesInv is inductive relative to HoldingInv.
LEMMA TriesStep ==
  TypeOK /\ HoldingInv /\ TriesInv /\ [Next]_vars => TriesInv'
<1> SUFFICES ASSUME TypeOK, HoldingInv, TriesInv, [Next]_vars PROVE TriesInv'
  OBVIOUS
<1>r. NumRetries \in Nat /\ \A e \in Events : row[e] \in Row
  BY ScheduledEventsAssumption DEF TypeOK
<1>1. ASSUME NEW e \in Events, Create(e)
      PROVE  TriesInv'
  BY <1>r, <1>1 DEF Create, TriesInv, TypeOK
<1>2. ASSUME NEW e \in Events, Delete(e)
      PROVE  TriesInv'
  <2>1. row'[e].status = "deleted" /\ \A x \in Events \ {e} : row'[x] = row[x]
    BY <1>r, <1>2 DEF Delete, TypeOK, Row
  <2> QED
    BY <2>1 DEF TriesInv
<1>3. ASSUME NEW s \in Servers, Record(s)
      PROVE  TriesInv'
  <2>1. PICK e : e = work[s].ev
    OBVIOUS
  <2>2. e \in Events /\ \A x \in Events \ {e} : row'[x] = row[x]
    BY <1>3, <2>1, RecordOutcome
  <2>3. row'[e].status = "none" => row'[e].tries = 0
    BY <1>3, <2>1, <2>2, RecordOutcome DEF TriesInv
  <2>4. row'[e].status \in {"scheduled", "locked"} => row'[e].tries <= NumRetries
    <3>1. row[e].status = "locked" =>
            /\ row'[e].tries = row[e].tries + 1
            /\ row'[e].status \in {"scheduled", "locked"} => row[e].tries + 1 <= NumRetries
      <4>1. row[e].tries \in Nat
        BY <1>r, <2>2 DEF Row
      <4> QED
        BY <1>r, <1>3, <2>1, <4>1, RecordOutcome
    <3>2. row[e].status # "locked" => row' = row
      BY <1>3, <2>1, RecordOutcome
    <3> QED
      BY <2>2, <3>1, <3>2 DEF TriesInv
  <2> QED
    BY <2>2, <2>3, <2>4 DEF TriesInv
<1>4. CASE /\ \A e \in Events : ~Create(e) /\ ~Delete(e)
           /\ \A s \in Servers : ~Record(s)
  BY <1>4, QuietSteps DEF TriesInv
<1> QED
  BY <1>1, <1>2, <1>3, <1>4

\* A step that changes the life of one event.
LEMMA LifeUpdate ==
  ASSUME NEW e \in Events, NEW v,
         \A x \in Events \ {e} : row'[x] = row[x],
         LifeOf(e)' = v
  PROVE  [x \in Events |-> LifeOf(x)]' = [[x \in Events |-> LifeOf(x)] EXCEPT ![e] = v]
<1>1. \A x \in Events \ {e} : LifeOf(x)' = LifeOf(x)
  BY DEF LifeOf
<1> QED
  BY <1>1

\* Create, Delete and Record are the steps of the abstract life, the last one
\* as Succeed, Retry or GiveUp; a Record of a deleted event and every other
\* step stutter.
LEMMA LifeStep ==
  ASSUME TypeOK, TypeOK', HoldingInv, TriesInv, [Next]_vars
  PROVE  [Life!Next]_[e \in Events |-> LifeOf(e)]
<1> DEFINE lf == [e \in Events |-> LifeOf(e)]
<1>r. NumRetries \in Nat /\ \A e \in Events : row[e] \in Row /\ row'[e] \in Row
  BY ScheduledEventsAssumption DEF TypeOK
<1>l. \A e \in Events : lf[e] = LifeOf(e) /\ lf'[e] = LifeOf(e)'
  OBVIOUS
<1>1. ASSUME NEW e \in Events, Create(e)
      PROVE  Life!Create(e)
  <2>1. /\ row[e].status = "none" /\ row'[e].status = "scheduled" /\ row'[e].tries = 0
        /\ \A x \in Events \ {e} : row'[x] = row[x]
    BY <1>1 DEF Create, TypeOK
  <2>2. LifeOf(e) = [status |-> "none", tries |-> 0]
    BY <2>1 DEF LifeOf, TriesInv
  <2>3. LifeOf(e)' = [status |-> "scheduled", tries |-> 0]
    BY <2>1 DEF LifeOf
  <2>4. [LifeOf(e) EXCEPT !.status = "scheduled"] = [status |-> "scheduled", tries |-> 0]
    BY <2>2
  <2>5. lf' = [lf EXCEPT ![e] = [LifeOf(e) EXCEPT !.status = "scheduled"]]
    BY <2>1, <2>3, <2>4, LifeUpdate
  <2>6. LifeOf(e).status = "none"
    BY <2>2
  <2> QED
    BY <1>l, <2>5, <2>6 DEF Life!Create
<1>2. ASSUME NEW e \in Events, Delete(e)
      PROVE  Life!Delete(e)
  <2>1. /\ row[e].status \in Statuses /\ row'[e].status = "deleted"
        /\ row'[e].tries = row[e].tries
        /\ \A x \in Events \ {e} : row'[x] = row[x]
    BY <1>r, <1>2 DEF Delete, Exists, TypeOK, Row
  <2>2. LifeOf(e)' = [status |-> "deleted", tries |-> row[e].tries]
    BY <2>1 DEF LifeOf
  <2>3. LifeOf(e).status \in {"scheduled", "delivered", "error"}
    BY <2>1 DEF LifeOf, Statuses
  <2>4. [LifeOf(e) EXCEPT !.status = "deleted"] = [status |-> "deleted", tries |-> row[e].tries]
    BY DEF LifeOf
  <2>5. lf' = [lf EXCEPT ![e] = [LifeOf(e) EXCEPT !.status = "deleted"]]
    BY <2>1, <2>2, <2>4, LifeUpdate
  <2> QED
    BY <1>l, <2>3, <2>5 DEF Life!Delete
<1>3. ASSUME NEW s \in Servers, Record(s)
      PROVE  Life!Next \/ lf' = lf
  <2>1. PICK e : e = work[s].ev
    OBVIOUS
  <2>2. e \in Events /\ \A x \in Events \ {e} : row'[x] = row[x]
    BY <1>3, <2>1, RecordOutcome
  <2>3. CASE row[e].status # "locked"
    <3>1. row' = row
      BY <1>3, <2>1, <2>3, RecordOutcome
    <3> QED
      BY <3>1 DEF LifeOf
  <2>4. CASE row[e].status = "locked"
    <3>1. PICK n \in Nat : n = row[e].tries
      BY <1>r, <2>2 DEF Row
    <3>2. LifeOf(e) = [status |-> "scheduled", tries |-> n]
      BY <2>4, <3>1 DEF LifeOf
    <3>a. LifeOf(e).status = "scheduled" /\ LifeOf(e).tries = n
      BY <3>2
    <3>3. n <= NumRetries
      BY <2>2, <2>4, <3>1 DEF TriesInv
    <3>4. /\ row'[e].tries = n + 1
          /\ row'[e].status =
               IF work[s].phase = "okLogged" THEN "delivered"
               ELSE IF n + 1 > NumRetries THEN "error" ELSE "scheduled"
      BY <1>3, <2>1, <2>4, <3>1, RecordOutcome
    <3>5. CASE work[s].phase = "okLogged"
      <4>1. LifeOf(e)' = [status |-> "delivered", tries |-> n + 1]
        BY <3>4, <3>5 DEF LifeOf
      <4>2. [status |-> "delivered", tries |-> n + 1]
              = [status |-> "delivered", tries |-> LifeOf(e).tries + 1]
        BY <3>2
      <4>3. lf' = [lf EXCEPT ![e] = [status |-> "delivered", tries |-> LifeOf(e).tries + 1]]
        BY <2>2, <4>1, <4>2, LifeUpdate
      <4>4. Life!Succeed(e)
        BY <1>l, <2>2, <3>a, <4>3 DEF Life!Succeed
      <4> QED
        BY <2>2, <4>4 DEF Life!Next
    <3>6. CASE work[s].phase # "okLogged" /\ n + 1 > NumRetries
      <4>1. n = NumRetries
        BY <1>r, <3>3, <3>6
      <4>2. LifeOf(e)' = [status |-> "error", tries |-> NumRetries + 1]
        BY <3>4, <3>6, <4>1 DEF LifeOf
      <4>3. lf' = [lf EXCEPT ![e] = [status |-> "error", tries |-> NumRetries + 1]]
        BY <2>2, <4>2, LifeUpdate
      <4>4. Life!GiveUp(e)
        BY <1>l, <2>2, <3>2, <4>1, <4>3 DEF Life!GiveUp
      <4> QED
        BY <2>2, <4>4 DEF Life!Next
    <3>7. CASE work[s].phase # "okLogged" /\ ~(n + 1 > NumRetries)
      <4>1. n < NumRetries
        BY <1>r, <3>7
      <4>2. LifeOf(e)' = [status |-> "scheduled", tries |-> n + 1]
        BY <3>4, <3>7 DEF LifeOf
      <4>3. [LifeOf(e) EXCEPT !.tries = LifeOf(e).tries + 1]
              = [status |-> "scheduled", tries |-> n + 1]
        BY <3>2
      <4>4. lf' = [lf EXCEPT ![e] = [LifeOf(e) EXCEPT !.tries = LifeOf(e).tries + 1]]
        BY <2>2, <4>2, <4>3, LifeUpdate
      <4>5. Life!Retry(e)
        BY <1>l, <2>2, <3>a, <4>1, <4>4 DEF Life!Retry
      <4> QED
        BY <2>2, <4>5 DEF Life!Next
    <3> QED
      BY <3>5, <3>6, <3>7
  <2> QED
    BY <2>3, <2>4
<1>4. CASE /\ \A e \in Events : ~Create(e) /\ ~Delete(e)
           /\ \A s \in Servers : ~Record(s)
  <2>1. \A e \in Events : LifeOf(e)' = LifeOf(e)
    BY <1>4, QuietSteps DEF LifeOf
  <2> QED
    BY <2>1
<1> QED
  BY <1>1, <1>2, <1>3, <1>4 DEF Life!Next

\* TriesInv holds in every reachable state.
LEMMA TriesAlways ==
  ASSUME ~SlowBatches
  PROVE  Spec => [](TypeOK /\ HoldingInv /\ TriesInv)
<1>1. Init => TriesInv
  BY ScheduledEventsAssumption DEF Init, TriesInv
<1> QED
  BY <1>1, TriesStep, HoldingAlways, PTL DEF Spec

\* The pollers implement the life ScheduledEventLife promises, as long as no
\* batch outlives the lock timeout.
THEOREM ImplementsLife ==
  ASSUME ~SlowBatches
  PROVE  Spec => RefinesLife
<1>1. Init => Life!Init
  BY DEF Init, Life!Init, LifeOf
<1>2. /\ TypeOK /\ HoldingInv /\ TriesInv
      /\ (TypeOK /\ HoldingInv /\ TriesInv)'
      /\ [Next]_vars
      => [Life!Next]_[e \in Events |-> LifeOf(e)]
  BY LifeStep
<1> QED
  BY <1>1, <1>2, TriesAlways, PTL DEF Spec, RefinesLife, Life!Spec

-----------------------------------------------------------------------------
(* A cancelled event stays cancelled: nobody held it when it was deleted,  *)
(* and a deleted row is never claimed again.                               *)

CancelInv ==
  \A e \in cancelled :
    row[e].status = "deleted" /\ \A s \in Servers : ~Holds(s, e)

\* CancelInv is inductive relative to HoldingInv.
LEMMA CancelStep ==
  ASSUME ~SlowBatches
  PROVE  TypeOK /\ HoldingInv /\ CancelInv /\ [Next]_vars => CancelInv'
<1> SUFFICES ASSUME TypeOK, HoldingInv, CancelInv, [Next]_vars PROVE CancelInv'
  OBVIOUS
<1>e. /\ \A e \in Events : row[e] \in Row
      /\ cancelled \subseteq Events
      /\ \A s \in Servers : work[s] # Idle => work[s].ev \in Events
  BY DEF TypeOK, Working
<1>i. Idle' = Idle
  BY DEF Idle
\* Steps that only move or drop what is held.
<1>0. ASSUME cancelled' = cancelled,
             \A e \in cancelled : row'[e] = row[e],
             \A s \in Servers : batch'[s] \subseteq batch[s],
             \A s \in Servers : \/ work'[s] = Idle
                                \/ work[s] # Idle /\ work'[s].ev = work[s].ev
                                \/ \E c \in batch[s] : work'[s].ev = c.ev
      PROVE  CancelInv'
  BY <1>0, <1>i DEF CancelInv, Holds
<1>1. ASSUME NEW e \in Events, Create(e) \/ Clock(e)
      PROVE  CancelInv'
  <2>1. e \notin cancelled /\ UNCHANGED <<cancelled, batch, work>>
    BY <1>1 DEF Create, Clock, BecomeDue, LockAges, CancelInv
  <2>2. \A x \in Events \ {e} : row'[x] = row[x]
    BY <1>1 DEF Create, Clock, BecomeDue, LockAges, TypeOK
  <2> QED
    BY <1>0, <1>e, <2>1, <2>2
<1>2. ASSUME NEW e \in Events, Delete(e)
      PROVE  CancelInv'
  <2>1. row'[e].status = "deleted" /\ \A x \in Events \ {e} : row'[x] = row[x]
    BY <1>e, <1>2 DEF Delete, TypeOK, Row
  <2>2. batch' = batch /\ work' = work /\ cancelled' \subseteq cancelled \cup {e}
    BY <1>2 DEF Delete
  <2>3. e \in cancelled' => e \in cancelled \/ row[e].status = "scheduled"
    BY <1>2 DEF Delete
  <2>4. e \in cancelled' => \A s \in Servers : ~Holds(s, e)
    BY <2>3, HeldIsLocked DEF CancelInv
  <2>5. \A s \in Servers : \A x : Holds(s, x)' <=> Holds(s, x)
    BY <1>i, <2>2 DEF Holds
  <2> QED
    BY <1>e, <2>1, <2>2, <2>4, <2>5 DEF CancelInv
<1>3. ASSUME NEW s \in Servers, Start(s) \/ Stop(s) \/ Exit(s)
      PROVE  CancelInv'
  BY <1>0, <1>3 DEF Start, Stop, Exit
<1>4. ASSUME NEW s \in Servers, Tick(s)
      PROVE  CancelInv'
  <2>1. PICK B \in Batches :
          /\ row' = [e \in Events |-> IF e \in B THEN Lock(row[e]) ELSE row[e]]
          /\ batch' = [batch EXCEPT ![s] = {[ev |-> e, tries |-> row[e].tries] : e \in B}]
    BY <1>4 DEF Tick
  <2>2. \A e \in cancelled : e \notin B /\ row'[e] = row[e]
    BY <1>e, <2>1 DEF Batches, Due, CancelInv
  <2>3. /\ \A c \in batch'[s] : c.ev \in B
        /\ \A t \in Servers \ {s} : batch'[t] = batch[t]
    BY <2>1 DEF TypeOK
  <2>4. work' = work /\ cancelled' = cancelled
    BY <1>4 DEF Tick
  <2> QED
    BY <1>i, <2>2, <2>3, <2>4 DEF CancelInv, Holds
<1>5. ASSUME NEW s \in Servers, Take(s)
      PROVE  CancelInv'
  <2>1. PICK c \in batch[s] :
          /\ batch' = [batch EXCEPT ![s] = @ \ {c}]
          /\ work' = [work EXCEPT ![s] = [phase |-> "posting", ev |-> c.ev, tries |-> c.tries]]
    BY <1>5 DEF Take
  <2>2. \A t \in Servers : batch'[t] \subseteq batch[t]
    BY <2>1 DEF TypeOK
  <2>3. work'[s].ev = c.ev /\ \A t \in Servers \ {s} : work'[t] = work[t]
    BY <2>1 DEF TypeOK
  <2>4. \A t \in Servers : \/ work'[t] = Idle
                           \/ work[t] # Idle /\ work'[t].ev = work[t].ev
                           \/ \E d \in batch[t] : work'[t].ev = d.ev
    BY <2>3
  <2>5. row' = row /\ cancelled' = cancelled
    BY <1>5 DEF Take
  <2> QED
    BY <1>0, <2>2, <2>4, <2>5
<1>6. ASSUME NEW s \in Servers, Post(s) \/ LogInvocation(s) \/ Throw(s)
      PROVE  CancelInv'
  <2>1. work[s].phase \in Phases
    BY <1>6 DEF Post, LogInvocation, Throw, Phases
  <2>2. work[s] \in Working /\ work[s] # Idle
    BY <2>1, WorkingFacts
  <2>3. row' = row /\ batch' = batch /\ cancelled' = cancelled
        /\ \E ph : work' = InPhase(s, ph)
    BY <1>6 DEF Post, LogInvocation, Throw
  <2>4. work'[s].ev = work[s].ev /\ \A t \in Servers \ {s} : work'[t] = work[t]
    BY <2>2, <2>3 DEF InPhase, TypeOK, Working
  <2> QED
    BY <1>0, <2>2, <2>3, <2>4
<1>7. ASSUME NEW s \in Servers, Record(s) \/ Release(s) \/ ReleaseFails(s)
      PROVE  CancelInv'
  <2>1. work[s].phase \in Phases
    BY <1>7 DEF Record, Release, ReleaseFails, Phases
  <2>2. work[s] # Idle /\ work[s].ev \in Events
    BY <2>1, WorkingFacts
  <2>3. work[s].ev \notin cancelled
    BY <2>2 DEF CancelInv, Holds
  <2>4. /\ \A e \in Events \ {work[s].ev} : row'[e] = row[e]
        /\ batch' = batch /\ cancelled' = cancelled
        /\ work' = [work EXCEPT ![s] = Idle]
    BY <1>7 DEF Record, Release, ReleaseFails, SetRow, TypeOK
  <2>5. \A t \in Servers : work'[t] = Idle \/ work'[t] = work[t]
    BY <2>4 DEF TypeOK
  <2> QED
    BY <1>0, <1>e, <2>3, <2>4, <2>5
<1>8. ASSUME NEW s \in Servers, Crash(s)
      PROVE  CancelInv'
  <2>1. /\ \A t \in Servers : batch'[t] \subseteq batch[t]
        /\ \A t \in Servers : work'[t] = Idle \/ work'[t] = work[t]
        /\ row' = row /\ cancelled' = cancelled
    BY <1>8 DEF Crash, TypeOK
  <2> QED
    BY <1>0, <2>1
<1>9. CASE UNCHANGED vars
  BY <1>0, <1>9 DEF vars
<1> QED
  BY <1>1, <1>2, <1>3, <1>4, <1>5, <1>6, <1>7, <1>8, <1>9
     DEF Next, Poll, Deliver, Mishap

\* Only a server that holds an event posts it.
LEMMA PostsAreHeld ==
  ASSUME TypeOK, [Next]_vars, NEW e \in Events, \A s \in Servers : ~Holds(s, e)
  PROVE  posted'[e] = posted[e]
<1>1. CASE posted' = posted
  BY <1>1
<1>2. ASSUME NEW s \in Servers, Post(s)
      PROVE  posted'[e] = posted[e]
  <2>1. work[s] # Idle /\ work[s].ev \in Events
    BY <1>2, WorkingFacts DEF Post, Phases
  <2>2. work[s].ev # e
    BY <2>1 DEF Holds
  <2> QED
    BY <1>2, <2>2 DEF Post, TypeOK
<1> QED
  BY <1>1, <1>2 DEF Next, vars, Create, Delete, Clock, BecomeDue, LockAges, Poll, Start, Tick,
     Take, Exit, Stop, Deliver, LogInvocation, Record, Release, Mishap, Throw, ReleaseFails, Crash

\* An event deleted while 'scheduled' is never posted any more, as long as no
\* batch outlives the lock timeout.
THEOREM CancellationIsFinal ==
  ASSUME ~SlowBatches
  PROVE  Spec => CancelIsFinal
<1>1. Init => CancelInv
  BY DEF Init, CancelInv
<1>2. TypeOK /\ CancelInv /\ [Next]_vars
        => [\A e \in cancelled : posted'[e] = posted[e]]_vars
  <2> SUFFICES ASSUME TypeOK, CancelInv, [Next]_vars, NEW e \in cancelled
               PROVE  posted'[e] = posted[e]
    OBVIOUS
  <2>1. e \in Events /\ \A s \in Servers : ~Holds(s, e)
    BY DEF TypeOK, CancelInv
  <2> QED
    BY <2>1, PostsAreHeld
<1> QED
  BY <1>1, <1>2, CancelStep, HoldingAlways, PTL DEF Spec, CancelIsFinal

-----------------------------------------------------------------------------
(* The invocation log covers the counter, also when batches outlive their  *)
(* locks and several servers deliver one event: each of them that has      *)
(* logged its attempt and not counted it yet is paid for.                  *)

LoggedPhases == {"okLogged", "badLogged"}

\* The servers between the INSERT of the invocation and the UPDATE of the row.
InLog(e) == {s \in Servers : work[s].phase \in LoggedPhases /\ work[s].ev = e}

\* A claimed event has been created: nobody logs for a row to come.
HeldExists ==
  /\ \A s \in Servers : \A c \in batch[s] : row[c.ev].status # "none"
  /\ \A s \in Servers : work[s] # Idle => row[work[s].ev].status # "none"

\* An attempt is in the log before it is counted.
CountInv ==
  \A e \in Events :
    /\ IsFiniteSet(InLog(e))
    /\ Exists(e) => row[e].tries + Cardinality(InLog(e)) <= logged[e]

\* Only an answered attempt goes on to 'delivered'.
AnsweredInv ==
  /\ \A e \in Events : row[e].status = "delivered" => e \in acked
  /\ \A s \in Servers : work[s].phase \in {"ok", "okLogged"} => work[s].ev \in acked

\* Where the work of a server comes from: it goes on, ends, or is taken from the
\* batch; a batch shrinks or is a new claim.
LEMMA WorkComes ==
  ASSUME TypeOK, [Next]_vars, NEW t \in Servers
  PROVE  /\ \/ work'[t] = Idle
            \/ work[t] # Idle /\ work'[t].ev = work[t].ev
            \/ \E c \in batch[t] : work'[t].ev = c.ev
         /\ \A c \in batch'[t] : c \in batch[t] \/ c.ev \in Due
<1>1. CASE UNCHANGED <<work, batch>>
  BY <1>1
<1>2. ASSUME NEW s \in Servers, Tick(s)
      PROVE  work' = work /\ \A c \in batch'[t] : c \in batch[t] \/ c.ev \in Due
  BY <1>2 DEF Tick, TypeOK, Batches
<1>3. ASSUME NEW s \in Servers, Take(s)
      PROVE  /\ \/ work'[t] = work[t]
                \/ \E c \in batch[t] : work'[t].ev = c.ev
             /\ batch'[t] \subseteq batch[t]
  BY <1>3 DEF Take, TypeOK
<1>4. ASSUME NEW s \in Servers, Post(s) \/ LogInvocation(s) \/ Throw(s)
      PROVE  /\ work'[t] = work[t] \/ (work[t] # Idle /\ work'[t].ev = work[t].ev)
             /\ batch' = batch
  <2>1. work[s] \in Working /\ work[s] # Idle
    BY <1>4, WorkingFacts DEF Post, LogInvocation, Throw, Phases
  <2> QED
    BY <1>4, <2>1 DEF Post, LogInvocation, Throw, InPhase, TypeOK, Working
<1>5. ASSUME NEW s \in Servers, Record(s) \/ Release(s) \/ ReleaseFails(s) \/ Crash(s)
      PROVE  /\ work'[t] = work[t] \/ work'[t] = Idle
             /\ batch'[t] \subseteq batch[t]
  BY <1>5 DEF Record, Release, ReleaseFails, Crash, TypeOK
<1>6. \/ UNCHANGED <<work, batch>>
      \/ \E s \in Servers :
           \/ Tick(s) \/ Take(s)
           \/ Post(s) \/ LogInvocation(s) \/ Throw(s)
           \/ Record(s) \/ Release(s) \/ ReleaseFails(s) \/ Crash(s)
  BY DEF Next, vars, Create, Delete, Clock, BecomeDue, LockAges, Poll, Start, Exit, Stop,
     Deliver, Mishap
<1> QED
  BY <1>1, <1>2, <1>3, <1>4, <1>5, <1>6

\* What recording does to the row, whatever the row says by then.
LEMMA RecordAnyway ==
  ASSUME TypeOK, NEW s \in Servers, Record(s), NEW e \in Events
  PROVE  /\ e # work[s].ev => row'[e] = row[e]
         /\ Exists(e)' <=> Exists(e)
         /\ e = work[s].ev /\ Exists(e) => row'[e].tries = row[e].tries + 1
         /\ row'[e].status = "delivered" =>
              \/ row[e].status = "delivered"
              \/ e = work[s].ev /\ work[s].phase = "okLogged"
         /\ row'[e].status = "none" => row[e].status = "none"
<1>1. row[e] \in Row
  BY DEF TypeOK
<1>2. CASE e # work[s].ev \/ ~Exists(e)
  <2>1. row'[e] = row[e]
    BY <1>2 DEF Record, SetRow, TypeOK
  <2> QED
    BY <1>2, <2>1 DEF Exists
<1>3. CASE e = work[s].ev /\ Exists(e)
  <2>1. row'[e] = Outcome(row[e], work[s])
    BY <1>3 DEF Record, SetRow, TypeOK
  <2>2. /\ Outcome(row[e], work[s]).tries = row[e].tries + 1
        /\ Outcome(row[e], work[s]).status \in {"delivered", "error", "scheduled"}
        /\ Outcome(row[e], work[s]).status = "delivered" => work[s].phase = "okLogged"
    BY <1>1 DEF Outcome, Row
  <2> QED
    BY <1>3, <2>1, <2>2 DEF Exists, Statuses
<1> QED
  BY <1>2, <1>3

\* A row never goes back to what it was before its INSERT.
LEMMA RowStays ==
  ASSUME TypeOK, [Next]_vars, NEW e \in Events, row'[e].status = "none"
  PROVE  row[e].status = "none"
<1>1. ASSUME NEW x \in Events, Create(x) \/ Delete(x)
      PROVE  row[e].status = "none"
  BY <1>1 DEF Create, Delete, TypeOK, Row
<1>2. ASSUME NEW s \in Servers, Record(s)
      PROVE  row[e].status = "none"
  BY <1>2, RecordAnyway
<1>3. CASE /\ \A x \in Events : ~Create(x) /\ ~Delete(x)
           /\ \A s \in Servers : ~Record(s)
  <2>1. \/ row'[e].status = row[e].status
        \/ {row[e].status, row'[e].status} = {"scheduled", "locked"}
    BY <1>3, QuietSteps
  <2> QED
    BY <2>1
<1> QED
  BY <1>1, <1>2, <1>3

\* HeldExists is inductive.
LEMMA HeldStep == TypeOK /\ HeldExists /\ [Next]_vars => HeldExists'
<1> SUFFICES ASSUME TypeOK, HeldExists, [Next]_vars, NEW t \in Servers
             PROVE  /\ \A c \in batch'[t] : row'[c.ev].status # "none"
                    /\ work'[t] # Idle => row'[work'[t].ev].status # "none"
  BY DEF HeldExists, Idle
<1>1. \A c \in batch[t] : c.ev \in Events /\ row[c.ev].status # "none"
  BY DEF TypeOK, Claimed, HeldExists
<1>2. work[t] # Idle => work[t].ev \in Events /\ row[work[t].ev].status # "none"
  BY DEF TypeOK, Working, HeldExists
<1>3. \A e \in Due : e \in Events /\ row[e].status # "none"
  BY DEF Due
<1> QED
  BY <1>1, <1>2, <1>3, WorkComes, RowStays

\* A server gets between INSERT and UPDATE by the INSERT only, and an answered
\* one has its event in acked.
LEMMA InLogComes ==
  ASSUME TypeOK, [Next]_vars, NEW t \in Servers, work'[t].phase \in LoggedPhases
  PROVE  \/ work'[t] = work[t]
         \/ /\ LogInvocation(t) /\ Exists(work[t].ev)
            /\ work'[t].ev = work[t].ev
            /\ work'[t].phase = "okLogged" => work[t].phase = "ok"
<1>1. CASE UNCHANGED work
  BY <1>1
<1>2. ASSUME NEW s \in Servers, Take(s)
      PROVE  work'[t] = work[t]
  BY <1>2 DEF Take, TypeOK, LoggedPhases
<1>3. ASSUME NEW s \in Servers, Record(s) \/ Release(s) \/ ReleaseFails(s) \/ Crash(s)
      PROVE  work'[t] = work[t]
  BY <1>3 DEF Record, Release, ReleaseFails, Crash, TypeOK, LoggedPhases, Idle
<1>4. ASSUME NEW s \in Servers, Post(s) \/ Throw(s)
      PROVE  work'[t] = work[t]
  <2>1. work[s] \in Working
    BY <1>4, WorkingFacts DEF Post, Throw, Phases
  <2> QED
    BY <1>4, <2>1 DEF Post, Throw, InPhase, TypeOK, Working, LoggedPhases
<1>5. ASSUME NEW s \in Servers, LogInvocation(s), work'[t] # work[t]
      PROVE  /\ LogInvocation(t) /\ Exists(work[t].ev)
             /\ work'[t].ev = work[t].ev
             /\ work'[t].phase = "okLogged" => work[t].phase = "ok"
  <2>1. work[s] \in Working
    BY <1>5, WorkingFacts DEF LogInvocation, Phases
  <2>2. s = t
    BY <1>5 DEF LogInvocation, InPhase, TypeOK
  <2> QED
    BY <1>5, <2>1, <2>2 DEF LogInvocation, InPhase, TypeOK, Working, LoggedPhases
<1>6. \/ UNCHANGED work
      \/ \E s \in Servers :
           \/ Take(s)
           \/ Post(s) \/ LogInvocation(s) \/ Throw(s)
           \/ Record(s) \/ Release(s) \/ ReleaseFails(s) \/ Crash(s)
  BY DEF Next, vars, Create, Delete, Clock, BecomeDue, LockAges, Poll, Start, Tick, Exit, Stop,
     Deliver, Mishap
<1> QED
  BY <1>1, <1>2, <1>3, <1>4, <1>5, <1>6

\* The log of an event that is not deleted grows, by the INSERT only.
LEMMA LogGrows ==
  ASSUME TypeOK, [Next]_vars, NEW e \in Events, ~Delete(e)
  PROVE  \/ logged'[e] = logged[e]
         \/ logged'[e] = logged[e] + 1
<1>1. logged \in [Events -> Nat]
  BY DEF TypeOK
<1>2. ASSUME NEW x \in Events, Delete(x)
      PROVE  logged'[e] = logged[e]
  BY <1>1, <1>2 DEF Delete
<1>3. ASSUME NEW s \in Servers, LogInvocation(s)
      PROVE  logged'[e] = logged[e] \/ logged'[e] = logged[e] + 1
  BY <1>1, <1>3 DEF LogInvocation
<1>4. \/ UNCHANGED logged
      \/ \E x \in Events : Delete(x)
      \/ \E s \in Servers : LogInvocation(s)
  BY DEF Next, vars, Create, Clock, BecomeDue, LockAges, Poll, Start, Tick, Take, Exit, Stop,
     Deliver, Post, Record, Release, Mishap, Throw, ReleaseFails, Crash
<1> QED
  BY <1>2, <1>3, <1>4

\* Who is waiting to count an event after a step: at most those who were, and
\* with a logged invocation one more.
LEMMA InLogStep ==
  ASSUME TypeOK, [Next]_vars, NEW e \in Events, IsFiniteSet(InLog(e))
  PROVE  /\ IsFiniteSet(InLog(e)')
         /\ Cardinality(InLog(e)') \in Nat /\ Cardinality(InLog(e)) \in Nat
         /\ \/ Cardinality(InLog(e)') <= Cardinality(InLog(e))
            \/ /\ Cardinality(InLog(e)') <= Cardinality(InLog(e)) + 1
               /\ logged'[e] = logged[e] + 1 /\ row' = row
<1> DEFINE I == InLog(e)
           J == InLog(e)'
<1>1. CASE \E s \in Servers : LogInvocation(s) /\ Exists(work[s].ev) /\ work[s].ev = e
  <2>1. PICK s \in Servers : LogInvocation(s) /\ Exists(work[s].ev) /\ work[s].ev = e
    BY <1>1
  <2>2. \A t \in Servers \ {s} : work'[t] = work[t]
    BY <2>1 DEF LogInvocation, InPhase, TypeOK
  <2>3. J \in SUBSET (I \cup {s})
    BY <2>2 DEF InLog, LoggedPhases
  <2>4. row' = row /\ logged'[e] = logged[e] + 1
    BY <2>1 DEF LogInvocation, TypeOK
  <2> HIDE DEF I, J
  <2>5. /\ IsFiniteSet(I \cup {s})
        /\ Cardinality(I \cup {s}) = IF s \in I THEN Cardinality(I) ELSE Cardinality(I) + 1
    BY FS_AddElement DEF I
  <2>6. IsFiniteSet(J) /\ Cardinality(J) <= Cardinality(I \cup {s})
    BY <2>3, <2>5, FS_Subset
  <2>7. Cardinality(I) \in Nat /\ Cardinality(J) \in Nat
    BY <2>6, FS_CardinalityType DEF I
  <2>8. Cardinality(J) <= Cardinality(I) + 1
    BY <2>5, <2>6, <2>7
  <2> QED
    BY <2>4, <2>6, <2>7, <2>8 DEF I, J
<1>2. CASE \A s \in Servers : ~(LogInvocation(s) /\ Exists(work[s].ev) /\ work[s].ev = e)
  <2>1. J \in SUBSET I
    <3>1. LoggedPhases' = LoggedPhases
      BY DEF LoggedPhases
    <3> QED
      BY <1>2, <3>1, InLogComes DEF InLog
  <2> HIDE DEF I, J
  <2>2. IsFiniteSet(J) /\ Cardinality(J) <= Cardinality(I)
    BY <2>1, FS_Subset DEF I
  <2> QED
    BY <2>2, FS_CardinalityType DEF I, J
<1> QED
  BY <1>1, <1>2

\* The number of waiting servers, the counter and the log, for one event.
LEMMA CountStepOf ==
  ASSUME TypeOK, HeldExists, [Next]_vars, NEW e \in Events,
         IsFiniteSet(InLog(e)),
         Exists(e) => row[e].tries + Cardinality(InLog(e)) <= logged[e],
         row'[e].status \in Statuses
  PROVE  row'[e].tries + Cardinality(InLog(e)') <= logged'[e]
<1> DEFINE n == Cardinality(InLog(e))
           m == Cardinality(InLog(e)')
<1>n. n \in Nat /\ m \in Nat
  BY InLogStep
<1>m. m <= n \/ (m <= n + 1 /\ logged'[e] = logged[e] + 1 /\ row' = row)
  BY InLogStep
<1>r. row[e] \in Row /\ row[e].tries \in Nat /\ logged[e] \in Nat
  BY DEF TypeOK, Row
<1>1. ASSUME NEW x \in Events, Create(x)
      PROVE  row'[e].tries + m <= logged'[e]
  <2>1. logged' = logged /\ work' = work
    BY <1>1 DEF Create
  <2>2. InLog(e)' = InLog(e)
    BY <2>1 DEF InLog, LoggedPhases
  <2>3. CASE x # e
    <3>1. row'[e] = row[e]
      BY <1>1, <2>3 DEF Create, TypeOK
    <3> QED
      BY <2>1, <2>2, <3>1 DEF Exists
  <2>4. CASE x = e
    <3>1. row'[e].tries = 0
      BY <1>1, <2>4 DEF Create, TypeOK
    <3>2. InLog(e) = {}
      BY <1>1, <2>4, WorkingFacts DEF InLog, LoggedPhases, Phases, HeldExists, Create
    <3>3. m = 0
      BY <2>2, <3>2, FS_EmptySet
    <3> QED
      BY <1>r, <2>1, <3>1, <3>3
  <2> QED
    BY <2>3, <2>4
<1>2. ASSUME NEW x \in Events, Delete(x)
      PROVE  row'[e].tries + m <= logged'[e]
  <2>1. x # e
    BY <1>2, <1>r DEF Delete, TypeOK, Row, Statuses
  <2>2. row'[e] = row[e] /\ logged'[e] = logged[e] /\ work' = work
    BY <1>2, <2>1 DEF Delete, TypeOK
  <2>3. InLog(e)' = InLog(e)
    BY <2>2 DEF InLog, LoggedPhases
  <2> QED
    BY <2>2, <2>3 DEF Exists
<1>3. ASSUME NEW s \in Servers, Record(s), e = work[s].ev
      PROVE  row'[e].tries + m <= logged'[e]
  <2>1. Exists(e) /\ row'[e].tries = row[e].tries + 1
    BY <1>3, RecordAnyway DEF Exists
  <2>2. logged' = logged
    BY <1>3 DEF Record
  <2>3. InLog(e)' = InLog(e) \ {s} /\ s \in InLog(e)
    BY <1>3 DEF Record, TypeOK, InLog, LoggedPhases, Idle
  <2>4. m = n - 1
    BY <2>3, FS_RemoveElement
  <2> HIDE DEF n, m
  <2>5. row[e].tries + n <= logged[e]
    BY <2>1 DEF n
  <2> QED
    BY <1>n, <1>r, <2>1, <2>2, <2>4, <2>5
<1>4. CASE /\ \A x \in Events : ~Create(x) /\ ~Delete(x)
           /\ \A s \in Servers : ~(Record(s) /\ e = work[s].ev)
  <2>1. row'[e].tries = row[e].tries /\ Exists(e)
    <3>1. CASE \E s \in Servers : Record(s)
      BY <1>4, <3>1, RecordAnyway DEF Exists
    <3>2. CASE \A s \in Servers : ~Record(s)
      BY <1>4, <3>2, QuietSteps DEF Exists, Statuses
    <3> QED
      BY <3>1, <3>2
  <2>2. logged'[e] = logged[e] \/ logged'[e] = logged[e] + 1
    BY <1>4, LogGrows
  <2> HIDE DEF n, m
  <2>3. row[e].tries + n <= logged[e]
    BY <2>1 DEF n
  <2>4. \/ m <= n /\ logged[e] <= logged'[e]
        \/ m <= n + 1 /\ logged'[e] = logged[e] + 1
    BY <1>m, <1>r, <2>2
  <2>5. logged'[e] \in Nat
    BY <1>r, <2>2
  <2> DEFINE r == row[e].tries
             l == logged[e]
             k == logged'[e]
  <2>6. r \in Nat /\ l \in Nat /\ k \in Nat /\ n \in Nat /\ m \in Nat
    BY <1>n, <1>r, <2>5
  <2>7. /\ r + n <= l
        /\ \/ m <= n /\ l <= k
           \/ m <= n + 1 /\ k = l + 1
    BY <2>3, <2>4
  <2> HIDE DEF r, l, k
  <2>8. r + m <= k
    BY <2>6, <2>7
  <2> QED
    BY <2>1, <2>8 DEF m, r, k
<1> QED
  BY <1>1, <1>2, <1>3, <1>4

\* CountInv is inductive relative to HeldExists.
LEMMA CountStep == TypeOK /\ HeldExists /\ CountInv /\ [Next]_vars => CountInv'
BY InLogStep, CountStepOf DEF CountInv, Exists, Statuses

\* AnsweredInv is inductive.
LEMMA AnsweredStep == TypeOK /\ AnsweredInv /\ [Next]_vars => AnsweredInv'
<1> SUFFICES ASSUME TypeOK, AnsweredInv, [Next]_vars PROVE AnsweredInv'
  OBVIOUS
<1>1. acked \subseteq acked'
  BY DEF Next, vars, Create, Delete, Clock, BecomeDue, LockAges, Poll, Start, Tick, Take, Exit,
     Stop, Deliver, Post, LogInvocation, Record, Release, Mishap, Throw, ReleaseFails, Crash
<1>2. ASSUME NEW e \in Events, row'[e].status = "delivered"
      PROVE  e \in acked'
  <2>1. ASSUME NEW x \in Events, Create(x) \/ Delete(x)
        PROVE  row[e].status = "delivered"
    BY <1>2, <2>1 DEF Create, Delete, TypeOK, Row
  <2>2. ASSUME NEW s \in Servers, Record(s)
        PROVE  row[e].status = "delivered" \/ e \in acked
    BY <1>2, <2>2, RecordAnyway DEF AnsweredInv
  <2>3. ASSUME \A x \in Events : ~Create(x) /\ ~Delete(x),
               \A s \in Servers : ~Record(s)
        PROVE  row[e].status = "delivered"
    <3>1. \/ row'[e].status = row[e].status
          \/ {row[e].status, row'[e].status} = {"scheduled", "locked"}
      BY <2>3, QuietSteps
    <3> QED
      BY <1>2, <3>1
  <2>4. row[e].status = "delivered" \/ e \in acked
    BY <2>1, <2>2, <2>3
  <2> QED
    BY <1>1, <2>4 DEF AnsweredInv
<1>3. ASSUME NEW t \in Servers, work'[t].phase = "okLogged"
      PROVE  work'[t].ev \in acked'
  BY <1>1, <1>3, InLogComes DEF AnsweredInv, LoggedPhases
<1>4. ASSUME NEW t \in Servers, work'[t].phase = "ok"
      PROVE  work'[t].ev \in acked'
  <2>1. ASSUME NEW s \in Servers, Post(s), work'[t] # work[t]
        PROVE  work'[t].ev \in acked'
    <3>1. work[s] \in Working
      BY <2>1, WorkingFacts DEF Post, Phases
    <3>2. s = t
      BY <2>1 DEF Post, InPhase, TypeOK
    <3> QED
      BY <1>4, <2>1, <3>1, <3>2 DEF Post, InPhase, TypeOK, Working
  <2>2. ASSUME NEW s \in Servers, Throw(s) \/ LogInvocation(s)
        PROVE  work'[t] = work[t]
    <3>1. work[s] \in Working
      BY <2>2, WorkingFacts DEF Throw, LogInvocation, Phases
    <3> QED
      BY <1>4, <2>2, <3>1 DEF Throw, LogInvocation, InPhase, TypeOK, Working
  <2>3. ASSUME NEW s \in Servers, Take(s) \/ Record(s) \/ Release(s) \/ ReleaseFails(s) \/ Crash(s)
        PROVE  work'[t] = work[t]
    BY <1>4, <2>3 DEF Take, Record, Release, ReleaseFails, Crash, TypeOK, Idle
  <2>4. \/ UNCHANGED work
        \/ \E s \in Servers :
             \/ Post(s) \/ Throw(s) \/ LogInvocation(s)
             \/ Take(s) \/ Record(s) \/ Release(s) \/ ReleaseFails(s) \/ Crash(s)
    BY DEF Next, vars, Create, Delete, Clock, BecomeDue, LockAges, Poll, Start, Tick, Exit, Stop,
       Deliver, Mishap
  <2>5. work'[t] = work[t] \/ work'[t].ev \in acked'
    BY <2>1, <2>2, <2>3, <2>4
  <2> QED
    BY <1>1, <1>4, <2>5 DEF AnsweredInv
<1> QED
  BY <1>2, <1>3, <1>4 DEF AnsweredInv

\* A counted attempt has its invocation, and 'delivered' is never written
\* without a 2xx answer, also when locks expire under living servers and many
\* of them deliver one event.
THEOREM CountedIsReallyLogged == Spec => []CountedIsLogged
<1> DEFINE Inv == TypeOK /\ HeldExists /\ CountInv /\ AnsweredInv
<1>1. Init => Inv
  <2> SUFFICES ASSUME Init PROVE HeldExists /\ CountInv /\ AnsweredInv
    BY DEF Init, TypeOK, Row
  <2>1. HeldExists /\ AnsweredInv
    BY DEF Init, HeldExists, AnsweredInv, Idle
  <2>2. \A e \in Events : InLog(e) = {} /\ ~Exists(e)
    BY DEF Init, InLog, LoggedPhases, Idle, Exists, Statuses
  <2> QED
    BY <2>1, <2>2, FS_EmptySet DEF CountInv
<1>2. Inv /\ [Next]_vars => Inv'
  BY TypeStep, HeldStep, CountStep, AnsweredStep
<1>3. Inv => CountedIsLogged
  <2> SUFFICES ASSUME Inv, NEW e \in Events, Exists(e)
               PROVE  row[e].tries <= logged[e]
    BY DEF CountedIsLogged, AnsweredInv
  <2>1. Cardinality(InLog(e)) \in Nat /\ row[e].tries + Cardinality(InLog(e)) <= logged[e]
    BY FS_CardinalityType DEF CountInv
  <2> HIDE DEF Inv
  <2>2. row[e].tries \in Nat /\ logged[e] \in Nat
    BY DEF Inv, TypeOK, Row
  <2> QED
    BY <2>1, <2>2
<1> QED
  BY <1>1, <1>2, <1>3, PTL DEF Spec
=============================================================================
