--------------------------- MODULE EventLog_proofs ---------------------------
(***************************************************************************)
(* Proofs about EventLog, for any number of rows, servers and loops and    *)
(* any NumRetries, BatchSize and bounds.                                   *)
(***************************************************************************)
EXTENDS EventLog, SequenceTheorems, TLAPS

-----------------------------------------------------------------------------
(* What the operators that change jobs do to it.                           *)

Shape(f) == f \in [Events -> Seq(Job)]

\* SetJob replaces one job and nothing else.
LEMMA SetJobLemma ==
  ASSUME Shape(jobs), NEW e \in Events, NEW k \in DOMAIN jobs[e], NEW j \in Job
  PROVE  /\ Shape(SetJob(e, k, j))
         /\ \A x \in Events : /\ Len(SetJob(e, k, j)[x]) = Len(jobs[x])
                              /\ DOMAIN SetJob(e, k, j)[x] = DOMAIN jobs[x]
         /\ \A x \in Events : \A i \in DOMAIN jobs[x] :
              SetJob(e, k, j)[x][i] = IF x = e /\ i = k THEN j ELSE jobs[x][i]
<1> DEFINE s == [jobs[e] EXCEPT ![k] = j]
<1>1. jobs[e] \in Seq(Job) /\ k \in 1 .. Len(jobs[e])
  BY DEF Shape
<1>2. s \in Seq(Job) /\ Len(s) = Len(jobs[e])
  BY <1>1, ExceptSeq
<1>3. \A x \in Events : SetJob(e, k, j)[x] = IF x = e THEN s ELSE jobs[x]
  BY DEF SetJob, Shape
<1>4. Shape(SetJob(e, k, j))
  BY <1>2 DEF SetJob, Shape
<1>5. \A x \in Events : DOMAIN jobs[x] = 1 .. Len(jobs[x])
  BY DEF Shape
<1>6. DOMAIN s = DOMAIN jobs[e]
  OBVIOUS
<1>7. \A i \in DOMAIN jobs[e] : s[i] = IF i = k THEN j ELSE jobs[e][i]
  OBVIOUS
<1> HIDE DEF s
<1> QED
  BY <1>2, <1>3, <1>4, <1>6, <1>7

\* Writing a job keeps the type of jobs.
LEMMA SetJobType ==
  ASSUME TypeOK, NEW e \in Events, NEW k \in DOMAIN jobs[e], NEW j \in Job
  PROVE  SetJob(e, k, j) \in [Events -> Seq(Job)]
<1>1. Shape(jobs)
  BY DEF TypeOK, Shape
<1>2. Shape(SetJob(e, k, j))
  BY <1>1, SetJobLemma
<1> QED
  BY <1>2 DEF Shape

\* Writing a job that does not exist changes nothing.
LEMMA SetNoJobLemma ==
  ASSUME Shape(jobs), NEW e \in Events, NEW k, k \notin DOMAIN jobs[e], NEW j
  PROVE  SetJob(e, k, j) = jobs
<1>1. jobs[e] \in Seq(Job)
  BY DEF Shape
<1>2. PICK n \in Nat : jobs[e] \in [1 .. n -> Job]
  BY <1>1, SeqDef
<1>3. [jobs[e] EXCEPT ![k] = j] = jobs[e]
  BY <1>2
<1> QED
  BY <1>3 DEF SetJob, Shape

\* Losing unsent jobs keeps every sequence's length and every other job.
LEMMA LoseUnsentLemma ==
  ASSUME Shape(jobs), NEW lost
  PROVE  /\ Shape(LoseUnsent(lost))
         /\ \A x \in Events : /\ Len(LoseUnsent(lost)[x]) = Len(jobs[x])
                              /\ DOMAIN LoseUnsent(lost)[x] = DOMAIN jobs[x]
         /\ \A x \in Events : \A i \in DOMAIN jobs[x] :
              \/ LoseUnsent(lost)[x][i] = jobs[x][i]
              \/ /\ jobs[x][i].state = "unsent"
                 /\ LoseUnsent(lost)[x][i] = [jobs[x][i] EXCEPT !.state = "lost"]
<1> DEFINE g(x) == [i \in DOMAIN jobs[x] |->
                      IF jobs[x][i].state = "unsent" /\ jobs[x][i].by \in lost
                        THEN [jobs[x][i] EXCEPT !.state = "lost"]
                        ELSE jobs[x][i]]
<1>1. \A x \in Events : LoseUnsent(lost)[x] = g(x)
  BY DEF LoseUnsent
<1>2. ASSUME NEW x \in Events
      PROVE  g(x) \in Seq(Job) /\ Len(g(x)) = Len(jobs[x])
  <2>1. jobs[x] \in Seq(Job)
    BY DEF Shape
  <2>2. DOMAIN jobs[x] = 1 .. Len(jobs[x]) /\ Len(jobs[x]) \in Nat
    BY <2>1
  <2>3. \A i \in 1 .. Len(jobs[x]) : jobs[x][i] \in Job
    BY <2>1
  <2>4. \A i \in 1 .. Len(jobs[x]) : [jobs[x][i] EXCEPT !.state = "lost"] \in Job
    BY <2>3 DEF Job
  <2>5. g(x) \in [1 .. Len(jobs[x]) -> Job]
    BY <2>2, <2>3, <2>4
  <2> HIDE DEF g
  <2>6. g(x) \in Seq(Job)
    BY <2>2, <2>5, SeqDef
  <2> QED
    BY <2>2, <2>5, <2>6, LenProperties
<1>3. Shape(LoseUnsent(lost))
  BY <1>1, <1>2 DEF LoseUnsent, Shape
<1>4. \A x \in Events : \A i \in DOMAIN jobs[x] :
         \/ g(x)[i] = jobs[x][i]
         \/ jobs[x][i].state = "unsent" /\ g(x)[i] = [jobs[x][i] EXCEPT !.state = "lost"]
  OBVIOUS
<1>5. \A x \in Events : DOMAIN g(x) = DOMAIN jobs[x]
  OBVIOUS
<1> HIDE DEF g
<1> QED
  BY <1>1, <1>2, <1>3, <1>4, <1>5

\* A claimed row, or an invoked one, gets one more job at the end.
LEMMA AppendLemma ==
  ASSUME Shape(jobs), NEW e \in Events, NEW j \in Job
  PROVE  /\ Append(jobs[e], j) \in Seq(Job)
         /\ Len(Append(jobs[e], j)) = Len(jobs[e]) + 1
         /\ DOMAIN Append(jobs[e], j) = DOMAIN jobs[e] \cup {Len(jobs[e]) + 1}
         /\ \A i \in DOMAIN jobs[e] : Append(jobs[e], j)[i] = jobs[e][i]
         /\ Append(jobs[e], j)[Len(jobs[e]) + 1] = j
<1>1. jobs[e] \in Seq(Job)
  BY DEF Shape
<1> QED
  BY <1>1

\* What a claim does: it appends one unsent job to each row of the batch.
LEMMA ClaimLemma ==
  ASSUME TypeOK, NEW by \in Loop, NEW B \in Batches, Claim(by, B)
  PROVE  /\ B \subseteq Claimable
         /\ row' \in [Events -> Row]
         /\ Shape(jobs')
         /\ \A x \in Events \ B : row'[x] = row[x] /\ jobs'[x] = jobs[x]
         /\ \A x \in B : /\ row'[x] = [row[x] EXCEPT !.status = "processing"]
                         /\ jobs'[x] = Append(jobs[x], NewJob("unsent", by))
<1>1. B \subseteq Claimable
  BY DEF Batches
<1>2. NewJob("unsent", by) \in Job
  BY DEF NewJob, Job
<1>3. \A x \in Events : Append(jobs[x], NewJob("unsent", by)) \in Seq(Job)
  BY <1>2, AppendLemma DEF TypeOK, Shape
<1>4. Shape(jobs')
  BY <1>3 DEF Claim, TypeOK, Shape
<1>5. \A x \in Events : [row[x] EXCEPT !.status = "processing"] \in Row
  BY DEF TypeOK, Row, Statuses
<1>6. row' \in [Events -> Row]
  BY <1>5 DEF Claim, TypeOK
<1>7. B \subseteq Events
  BY <1>1 DEF Claimable
<1> QED
  BY <1>1, <1>4, <1>6, <1>7 DEF Claim

-----------------------------------------------------------------------------
(* Type correctness.                                                       *)

\* A job that fails is a job.
LEMMA FailedJobType ==
  ASSUME NEW j \in Job, NEW final \in {"failed", "abandoned"}
  PROVE  FailedJob(j, final) \in Job
<1>1. [j EXCEPT !.state = "retry", !.tries = @ + 1] \in Job
  <2>1. j.tries + 1 \in Nat
    BY DEF Job
  <2> QED
    BY <2>1 DEF Job
<1>2. [j EXCEPT !.state = final] \in Job
  BY DEF Job
<1> QED
  BY <1>1, <1>2 DEF FailedJob

\* A job the queue settles is a job.
LEMMA SettledJobType ==
  ASSUME NEW j \in Job, NEW phase \in {"okRecorded", "badRecorded", "threw"}
  PROVE  SettledJob(j, phase) \in Job
BY FailedJobType DEF SettledJob, Job

\* Moving a handler to its next phase.
LEMMA InPhaseType ==
  ASSUME TypeOK, NEW h \in handlers,
         NEW ph \in {"posting", "ok", "bad", "okRecorded", "badRecorded", "threw"}
  PROVE  InPhase(h, ph) \subseteq Handler
BY DEF InPhase, TypeOK, Handler

\* Writing a status keeps the type of row.
LEMMA SetStatusType ==
  ASSUME TypeOK, NEW e \in Events, NEW st \in Statuses
  PROVE  SetStatus(e, st) \in [Events -> Row]
<1>1. row \in [Events -> Row] /\ row[e] \in Row
  BY DEF TypeOK
<1>2. [row[e] EXCEPT !.status = st] \in Row
  BY <1>1 DEF Row
<1>3. [row EXCEPT ![e].status = st] = [row EXCEPT ![e] = [row[e] EXCEPT !.status = st]]
  BY <1>1
<1> QED
  BY <1>1, <1>2, <1>3 DEF SetStatus

\* The initial state is well typed.
LEMMA TypeInit == Init => TypeOK
<1> SUFFICES ASSUME Init PROVE TypeOK
  OBVIOUS
<1>1. <<>> \in Seq(Job)
  OBVIOUS
<1> QED
  BY <1>1 DEF Init, TypeOK, Row, Statuses

\* Every action keeps the types.
LEMMA TypeStep == TypeOK /\ [Next]_vars => TypeOK'
<1> SUFFICES ASSUME TypeOK, [Next]_vars PROVE TypeOK'
  OBVIOUS
<1> USE EventLogAssumption
<1>1. CASE UNCHANGED vars
  BY <1>1 DEF vars, TypeOK
<1>2. CASE \E E \in SUBSET (Events \ ManualEvents) : Write(E)
  BY <1>2 DEF Write, TypeOK, Row, Statuses, NewRow
<1>3. CASE \E s \in Servers : Start(s)
  BY <1>3 DEF Start, TypeOK
<1>4. ASSUME NEW s \in Servers, NEW l \in Loops, OnNotify(s, l)
      PROVE  TypeOK'
  <2>1. PICK B \in Batches : Claim(<<s, l>>, B)
    BY <1>4 DEF OnNotify
  <2>2. <<s, l>> \in Loop
    BY DEF Loop
  <2>3. row' \in [Events -> Row] /\ jobs' \in [Events -> Seq(Job)]
    BY <2>1, <2>2, ClaimLemma DEF Shape
  <2>4. notify' \in [Servers -> Nat]
    BY <1>4 DEF OnNotify, TypeOK
  <2> QED
    BY <1>4, <2>3, <2>4 DEF OnNotify, TypeOK
<1>5. ASSUME NEW s \in Servers, NEW l \in Loops, Catchup(s, l)
      PROVE  TypeOK'
  <2>1. PICK B \in Batches : Claim(<<s, l>>, B)
    BY <1>5 DEF Catchup
  <2>2. <<s, l>> \in Loop
    BY DEF Loop
  <2>3. row' \in [Events -> Row] /\ jobs' \in [Events -> Seq(Job)]
    BY <2>1, <2>2, ClaimLemma DEF Shape
  <2> QED
    BY <1>5, <2>3 DEF Catchup, TypeOK
<1>6. ASSUME NEW s \in Servers, Crash(s)
      PROVE  TypeOK'
  <2>1. jobs' \in [Events -> Seq(Job)]
    BY <1>6, LoseUnsentLemma DEF Crash, TypeOK, Shape
  <2>2. handlers' \subseteq Handler /\ invoking' \subseteq Invocation
    BY <1>6 DEF Crash, TypeOK
  <2>3. /\ server' \in [Servers -> {"down", "listening", "up"}]
        /\ notify' \in [Servers -> Nat]
        /\ crashes' \in Nat
    BY <1>6 DEF Crash, TypeOK
  <2> QED
    BY <1>6, <2>1, <2>2, <2>3 DEF Crash, TypeOK
<1>7. ASSUME NEW s \in Servers, NEW l \in Loops, SendFails(<<s, l>>)
      PROVE  TypeOK'
  <2>1. jobs' \in [Events -> Seq(Job)]
    BY <1>7, LoseUnsentLemma DEF SendFails, TypeOK, Shape
  <2> QED
    BY <1>7, <2>1 DEF SendFails, TypeOK
<1>8. ASSUME NEW e \in Events, RetryDue(e)
      PROVE  TypeOK'
  BY <1>8 DEF RetryDue, TypeOK, Row
<1>9. ASSUME NEW e \in Events, NEW k \in DOMAIN jobs[e], JobStep(e, k)
      PROVE  TypeOK'
  <2>1. jobs[e][k] \in Job
    BY DEF TypeOK
  <2>2. CASE Send(e, k)
    <3>1. [jobs[e][k] EXCEPT !.state = "created"] \in Job
      BY <2>1 DEF Job
    <3>2. jobs' \in [Events -> Seq(Job)]
      BY <2>2, <3>1, SetJobType DEF Send
    <3> QED
      BY <2>2, <3>2 DEF Send, TypeOK
  <2>3. ASSUME NEW s \in Servers, Fetch(s, e, k)
        PROVE  TypeOK'
    <3>1. [jobs[e][k] EXCEPT !.state = "active"] \in Job
      BY <2>1 DEF Job
    <3>2. jobs' \in [Events -> Seq(Job)]
      BY <2>3, <3>1, SetJobType DEF Fetch
    <3>3. k \in Nat /\ jobs[e][k].tries \in Nat
      BY <2>1 DEF Job, TypeOK
    <3>4. handlers' \subseteq Handler
      BY <2>3, <3>3 DEF Fetch, TypeOK, Handler
    <3> QED
      BY <2>3, <3>2, <3>4 DEF Fetch, TypeOK
  <2>4. CASE Expire(e, k)
    <3>0. FailedJob(jobs[e][k], "abandoned") \in Job
      BY <2>1, FailedJobType
    <3>1. jobs' \in [Events -> Seq(Job)]
      BY <2>4, <3>0, SetJobType DEF Expire
    <3> QED
      BY <2>4, <3>1 DEF Expire, TypeOK
  <2> QED
    BY <1>9, <2>2, <2>3, <2>4 DEF JobStep
<1>10. ASSUME NEW h \in handlers, HandlerStep(h)
       PROVE  TypeOK'
  <2>1. h \in Handler /\ h.ev \in Events
    BY DEF TypeOK, Handler
  <2>2. CASE Post(h)
    <3>1. <<h.ev, h.job, h.try>> \in Events \X Nat \X Nat
      BY <2>1 DEF Handler
    <3>2. posts' \subseteq Events \X Nat \X Nat /\ acked' \subseteq Events
      BY <2>1, <2>2, <3>1 DEF Post, TypeOK
    <3>3. handlers' \subseteq Handler
      BY <2>2, InPhaseType DEF Post
    <3> QED
      BY <2>2, <3>2, <3>3 DEF Post, TypeOK
  <2>3. CASE OnSuccess(h)
    <3>1. row' \in [Events -> Row]
      BY <2>1, <2>3, SetStatusType DEF OnSuccess, Statuses
    <3> QED
      BY <2>3, <3>1, InPhaseType DEF OnSuccess, TypeOK
  <2>4. CASE OnFailure(h)
    <3>1. FailedRow(row[h.ev]) \in Row
      BY <2>1 DEF FailedRow, TypeOK, Row, Statuses
    <3>2. row' \in [Events -> Row]
      BY <2>1, <2>4, <3>1 DEF OnFailure, TypeOK
    <3> QED
      BY <2>4, <3>2, InPhaseType DEF OnFailure, TypeOK
  <2>5. CASE HandlerThrows(h)
    BY <2>5, InPhaseType DEF HandlerThrows, TypeOK
  <2>6. CASE Finish(h)
    <3>1. handlers' \subseteq Handler
      BY <2>6 DEF Finish, TypeOK
    <3>2. jobs' \in [Events -> Seq(Job)]
      <4>1. CASE ~Current(h)
        BY <2>6, <4>1 DEF Finish, TypeOK
      <4>2. CASE Current(h)
        <5>1. CASE h.job \notin DOMAIN jobs[h.ev]
          <6>1. jobs' = SetJob(h.ev, h.job, SettledJob(jobs[h.ev][h.job], h.phase))
            BY <2>6, <4>2 DEF Finish
          <6> QED
            BY <2>1, <5>1, <6>1, SetNoJobLemma DEF TypeOK, Shape
        <5>2. CASE h.job \in DOMAIN jobs[h.ev]
          <6>1. jobs[h.ev][h.job] \in Job
            BY <2>1, <5>2 DEF TypeOK
          <6>2. SettledJob(jobs[h.ev][h.job], h.phase) \in Job
            BY <2>6, <6>1, SettledJobType DEF Finish
          <6>3. jobs' = SetJob(h.ev, h.job, SettledJob(jobs[h.ev][h.job], h.phase))
            BY <2>6, <4>2 DEF Finish
          <6>4. SetJob(h.ev, h.job, SettledJob(jobs[h.ev][h.job], h.phase))
                  \in [Events -> Seq(Job)]
            BY <2>1, <5>2, <6>2, SetJobType
          <6> QED
            BY <6>3, <6>4
        <5> QED
          BY <5>1, <5>2
      <4> QED
        BY <4>1, <4>2
    <3> QED
      BY <2>6, <3>1, <3>2 DEF Finish, TypeOK
  <2> QED
    BY <1>10, <2>2, <2>3, <2>4, <2>5, <2>6 DEF HandlerStep
<1>11. ASSUME NEW s \in Servers, NEW e \in ManualEvents, InvokeInsert(s, e)
       PROVE  TypeOK'
  <2>1. NewRow \in Row
    BY DEF NewRow, Row, Statuses
  <2>2. row' \in [Events -> Row]
    BY <1>11, <2>1 DEF InvokeInsert, TypeOK
  <2>3. invoking' \subseteq Invocation
    BY <1>11 DEF InvokeInsert, TypeOK, Invocation
  <2> QED
    BY <1>11, <2>2, <2>3 DEF InvokeInsert, TypeOK
<1>12. ASSUME NEW i \in invoking, InvokeStep(i)
       PROVE  TypeOK'
  <2>1. i \in Invocation /\ i.ev \in Events
    BY DEF TypeOK, Invocation
  <2>2. CASE InvokeSend(i)
    <3>1. NewJob("created", ByInvoke) \in Job
      BY DEF NewJob, Job
    <3>2. jobs' \in [Events -> Seq(Job)]
      BY <2>1, <2>2, <3>1, AppendLemma DEF InvokeSend, TypeOK, Shape
    <3>3. [i EXCEPT !.phase = "sent"] \in Invocation
      BY <2>1 DEF Invocation
    <3>4. invoking' \subseteq Invocation
      BY <2>2, <3>3 DEF InvokeSend, TypeOK
    <3> QED
      BY <2>2, <3>2, <3>4 DEF InvokeSend, TypeOK
  <2>3. CASE InvokeMark(i)
    <3>1. row' \in [Events -> Row]
      BY <2>1, <2>3, SetStatusType DEF InvokeMark, Statuses
    <3> QED
      BY <2>3, <3>1 DEF InvokeMark, TypeOK
  <2>4. CASE InvokeFails(i)
    BY <2>4 DEF InvokeFails, TypeOK
  <2> QED
    BY <1>12, <2>2, <2>3, <2>4 DEF InvokeStep
<1>13. ASSUME NEW E \in SUBSET Events, Cleanup(E)
       PROVE  TypeOK'
  BY <1>13 DEF Cleanup, TypeOK, Row, Statuses
<1> QED
  BY <1>1, <1>2, <1>3, <1>4, <1>5, <1>6, <1>7, <1>8, <1>9, <1>10, <1>11, <1>12, <1>13
     DEF Next, Listener

\* The variables of EventLog have their types in every reachable state: rows
\* keep a legal status and jobs, handlers and invocations refer to rows.
THEOREM TypeCorrect == Spec => []TypeOK
BY TypeInit, TypeStep, PTL DEF Spec

-----------------------------------------------------------------------------
(* Attempts.                                                               *)

\* What a step may do to a job: keep its started attempts started, and never
\* go past NumRetries.
Advances(j1, j2) ==
  /\ j1.tries <= NumRetries => j2.tries <= NumRetries
  /\ \A t \in Nat : Started(j1, t) => Started(j2, t)

\* A failure either spends a retry or ends the job.
LEMMA FailedJobAdvances ==
  ASSUME NEW j \in Job, NEW final \in {"failed", "abandoned"}, j.state = "active"
  PROVE  Advances(j, FailedJob(j, final))
<1>1. j.tries \in Nat
  BY DEF Job
<1>2. CASE j.tries < NumRetries
  <2>1. /\ FailedJob(j, final).tries = j.tries + 1
        /\ FailedJob(j, final).state = "retry"
    BY <1>2 DEF FailedJob, Job
  <2> QED
    BY <1>1, <1>2, <2>1, EventLogAssumption DEF Advances, Started
<1>3. CASE ~(j.tries < NumRetries)
  <2>1. FailedJob(j, final).tries = j.tries /\ FailedJob(j, final).state = final
    BY <1>3 DEF FailedJob, Job
  <2> QED
    BY <1>1, <2>1 DEF Advances, Started
<1> QED
  BY <1>2, <1>3

\* So does the verdict on a handler, which may also complete the job.
LEMMA SettledJobAdvances ==
  ASSUME NEW j \in Job, j.state = "active",
         NEW phase \in {"okRecorded", "badRecorded", "threw"}
  PROVE  Advances(j, SettledJob(j, phase))
<1>1. CASE phase = "okRecorded"
  <2>1. SettledJob(j, phase).tries = j.tries /\ SettledJob(j, phase).state = "completed"
    BY <1>1 DEF SettledJob, Job
  <2> QED
    BY <2>1 DEF Advances, Started, Job
<1>2. CASE phase = "badRecorded"
  BY <1>2, FailedJobAdvances DEF SettledJob
<1>3. CASE phase = "threw"
  BY <1>3, FailedJobAdvances DEF SettledJob
<1> QED
  BY <1>1, <1>2, <1>3

\* Every step keeps the jobs it finds, advancing them, and adds jobs that no
\* worker has taken.
JobsAdvance ==
  /\ \A e \in Events : \A k \in DOMAIN jobs[e] :
       k \in DOMAIN jobs'[e] /\ Advances(jobs[e][k], jobs'[e][k])
  /\ \A e \in Events : \A k \in DOMAIN jobs'[e] \ DOMAIN jobs[e] : jobs'[e][k].tries = 0

\* A job that is left alone advances.
LEMMA AdvancesRefl ==
  ASSUME NEW j PROVE Advances(j, j)
BY DEF Advances

\* Steps that leave the jobs alone.
LEMMA SameJobsAdvance == UNCHANGED jobs => JobsAdvance
BY AdvancesRefl DEF JobsAdvance

\* Steps that lose the unsent jobs of some loops.
LEMMA LostJobsAdvance ==
  ASSUME TypeOK, NEW lost, jobs' = LoseUnsent(lost) PROVE JobsAdvance
<1>1. \A e \in Events : DOMAIN jobs'[e] = DOMAIN jobs[e]
  BY LoseUnsentLemma DEF TypeOK, Shape
<1>2. ASSUME NEW e \in Events, NEW k \in DOMAIN jobs[e]
      PROVE  Advances(jobs[e][k], jobs'[e][k])
  <2>1. jobs[e][k] \in Job
    BY DEF TypeOK
  <2>2. CASE jobs'[e][k] = jobs[e][k]
    BY <2>2, AdvancesRefl
  <2>3. CASE jobs[e][k].state = "unsent" /\ jobs'[e][k] = [jobs[e][k] EXCEPT !.state = "lost"]
    <3>1. jobs'[e][k].state = "lost" /\ jobs'[e][k].tries = jobs[e][k].tries
      BY <2>1, <2>3 DEF Job
    <3> QED
      BY <2>3, <3>1 DEF Advances, Started
  <2> QED
    BY <2>2, <2>3, LoseUnsentLemma DEF TypeOK, Shape
<1> QED
  BY <1>1, <1>2 DEF JobsAdvance

\* Steps that change one job.
LEMMA OneJobAdvances ==
  ASSUME TypeOK, NEW e \in Events, NEW k \in DOMAIN jobs[e], NEW j \in Job,
         jobs' = SetJob(e, k, j), Advances(jobs[e][k], j)
  PROVE  JobsAdvance
<1>1. \A x \in Events : DOMAIN jobs'[x] = DOMAIN jobs[x]
  BY SetJobLemma DEF TypeOK, Shape
<1>2. \A x \in Events : \A i \in DOMAIN jobs[x] :
         jobs'[x][i] = IF x = e /\ i = k THEN j ELSE jobs[x][i]
  <2>1. Shape(jobs)
    BY DEF TypeOK, Shape
  <2>2. \A x \in Events : \A i \in DOMAIN jobs[x] :
          SetJob(e, k, j)[x][i] = IF x = e /\ i = k THEN j ELSE jobs[x][i]
    BY <2>1, SetJobLemma
  <2> QED
    BY <2>2, Zenon
<1>3. ASSUME NEW x \in Events, NEW i \in DOMAIN jobs[x]
      PROVE  Advances(jobs[x][i], jobs'[x][i])
  <2>1. CASE x = e /\ i = k
    BY <1>2, <2>1
  <2>2. CASE ~(x = e /\ i = k)
    <3>1. jobs'[x][i] = jobs[x][i]
      BY <1>2, <2>2
    <3> QED
      BY <3>1, AdvancesRefl
  <2> QED
    BY <2>1, <2>2
<1> QED
  BY <1>1, <1>3 DEF JobsAdvance

\* Steps that append jobs.
LEMMA NewJobsAdvance ==
  ASSUME TypeOK, NEW B \in SUBSET Events, NEW j \in Job, j.tries = 0,
         \A x \in Events : jobs'[x] = IF x \in B THEN Append(jobs[x], j) ELSE jobs[x]
  PROVE  JobsAdvance
<1>1. ASSUME NEW x \in Events
      PROVE  /\ \A k \in DOMAIN jobs[x] :
                  k \in DOMAIN jobs'[x] /\ Advances(jobs[x][k], jobs'[x][k])
             /\ \A k \in DOMAIN jobs'[x] \ DOMAIN jobs[x] : jobs'[x][k].tries = 0
  <2>1. CASE x \in B
    <3>1. jobs'[x] = Append(jobs[x], j)
      BY <2>1
    <3>2. DOMAIN jobs'[x] = DOMAIN jobs[x] \cup {Len(jobs[x]) + 1}
      BY <3>1, AppendLemma DEF TypeOK, Shape
    <3>3. \A k \in DOMAIN jobs[x] : jobs'[x][k] = jobs[x][k]
      BY <3>1, AppendLemma DEF TypeOK, Shape
    <3>4. jobs'[x][Len(jobs[x]) + 1] = j
      BY <3>1, AppendLemma DEF TypeOK, Shape
    <3>5. \A k \in DOMAIN jobs[x] : Advances(jobs[x][k], jobs'[x][k])
      BY <3>3, AdvancesRefl
    <3> QED
      BY <3>2, <3>4, <3>5
  <2>2. CASE x \notin B
    BY <2>2, AdvancesRefl
  <2> QED
    BY <2>1, <2>2
<1> QED
  BY <1>1 DEF JobsAdvance

\* A step that posts nothing and starts no handler.
LEMMA QuietAttempts ==
  ASSUME TypeOK, TypeOK', AttemptsInv, JobsAdvance,
         handlers' \subseteq handlers, UNCHANGED posts
  PROVE  AttemptsInv'
<1>1. \A e \in Events : \A k \in DOMAIN jobs'[e] : jobs'[e][k].tries <= NumRetries
  <2> SUFFICES ASSUME NEW e \in Events, NEW k \in DOMAIN jobs'[e]
               PROVE  jobs'[e][k].tries <= NumRetries
    OBVIOUS
  <2>1. CASE k \in DOMAIN jobs[e]
    BY <2>1 DEF JobsAdvance, Advances, AttemptsInv
  <2>2. CASE k \notin DOMAIN jobs[e]
    <3>1. jobs'[e][k].tries = 0
      BY <2>2 DEF JobsAdvance
    <3> QED
      BY <3>1, EventLogAssumption
  <2> QED
    BY <2>1, <2>2
<1>2. ASSUME NEW h \in handlers
      PROVE  h.job \in DOMAIN jobs'[h.ev] /\ Started(jobs'[h.ev][h.job], h.try)
  <2>1. h.ev \in Events /\ h.try \in Nat
    BY DEF TypeOK, Handler
  <2> QED
    BY <2>1 DEF JobsAdvance, Advances, AttemptsInv
<1>3. ASSUME NEW p \in posts
      PROVE  p[2] \in DOMAIN jobs'[p[1]] /\ Started(jobs'[p[1]][p[2]], p[3])
  <2>1. p[1] \in Events /\ p[3] \in Nat
    BY DEF TypeOK
  <2> QED
    BY <2>1 DEF JobsAdvance, Advances, AttemptsInv
<1> QED
  BY <1>1, <1>2, <1>3 DEF AttemptsInv

\* A handler that moves to its next phase, posting its webhook if it had not.
LEMMA PhaseAttempts ==
  ASSUME TypeOK, AttemptsInv, UNCHANGED jobs, NEW h \in handlers,
         NEW ph \in {"ok", "bad", "okRecorded", "badRecorded", "threw"},
         handlers' = InPhase(h, ph),
         \/ UNCHANGED posts
         \/ posts' = posts \cup {<<h.ev, h.job, h.try>>}
  PROVE  AttemptsInv'
<1> DEFINE n == [h EXCEPT !.phase = ph]
<1>1. /\ n.ev = h.ev /\ n.job = h.job /\ n.try = h.try /\ n.phase = ph
      /\ handlers' = (handlers \ {h}) \cup {n}
  BY DEF InPhase, TypeOK, Handler
<1> HIDE DEF n
<1>2. \A g \in handlers' : g = n \/ (g \in handlers /\ g # h)
  BY <1>1
<1>3. \A g \in handlers' : g.job \in DOMAIN jobs[g.ev] /\ Started(jobs[g.ev][g.job], g.try)
  BY <1>1, <1>2 DEF AttemptsInv
<1>4. \A p \in posts' : p[2] \in DOMAIN jobs[p[1]] /\ Started(jobs[p[1]][p[2]], p[3])
  BY DEF AttemptsInv
<1>5. \A f, g \in handlers' : (f.ev = g.ev /\ f.job = g.job /\ f.try = g.try) => f = g
  BY <1>1, <1>2 DEF AttemptsInv
<1>6. ASSUME NEW g \in handlers', g.phase = "posting"
      PROVE  <<g.ev, g.job, g.try>> \notin posts'
  <2>1. g \in handlers /\ g # h
    BY <1>1, <1>2, <1>6
  <2>2. <<g.ev, g.job, g.try>> \notin posts
    BY <1>6, <2>1 DEF AttemptsInv
  <2>3. ~(g.ev = h.ev /\ g.job = h.job /\ g.try = h.try)
    BY <2>1 DEF AttemptsInv
  <2> QED
    BY <2>2, <2>3
<1> QED
  BY <1>3, <1>4, <1>5, <1>6 DEF AttemptsInv

\* A worker that starts an attempt nobody had started.
LEMMA FetchAttempts ==
  ASSUME TypeOK, TypeOK', AttemptsInv, JobsAdvance, NEW n, NEW e \in Events,
         handlers' = handlers \cup {n}, posts' = posts, n.ev = e,
         n.job \in DOMAIN jobs'[e], Started(jobs'[e][n.job], n.try),
         \A h \in handlers : ~(h.ev = e /\ h.job = n.job /\ h.try = n.try),
         <<e, n.job, n.try>> \notin posts
  PROVE  AttemptsInv'
<1>1. \A e1 \in Events : \A k \in DOMAIN jobs'[e1] : jobs'[e1][k].tries <= NumRetries
  <2> SUFFICES ASSUME NEW e1 \in Events, NEW k \in DOMAIN jobs'[e1]
               PROVE  jobs'[e1][k].tries <= NumRetries
    OBVIOUS
  <2>1. CASE k \in DOMAIN jobs[e1]
    BY <2>1 DEF JobsAdvance, Advances, AttemptsInv
  <2>2. CASE k \notin DOMAIN jobs[e1]
    BY <2>2, EventLogAssumption DEF JobsAdvance
  <2> QED
    BY <2>1, <2>2
<1>2. ASSUME NEW h \in handlers
      PROVE  h.job \in DOMAIN jobs'[h.ev] /\ Started(jobs'[h.ev][h.job], h.try)
  <2>1. h.ev \in Events /\ h.try \in Nat
    BY DEF TypeOK, Handler
  <2> QED
    BY <2>1 DEF JobsAdvance, Advances, AttemptsInv
<1>3. ASSUME NEW p \in posts
      PROVE  p[2] \in DOMAIN jobs'[p[1]] /\ Started(jobs'[p[1]][p[2]], p[3])
  <2>1. p[1] \in Events /\ p[3] \in Nat
    BY DEF TypeOK
  <2> QED
    BY <2>1 DEF JobsAdvance, Advances, AttemptsInv
<1>4. \A g, h \in handlers' : (g.ev = h.ev /\ g.job = h.job /\ g.try = h.try) => g = h
  BY DEF AttemptsInv
<1>5. \A h \in handlers' : h.phase = "posting" => <<h.ev, h.job, h.try>> \notin posts'
  BY DEF AttemptsInv
<1> QED
  BY <1>1, <1>2, <1>3, <1>4, <1>5 DEF AttemptsInv

\* AttemptsInv holds initially ...
LEMMA AttemptsInit == Init => AttemptsInv
BY DEF Init, AttemptsInv

\* ... and every action keeps it.
LEMMA AttemptsStep == TypeOK /\ AttemptsInv /\ [Next]_vars => AttemptsInv'
<1> SUFFICES ASSUME TypeOK, AttemptsInv, [Next]_vars PROVE AttemptsInv'
  OBVIOUS
<1>0. TypeOK'
  BY TypeStep
<1>1. CASE UNCHANGED <<jobs, handlers, posts>>
  BY <1>1 DEF AttemptsInv
<1>2. ASSUME NEW s \in Servers, NEW l \in Loops, OnNotify(s, l) \/ Catchup(s, l)
      PROVE  AttemptsInv'
  <2>1. PICK B \in Batches : Claim(<<s, l>>, B)
    BY <1>2 DEF OnNotify, Catchup
  <2>2. B \in SUBSET Events
    BY DEF Batches, Claimable
  <2>3. NewJob("unsent", <<s, l>>) \in Job /\ NewJob("unsent", <<s, l>>).tries = 0
    BY DEF NewJob, Job, Loop
  <2>4. JobsAdvance
    BY <2>1, <2>2, <2>3, NewJobsAdvance DEF Claim
  <2>5. UNCHANGED <<handlers, posts>>
    BY <1>2 DEF OnNotify, Catchup
  <2> QED
    BY <1>0, <2>4, <2>5, QuietAttempts
<1>3. ASSUME NEW s \in Servers, Crash(s)
      PROVE  AttemptsInv'
  <2>1. JobsAdvance
    BY <1>3, LostJobsAdvance DEF Crash
  <2>2. handlers' \subseteq handlers /\ UNCHANGED posts
    BY <1>3 DEF Crash
  <2> QED
    BY <1>0, <2>1, <2>2, QuietAttempts
<1>4. ASSUME NEW s \in Servers, NEW l \in Loops, SendFails(<<s, l>>)
      PROVE  AttemptsInv'
  <2>1. JobsAdvance
    BY <1>4, LostJobsAdvance DEF SendFails
  <2> QED
    BY <1>0, <1>4, <2>1, QuietAttempts DEF SendFails
<1>5. ASSUME NEW e \in Events, NEW k \in DOMAIN jobs[e], JobStep(e, k)
      PROVE  AttemptsInv'
  <2>1. jobs[e][k] \in Job
    BY DEF TypeOK
  <2>2. CASE Send(e, k)
    <3> DEFINE j == [jobs[e][k] EXCEPT !.state = "created"]
    <3>1. j \in Job /\ j.state = "created" /\ j.tries = jobs[e][k].tries
      BY <2>1 DEF Job
    <3>2. jobs[e][k].state = "unsent" /\ jobs' = SetJob(e, k, j)
      BY <2>2 DEF Send
    <3> HIDE DEF j
    <3>3. Advances(jobs[e][k], j)
      BY <3>1, <3>2 DEF Advances, Started
    <3>4. JobsAdvance
      BY <3>1, <3>2, <3>3, OneJobAdvances
    <3> QED
      BY <1>0, <2>2, <3>4, QuietAttempts DEF Send
  <2>3. ASSUME NEW s \in Servers, Fetch(s, e, k)
        PROVE  AttemptsInv'
    <3> DEFINE j == [jobs[e][k] EXCEPT !.state = "active"]
               n == [ev |-> e, job |-> k, try |-> jobs[e][k].tries, at |-> s,
                     phase |-> "posting"]
    <3>1. j \in Job /\ j.state = "active" /\ j.tries = jobs[e][k].tries
      BY <2>1 DEF Job
    <3>2. /\ jobs[e][k].state \in {"created", "retry"}
          /\ jobs' = SetJob(e, k, j)
          /\ handlers' = handlers \cup {n}
          /\ posts' = posts
      BY <2>3 DEF Fetch, Waiting
    <3>3. n.ev = e /\ n.job = k /\ n.try = jobs[e][k].tries /\ n.phase = "posting"
      OBVIOUS
    <3> HIDE DEF j, n
    <3>4. Advances(jobs[e][k], j)
      BY <3>1, <3>2 DEF Advances, Started, Job
    <3>5. JobsAdvance
      BY <3>1, <3>2, <3>4, OneJobAdvances
    <3>6. \A h \in handlers : ~(h.ev = e /\ h.job = k /\ h.try = jobs[e][k].tries)
      <4>1. jobs[e][k].tries \in Nat
        BY <2>1 DEF Job
      <4> QED
        BY <3>2, <4>1 DEF AttemptsInv, Started
    <3>7. <<e, k, jobs[e][k].tries>> \notin posts
      <4>1. jobs[e][k].tries \in Nat
        BY <2>1 DEF Job
      <4>2. SUFFICES ASSUME <<e, k, jobs[e][k].tries>> \in posts PROVE FALSE
        OBVIOUS
      <4>3. Started(jobs[e][k], jobs[e][k].tries)
        BY <4>2 DEF AttemptsInv
      <4> QED
        BY <3>2, <4>1, <4>3 DEF Started
    <3>8. k \in DOMAIN jobs'[e] /\ jobs'[e][k] = j
      BY <3>1, <3>2, SetJobLemma DEF TypeOK, Shape
    <3>9. Started(j, jobs[e][k].tries)
      BY <2>1, <3>1 DEF Started, Job
    <3> QED
      BY <1>0, <3>2, <3>3, <3>5, <3>6, <3>7, <3>8, <3>9, FetchAttempts
  <2>4. CASE Expire(e, k)
    <3>1. Advances(jobs[e][k], FailedJob(jobs[e][k], "abandoned"))
      BY <2>1, <2>4, FailedJobAdvances DEF Expire
    <3>2. FailedJob(jobs[e][k], "abandoned") \in Job
      BY <2>1, FailedJobType
    <3>3. JobsAdvance
      BY <2>4, <3>1, <3>2, OneJobAdvances DEF Expire
    <3> QED
      BY <1>0, <2>4, <3>3, QuietAttempts DEF Expire
  <2> QED
    BY <1>5, <2>2, <2>3, <2>4 DEF JobStep
<1>6. ASSUME NEW h \in handlers, HandlerStep(h)
      PROVE  AttemptsInv'
  <2>1. CASE Post(h)
    BY <2>1, PhaseAttempts DEF Post
  <2>2. CASE OnSuccess(h)
    BY <2>2, PhaseAttempts DEF OnSuccess
  <2>3. CASE OnFailure(h)
    BY <2>3, PhaseAttempts DEF OnFailure
  <2>4. CASE HandlerThrows(h)
    BY <2>4, PhaseAttempts DEF HandlerThrows
  <2>5. CASE Finish(h)
    <3>1. JobsAdvance
      <4>1. CASE ~Current(h)
        BY <2>5, <4>1, SameJobsAdvance DEF Finish
      <4>2. CASE Current(h)
        <5>1. h.ev \in Events /\ h.job \in DOMAIN jobs[h.ev]
          BY DEF AttemptsInv, TypeOK, Handler
        <5>2. jobs[h.ev][h.job] \in Job /\ jobs[h.ev][h.job].state = "active"
          BY <4>2, <5>1 DEF Current, TypeOK
        <5>3. h.phase \in {"okRecorded", "badRecorded", "threw"}
          BY <2>5 DEF Finish
        <5>4. SettledJob(jobs[h.ev][h.job], h.phase) \in Job
          BY <5>2, <5>3, SettledJobType
        <5>5. Advances(jobs[h.ev][h.job], SettledJob(jobs[h.ev][h.job], h.phase))
          BY <5>2, <5>3, SettledJobAdvances
        <5> QED
          BY <2>5, <4>2, <5>1, <5>4, <5>5, OneJobAdvances DEF Finish
      <4> QED
        BY <4>1, <4>2
    <3> QED
      BY <1>0, <2>5, <3>1, QuietAttempts DEF Finish
  <2> QED
    BY <1>6, <2>1, <2>2, <2>3, <2>4, <2>5 DEF HandlerStep
<1>7. ASSUME NEW i \in invoking, InvokeSend(i)
      PROVE  AttemptsInv'
  <2>1. NewJob("created", ByInvoke) \in Job /\ NewJob("created", ByInvoke).tries = 0
    BY DEF NewJob, Job
  <2>2. i.ev \in Events
    BY EventLogAssumption DEF TypeOK, Invocation
  <2>3. \A x \in Events : jobs'[x] = IF x \in {i.ev} THEN Append(jobs[x], NewJob("created", ByInvoke))
                                                    ELSE jobs[x]
    BY <1>7, <2>2 DEF InvokeSend, TypeOK
  <2>4. JobsAdvance
    BY <2>1, <2>2, <2>3, NewJobsAdvance
  <2> QED
    BY <1>0, <1>7, <2>4, QuietAttempts DEF InvokeSend
<1> QED
  BY <1>1, <1>2, <1>3, <1>4, <1>5, <1>6, <1>7
     DEF Next, Listener, InvokeStep, vars, Write, Start, RetryDue, InvokeInsert,
         InvokeMark, InvokeFails, Cleanup

-----------------------------------------------------------------------------
(* The number of jobs of a row.                                            *)

BudgetOf(e) ==
  Len(jobs[e]) + ClaimToCome(e) + InvokeToCome(e)
    <= 1 + Requeued(e) + (IF e \in ManualEvents THEN 1 ELSE 0)

NoneInv(e) ==
  row[e].status = "none" => /\ jobs[e] = <<>>
                            /\ row[e].retries = 0
                            /\ \A i \in invoking : i.ev # e

\* Nothing the budget of e depends on grows.
LEMMA QuietBudget ==
  ASSUME TypeOK, TypeOK', NEW e \in Events, BudgetOf(e),
         Len(jobs'[e]) = Len(jobs[e]),
         row'[e].retries = row[e].retries,
         row'[e].status = "pending" => row[e].status = "pending",
         row'[e].status = "none" => row[e].status = "none",
         invoking' \subseteq invoking
  PROVE  BudgetOf(e)'
<1>1. ClaimToCome(e)' <= ClaimToCome(e)
  BY DEF ClaimToCome
<1>2. InvokeToCome(e)' <= InvokeToCome(e)
  BY DEF InvokeToCome
<1>3. Requeued(e)' = Requeued(e)
  BY DEF Requeued
<1>4. /\ Len(jobs[e]) \in Nat
      /\ ClaimToCome(e) \in Nat /\ ClaimToCome(e)' \in Nat
      /\ InvokeToCome(e) \in Nat /\ InvokeToCome(e)' \in Nat
      /\ Requeued(e) \in Nat
  BY EventLogAssumption DEF TypeOK, Row, ClaimToCome, InvokeToCome, Requeued
<1>5. PICK m \in {0, 1} : m = IF e \in ManualEvents THEN 1 ELSE 0
  OBVIOUS
<1>6. Len(jobs[e]) + ClaimToCome(e) + InvokeToCome(e) <= 1 + Requeued(e) + m
  BY <1>5 DEF BudgetOf
<1>7. Len(jobs[e])' + ClaimToCome(e)' + InvokeToCome(e)' <= 1 + Requeued(e)' + m
  <2>1. \A n, c, c1, k, k1, r \in Nat :
          n + c + k <= 1 + r + m /\ c1 <= c /\ k1 <= k => n + c1 + k1 <= 1 + r + m
    OBVIOUS
  <2>2. Len(jobs[e]) + ClaimToCome(e)' + InvokeToCome(e)' <= 1 + Requeued(e) + m
    BY <1>1, <1>2, <1>4, <1>6, <2>1
  <2> QED
    BY <1>3, <2>2
<1> QED
  BY <1>5, <1>7 DEF BudgetOf

\* BudgetInv holds initially ...
LEMMA BudgetInit == Init => BudgetInv
<1> SUFFICES ASSUME Init PROVE BudgetInv
  OBVIOUS
<1>1. \A e \in Events : NoneInv(e) /\ BudgetOf(e)
  BY EventLogAssumption
     DEF Init, NoneInv, BudgetOf, ClaimToCome, InvokeToCome, Requeued
<1>2. \A i, j \in invoking : i.ev = j.ev => i = j
  BY DEF Init
<1> QED
  BY <1>1, <1>2 DEF BudgetInv, NoneInv, BudgetOf

\* ... and every action keeps it: a claim spends what an insertion or a failure earned.
LEMMA BudgetStep == TypeOK /\ AttemptsInv /\ BudgetInv /\ [Next]_vars => BudgetInv'
<1> SUFFICES ASSUME TypeOK, AttemptsInv, BudgetInv, [Next]_vars PROVE BudgetInv'
  OBVIOUS
<1>a. TypeOK'
  BY TypeStep
<1>b. \A e \in Events : NoneInv(e) /\ BudgetOf(e)
  BY DEF BudgetInv, NoneInv, BudgetOf
<1>c. \A i, j \in invoking : i.ev = j.ev => i = j
  BY DEF BudgetInv
<1>d. SUFFICES /\ \A e \in Events : NoneInv(e)' /\ BudgetOf(e)'
               /\ \A i, j \in invoking' : i.ev = j.ev => i = j
  BY DEF BudgetInv, NoneInv, BudgetOf
\* Steps that leave lengths, statuses and retry counts as they are.
<1>1. ASSUME \A e \in Events : /\ Len(jobs'[e]) = Len(jobs[e])
                               /\ row'[e].retries = row[e].retries
                               /\ row'[e].status = "pending" => row[e].status = "pending"
                               /\ row'[e].status = "none" => row[e].status = "none",
             invoking' \subseteq invoking
      PROVE  /\ \A e \in Events : NoneInv(e)' /\ BudgetOf(e)'
             /\ \A i, j \in invoking' : i.ev = j.ev => i = j
  <2>1. \A e \in Events : BudgetOf(e)'
    BY <1>a, <1>b, <1>1, QuietBudget
  <2>2. ASSUME NEW e \in Events PROVE NoneInv(e)'
    <3>1. Len(jobs[e]) = 0 => jobs'[e] = <<>>
      BY <1>a, <1>1 DEF TypeOK
    <3> QED
      BY <1>b, <1>1, <3>1 DEF NoneInv
  <2> QED
    BY <1>c, <1>1, <2>1, <2>2
<1>2. CASE UNCHANGED <<row, jobs, invoking>>
  BY <1>1, <1>2
<1>3. ASSUME NEW E \in SUBSET (Events \ ManualEvents), Write(E)
      PROVE  /\ \A e \in Events : NoneInv(e)' /\ BudgetOf(e)'
             /\ \A i, j \in invoking' : i.ev = j.ev => i = j
  <2>1. \A e \in Events : row'[e] = IF e \in E THEN NewRow ELSE row[e]
    BY <1>3 DEF Write
  <2>2. ASSUME NEW e \in Events PROVE NoneInv(e)' /\ BudgetOf(e)'
    <3>1. CASE e \in E
      <4>1. jobs'[e] = <<>> /\ row'[e].status = "pending" /\ row'[e].retries = 0
        BY <1>b, <1>3, <2>1, <3>1 DEF Write, NewRow, NoneInv
      <4>2. e \notin ManualEvents
        BY <3>1
      <4> QED
        BY <4>1, <4>2, EventLogAssumption
           DEF NoneInv, BudgetOf, ClaimToCome, InvokeToCome, Requeued
    <3>2. CASE e \notin E
      <4>1. UNCHANGED <<row[e], jobs[e], invoking>>
        BY <1>3, <2>1, <3>2 DEF Write
      <4> QED
        BY <1>b, <4>1 DEF NoneInv, BudgetOf, ClaimToCome, InvokeToCome, Requeued
    <3> QED
      BY <3>1, <3>2
  <2> QED
    BY <1>c, <1>3, <2>2 DEF Write
<1>4. ASSUME NEW s \in Servers, NEW l \in Loops, OnNotify(s, l) \/ Catchup(s, l)
      PROVE  /\ \A e \in Events : NoneInv(e)' /\ BudgetOf(e)'
             /\ \A i, j \in invoking' : i.ev = j.ev => i = j
  <2>1. PICK B \in Batches : Claim(<<s, l>>, B)
    BY <1>4 DEF OnNotify, Catchup
  <2>2. <<s, l>> \in Loop
    BY DEF Loop
  <2>3. /\ B \subseteq Claimable
        /\ \A x \in Events \ B : row'[x] = row[x] /\ jobs'[x] = jobs[x]
        /\ \A x \in B : /\ row'[x] = [row[x] EXCEPT !.status = "processing"]
                        /\ jobs'[x] = Append(jobs[x], NewJob("unsent", <<s, l>>))
    BY <2>1, <2>2, ClaimLemma
  <2>4. invoking' = invoking
    BY <1>4 DEF OnNotify, Catchup
  <2>5. ASSUME NEW e \in Events PROVE NoneInv(e)' /\ BudgetOf(e)'
    <3>1. CASE e \in B
      <4>1. row[e].status = "pending"
        BY <2>3, <3>1 DEF Claimable
      <4>2. row'[e].status = "processing" /\ row'[e].retries = row[e].retries
        <5>1. row[e] \in Row
          BY DEF TypeOK
        <5> QED
          BY <2>3, <3>1, <5>1 DEF Row
      <4>3. NewJob("unsent", <<s, l>>) \in Job
        BY <2>2 DEF NewJob, Job
      <4>4. Len(jobs'[e]) = Len(jobs[e]) + 1
        <5>1. jobs'[e] = Append(jobs[e], NewJob("unsent", <<s, l>>))
          BY <2>3, <3>1
        <5> QED
          BY <4>3, <5>1, AppendLemma DEF TypeOK, Shape
      <4>5. ClaimToCome(e) = 1 /\ ClaimToCome(e)' = 0
        BY <4>1, <4>2 DEF ClaimToCome
      <4>6. InvokeToCome(e)' = InvokeToCome(e) /\ Requeued(e)' = Requeued(e)
        BY <2>4, <4>1, <4>2 DEF InvokeToCome, Requeued
      <4>7. Len(jobs[e]) \in Nat /\ InvokeToCome(e) \in Nat /\ Requeued(e) \in Nat
        BY EventLogAssumption DEF TypeOK, Row, InvokeToCome, Requeued
      <4>8. BudgetOf(e)'
        BY <1>b, <4>4, <4>5, <4>6, <4>7 DEF BudgetOf
      <4> QED
        BY <4>2, <4>8 DEF NoneInv
    <3>2. CASE e \notin B
      <4>1. UNCHANGED <<row[e], jobs[e], invoking>>
        BY <2>3, <2>4, <3>2
      <4> QED
        BY <1>b, <4>1 DEF NoneInv, BudgetOf, ClaimToCome, InvokeToCome, Requeued
    <3> QED
      BY <3>1, <3>2
  <2> QED
    BY <1>c, <2>4, <2>5
<1>5. ASSUME NEW lost, jobs' = LoseUnsent(lost), row' = row, invoking' \subseteq invoking
      PROVE  /\ \A e \in Events : NoneInv(e)' /\ BudgetOf(e)'
             /\ \A i, j \in invoking' : i.ev = j.ev => i = j
  <2>1. \A e \in Events : Len(jobs'[e]) = Len(jobs[e])
    BY <1>5, LoseUnsentLemma DEF TypeOK, Shape
  <2> QED
    BY <1>1, <1>5, <2>1
<1>6. ASSUME NEW e \in Events, NEW k \in DOMAIN jobs[e], NEW j \in Job,
             jobs' = SetJob(e, k, j), row' = row, invoking' = invoking
      PROVE  /\ \A x \in Events : NoneInv(x)' /\ BudgetOf(x)'
             /\ \A i, i2 \in invoking' : i.ev = i2.ev => i = i2
  <2>1. \A x \in Events : Len(jobs'[x]) = Len(jobs[x])
    BY <1>6, SetJobLemma DEF TypeOK, Shape
  <2> QED
    BY <1>1, <1>6, <2>1
<1>7. ASSUME NEW e \in Events, NEW k \in DOMAIN jobs[e], JobStep(e, k)
      PROVE  /\ \A x \in Events : NoneInv(x)' /\ BudgetOf(x)'
             /\ \A i, j \in invoking' : i.ev = j.ev => i = j
  <2>1. jobs[e][k] \in Job
    BY DEF TypeOK
  <2>2. /\ [jobs[e][k] EXCEPT !.state = "created"] \in Job
        /\ [jobs[e][k] EXCEPT !.state = "active"] \in Job
        /\ FailedJob(jobs[e][k], "abandoned") \in Job
    BY <2>1, FailedJobType DEF Job
  <2>3. row' = row /\ invoking' = invoking
    BY <1>7 DEF JobStep, Send, Fetch, Expire
  <2>4. \E j \in Job : jobs' = SetJob(e, k, j)
    <3>1. CASE Send(e, k)
      BY <2>2, <3>1, Zenon DEF Send
    <3>2. ASSUME NEW s \in Servers, Fetch(s, e, k)
          PROVE  \E j \in Job : jobs' = SetJob(e, k, j)
      BY <2>2, <3>2, Zenon DEF Fetch
    <3>3. CASE Expire(e, k)
      BY <2>2, <3>3, Zenon DEF Expire
    <3> QED
      BY <1>7, <3>1, <3>2, <3>3 DEF JobStep
  <2> QED
    BY <1>6, <2>3, <2>4
<1>8. ASSUME NEW h \in handlers, HandlerStep(h)
      PROVE  /\ \A x \in Events : NoneInv(x)' /\ BudgetOf(x)'
             /\ \A i, j \in invoking' : i.ev = j.ev => i = j
  <2>0. h.ev \in Events /\ invoking' = invoking
    BY <1>8 DEF TypeOK, Handler, HandlerStep, Post, OnSuccess, OnFailure, HandlerThrows, Finish
  <2>1. CASE Post(h) \/ HandlerThrows(h)
    BY <1>2, <2>1 DEF Post, HandlerThrows
  <2>2. CASE OnSuccess(h)
    <3>1. \A x \in Events : /\ row'[x].retries = row[x].retries
                            /\ row'[x].status = row[x].status
                               \/ row'[x].status = "delivered"
      BY <2>0, <2>2 DEF OnSuccess, SetStatus, TypeOK, Row
    <3> QED
      BY <1>1, <2>0, <2>2, <3>1 DEF OnSuccess
  <2>3. CASE OnFailure(h)
    <3>0. jobs' = jobs
      BY <2>3 DEF OnFailure
    <3>1. ASSUME NEW x \in Events PROVE NoneInv(x)' /\ BudgetOf(x)'
      <4>1. CASE x = h.ev /\ Exists(x)
        <5>1. row'[x] = FailedRow(row[x])
          BY <2>0, <2>3, <4>1 DEF OnFailure, TypeOK
        <5>2. row[x].retries \in Nat /\ Len(jobs[x]) \in Nat
          BY DEF TypeOK, Row
        <5>3. /\ row'[x].retries = row[x].retries + 1
              /\ row'[x].status = IF row[x].retries + 1 >= NumRetries
                                    THEN "failed" ELSE "pending"
          BY <5>1 DEF FailedRow
        <5>4. InvokeToCome(x)' <= InvokeToCome(x)
          BY <2>0, <5>3 DEF InvokeToCome
        <5>5. ClaimToCome(x)' + Requeued(x) <= Requeued(x)'
          BY <5>2, <5>3, EventLogAssumption DEF ClaimToCome, Requeued
        <5>6. /\ ClaimToCome(x) \in Nat /\ ClaimToCome(x)' \in Nat
              /\ InvokeToCome(x) \in Nat /\ InvokeToCome(x)' \in Nat
              /\ Requeued(x) \in Nat /\ Requeued(x)' \in Nat
          BY <5>2, <5>3, EventLogAssumption DEF ClaimToCome, InvokeToCome, Requeued
        <5> DEFINE m == IF x \in ManualEvents THEN 1 ELSE 0
                   l == Len(jobs[x])
                   c == ClaimToCome(x)
                   d == ClaimToCome(x)'
                   i == InvokeToCome(x)
                   n == InvokeToCome(x)'
                   r == Requeued(x)
                   q == Requeued(x)'
        <5>7. l + c + i <= 1 + r + m
          BY <1>b DEF BudgetOf
        <5>8. n <= i /\ d + r <= q
          BY <5>4, <5>5
        <5>9. {m, l, c, d, i, n, r, q} \subseteq Nat
          BY <5>2, <5>6
        <5>10. l + d + n <= 1 + q + m
          <6> HIDE DEF m, l, c, d, i, n, r, q
          <6> QED
            BY <5>7, <5>8, <5>9
        <5>11. BudgetOf(x)'
          BY <3>0, <5>10 DEF BudgetOf
        <5> QED
          BY <5>3, <5>11 DEF NoneInv
      <4>2. CASE ~(x = h.ev /\ Exists(x))
        <5>1. UNCHANGED <<row[x], jobs[x], invoking>>
          BY <2>0, <2>3, <4>2 DEF OnFailure, TypeOK
        <5> QED
          BY <1>b, <5>1 DEF NoneInv, BudgetOf, ClaimToCome, InvokeToCome, Requeued
      <4> QED
        BY <4>1, <4>2
    <3> QED
      BY <1>c, <2>0, <3>1
  <2>4. CASE Finish(h)
    <3>1. CASE ~Current(h)
      BY <1>2, <2>0, <2>4, <3>1 DEF Finish
    <3>2. CASE Current(h)
      <4>1. h.job \in DOMAIN jobs[h.ev]
        BY DEF AttemptsInv
      <4>2. jobs[h.ev][h.job] \in Job
        BY <2>0, <4>1 DEF TypeOK
      <4>3. SettledJob(jobs[h.ev][h.job], h.phase) \in Job
        BY <2>4, <4>2, SettledJobType DEF Finish
      <4> QED
        BY <1>6, <2>0, <2>4, <3>2, <4>1, <4>3 DEF Finish
    <3> QED
      BY <3>1, <3>2
  <2> QED
    BY <1>8, <2>1, <2>2, <2>3, <2>4 DEF HandlerStep
<1>9. ASSUME NEW s \in Servers, NEW e \in ManualEvents, InvokeInsert(s, e)
      PROVE  /\ \A x \in Events : NoneInv(x)' /\ BudgetOf(x)'
             /\ \A i, j \in invoking' : i.ev = j.ev => i = j
  <2> DEFINE n == [ev |-> e, at |-> s, phase |-> "inserted"]
  <2>0. e \in Events /\ n.ev = e
    BY EventLogAssumption
  <2> HIDE DEF n
  <2>1. /\ row'[e] = NewRow
        /\ \A x \in Events \ {e} : row'[x] = row[x]
        /\ jobs' = jobs
        /\ invoking' = invoking \cup {n}
    BY <1>9, <2>0 DEF InvokeInsert, TypeOK, n
  <2>2. jobs[e] = <<>> /\ \A i \in invoking : i.ev # e
    BY <1>9, <1>b, <2>0 DEF InvokeInsert, NoneInv
  <2>3. row'[e].status = "pending" /\ row'[e].retries = 0
    BY <2>1 DEF NewRow
  <2>4. NoneInv(e)' /\ BudgetOf(e)'
    <3>1. Len(jobs'[e]) = 0 /\ ClaimToCome(e)' = 1 /\ InvokeToCome(e)' \in {0, 1}
      BY <2>1, <2>2, <2>3 DEF ClaimToCome, InvokeToCome
    <3>2. Requeued(e)' = 0
      BY <2>3, EventLogAssumption DEF Requeued
    <3> QED
      BY <2>3, <3>1, <3>2 DEF NoneInv, BudgetOf
  <2>5. ASSUME NEW x \in Events \ {e} PROVE NoneInv(x)' /\ BudgetOf(x)'
    <3>1. UNCHANGED <<row[x], jobs[x]>>
      BY <2>1
    <3>2. InvokeToCome(x)' = InvokeToCome(x)
      BY <2>0, <2>1, <3>1 DEF InvokeToCome
    <3>3. NoneInv(x)'
      BY <1>b, <2>0, <2>1, <3>1 DEF NoneInv
    <3> QED
      BY <1>b, <3>1, <3>2, <3>3 DEF BudgetOf, ClaimToCome, Requeued
  <2>6. \A i, j \in invoking' : i.ev = j.ev => i = j
    BY <1>c, <2>0, <2>1, <2>2
  <2> QED
    BY <2>4, <2>5, <2>6
<1>10. ASSUME NEW i \in invoking, InvokeStep(i)
       PROVE  /\ \A x \in Events : NoneInv(x)' /\ BudgetOf(x)'
              /\ \A i1, i2 \in invoking' : i1.ev = i2.ev => i1 = i2
  <2>0. i.ev \in Events /\ i.ev \in ManualEvents
    BY EventLogAssumption DEF TypeOK, Invocation
  <2>1. CASE InvokeSend(i)
    <3> DEFINE e == i.ev
               n == [i EXCEPT !.phase = "sent"]
    <3>1. n.ev = e /\ n.phase = "sent" /\ i.phase = "inserted"
      BY <2>1 DEF TypeOK, Invocation, InvokeSend
    <3>2. /\ row' = row
          /\ jobs'[e] = Append(jobs[e], NewJob("created", ByInvoke))
          /\ \A x \in Events \ {e} : jobs'[x] = jobs[x]
          /\ invoking' = (invoking \ {i}) \cup {n}
      BY <2>0, <2>1 DEF InvokeSend, TypeOK
    <3> HIDE DEF n
    <3>3. \A i1, i2 \in invoking' : i1.ev = i2.ev => i1 = i2
      BY <1>c, <3>1, <3>2
    <3>4. row[e].status # "none"
      BY <1>b, <2>0 DEF NoneInv
    <3>5. NoneInv(e)' /\ BudgetOf(e)'
      <4>1. NewJob("created", ByInvoke) \in Job
        BY DEF NewJob, Job
      <4>2. Len(jobs'[e]) = Len(jobs[e]) + 1
        BY <2>0, <3>2, <4>1, AppendLemma DEF TypeOK, Shape
      <4>3. InvokeToCome(e) = 1
        BY <2>0, <2>1 DEF InvokeToCome, InvokeSend
      <4>4. \A i1 \in invoking' : i1.ev = e => i1 = n
        BY <1>c, <3>1, <3>2
      <4>5. InvokeToCome(e)' = 0
        <5>1. ~\E i1 \in invoking' : i1.ev = e /\ i1.phase = "inserted"
          BY <3>1, <4>4
        <5> QED
          BY <3>2, <3>4, <5>1 DEF InvokeToCome
      <4>6. /\ ClaimToCome(e)' = ClaimToCome(e) /\ Requeued(e)' = Requeued(e)
            /\ Len(jobs[e]) \in Nat /\ ClaimToCome(e) \in Nat /\ Requeued(e) \in Nat
        BY <2>0, <3>2, EventLogAssumption DEF ClaimToCome, Requeued, TypeOK, Row
      <4>7. BudgetOf(e)'
        BY <1>b, <2>0, <4>2, <4>3, <4>5, <4>6 DEF BudgetOf
      <4> QED
        BY <3>2, <3>4, <4>7 DEF NoneInv
    <3>6. ASSUME NEW x \in Events \ {e} PROVE NoneInv(x)' /\ BudgetOf(x)'
      <4>1. InvokeToCome(x)' = InvokeToCome(x)
        BY <3>1, <3>2, <3>6 DEF InvokeToCome
      <4>2. NoneInv(x)'
        BY <1>b, <3>1, <3>2, <3>6 DEF NoneInv
      <4> QED
        BY <1>b, <3>2, <3>6, <4>1, <4>2 DEF BudgetOf, ClaimToCome, Requeued
    <3> QED
      BY <2>0, <3>3, <3>5, <3>6
  <2>2. CASE InvokeMark(i)
    <3>1. \A x \in Events : /\ row'[x].retries = row[x].retries
                            /\ row'[x].status = row[x].status
                               \/ row'[x].status = "processing"
      BY <2>0, <2>2 DEF InvokeMark, SetStatus, TypeOK, Row
    <3> QED
      BY <1>1, <2>2, <3>1 DEF InvokeMark
  <2>3. CASE InvokeFails(i)
    BY <1>1, <2>3 DEF InvokeFails
  <2> QED
    BY <1>10, <2>1, <2>2, <2>3 DEF InvokeStep
<1>11. ASSUME NEW e \in Events, RetryDue(e)
       PROVE  /\ \A x \in Events : NoneInv(x)' /\ BudgetOf(x)'
              /\ \A i, j \in invoking' : i.ev = j.ev => i = j
  <2>1. \A x \in Events : /\ row'[x].retries = row[x].retries
                          /\ row'[x].status = row[x].status
    BY <1>11 DEF RetryDue, TypeOK, Row
  <2> QED
    BY <1>1, <1>11, <2>1 DEF RetryDue
<1>12. ASSUME NEW E \in SUBSET Events, Cleanup(E)
       PROVE  /\ \A x \in Events : NoneInv(x)' /\ BudgetOf(x)'
              /\ \A i, j \in invoking' : i.ev = j.ev => i = j
  <2>1. \A x \in Events : /\ row'[x].retries = row[x].retries
                          /\ row'[x].status = row[x].status
                             \/ row'[x].status = "deleted"
    BY <1>12 DEF Cleanup, TypeOK, Row
  <2> QED
    BY <1>1, <1>12, <2>1 DEF Cleanup
<1>13. ASSUME NEW s \in Servers, Crash(s)
       PROVE  /\ \A x \in Events : NoneInv(x)' /\ BudgetOf(x)'
              /\ \A i, j \in invoking' : i.ev = j.ev => i = j
  BY <1>5, <1>13 DEF Crash
<1>14. ASSUME NEW s \in Servers, NEW l \in Loops, SendFails(<<s, l>>)
       PROVE  /\ \A x \in Events : NoneInv(x)' /\ BudgetOf(x)'
              /\ \A i, j \in invoking' : i.ev = j.ev => i = j
  BY <1>5, <1>14 DEF SendFails
<1>15. ASSUME NEW s \in Servers, Start(s)
       PROVE  /\ \A x \in Events : NoneInv(x)' /\ BudgetOf(x)'
              /\ \A i, j \in invoking' : i.ev = j.ev => i = j
  BY <1>2, <1>15 DEF Start
<1>16. CASE UNCHANGED vars
  BY <1>2, <1>16 DEF vars
<1> QED
  BY <1>3, <1>4, <1>7, <1>8, <1>9, <1>10, <1>11, <1>12, <1>13, <1>14, <1>15, <1>16
     DEF Next, Listener

\* The bound on deliveries is what the two invariants say together.
LEMMA BoundFromInvariants ==
  ASSUME TypeOK, AttemptsInv, BudgetInv PROVE BoundedDeliveries
<1>1. ASSUME NEW e \in Events
      PROVE  Len(jobs[e]) <= JobsPerEvent - (IF e \in ManualEvents THEN 0 ELSE 1)
  <2>1. Len(jobs[e]) \in Nat /\ ClaimToCome(e) \in Nat /\ InvokeToCome(e) \in Nat
    BY DEF TypeOK, ClaimToCome, InvokeToCome
  <2>2. Requeued(e) \in Nat /\ Requeued(e) <= (IF NumRetries > 1 THEN NumRetries ELSE 1) - 1
    BY EventLogAssumption DEF TypeOK, Row, Requeued
  <2>3. CASE e \in ManualEvents
    BY <2>1, <2>2, <2>3, EventLogAssumption DEF BudgetInv, JobsPerEvent
  <2>4. CASE e \notin ManualEvents
    BY <2>1, <2>2, <2>4, EventLogAssumption DEF BudgetInv, JobsPerEvent
  <2> QED
    BY <2>3, <2>4
<1>2. ASSUME NEW p \in posts
      PROVE  p[2] \in 1..Len(jobs[p[1]]) /\ p[3] <= NumRetries
  <2>1. p[1] \in Events /\ p[3] \in Nat
    BY DEF TypeOK
  <2>2. p[2] \in DOMAIN jobs[p[1]] /\ p[3] <= jobs[p[1]][p[2]].tries
    BY DEF AttemptsInv, Started
  <2>3. jobs[p[1]][p[2]] \in Job /\ jobs[p[1]][p[2]].tries <= NumRetries
    BY <2>1, <2>2 DEF TypeOK, AttemptsInv
  <2>4. DOMAIN jobs[p[1]] = 1..Len(jobs[p[1]])
    BY <2>1 DEF TypeOK
  <2> QED
    BY <2>1, <2>2, <2>3, <2>4, EventLogAssumption DEF Job
<1> QED
  BY <1>1, <1>2 DEF BoundedDeliveries, AttemptsInv

\* However claims, the queue's retries, expiries, crashes and invocations
\* interleave, an event's webhook is posted a bounded number of times: the
\* independent retries of the row and of the job (delivery.ts:160-180) multiply
\* to at most NumRetries * (NumRetries + 1) posts, and never run away.
THEOREM DeliveriesAreBounded == Spec => []BoundedDeliveries
<1>1. Init => TypeOK /\ AttemptsInv /\ BudgetInv
  BY TypeInit, AttemptsInit, BudgetInit
<1>2. TypeOK /\ AttemptsInv /\ BudgetInv /\ [Next]_vars => (TypeOK /\ AttemptsInv /\ BudgetInv)'
  BY TypeStep, AttemptsStep, BudgetStep
<1>3. TypeOK /\ AttemptsInv /\ BudgetInv => BoundedDeliveries
  BY BoundFromInvariants
<1> QED
  BY <1>1, <1>2, <1>3, PTL DEF Spec

-----------------------------------------------------------------------------
(* Delivered rows.                                                         *)

\* Only a handler that saw a 2xx answer marks a row delivered.
LEMMA AckedStep == TypeOK /\ AckedInv /\ [Next]_vars => AckedInv'
<1> SUFFICES ASSUME TypeOK, AckedInv, [Next]_vars PROVE AckedInv'
  OBVIOUS
<1> DEFINE AckedHandler(h) == h.phase \in {"ok", "okRecorded"} => h.ev \in acked
<1>a. acked \subseteq acked'
  BY DEF Next, vars, Write, Start, Listener, OnNotify, Catchup, Crash, SendFails, RetryDue,
         JobStep, Send, Fetch, Expire, HandlerStep, Post, OnSuccess, OnFailure, HandlerThrows,
         Finish, InvokeInsert, InvokeStep, InvokeSend, InvokeMark, InvokeFails, Cleanup
<1>b. \A h \in handlers : AckedHandler(h) /\ h.ev \in Events
  BY DEF AckedInv, TypeOK, Handler
\* Steps after which no row is newly delivered or deleted, and no handler ok.
<1>1. ASSUME \A e \in Events : row'[e].status \in {"delivered", "deleted"} =>
                                 row[e].status \in {"delivered", "deleted"},
             \A h \in handlers' : h \in handlers \/ h.phase = "posting" \/ h.ev \in acked'
                                   \/ h.phase \in {"bad", "badRecorded", "threw"}
      PROVE  AckedInv'
  BY <1>a, <1>1 DEF AckedInv, DeliveredWasAcked
<1>2. CASE UNCHANGED row /\ handlers' \subseteq handlers
  BY <1>1, <1>2
<1>3. ASSUME NEW E \in SUBSET (Events \ ManualEvents), Write(E) PROVE AckedInv'
  BY <1>1, <1>3 DEF Write, NewRow
<1>4. ASSUME NEW s \in Servers, NEW l \in Loops, OnNotify(s, l) \/ Catchup(s, l)
      PROVE  AckedInv'
  <2>1. PICK B \in Batches : Claim(<<s, l>>, B)
    BY <1>4 DEF OnNotify, Catchup
  <2>2. \A e \in Events : row'[e] = row[e] \/ row'[e].status = "processing"
    BY <2>1 DEF Claim, TypeOK, Row
  <2> QED
    BY <1>1, <1>4, <2>2 DEF OnNotify, Catchup
<1>5. ASSUME NEW s \in Servers, NEW e \in Events, NEW k \in DOMAIN jobs[e], Fetch(s, e, k)
      PROVE  AckedInv'
  BY <1>1, <1>5 DEF Fetch
<1>6. ASSUME NEW h \in handlers, HandlerStep(h)
      PROVE  AckedInv'
  <2>0. h.ev \in Events
    BY <1>b
  <2>p. ASSUME NEW ph \in {"ok", "bad", "okRecorded", "badRecorded", "threw"}
        PROVE  \A g \in InPhase(h, ph) : g \in handlers \/ (g.phase = ph /\ g.ev = h.ev)
    BY DEF InPhase, TypeOK, Handler
  <2>1. CASE Post(h)
    BY <1>1, <2>1, <2>p DEF Post
  <2>2. CASE OnSuccess(h)
    <3>1. h.ev \in acked
      BY <1>b, <2>2 DEF OnSuccess
    <3>2. \A e \in Events : row'[e] = row[e] \/ e = h.ev
      BY <2>0, <2>2 DEF OnSuccess, SetStatus, TypeOK
    <3>3. handlers' = InPhase(h, "okRecorded") /\ acked' = acked
      BY <2>2 DEF OnSuccess
    <3> QED
      BY <2>p, <3>1, <3>2, <3>3 DEF AckedInv, DeliveredWasAcked
  <2>3. CASE OnFailure(h)
    <3>1. \A e \in Events : row'[e] = row[e] \/ row'[e].status \in {"failed", "pending"}
      BY <2>0, <2>3 DEF OnFailure, FailedRow, TypeOK
    <3> QED
      BY <1>1, <2>3, <2>p, <3>1 DEF OnFailure
  <2>4. CASE HandlerThrows(h)
    BY <1>1, <2>4, <2>p DEF HandlerThrows
  <2>5. CASE Finish(h)
    BY <1>2, <2>5 DEF Finish
  <2> QED
    BY <1>6, <2>1, <2>2, <2>3, <2>4, <2>5 DEF HandlerStep
<1>7. ASSUME NEW s \in Servers, NEW e \in ManualEvents, InvokeInsert(s, e)
      PROVE  AckedInv'
  <2>1. \A x \in Events : row'[x] = row[x] \/ row'[x].status = "pending"
    BY <1>7 DEF InvokeInsert, NewRow, TypeOK
  <2> QED
    BY <1>1, <1>7, <2>1 DEF InvokeInsert
<1>8. ASSUME NEW i \in invoking, InvokeMark(i)
      PROVE  AckedInv'
  <2>1. \A x \in Events : row'[x] = row[x] \/ row'[x].status = "processing"
    BY <1>8 DEF InvokeMark, SetStatus, TypeOK, Row
  <2> QED
    BY <1>1, <1>8, <2>1 DEF InvokeMark
<1>9. ASSUME NEW e \in Events, RetryDue(e) PROVE AckedInv'
  <2>1. \A x \in Events : row'[x].status = row[x].status
    BY <1>9 DEF RetryDue, TypeOK, Row
  <2> QED
    BY <1>1, <1>9, <2>1 DEF RetryDue
<1>10. ASSUME NEW E \in SUBSET Events, Cleanup(E) PROVE AckedInv'
  <2>1. \A x \in Events : row'[x] = row[x] \/ row[x].status = "delivered"
    BY <1>10 DEF Cleanup, TypeOK
  <2> QED
    BY <1>1, <1>10, <2>1 DEF Cleanup
<1> QED
  BY <1>2, <1>3, <1>4, <1>5, <1>6, <1>7, <1>8, <1>9, <1>10
     DEF Next, vars, Listener, Start, Crash, SendFails, JobStep, Send, Expire, InvokeStep,
         InvokeSend, InvokeFails

\* A row is reported delivered, or removed by the clean-up, only after its
\* webhook answered 2xx, whatever late handlers, retries, invocations and
\* clean-ups write to it in between (delivery.ts:151-158, cleanup.ts:45-50).
THEOREM DeliveredWasReallyAcked == Spec => []DeliveredWasAcked
<1>1. Init => AckedInv
  BY DEF Init, AckedInv, DeliveredWasAcked
<1>2. AckedInv => DeliveredWasAcked
  BY DEF AckedInv
<1> QED
  BY <1>1, <1>2, TypeCorrect, AckedStep, PTL DEF Spec

-----------------------------------------------------------------------------
(* Rows left in 'processing'.                                              *)

Carried(e) == Stranded(e) \/ \E k \in DOMAIN jobs[e] : Carries(e, k)

\* A step after which every carrying job still carries, or is stranded.
LEMMA StillCarried ==
  ASSUME NEW e \in Events, Carried(e),
         \A k \in DOMAIN jobs[e] :
           /\ k \in DOMAIN jobs'[e]
           /\ jobs[e][k].state \in {"lost", "abandoned"} =>
                jobs'[e][k].state \in {"lost", "abandoned"}
           /\ Carries(e, k) => Carries(e, k)' \/ jobs'[e][k].state \in {"lost", "abandoned"}
  PROVE  Carried(e)'
BY DEF Carried, Stranded

\* A step that touches no job, and records no outcome of a job of e.
LEMMA CarriedByOthers ==
  ASSUME NEW e \in Events, Carried(e), jobs'[e] = jobs[e],
         \A h \in handlers' : h.ev = e /\ h.phase \in {"okRecorded", "badRecorded"} => h \in handlers
  PROVE  Carried(e)'
<1>1. \A k \in DOMAIN jobs[e] : Recorded(e, k)' => Recorded(e, k)
  BY DEF Recorded
<1>2. \A k \in DOMAIN jobs[e] : Carries(e, k) => Carries(e, k)'
  BY <1>1 DEF Carries
<1> QED
  BY <1>2, StillCarried

\* One job of e changes: it still carries, or is stranded, or did not carry.
LEMMA CarriedAfterOne ==
  ASSUME TypeOK, NEW x \in Events, NEW k \in DOMAIN jobs[x], NEW j \in Job,
         jobs' = SetJob(x, k, j),
         jobs[x][k].state \notin {"lost", "abandoned"},
         \/ ~Carries(x, k)
         \/ j.state \in {"lost", "abandoned", "unsent", "created", "retry"}
         \/ j.state = "active" /\ ~Recorded(x, k)',
         \A h \in handlers' : h.phase \in {"okRecorded", "badRecorded"} => h \in handlers,
         NEW e \in Events, Carried(e)
  PROVE  Carried(e)'
<1>1. Shape(jobs)
  BY DEF TypeOK, Shape
<1>2. DOMAIN jobs'[e] = DOMAIN jobs[e]
  BY <1>1, SetJobLemma
<1>3. ASSUME NEW i \in DOMAIN jobs[e], ~(e = x /\ i = k)
      PROVE  jobs'[e][i] = jobs[e][i]
  BY <1>1, <1>3, SetJobLemma
<1>4. e = x => jobs'[e][k] = j
  BY <1>1, SetJobLemma
<1>5. ASSUME NEW i \in DOMAIN jobs[e], ~(e = x /\ i = k), Carries(e, i)
      PROVE  Carries(e, i)'
  <2>1. Recorded(e, i)' => Recorded(e, i)
    BY <1>3, <1>5 DEF Recorded
  <2> QED
    BY <1>3, <1>5, <2>1 DEF Carries
<1>6. ASSUME e = x, Carries(e, k)
      PROVE  Carries(e, k)' \/ jobs'[e][k].state \in {"lost", "abandoned"}
  BY <1>4, <1>6 DEF Carries
<1> QED
  BY <1>2, <1>3, <1>5, <1>6, StillCarried

\* Losing unsent jobs strands their rows; other rows keep their carrier.
LEMMA CarriedAfterLoss ==
  ASSUME TypeOK, NEW lost, jobs' = LoseUnsent(lost), handlers' \subseteq handlers,
         NEW e \in Events, Carried(e)
  PROVE  Carried(e)'
<1>1. DOMAIN jobs'[e] = DOMAIN jobs[e]
  BY LoseUnsentLemma DEF TypeOK, Shape
<1>2. ASSUME NEW k \in DOMAIN jobs[e]
      PROVE  /\ jobs[e][k].state \in {"lost", "abandoned"} =>
                  jobs'[e][k].state \in {"lost", "abandoned"}
             /\ Carries(e, k) => Carries(e, k)' \/ jobs'[e][k].state \in {"lost", "abandoned"}
  <2>1. CASE jobs'[e][k] = jobs[e][k]
    <3>1. Recorded(e, k)' => Recorded(e, k)
      BY <2>1 DEF Recorded
    <3> QED
      BY <2>1, <3>1 DEF Carries
  <2>2. CASE jobs[e][k].state = "unsent" /\ jobs'[e][k] = [jobs[e][k] EXCEPT !.state = "lost"]
    <3>1. jobs[e][k] \in Job
      BY DEF TypeOK
    <3>2. jobs'[e][k].state = "lost"
      BY <2>2, <3>1 DEF Job
    <3> QED
      BY <2>2, <3>2
  <2> QED
    BY <2>1, <2>2, LoseUnsentLemma DEF TypeOK, Shape
<1> QED
  BY <1>1, <1>2, StillCarried

\* Whoever stops carrying a row has written its outcome or stranded it.
LEMMA CarriedStep == TypeOK /\ AttemptsInv /\ ProcessingIsCarried /\ [Next]_vars
                       => ProcessingIsCarried'
<1> SUFFICES ASSUME TypeOK, AttemptsInv, ProcessingIsCarried, [Next]_vars,
                    NEW e \in Events \ ManualEvents, row'[e].status = "processing"
             PROVE  Carried(e)'
  BY DEF ProcessingIsCarried, Carried
<1>a. row[e].status = "processing" => Carried(e)
  BY DEF ProcessingIsCarried, Carried
<1>b. e \in Events
  OBVIOUS
<1>1. CASE UNCHANGED <<row, jobs, handlers>>
  BY <1>1, <1>a, CarriedByOthers
<1>2. ASSUME NEW E \in SUBSET (Events \ ManualEvents), Write(E) PROVE Carried(e)'
  <2>1. row[e].status = "processing"
    BY <1>2 DEF Write, NewRow
  <2> QED
    BY <1>2, <1>a, <2>1, CarriedByOthers DEF Write
<1>3. ASSUME NEW s \in Servers, NEW l \in Loops, OnNotify(s, l) \/ Catchup(s, l)
      PROVE  Carried(e)'
  <2>1. PICK B \in Batches : Claim(<<s, l>>, B)
    BY <1>3 DEF OnNotify, Catchup
  <2>2. handlers' = handlers
    BY <1>3 DEF OnNotify, Catchup
  <2>3. CASE e \in B
    <3>1. NewJob("unsent", <<s, l>>) \in Job /\ NewJob("unsent", <<s, l>>).state = "unsent"
      BY DEF NewJob, Job, Loop
    <3>2. jobs'[e] = Append(jobs[e], NewJob("unsent", <<s, l>>))
      BY <2>1, <2>3 DEF Claim
    <3>3. /\ Len(jobs[e]) + 1 \in DOMAIN jobs'[e]
          /\ jobs'[e][Len(jobs[e]) + 1] = NewJob("unsent", <<s, l>>)
      BY <3>1, <3>2, AppendLemma DEF TypeOK, Shape
    <3>4. PICK m : m \in DOMAIN jobs'[e] /\ jobs'[e][m].state = "unsent"
      BY <3>1, <3>3
    <3>5. Carries(e, m)'
      BY <3>4 DEF Carries
    <3> QED
      BY <3>4, <3>5 DEF Carried
  <2>4. CASE e \notin B
    <3>1. row'[e] = row[e] /\ jobs'[e] = jobs[e]
      BY <2>1, <2>4 DEF Claim
    <3> QED
      BY <1>a, <2>2, <3>1, CarriedByOthers
  <2> QED
    BY <2>3, <2>4
<1>4. ASSUME NEW lost, jobs' = LoseUnsent(lost), handlers' \subseteq handlers, row' = row
      PROVE  Carried(e)'
  BY <1>4, <1>a, CarriedAfterLoss
<1>5. ASSUME NEW x \in Events, NEW k \in DOMAIN jobs[x], JobStep(x, k)
      PROVE  Carried(e)'
  <2>0. jobs[x][k] \in Job /\ row' = row
    BY <1>5 DEF TypeOK, JobStep, Send, Fetch, Expire
  <2>1. CASE Send(x, k)
    <3> DEFINE j == [jobs[x][k] EXCEPT !.state = "created"]
    <3>1. j \in Job /\ j.state = "created"
      BY <2>0 DEF Job
    <3> HIDE DEF j
    <3>2. jobs[x][k].state = "unsent" /\ jobs' = SetJob(x, k, j) /\ handlers' = handlers
      BY <2>1 DEF Send, j
    <3> QED
      BY <1>a, <2>0, <3>1, <3>2, CarriedAfterOne
  <2>2. ASSUME NEW s \in Servers, Fetch(s, x, k)
        PROVE  Carried(e)'
    <3> DEFINE j == [jobs[x][k] EXCEPT !.state = "active"]
               n == [ev |-> x, job |-> k, try |-> jobs[x][k].tries, at |-> s,
                     phase |-> "posting"]
    <3>1. j \in Job /\ j.state = "active" /\ j.tries = jobs[x][k].tries
      BY <2>0 DEF Job
    <3>2. n.phase = "posting"
      OBVIOUS
    <3>3. /\ jobs[x][k].state \in {"created", "retry"}
          /\ jobs' = SetJob(x, k, j)
          /\ handlers' = handlers \cup {n}
      BY <2>2 DEF Fetch, Waiting
    <3> HIDE DEF j, n
    <3>4. jobs'[x][k] = j
      BY <3>1, <3>3, SetJobLemma DEF TypeOK, Shape
    <3>5. \A h \in handlers : ~(h.ev = x /\ h.job = k /\ h.try = jobs[x][k].tries)
      <4>1. jobs[x][k].tries \in Nat
        BY <2>0 DEF Job
      <4> QED
        BY <3>3, <4>1 DEF AttemptsInv, Started
    <3>6. ~Recorded(x, k)'
      BY <3>1, <3>2, <3>3, <3>4, <3>5 DEF Recorded
    <3> QED
      BY <1>a, <2>0, <3>1, <3>2, <3>3, <3>6, CarriedAfterOne
  <2>3. CASE Expire(x, k)
    <3> DEFINE j == FailedJob(jobs[x][k], "abandoned")
    <3>1. j \in Job /\ j.state \in {"retry", "abandoned"}
      <4>1. j \in Job
        BY <2>0, FailedJobType
      <4>2. CASE jobs[x][k].tries < NumRetries
        BY <2>0, <4>1, <4>2 DEF FailedJob, Job
      <4>3. CASE ~(jobs[x][k].tries < NumRetries)
        BY <2>0, <4>1, <4>3 DEF FailedJob, Job
      <4> QED
        BY <4>1, <4>2, <4>3
    <3>2. jobs[x][k].state = "active" /\ jobs' = SetJob(x, k, j) /\ handlers' = handlers
      BY <2>3 DEF Expire
    <3> HIDE DEF j
    <3> QED
      BY <1>a, <2>0, <3>1, <3>2, CarriedAfterOne
  <2> QED
    BY <1>5, <2>1, <2>2, <2>3 DEF JobStep
<1>6. ASSUME NEW h \in handlers, HandlerStep(h)
      PROVE  Carried(e)'
  <2>0. h.ev \in Events
    BY DEF TypeOK, Handler
  <2>p. ASSUME NEW ph \in {"ok", "bad", "okRecorded", "badRecorded", "threw"}
        PROVE  \A g \in InPhase(h, ph) : g \in handlers \/ (g.phase = ph /\ g.ev = h.ev)
    BY DEF InPhase, TypeOK, Handler
  <2>1. CASE Post(h)
    <3>1. row' = row /\ jobs' = jobs
      BY <2>1 DEF Post
    <3>2. \A g \in handlers' : g.phase \in {"okRecorded", "badRecorded"} => g \in handlers
      BY <2>1, <2>p DEF Post
    <3> QED
      BY <1>a, <3>1, <3>2, CarriedByOthers
  <2>2. CASE OnSuccess(h)
    <3>1. e # h.ev /\ row'[e] = row[e] /\ jobs' = jobs
      BY <2>0, <2>2 DEF OnSuccess, SetStatus, Exists, Statuses, TypeOK, Row
    <3>2. \A g \in handlers' : g.ev = e => g \in handlers
      BY <2>2, <2>p, <3>1 DEF OnSuccess
    <3> QED
      BY <1>a, <3>1, <3>2, CarriedByOthers
  <2>3. CASE OnFailure(h)
    <3>1. e # h.ev /\ row'[e] = row[e] /\ jobs' = jobs
      BY <2>0, <2>3 DEF OnFailure, FailedRow, Exists, Statuses, TypeOK, Row
    <3>2. \A g \in handlers' : g.ev = e => g \in handlers
      BY <2>3, <2>p, <3>1 DEF OnFailure
    <3> QED
      BY <1>a, <3>1, <3>2, CarriedByOthers
  <2>4. CASE HandlerThrows(h)
    <3>1. handlers' = InPhase(h, "threw") /\ row' = row /\ jobs' = jobs
      BY <2>4 DEF HandlerThrows
    <3>2. \A g \in handlers' : g.phase \in {"okRecorded", "badRecorded"} => g \in handlers
      BY <2>p, <3>1
    <3> QED
      BY <1>a, <3>1, <3>2, CarriedByOthers
  <2>5. CASE Finish(h)
    <3>1. row' = row /\ handlers' \subseteq handlers
      BY <2>5 DEF Finish
    <3>2. CASE ~Current(h)
      BY <1>a, <2>5, <3>1, <3>2, CarriedByOthers DEF Finish
    <3>3. CASE Current(h)
      <4> DEFINE k == h.job
                 j == SettledJob(jobs[h.ev][k], h.phase)
      <4>1. k \in DOMAIN jobs[h.ev]
        BY DEF AttemptsInv
      <4>2. jobs[h.ev][k] \in Job /\ jobs[h.ev][k].state = "active"
        BY <2>0, <3>3, <4>1 DEF Current, TypeOK
      <4>3. h.phase \in {"okRecorded", "badRecorded", "threw"}
        BY <2>5 DEF Finish
      <4>4. j \in Job
        BY <4>2, <4>3, SettledJobType
      <4>5. jobs' = SetJob(h.ev, k, j)
        BY <2>5, <3>3 DEF Finish
      <4>6. h.phase \in {"okRecorded", "badRecorded"} => ~Carries(h.ev, k)
        BY <3>3, <4>2 DEF Carries, Recorded, Current
      <4>7. h.phase = "threw" => j.state \in {"retry", "abandoned"}
        <5>1. h.phase = "threw" => j = FailedJob(jobs[h.ev][k], "abandoned")
          BY DEF SettledJob
        <5>2. FailedJob(jobs[h.ev][k], "abandoned").state \in {"retry", "abandoned"}
          <6>1. CASE jobs[h.ev][k].tries < NumRetries
            BY <4>2, <6>1 DEF FailedJob, Job
          <6>2. CASE ~(jobs[h.ev][k].tries < NumRetries)
            BY <4>2, <6>2 DEF FailedJob, Job
          <6> QED
            BY <6>1, <6>2
        <5> QED
          BY <5>1, <5>2
      <4> HIDE DEF k, j
      <4> QED
        BY <1>a, <2>0, <3>1, <4>1, <4>2, <4>3, <4>4, <4>5, <4>6, <4>7, CarriedAfterOne
    <3> QED
      BY <3>2, <3>3
  <2> QED
    BY <1>6, <2>1, <2>2, <2>3, <2>4, <2>5 DEF HandlerStep
<1>7. ASSUME NEW s \in Servers, NEW x \in ManualEvents, InvokeInsert(s, x)
      PROVE  Carried(e)'
  <2>1. row'[e] = row[e] /\ jobs' = jobs /\ handlers' = handlers
    BY <1>7, EventLogAssumption DEF InvokeInsert, TypeOK
  <2> QED
    BY <1>a, <2>1, CarriedByOthers
<1>8. ASSUME NEW i \in invoking, InvokeStep(i)
      PROVE  Carried(e)'
  <2>0. i.ev \in ManualEvents /\ i.ev \in Events
    BY EventLogAssumption DEF TypeOK, Invocation
  <2>1. row'[e] = row[e] /\ jobs'[e] = jobs[e] /\ handlers' = handlers
    BY <1>8, <2>0 DEF InvokeStep, InvokeSend, InvokeMark, InvokeFails, SetStatus, TypeOK
  <2> QED
    BY <1>a, <2>1, CarriedByOthers
<1>9. ASSUME NEW x \in Events, RetryDue(x) PROVE Carried(e)'
  <2>1. row'[e].status = row[e].status /\ jobs' = jobs /\ handlers' = handlers
    BY <1>9 DEF RetryDue, TypeOK, Row
  <2> QED
    BY <1>a, <2>1, CarriedByOthers
<1>10. ASSUME NEW E \in SUBSET Events, Cleanup(E) PROVE Carried(e)'
  <2>1. row'[e].status = row[e].status /\ jobs' = jobs /\ handlers' = handlers
    BY <1>10 DEF Cleanup, TypeOK, Row
  <2> QED
    BY <1>a, <2>1, CarriedByOthers
<1>11. ASSUME NEW s \in Servers, Crash(s) PROVE Carried(e)'
  BY <1>4, <1>11 DEF Crash
<1>12. ASSUME NEW s \in Servers, NEW l \in Loops, SendFails(<<s, l>>) PROVE Carried(e)'
  BY <1>4, <1>12 DEF SendFails
<1> QED
  BY <1>1, <1>2, <1>3, <1>5, <1>6, <1>7, <1>8, <1>9, <1>10, <1>11, <1>12
     DEF Next, vars, Listener, Start

\* A captured row is never forgotten in 'processing' while its server keeps
\* running and the queue gives up on no unrecorded attempt: the claim's
\* UPDATE (delivery.ts:86) and the sends that follow it are the only gap.
THEOREM ProcessingRowsAreCarried == Spec => []ProcessingIsCarried
<1>1. Init => AttemptsInv /\ ProcessingIsCarried
  BY AttemptsInit DEF Init, ProcessingIsCarried
<1>2. TypeOK /\ AttemptsInv /\ ProcessingIsCarried /\ [Next]_vars
        => (AttemptsInv /\ ProcessingIsCarried)'
  BY AttemptsStep, CarriedStep
<1> QED
  BY <1>1, <1>2, TypeCorrect, PTL DEF Spec
=============================================================================
