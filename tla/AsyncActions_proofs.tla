------------------------- MODULE AsyncActions_proofs -------------------------
(***************************************************************************)
(* Proofs about AsyncActions, for any sets of actions and servers, any     *)
(* RetryLimit and any number of mishaps, with and without handlers that    *)
(* outlive their jobs.                                                     *)
(***************************************************************************)
EXTENDS AsyncActions, TLAPS

-----------------------------------------------------------------------------
(* Type correctness.                                                       *)

Phases == {"posting", "ok", "bad", "okRecorded", "badRecorded", "threw"}

\* Moving a handler to another phase changes nothing else of it.
LEMMA PhaseLemma ==
  ASSUME NEW h \in Handler, NEW ph \in Phases
  PROVE  LET g == [h EXCEPT !.phase = ph] IN
         /\ g \in Handler
         /\ g.act = h.act /\ g.try = h.try /\ g.at = h.at /\ g.phase = ph
BY DEF Handler, Phases

\* What failing a job does to it.
LEMMA FailedJobLemma ==
  ASSUME NEW j \in Job
  PROVE  /\ FailedJob(j) \in Job
         /\ j.tries < RetryLimit =>
              FailedJob(j).state = "retry" /\ FailedJob(j).tries = j.tries + 1
         /\ ~(j.tries < RetryLimit) =>
              FailedJob(j).state = "failed" /\ FailedJob(j).tries = j.tries
BY AsyncActionsAssumption DEF FailedJob, Job

\* Every action keeps the types.
LEMMA TypeStep == TypeOK /\ [Next]_vars => TypeOK'
<1> SUFFICES ASSUME TypeOK, [Next]_vars PROVE TypeOK'
  OBVIOUS
<1> USE AsyncActionsAssumption
<1>1. CASE UNCHANGED vars
  BY <1>1 DEF vars, TypeOK
<1>2. ASSUME Mishap PROVE mishaps' \in 0 .. MaxMishaps
  BY <1>2 DEF Mishap, TypeOK
<1>3. ASSUME NEW s \in Servers, NEW a \in Actions, Insert(s, a)
      PROVE  TypeOK'
  <2>1. row' \in [Actions -> Row]
    BY <1>3 DEF Insert, SetStatus, TypeOK, Row
  <2>2. request' \in [Actions -> Request]
    BY <1>3 DEF Insert, TypeOK, Request
  <2> QED
    BY <1>3, <2>1, <2>2 DEF Insert, TypeOK
<1>4. ASSUME NEW a \in Actions, request[a].phase \in {"inserted", "sent"},
             NEW ph \in {"sent", "over"},
             request' = [request EXCEPT ![a].phase = ph]
      PROVE  request' \in [Actions -> Request]
  <2>1. request[a] \in [at : Servers, phase : {"inserted", "sent", "over"}]
    BY <1>4 DEF TypeOK, Request
  <2>2. [request[a] EXCEPT !.phase = ph] \in Request
    BY <2>1 DEF Request
  <2> QED
    BY <1>4, <2>2 DEF TypeOK
<1>5. ASSUME NEW a \in Actions, Send(a)
      PROVE  TypeOK'
  <2>1. job' \in [Actions -> Job]
    BY <1>5 DEF Send, TypeOK, Job
  <2>2. request' \in [Actions -> Request]
    BY <1>4, <1>5 DEF Send
  <2> QED
    BY <1>5, <2>1, <2>2 DEF Send, TypeOK
<1>6. ASSUME NEW a \in Actions, Mark(a)
      PROVE  TypeOK'
  <2>1. row' \in [Actions -> Row]
    BY <1>6 DEF Mark, SetStatus, TypeOK, Row
  <2>2. request' \in [Actions -> Request]
    BY <1>4, <1>6 DEF Mark
  <2> QED
    BY <1>6, <2>1, <2>2 DEF Mark, TypeOK
<1>7. ASSUME NEW a \in Actions, RequestFails(a)
      PROVE  TypeOK'
  <2>1. request' \in [Actions -> Request]
    BY <1>4, <1>7 DEF RequestFails
  <2> QED
    BY <1>2, <1>7, <2>1 DEF RequestFails, TypeOK
<1>8. ASSUME NEW a \in Actions, Expire(a)
      PROVE  TypeOK'
  <2>1. job' \in [Actions -> Job]
    BY <1>8, FailedJobLemma DEF Expire, TypeOK
  <2> QED
    BY <1>8, <2>1 DEF Expire, TypeOK
<1>9. ASSUME NEW s \in Servers, NEW a \in Actions, Fetch(s, a)
      PROVE  TypeOK'
  <2>1. job' \in [Actions -> Job]
    BY <1>9 DEF Fetch, TypeOK, Job
  <2>2. [act |-> a, try |-> job[a].tries, at |-> s, phase |-> "posting"] \in Handler
    BY DEF TypeOK, Job, Handler
  <2> QED
    BY <1>9, <2>1, <2>2 DEF Fetch, TypeOK
<1>10. ASSUME NEW h \in handlers, HandlerStep(h)
       PROVE  TypeOK'
  <2>1. h \in Handler /\ h.act \in Actions /\ h.try \in Nat
    BY DEF TypeOK, Handler
  <2>2. \A ph \in Phases : InPhase(h, ph) \subseteq Handler
    BY <2>1, PhaseLemma DEF InPhase, TypeOK
  <2>3. CASE Post(h)
    <3>1. \E ph \in Phases : handlers' = InPhase(h, ph)
      BY <2>3 DEF Post, Phases
    <3>2. /\ posts' = posts \/ posts' = posts \cup {<<h.act, h.try>>}
          /\ accepted' = accepted \/ accepted' = accepted \cup {h.act}
          /\ UNCHANGED <<row, job, request, mishaps>>
      BY <2>3 DEF Post
    <3> QED
      BY <2>1, <2>2, <3>1, <3>2 DEF TypeOK
  <2>4. CASE OnSuccess(h)
    <3>1. row' \in [Actions -> Row]
      BY <2>1, <2>4 DEF OnSuccess, TypeOK, Row
    <3> QED
      BY <2>2, <2>4, <3>1 DEF OnSuccess, TypeOK, Phases
  <2>5. CASE OnFailure(h)
    <3>1. row' \in [Actions -> Row]
      BY <2>1, <2>5 DEF OnFailure, TypeOK, Row
    <3> QED
      BY <2>2, <2>5, <3>1 DEF OnFailure, TypeOK, Phases
  <2>6. CASE HandlerThrows(h)
    BY <1>2, <2>2, <2>6 DEF HandlerThrows, TypeOK, Phases
  <2>7. CASE Finish(h)
    <3>1. [job EXCEPT ![h.act] = FailedJob(@)] \in [Actions -> Job]
      BY <2>1, FailedJobLemma DEF TypeOK
    <3>2. [job EXCEPT ![h.act].state = "completed"] \in [Actions -> Job]
      BY <2>1 DEF TypeOK, Job
    <3> QED
      BY <2>7, <3>1, <3>2 DEF Finish, TypeOK
  <2> QED
    BY <1>10, <2>3, <2>4, <2>5, <2>6, <2>7 DEF HandlerStep
<1>11. ASSUME NEW s \in Servers, Crash(s)
       PROVE  TypeOK'
  <2>1. request' \in [Actions -> Request]
    <3>1. ASSUME NEW a \in Actions, request[a].phase \in {"inserted", "sent"}
          PROVE  [request[a] EXCEPT !.phase = "over"] \in Request
      BY <3>1 DEF TypeOK, Request
    <3> QED
      BY <1>11, <3>1 DEF Crash, TypeOK
  <2> QED
    BY <1>2, <1>11, <2>1 DEF Crash, TypeOK
<1> QED
  BY <1>1, <1>3, <1>5, <1>6, <1>7, <1>8, <1>9, <1>10, <1>11 DEF Next

\* The variables of AsyncActions have their types in every reachable state.
THEOREM TypeCorrect == Spec => []TypeOK
<1>1. Init => TypeOK
  BY AsyncActionsAssumption DEF Init, TypeOK, Row, Job, Request
<1> QED
  BY <1>1, TypeStep, PTL DEF Spec
-----------------------------------------------------------------------------
(* Attempts.  AttemptsBounded is not inductive as it stands: that Send     *)
(* does not put a job back needs that the job is sent once, and the bound  *)
(* on the calls needs the bound on the job's retries.                      *)

\* A row is inserted once, its job sent once, and retried RetryLimit times.
SentOnce ==
  /\ \A a \in Actions : row[a].status = "none" => request[a].phase = "none"
  /\ \A a \in Actions : request[a].phase \in {"none", "inserted"} => job[a].state = "none"
  /\ \A a \in Actions : job[a].state = "none" => job[a].tries = 0
  /\ \A a \in Actions : job[a].tries <= RetryLimit
  /\ \A a \in Actions : job[a].state = "failed" => job[a].tries = RetryLimit

AttemptsInv == SentOnce /\ AttemptsBounded

\* Steps of a request change no job that was sent, no handler and no call.
LEMMA SentOnceOfRequest ==
  ASSUME TypeOK, SentOnce, NEW a \in Actions, NEW s \in Servers,
         Insert(s, a) \/ Send(a) \/ Mark(a) \/ RequestFails(a)
  PROVE  /\ SentOnce'
         /\ \A b \in Actions : \/ job'[b] = job[b]
                               \/ /\ job[b].state = "none" /\ job'[b].state = "created"
                                  /\ job'[b].tries = job[b].tries
         /\ handlers' = handlers /\ posts' = posts
<1> USE AsyncActionsAssumption
<1>1. CASE Insert(s, a)
  BY <1>1 DEF Insert, SetStatus, SentOnce, TypeOK, Row, Job
<1>2. CASE Send(a)
  <2>1. job[a].state = "none"
    BY <1>2 DEF Send, SentOnce
  <2>2. /\ job'[a].state = "created" /\ job'[a].tries = job[a].tries
        /\ \A b \in Actions \ {a} : job'[b] = job[b]
    BY <1>2 DEF Send, TypeOK, Job
  <2>3. /\ request'[a].phase = "sent"
        /\ \A b \in Actions \ {a} : request'[b] = request[b]
    BY <1>2 DEF Send, TypeOK, Request
  <2>4. row' = row /\ handlers' = handlers /\ posts' = posts
    BY <1>2 DEF Send
  <2>5. row[a].status # "none"
    BY <1>2 DEF Send, SentOnce
  <2>6. SentOnce'
    BY <2>1, <2>2, <2>3, <2>4, <2>5 DEF SentOnce
  <2> QED
    BY <2>1, <2>2, <2>4, <2>6
<1>3. CASE Mark(a)
  <2>1. /\ request'[a].phase = "over"
        /\ \A b \in Actions \ {a} : request'[b] = request[b]
    BY <1>3 DEF Mark, TypeOK, Request
  <2>2. \A b \in Actions : row'[b].status = "none" => b # a /\ row[b].status = "none"
    BY <1>3 DEF Mark, SetStatus, TypeOK, Row
  <2>3. job' = job /\ handlers' = handlers /\ posts' = posts
    BY <1>3 DEF Mark
  <2> QED
    BY <2>1, <2>2, <2>3 DEF SentOnce
<1>4. CASE RequestFails(a)
  <2>1. /\ request'[a].phase = "over"
        /\ \A b \in Actions \ {a} : request'[b] = request[b]
    BY <1>4 DEF RequestFails, TypeOK, Request
  <2>2. row[a].status # "none"
    BY <1>4 DEF RequestFails, SentOnce
  <2>3. row' = row /\ job' = job /\ handlers' = handlers /\ posts' = posts
    BY <1>4 DEF RequestFails
  <2> QED
    BY <2>1, <2>2, <2>3 DEF SentOnce
<1> QED
  BY <1>1, <1>2, <1>3, <1>4

\* A job that fails keeps SentOnce, whoever fails it.
LEMMA SentOnceOfFailedJob ==
  ASSUME TypeOK, SentOnce, NEW a \in Actions, job[a].state = "active",
         job' = [job EXCEPT ![a] = FailedJob(@)],
         row' = row, request' = request
  PROVE  SentOnce'
<1> USE AsyncActionsAssumption
<1>1. job[a] \in Job /\ job[a].tries \in Nat /\ job[a].tries <= RetryLimit
  BY DEF TypeOK, Job, SentOnce
<1>2. job'[a] = FailedJob(job[a]) /\ \A b \in Actions \ {a} : job'[b] = job[b]
  BY DEF TypeOK
<1>3. /\ job'[a].state \in {"retry", "failed"}
      /\ job'[a].tries <= RetryLimit
      /\ job'[a].state = "failed" => job'[a].tries = RetryLimit
  BY <1>1, <1>2, FailedJobLemma
<1>4. request[a].phase \notin {"none", "inserted"}
  BY DEF SentOnce
<1> QED
  BY <1>2, <1>3, <1>4 DEF SentOnce

\* Every action keeps SentOnce.
LEMMA SentOnceStep == TypeOK /\ SentOnce /\ [Next]_vars => SentOnce'
<1> SUFFICES ASSUME TypeOK, SentOnce, [Next]_vars PROVE SentOnce'
  OBVIOUS
<1>1. CASE UNCHANGED vars
  BY <1>1 DEF vars, SentOnce
<1>2. ASSUME NEW a \in Actions, NEW s \in Servers,
             Insert(s, a) \/ Send(a) \/ Mark(a) \/ RequestFails(a)
      PROVE  SentOnce'
  BY <1>2, SentOnceOfRequest
<1>3. ASSUME NEW a \in Actions, Send(a) \/ Mark(a) \/ RequestFails(a)
      PROVE  SentOnce'
  <2>1. request[a].at \in Servers
    BY <1>3 DEF Send, Mark, RequestFails, TypeOK, Request
  <2> QED
    BY <1>2, <1>3, <2>1
<1>4. ASSUME NEW a \in Actions, Expire(a)
      PROVE  SentOnce'
  BY <1>4, SentOnceOfFailedJob DEF Expire
<1>5. ASSUME NEW s \in Servers, NEW a \in Actions, Fetch(s, a)
      PROVE  SentOnce'
  <2>1. /\ job'[a].state = "active" /\ job'[a].tries = job[a].tries
        /\ \A b \in Actions \ {a} : job'[b] = job[b]
    BY <1>5 DEF Fetch, TypeOK, Job
  <2>2. row' = row /\ request' = request
    BY <1>5 DEF Fetch
  <2>3. request[a].phase \notin {"none", "inserted"}
    BY <1>5 DEF Fetch, SentOnce
  <2> QED
    BY <2>1, <2>2, <2>3 DEF SentOnce
<1>6. ASSUME NEW h \in handlers, HandlerStep(h)
      PROVE  SentOnce'
  <2>1. h.act \in Actions
    BY DEF TypeOK, Handler
  <2>2. request' = request
    BY <1>6 DEF HandlerStep, Post, OnSuccess, OnFailure, HandlerThrows, Finish
  <2>3. \A a \in Actions : row'[a].status = "none" => row[a].status = "none"
    BY <1>6, <2>1 DEF HandlerStep, Post, OnSuccess, OnFailure, HandlerThrows, Finish, TypeOK, Row
  <2>4. CASE job' = job
    BY <2>2, <2>3, <2>4 DEF SentOnce
  <2>5. CASE ~(job' = job)
    <3>1. Finish(h) /\ Current(h)
      BY <1>6, <2>5 DEF HandlerStep, Post, OnSuccess, OnFailure, HandlerThrows, Finish
    <3>2. job[h.act].state = "active" /\ row' = row
      BY <3>1 DEF Finish, Current
    <3>3. CASE job' = [job EXCEPT ![h.act] = FailedJob(@)]
      BY <2>1, <2>2, <3>2, <3>3, SentOnceOfFailedJob
    <3>4. CASE job' = [job EXCEPT ![h.act].state = "completed"]
      <4>1. /\ job'[h.act].state = "completed" /\ job'[h.act].tries = job[h.act].tries
            /\ \A b \in Actions \ {h.act} : job'[b] = job[b]
        BY <2>1, <3>4 DEF TypeOK, Job
      <4>2. request[h.act].phase \notin {"none", "inserted"}
        BY <2>1, <3>2 DEF SentOnce
      <4> QED
        BY <2>1, <2>2, <3>2, <4>1, <4>2 DEF SentOnce
    <3> QED
      BY <3>1, <3>3, <3>4 DEF Finish
  <2> QED
    BY <2>4, <2>5
<1>7. ASSUME NEW s \in Servers, Crash(s)
      PROVE  SentOnce'
  <2>1. \A a \in Actions : \/ request'[a] = request[a]
                           \/ /\ request[a].phase \in {"inserted", "sent"}
                              /\ request'[a].phase = "over"
    BY <1>7 DEF Crash, TypeOK, Request
  <2>2. row' = row /\ job' = job
    BY <1>7 DEF Crash
  <2> QED
    BY <2>1, <2>2 DEF SentOnce
<1> QED
  BY <1>1, <1>2, <1>3, <1>4, <1>5, <1>6, <1>7 DEF Next
\* An attempt that has a handler stays one, whatever happens to the job.
LEMMA AttemptedStep ==
  ASSUME TypeOK, SentOnce, [Next]_vars, NEW a \in Actions, NEW t \in Nat, Attempted(a, t)
  PROVE  Attempted(a, t)'
<1> USE AsyncActionsAssumption
<1>1. job[a] \in Job /\ job[a].tries \in Nat
  BY DEF TypeOK, Job
<1>2. CASE job'[a] = job[a]
  BY <1>2 DEF Attempted
<1>3. CASE job'[a].tries = job[a].tries /\ job'[a].state \notin {"none", "created", "retry"}
  BY <1>1, <1>3 DEF Attempted
<1>4. CASE job[a].state = "active" /\ job'[a] = FailedJob(job[a])
  BY <1>1, <1>4, FailedJobLemma DEF Attempted
<1>5. CASE UNCHANGED vars
  BY <1>2, <1>5 DEF vars
<1>6. ASSUME NEW b \in Actions, Send(b) \/ Mark(b) \/ RequestFails(b) \/ Expire(b)
      PROVE  Attempted(a, t)'
  <2>1. CASE Send(b)
    <3>1. job[b].state = "none"
      BY <2>1 DEF Send, SentOnce
    <3>2. job'[a] = job[a] \/ (job[a].state = "none" /\ job'[a].tries = job[a].tries)
      BY <2>1, <3>1 DEF Send, TypeOK, Job
    <3> QED
      BY <1>1, <1>2, <3>2 DEF Attempted
  <2>2. CASE Mark(b) \/ RequestFails(b)
    BY <1>2, <2>2 DEF Mark, RequestFails
  <2>3. CASE Expire(b)
    BY <1>2, <1>4, <2>3 DEF Expire, TypeOK
  <2> QED
    BY <1>6, <2>1, <2>2, <2>3
<1>7. ASSUME NEW s \in Servers, NEW b \in Actions, Insert(s, b) \/ Fetch(s, b)
      PROVE  Attempted(a, t)'
  BY <1>2, <1>3, <1>7 DEF Insert, Fetch, TypeOK, Job
<1>8. ASSUME NEW h \in handlers, HandlerStep(h)
      PROVE  Attempted(a, t)'
  <2>1. CASE job' = job
    BY <1>2, <2>1
  <2>2. CASE Finish(h) /\ Current(h)
    <3>1. \/ job' = [job EXCEPT ![h.act].state = "completed"]
          \/ job' = [job EXCEPT ![h.act] = FailedJob(@)]
      BY <2>2 DEF Finish
    <3>2. \/ job'[a] = job[a]
          \/ job'[a].tries = job[a].tries /\ job'[a].state = "completed"
          \/ a = h.act /\ job'[a] = FailedJob(job[a])
      BY <3>1 DEF TypeOK, Job
    <3> QED
      BY <1>2, <1>3, <1>4, <2>2, <3>2 DEF Current
  <2> QED
    BY <1>8, <2>1, <2>2 DEF HandlerStep, Post, OnSuccess, OnFailure, HandlerThrows, Finish
<1>9. ASSUME NEW s \in Servers, Crash(s)
      PROVE  Attempted(a, t)'
  BY <1>2, <1>9 DEF Crash
<1> QED
  BY <1>5, <1>6, <1>7, <1>8, <1>9 DEF Next

\* Steps that add no attempt: every handler was there before, in the same
\* attempt, and a call is added only by the handler that leaves "posting".
LEMMA AttemptsKept ==
  ASSUME TypeOK, AttemptsInv, [Next]_vars, posts' = posts,
         \A g \in handlers' : g \in handlers \/ \E h \in handlers :
           /\ g.act = h.act /\ g.try = h.try /\ g.phase # "posting" /\ h \notin handlers'
           /\ \A k \in handlers' : k \in handlers \/ k = g
  PROVE  AttemptsBounded'
<1>1. \A p \in posts' : p[2] <= RetryLimit /\ Attempted(p[1], p[2])'
  BY AttemptedStep DEF AttemptsInv, AttemptsBounded, TypeOK
<1>2. \A g \in handlers' : \E h \in handlers : g.act = h.act /\ g.try = h.try
  OBVIOUS
<1>3. \A g \in handlers' : Attempted(g.act, g.try)'
  <2> SUFFICES ASSUME NEW g \in handlers' PROVE Attempted(g.act, g.try)'
    OBVIOUS
  <2>1. PICK h \in handlers : g.act = h.act /\ g.try = h.try
    BY <1>2
  <2>2. h.act \in Actions /\ h.try \in Nat /\ Attempted(h.act, h.try)
    BY DEF TypeOK, Handler, AttemptsInv, AttemptsBounded
  <2> QED
    BY <2>1, <2>2, AttemptedStep DEF AttemptsInv
<1>4. \A g \in handlers' : g.phase = "posting" => <<g.act, g.try>> \notin posts'
  BY DEF AttemptsInv, AttemptsBounded
<1>5. \A g, k \in handlers' : g.act = k.act /\ g.try = k.try => g = k
  BY DEF AttemptsInv, AttemptsBounded
<1> QED
  BY <1>1, <1>3, <1>4, <1>5 DEF AttemptsBounded

\* What a handler that moves to another phase does to the set of handlers.
LEMMA InPhaseLemma ==
  ASSUME TypeOK, NEW h \in handlers, NEW ph \in Phases, h.phase # ph
  PROVE  /\ InPhase(h, ph) = (handlers \ {h}) \cup {[h EXCEPT !.phase = ph]}
         /\ h \notin InPhase(h, ph)
         /\ [h EXCEPT !.phase = ph] \in Handler
         /\ [h EXCEPT !.phase = ph].act = h.act /\ [h EXCEPT !.phase = ph].try = h.try
         /\ [h EXCEPT !.phase = ph].at = h.at /\ [h EXCEPT !.phase = ph].phase = ph
<1>1. h \in Handler
  BY DEF TypeOK
<1>2. /\ [h EXCEPT !.phase = ph] \in Handler
      /\ [h EXCEPT !.phase = ph].act = h.act /\ [h EXCEPT !.phase = ph].try = h.try
      /\ [h EXCEPT !.phase = ph].at = h.at /\ [h EXCEPT !.phase = ph].phase = ph
  BY <1>1, PhaseLemma
<1> QED
  BY <1>2 DEF InPhase

\* Every action keeps AttemptsBounded.
LEMMA AttemptsStep == TypeOK /\ AttemptsInv /\ [Next]_vars => AttemptsInv'
<1> SUFFICES ASSUME TypeOK, AttemptsInv, [Next]_vars PROVE AttemptsBounded'
  BY SentOnceStep DEF AttemptsInv
<1>1. CASE handlers' \subseteq handlers /\ posts' = posts
  BY <1>1, AttemptsKept
<1>2. ASSUME NEW s \in Servers, NEW a \in Actions, Fetch(s, a)
      PROVE  AttemptsBounded'
  <2> DEFINE new == [act |-> a, try |-> job[a].tries, at |-> s, phase |-> "posting"]
  <2>1. /\ handlers' = handlers \cup {new} /\ posts' = posts
        /\ job[a].state \in {"created", "retry"}
        /\ job'[a].state = "active" /\ job'[a].tries = job[a].tries
    BY <1>2 DEF Fetch, TypeOK, Job
  <2>2. new.act = a /\ new.try = job[a].tries /\ new.try \in Nat
    BY DEF TypeOK, Job
  <2>3. \A t \in Nat : Attempted(a, t) => t < job[a].tries
    BY <2>1 DEF Attempted
  <2>4. \A h \in handlers : h.act = a => h.try # new.try
    <3> SUFFICES ASSUME NEW h \in handlers, h.act = a PROVE h.try < job[a].tries
      BY <2>2 DEF TypeOK, Handler
    <3> QED
      BY <2>3 DEF TypeOK, Handler, AttemptsInv, AttemptsBounded
  <2>5. <<a, new.try>> \notin posts
    <3> SUFFICES ASSUME <<a, new.try>> \in posts PROVE FALSE
      OBVIOUS
    <3>1. Attempted(a, new.try)
      BY DEF AttemptsInv, AttemptsBounded
    <3> QED
      BY <2>2, <2>3, <3>1
  <2>6. Attempted(a, new.try)'
    BY <2>1, <2>2 DEF Attempted
  <2>7. \A p \in posts' : p[2] <= RetryLimit /\ Attempted(p[1], p[2])'
    BY <2>1, AttemptedStep DEF AttemptsInv, AttemptsBounded, TypeOK
  <2>8. \A h \in handlers : Attempted(h.act, h.try)'
    <3> SUFFICES ASSUME NEW h \in handlers PROVE Attempted(h.act, h.try)'
      OBVIOUS
    <3>1. h.act \in Actions /\ h.try \in Nat /\ Attempted(h.act, h.try)
      BY DEF TypeOK, Handler, AttemptsInv, AttemptsBounded
    <3> QED
      BY <3>1, AttemptedStep DEF AttemptsInv
  <2> HIDE DEF new
  <2>9. \A g, h \in handlers' : g.act = h.act /\ g.try = h.try => g = h
    BY <2>1, <2>2, <2>4 DEF AttemptsInv, AttemptsBounded
  <2>10. \A h \in handlers' :
           Attempted(h.act, h.try)' /\ (h.phase = "posting" => <<h.act, h.try>> \notin posts')
    <3> SUFFICES ASSUME NEW h \in handlers'
                 PROVE  /\ Attempted(h.act, h.try)'
                        /\ h.phase = "posting" => <<h.act, h.try>> \notin posts'
      OBVIOUS
    <3>1. CASE h \in handlers
      BY <2>1, <2>8, <3>1 DEF AttemptsInv, AttemptsBounded
    <3>2. CASE h = new
      BY <2>1, <2>2, <2>5, <2>6, <3>2 DEF Attempted
    <3> QED
      BY <2>1, <3>1, <3>2
  <2> QED
    BY <2>7, <2>9, <2>10 DEF AttemptsBounded
<1>3. ASSUME NEW h \in handlers, NEW ph \in Phases \ {"posting"}, h.phase # ph,
             handlers' = InPhase(h, ph), posts' = posts
      PROVE  AttemptsBounded'
  <2> DEFINE g == [h EXCEPT !.phase = ph]
  <2>1. /\ handlers' = (handlers \ {h}) \cup {g} /\ h \notin handlers'
        /\ g.act = h.act /\ g.try = h.try /\ g.phase # "posting"
    BY <1>3, InPhaseLemma
  <2> HIDE DEF g
  <2> QED
    BY <1>3, <2>1, AttemptsKept
<1>4. ASSUME NEW h \in handlers, Post(h)
      PROVE  AttemptsBounded'
  <2>0. CASE posts' = posts
    <3>1. PICK ph \in Phases \ {"posting"} : handlers' = InPhase(h, ph) /\ h.phase # ph
      BY <1>4 DEF Post, Phases
    <3> QED
      BY <1>3, <2>0, <3>1
  <2> SUFFICES ASSUME posts' # posts PROVE AttemptsBounded'
    BY <2>0
  <2>1. PICK ph \in {"ok", "bad"} : handlers' = InPhase(h, ph)
    BY <1>4 DEF Post
  <2> DEFINE g == [h EXCEPT !.phase = ph]
  <2>2. /\ handlers' = (handlers \ {h}) \cup {g}
        /\ g.act = h.act /\ g.try = h.try /\ g.phase # "posting"
    <3>1. ph \in Phases /\ h.phase # ph /\ ph # "posting"
      BY <1>4 DEF Post, Phases
    <3> QED
      BY <2>1, <3>1, InPhaseLemma
  <2>3. posts' = posts \cup {<<h.act, h.try>>} /\ job' = job
    BY <1>4 DEF Post
  <2>4. h.act \in Actions /\ h.try \in Nat /\ Attempted(h.act, h.try) /\ h.try <= RetryLimit
    <3>1. h.act \in Actions /\ h.try \in Nat /\ Attempted(h.act, h.try)
      BY DEF TypeOK, Handler, AttemptsInv, AttemptsBounded
    <3>2. job[h.act].tries \in Nat /\ job[h.act].tries <= RetryLimit
      BY <3>1 DEF TypeOK, Job, AttemptsInv, SentOnce
    <3> QED
      BY <3>1, <3>2, AsyncActionsAssumption DEF Attempted
  <2> HIDE DEF g
  <2>5. \A a, t : Attempted(a, t)' <=> Attempted(a, t)
    BY <2>3 DEF Attempted
  <2>6. \A p \in posts' : p[2] <= RetryLimit /\ Attempted(p[1], p[2])'
    BY <2>3, <2>4, <2>5 DEF AttemptsInv, AttemptsBounded
  <2>7. \A j, k \in handlers' : j.act = k.act /\ j.try = k.try => j = k
    BY <2>2 DEF AttemptsInv, AttemptsBounded
  <2>8. ASSUME NEW k \in handlers'
        PROVE  Attempted(k.act, k.try)' /\ (k.phase = "posting" => <<k.act, k.try>> \notin posts')
    <3>1. CASE k = g
      BY <2>2, <2>4, <2>5, <3>1
    <3>2. CASE k \in handlers \ {h}
      <4>1. ~(k.act = h.act /\ k.try = h.try)
        BY <3>2 DEF AttemptsInv, AttemptsBounded
      <4> QED
        BY <2>3, <2>5, <3>2, <4>1 DEF AttemptsInv, AttemptsBounded
    <3> QED
      BY <2>2, <3>1, <3>2
  <2> QED
    BY <2>6, <2>7, <2>8 DEF AttemptsBounded
<1>5. ASSUME NEW h \in handlers, HandlerStep(h)
      PROVE  AttemptsBounded'
  <2>1. CASE OnSuccess(h)
    BY <1>3, <2>1 DEF OnSuccess, Phases
  <2>2. CASE OnFailure(h)
    BY <1>3, <2>2 DEF OnFailure, Phases
  <2>3. CASE HandlerThrows(h)
    BY <1>3, <2>3 DEF HandlerThrows, Phases
  <2>4. CASE Finish(h)
    BY <1>1, <2>4 DEF Finish
  <2> QED
    BY <1>4, <1>5, <2>1, <2>2, <2>3, <2>4 DEF HandlerStep
<1>6. CASE UNCHANGED vars
  BY <1>1, <1>6 DEF vars
<1> QED
  BY <1>1, <1>2, <1>5, <1>6 DEF Next, Send, Mark, RequestFails, Expire, Insert, Crash

\* The handler of an action is called once per attempt and RetryLimit + 1
\* times in all, whatever crashes, expires or rejects.
THEOREM AttemptsAreBounded == Spec => []AttemptsBounded
<1>1. Init => AttemptsInv
  BY AsyncActionsAssumption DEF Init, AttemptsInv, SentOnce, AttemptsBounded
<1>2. AttemptsInv => AttemptsBounded
  BY DEF AttemptsInv
<1> QED
  BY <1>1, <1>2, TypeCorrect, AttemptsStep, PTL DEF Spec
-----------------------------------------------------------------------------
(* Outputs.  A handler that got an answer carries it into the row: what    *)
(* the row and the job say of an output is tied to the handlers' phases.   *)

OutputInv ==
  /\ OutputIsReal
  /\ \A h \in handlers : h.phase \in {"ok", "okRecorded"} => h.act \in accepted
  /\ \A h \in handlers : h.phase = "okRecorded" => row[h.act].output

\* A step that leaves rows, jobs and phases alone, or adds handlers that have
\* no answer yet, keeps OutputInv.
LEMMA OutputKept ==
  ASSUME OutputInv, accepted' = accepted,
         \A a \in Actions : /\ row'[a].output = row[a].output
                            /\ row'[a].status = "completed" => row[a].status = "completed"
                            /\ job'[a].state = "completed" => job[a].state = "completed",
         \A h \in handlers' : h \in handlers \/ h.phase \notin {"ok", "okRecorded"},
         \A h \in handlers : h.act \in Actions
  PROVE  OutputInv'
<1>1. OutputIsReal'
  BY DEF OutputInv, OutputIsReal
<1>2. \A h \in handlers' : h.phase \in {"ok", "okRecorded"} => h.act \in accepted'
  BY DEF OutputInv
<1>3. \A h \in handlers' : h.phase = "okRecorded" => row'[h.act].output
  BY DEF OutputInv
<1> QED
  BY <1>1, <1>2, <1>3 DEF OutputInv

\* Every action keeps OutputInv.
LEMMA OutputStep == TypeOK /\ OutputInv /\ [Next]_vars => OutputInv'
<1> SUFFICES ASSUME TypeOK, OutputInv, [Next]_vars PROVE OutputInv'
  OBVIOUS
<1>h. \A h \in handlers : h \in Handler /\ h.act \in Actions
  BY DEF TypeOK, Handler
<1>1. CASE UNCHANGED vars
  BY <1>h, <1>1, OutputKept DEF vars
<1>2. ASSUME NEW a \in Actions, NEW st \in {"created", "processing"}, row' = SetStatus(a, st)
      PROVE  \A b \in Actions : /\ row'[b].output = row[b].output
                                /\ row'[b].status = "completed" => row[b].status = "completed"
  BY <1>2 DEF SetStatus, TypeOK, Row
<1>3. ASSUME NEW a \in Actions, job' = [job EXCEPT ![a] = FailedJob(@)]
      PROVE  \A b \in Actions : job'[b].state = "completed" => job[b].state = "completed"
  BY <1>3 DEF FailedJob, TypeOK
<1>4. ASSUME NEW a \in Actions, Send(a) \/ Mark(a) \/ RequestFails(a) \/ Expire(a)
      PROVE  OutputInv'
  <2>1. CASE Send(a)
    <3>1. \A b \in Actions : job'[b].state = "completed" => job[b].state = "completed"
      BY <2>1 DEF Send, TypeOK, Job
    <3> QED
      BY <1>h, <2>1, <3>1, OutputKept DEF Send
  <2>2. CASE Mark(a)
    BY <1>h, <1>2, <2>2, OutputKept DEF Mark
  <2>3. CASE RequestFails(a)
    BY <1>h, <2>3, OutputKept DEF RequestFails
  <2>4. CASE Expire(a)
    BY <1>h, <1>3, <2>4, OutputKept DEF Expire
  <2> QED
    BY <1>4, <2>1, <2>2, <2>3, <2>4
<1>5. ASSUME NEW s \in Servers, NEW a \in Actions, Insert(s, a)
      PROVE  OutputInv'
  BY <1>h, <1>2, <1>5, OutputKept DEF Insert
<1>6. ASSUME NEW s \in Servers, NEW a \in Actions, Fetch(s, a)
      PROVE  OutputInv'
  <2>1. \A b \in Actions : job'[b].state = "completed" => job[b].state = "completed"
    BY <1>6 DEF Fetch, TypeOK, Job
  <2> QED
    BY <1>h, <1>6, <2>1, OutputKept DEF Fetch
<1>7. ASSUME NEW h \in handlers, Post(h)
      PROVE  OutputInv'
  <2>1. PICK ph \in {"ok", "bad", "threw"} :
          handlers' = InPhase(h, ph) /\ accepted' = IF ph = "ok" THEN accepted \cup {h.act} ELSE accepted
    BY <1>7 DEF Post
  <2> DEFINE g == [h EXCEPT !.phase = ph]
  <2>2. handlers' = (handlers \ {h}) \cup {g} /\ g.act = h.act /\ g.phase = ph
    BY <1>h, <2>1, PhaseLemma DEF InPhase, Phases
  <2>3. row' = row /\ job' = job
    BY <1>7 DEF Post
  <2> HIDE DEF g
  <2>4. OutputIsReal'
    BY <2>1, <2>3 DEF OutputInv, OutputIsReal
  <2>5. \A k \in handlers' : k.phase \in {"ok", "okRecorded"} => k.act \in accepted'
    BY <2>1, <2>2 DEF OutputInv
  <2>6. \A k \in handlers' : k.phase = "okRecorded" => row'[k.act].output
    BY <2>1, <2>2, <2>3 DEF OutputInv
  <2> QED
    BY <2>4, <2>5, <2>6 DEF OutputInv
<1>8. ASSUME NEW h \in handlers, OnSuccess(h)
      PROVE  OutputInv'
  <2> DEFINE g == [h EXCEPT !.phase = "okRecorded"]
  <2>1. handlers' = (handlers \ {h}) \cup {g} /\ g.act = h.act /\ h.phase = "ok"
    BY <1>h, <1>8, PhaseLemma DEF OnSuccess, InPhase, Phases
  <2>2. /\ row'[h.act].output
        /\ \A a \in Actions : row[a].output => row'[a].output
        /\ \A a \in Actions \ {h.act} : row'[a] = row[a]
        /\ job' = job /\ accepted' = accepted
    BY <1>h, <1>8 DEF OnSuccess, TypeOK, Row
  <2>3. h.act \in accepted
    BY <2>1 DEF OutputInv
  <2> HIDE DEF g
  <2>4. OutputIsReal'
    BY <2>2, <2>3 DEF OutputInv, OutputIsReal
  <2>5. \A k \in handlers' : k.phase \in {"ok", "okRecorded"} => k.act \in accepted'
    BY <2>1, <2>2, <2>3 DEF OutputInv
  <2>6. \A k \in handlers' : k.phase = "okRecorded" => row'[k.act].output
    BY <1>h, <2>1, <2>2 DEF OutputInv
  <2> QED
    BY <2>4, <2>5, <2>6 DEF OutputInv
<1>9. ASSUME NEW h \in handlers, NEW ph \in {"badRecorded", "threw"},
             handlers' = InPhase(h, ph)
      PROVE  \A k \in handlers' : k \in handlers \/ k.phase \notin {"ok", "okRecorded"}
  <2>1. [h EXCEPT !.phase = ph].phase = ph
    BY <1>h, PhaseLemma DEF Phases
  <2> QED
    BY <1>9, <2>1 DEF InPhase
<1>10. ASSUME NEW h \in handlers, OnFailure(h)
       PROVE  OutputInv'
  <2>1. \A a \in Actions : /\ row'[a].output = row[a].output
                           /\ row'[a].status = "completed" => row[a].status = "completed"
    BY <1>h, <1>10 DEF OnFailure, TypeOK, Row
  <2> QED
    BY <1>h, <1>9, <1>10, <2>1, OutputKept DEF OnFailure
<1>11. ASSUME NEW h \in handlers, HandlerThrows(h)
       PROVE  OutputInv'
  BY <1>h, <1>9, <1>11, OutputKept DEF HandlerThrows
<1>12. ASSUME NEW h \in handlers, Finish(h)
       PROVE  OutputInv'
  <2>1. handlers' \subseteq handlers /\ row' = row /\ accepted' = accepted
    BY <1>12 DEF Finish
  <2>2. \A a \in Actions : job'[a].state = "completed" =>
          job[a].state = "completed" \/ (a = h.act /\ h.phase = "okRecorded")
    BY <1>h, <1>3, <1>12 DEF Finish, TypeOK, Job
  <2>3. h.phase = "okRecorded" => row[h.act].output
    BY DEF OutputInv
  <2> QED
    BY <2>1, <2>2, <2>3 DEF OutputInv, OutputIsReal
<1>13. ASSUME NEW s \in Servers, Crash(s)
       PROVE  OutputInv'
  BY <1>h, <1>13, OutputKept DEF Crash
<1> QED
  BY <1>1, <1>4, <1>5, <1>6, <1>7, <1>8, <1>10, <1>11, <1>12, <1>13 DEF Next, HandlerStep

\* A client reads an output only of a call that succeeded, and a completed job
\* has left its output in the row.
THEOREM OutputsAreReal == Spec => []OutputIsReal
<1>1. Init => OutputInv
  BY DEF Init, OutputInv, OutputIsReal
<1>2. OutputInv => OutputIsReal
  BY DEF OutputInv
<1> QED
  BY <1>1, <1>2, TypeCorrect, OutputStep, PTL DEF Spec
-----------------------------------------------------------------------------
(* Mishaps.  Unless its request transform throws, an attempt ends without  *)
(* a trace in the row only by a mishap, so mishaps are counted against the *)
(* attempts made so far.                                                   *)

\* Nothing will come of a handler that threw.
Hopeless(a) == \A h \in handlers : h.act = a => h.phase = "threw"

\* Handlers that do not outlive their jobs: one mishap for every attempt, if the
\* request transform does not throw.
Lost(a) == a \notin Untransformable /\ ~Answered(a) =>
  /\ mishaps >= job[a].tries
  /\ job[a].state = "failed" \/ (job[a].state = "active" /\ Hopeless(a))
       => mishaps >= job[a].tries + 1

\* Handlers that may outlive them: without a mishap an attempt that was made
\* still has its handler, on its way to an answer.
Hopeful(a) == a \notin Untransformable /\ mishaps = 0 /\ ~Answered(a) =>
  /\ \A h \in handlers : h.act = a => h.phase \in {"posting", "ok", "bad"}
  /\ job[a].state \in {"active", "failed"} => Running(a)

MishapsInv ==
  /\ AttemptsInv
  /\ \A h \in handlers : h.phase \in {"okRecorded", "badRecorded"} => Answered(h.act)
  /\ \A a \in Actions : job[a].state = "completed" => Answered(a)
  /\ \A a \in Actions : Hopeful(a)
  /\ ~SlowHandlers => \A h \in handlers : Current(h)
  /\ ~SlowHandlers => \A a \in Actions : Lost(a)

\* Outputs and errors are never removed from a row, and mishaps are not undone.
LEMMA AnsweredStays ==
  ASSUME TypeOK, [Next]_vars
  PROVE  /\ \A a \in Actions : Answered(a) => Answered(a)'
         /\ mishaps \in Nat /\ mishaps' \in Nat /\ mishaps' >= mishaps
<1>1. mishaps \in Nat
  BY AsyncActionsAssumption DEF TypeOK
<1>2. CASE UNCHANGED vars
  BY <1>1, <1>2 DEF vars, Answered
<1>3. CASE Next
  <2>1. mishaps' = mishaps \/ mishaps' = mishaps + 1
    BY <1>3 DEF Next, Mishap, Send, Mark, RequestFails, Expire, Insert, Fetch, Crash,
                HandlerStep, Post, OnSuccess, OnFailure, HandlerThrows, Finish
  <2>2. \A a \in Actions : row[a] \in Row
    BY DEF TypeOK
  <2>3. \/ row' = row
        \/ \E a \in Actions, st \in {"created", "processing"} : row' = SetStatus(a, st)
        \/ \E h \in handlers : OnSuccess(h) \/ OnFailure(h)
    BY <1>3 DEF Next, Send, Mark, RequestFails, Expire, Insert, Fetch, Crash,
                HandlerStep, Post, HandlerThrows, Finish
  <2>4. \A a \in Actions : /\ row[a].output => row'[a].output
                           /\ row[a].errors => row'[a].errors
    <3>1. ASSUME NEW a \in Actions, NEW st, row' = SetStatus(a, st)
          PROVE  \A b \in Actions : row'[b].output = row[b].output /\ row'[b].errors = row[b].errors
      BY <2>2, <3>1 DEF SetStatus, TypeOK, Row
    <3>2. ASSUME NEW h \in handlers, OnSuccess(h) \/ OnFailure(h)
          PROVE  \A b \in Actions : /\ row[b].output => row'[b].output
                                    /\ row[b].errors => row'[b].errors
      BY <2>2, <3>2 DEF OnSuccess, OnFailure, TypeOK, Row
    <3> QED
      BY <2>3, <3>1, <3>2
  <2> QED
    BY <1>1, <2>1, <2>4 DEF Answered
<1> QED
  BY <1>2, <1>3

\* The handlers of an action that is not being attempted any more: none, when
\* no handler outlives its job.
LEMMA OneHandler ==
  ASSUME TypeOK, MishapsInv, ~SlowHandlers, NEW g \in handlers, NEW h \in handlers, g.act = h.act
  PROVE  g = h /\ job[h.act].state = "active"
<1>1. g.try = h.try /\ job[h.act].state = "active"
  BY DEF MishapsInv, Current
<1> QED
  BY <1>1 DEF MishapsInv, AttemptsInv, AttemptsBounded

\* A step of a request makes or ends no attempt.
LEMMA MishapsOfRequest ==
  ASSUME TypeOK, MishapsInv, [Next]_vars, AttemptsInv', NEW a \in Actions, NEW s \in Servers,
         Insert(s, a) \/ Send(a) \/ Mark(a) \/ RequestFails(a)
  PROVE  MishapsInv'
<1>1. /\ \A b \in Actions : \/ job'[b] = job[b]
                            \/ /\ job[b].state = "none" /\ job'[b].state = "created"
                               /\ job'[b].tries = job[b].tries
      /\ handlers' = handlers
  BY SentOnceOfRequest DEF MishapsInv, AttemptsInv
<1>2. /\ \A b \in Actions : Answered(b) => Answered(b)'
      /\ mishaps \in Nat /\ mishaps' \in Nat /\ mishaps' >= mishaps
  BY AnsweredStays
<1>3. \A h \in handlers : h.act \in Actions
  BY DEF TypeOK, Handler
<1>4. \A h \in handlers' : h.phase \in {"okRecorded", "badRecorded"} => Answered(h.act)'
  BY <1>1, <1>2, <1>3 DEF MishapsInv
<1>5. \A b \in Actions : job'[b].state = "completed" => Answered(b)'
  BY <1>1, <1>2 DEF MishapsInv
<1>6. ASSUME NEW b \in Actions PROVE Hopeful(b)'
  <2>1. (job'[b].state = job[b].state) \/ job'[b].state = "created"
    BY <1>1
  <2>2. Hopeful(b)
    BY DEF MishapsInv
  <2>3. mishaps' = 0 /\ ~Answered(b)' => mishaps = 0 /\ ~Answered(b)
    BY <1>2
  <2> QED
    BY <1>1, <2>1, <2>2, <2>3 DEF Hopeful, Running
<1>7. ~SlowHandlers => \A h \in handlers' : Current(h)'
  BY <1>1, <1>3 DEF MishapsInv, Current
<1>8. ASSUME ~SlowHandlers, NEW b \in Actions PROVE Lost(b)'
  <2>1. job'[b].tries = job[b].tries /\ job[b].tries \in Nat
        /\ ((job'[b].state = job[b].state) \/ job'[b].state = "created")
    BY <1>1 DEF TypeOK, Job
  <2>2. Lost(b) /\ (~Answered(b)' => ~Answered(b))
    BY <1>2, <1>8 DEF MishapsInv
  <2> QED
    BY <1>1, <1>2, <2>1, <2>2 DEF Lost, Hopeless
<1> QED
  BY <1>4, <1>5, <1>6, <1>7, <1>8 DEF MishapsInv

\* A job expires when its handler is gone, or may be slow.
LEMMA MishapsOfExpire ==
  ASSUME TypeOK, MishapsInv, [Next]_vars, AttemptsInv', NEW a \in Actions, Expire(a)
  PROVE  MishapsInv'
<1> USE AsyncActionsAssumption
<1>1. /\ job[a].state = "active" /\ job'[a] = FailedJob(job[a])
      /\ \A b \in Actions \ {a} : job'[b] = job[b]
      /\ handlers' = handlers /\ row' = row /\ mishaps' = mishaps
  BY DEF Expire, TypeOK
<1>2. /\ job[a] \in Job /\ job[a].tries \in Nat /\ mishaps \in Nat
      /\ \A h \in handlers : h.act \in Actions
  BY DEF TypeOK, Job, Handler
<1>3. \A b \in Actions : Answered(b)' = Answered(b)
  BY <1>1 DEF Answered
<1>4. \/ job'[a].state = "retry" /\ job'[a].tries = job[a].tries + 1
      \/ job'[a].state = "failed" /\ job'[a].tries = job[a].tries
  BY <1>1, <1>2, FailedJobLemma
<1>5. \A h \in handlers' : h.phase \in {"okRecorded", "badRecorded"} => Answered(h.act)'
  BY <1>1, <1>2, <1>3 DEF MishapsInv
<1>6. \A b \in Actions : job'[b].state = "completed" => Answered(b)'
  BY <1>1, <1>3, <1>4 DEF MishapsInv
<1>7. \A b \in Actions : Hopeful(b)'
  BY <1>1, <1>3, <1>4 DEF MishapsInv, Hopeful, Running
<1>8. ASSUME ~SlowHandlers PROVE \A h \in handlers : h.act # a
  BY <1>8 DEF Expire, HasHandler, MishapsInv
<1>9. ~SlowHandlers => \A h \in handlers' : Current(h)'
  BY <1>1, <1>2, <1>8 DEF MishapsInv, Current
<1>10. ASSUME ~SlowHandlers, NEW b \in Actions PROVE Lost(b)'
  <2>1. Lost(b)
    BY <1>10 DEF MishapsInv
  <2>2. CASE b # a
    BY <1>1, <1>3, <2>1, <2>2 DEF Lost, Hopeless
  <2>3. CASE b = a
    <3>1. a \notin Untransformable /\ ~Answered(a) => mishaps >= job[a].tries + 1
      BY <1>1, <1>8, <1>10, <2>1, <2>3 DEF Lost, Hopeless
    <3> QED
      BY <1>1, <1>2, <1>3, <1>4, <2>3, <3>1 DEF Lost
  <2> QED
    BY <2>2, <2>3
<1> QED
  BY <1>5, <1>6, <1>7, <1>9, <1>10 DEF MishapsInv

\* A worker that takes a job starts an attempt.
LEMMA MishapsOfFetch ==
  ASSUME TypeOK, MishapsInv, [Next]_vars, AttemptsInv', NEW s \in Servers, NEW a \in Actions, Fetch(s, a)
  PROVE  MishapsInv'
<1> DEFINE new == [act |-> a, try |-> job[a].tries, at |-> s, phase |-> "posting"]
<1>1. /\ job[a].state \in {"created", "retry"}
      /\ job'[a].state = "active" /\ job'[a].tries = job[a].tries
      /\ \A b \in Actions \ {a} : job'[b] = job[b]
      /\ handlers' = handlers \cup {new} /\ row' = row /\ mishaps' = mishaps
  BY DEF Fetch, TypeOK, Job
<1>2. /\ job[a].tries \in Nat /\ mishaps \in Nat
      /\ \A h \in handlers : h.act \in Actions
  BY AsyncActionsAssumption DEF TypeOK, Job, Handler
<1>3. \A b \in Actions : Answered(b)' = Answered(b)
  BY <1>1 DEF Answered
<1>4. new.act = a /\ new.try = job[a].tries /\ new.phase = "posting"
  OBVIOUS
<1> HIDE DEF new
<1>5. \A h \in handlers' : h.phase \in {"okRecorded", "badRecorded"} => Answered(h.act)'
  BY <1>1, <1>2, <1>3, <1>4 DEF MishapsInv
<1>6. \A b \in Actions : job'[b].state = "completed" => Answered(b)'
  BY <1>1, <1>3 DEF MishapsInv
<1>7. ASSUME NEW b \in Actions PROVE Hopeful(b)'
  <2>1. Hopeful(b)
    BY DEF MishapsInv
  <2> QED
    BY <1>1, <1>3, <1>4, <2>1 DEF Hopeful, Running
<1>8. ASSUME ~SlowHandlers PROVE \A h \in handlers : h.act # a
  BY <1>1, <1>8 DEF MishapsInv, Current
<1>9. ~SlowHandlers => \A h \in handlers' : Current(h)'
  BY <1>1, <1>2, <1>4, <1>8 DEF MishapsInv, Current
<1>10. ASSUME ~SlowHandlers, NEW b \in Actions PROVE Lost(b)'
  <2>1. Lost(b)
    BY <1>10 DEF MishapsInv
  <2>2. CASE b # a
    BY <1>1, <1>3, <1>4, <2>1, <2>2 DEF Lost, Hopeless
  <2>3. CASE b = a
    BY <1>1, <1>2, <1>3, <1>4, <2>1, <2>3 DEF Lost, Hopeless
  <2> QED
    BY <2>2, <2>3
<1> QED
  BY <1>5, <1>6, <1>7, <1>9, <1>10 DEF MishapsInv

\* A handler that moves on either gets nearer to an answer, leaves a trace in
\* the row or has met a mishap.
LEMMA MishapsOfHandler ==
  ASSUME TypeOK, MishapsInv, [Next]_vars, AttemptsInv', NEW h \in handlers,
         Post(h) \/ OnSuccess(h) \/ OnFailure(h) \/ HandlerThrows(h)
  PROVE  MishapsInv'
<1>1. PICK ph \in {"ok", "bad", "okRecorded", "badRecorded", "threw"} :
        /\ handlers' = InPhase(h, ph) /\ h.phase # ph
        /\ ph = "threw" => h.act \in Untransformable \/ mishaps' = mishaps + 1
        /\ ph \in {"okRecorded", "badRecorded"} => Answered(h.act)'
  BY DEF Post, OnSuccess, OnFailure, HandlerThrows, Mishap, Answered, TypeOK, Handler, Row
<1> DEFINE g == [h EXCEPT !.phase = ph]
<1>2. /\ handlers' = (handlers \ {h}) \cup {g}
      /\ g.act = h.act /\ g.try = h.try /\ g.phase = ph
  <2>1. ph \in Phases
    BY DEF Phases
  <2> QED
    BY <1>1, <2>1, InPhaseLemma
<1>3. job' = job
  BY DEF Post, OnSuccess, OnFailure, HandlerThrows
<1>4. \A k \in handlers : k.act \in Actions
  BY DEF TypeOK, Handler
<1>5. /\ \A b \in Actions : Answered(b) => Answered(b)'
      /\ mishaps \in Nat /\ mishaps' \in Nat /\ mishaps' >= mishaps
  BY AnsweredStays
<1> HIDE DEF g
<1>6. \A k \in handlers' : k.phase \in {"okRecorded", "badRecorded"} => Answered(k.act)'
  <2> SUFFICES ASSUME NEW k \in handlers', k.phase \in {"okRecorded", "badRecorded"}
               PROVE  Answered(k.act)'
    OBVIOUS
  <2>1. CASE k = g
    BY <1>1, <1>2, <2>1 DEF Answered
  <2>2. CASE k \in handlers
    BY <1>4, <1>5, <2>2 DEF MishapsInv
  <2> QED
    BY <1>2, <2>1, <2>2
<1>7. \A b \in Actions : job'[b].state = "completed" => Answered(b)'
  BY <1>3, <1>5 DEF MishapsInv
<1>8. ASSUME NEW b \in Actions PROVE Hopeful(b)'
  <2> SUFFICES ASSUME b \notin Untransformable, mishaps' = 0, ~Answered(b)'
               PROVE  /\ \A k \in handlers' : k.act = b => k.phase \in {"posting", "ok", "bad"}
                      /\ job'[b].state \in {"active", "failed"} => Running(b)'
    BY DEF Hopeful
  <2>1. mishaps = 0 /\ ~Answered(b) /\ (b = h.act => ph # "threw")
    BY <1>1, <1>5
  <2>2. /\ \A k \in handlers : k.act = b => k.phase \in {"posting", "ok", "bad"}
        /\ job[b].state \in {"active", "failed"} => Running(b)
    BY <2>1 DEF MishapsInv, Hopeful
  <2>3. b = h.act => ph \in {"ok", "bad"}
    BY <1>1, <2>1
  <2> QED
    BY <1>2, <1>3, <2>2, <2>3 DEF Running
<1>9. ~SlowHandlers => \A k \in handlers' : Current(k)'
  BY <1>2, <1>3 DEF MishapsInv, Current
<1>10. ASSUME ~SlowHandlers, NEW b \in Actions PROVE Lost(b)'
  <2>1. Lost(b) /\ job[b].tries \in Nat
    BY <1>10 DEF MishapsInv, TypeOK, Job
  <2>2. CASE b # h.act
    BY <1>2, <1>3, <1>5, <2>1, <2>2 DEF Lost, Hopeless
  <2>3. CASE b = h.act
    BY <1>1, <1>2, <1>3, <1>5, <2>1, <2>3 DEF Lost, Hopeless
  <2> QED
    BY <2>2, <2>3
<1> QED
  BY <1>6, <1>7, <1>8, <1>9, <1>10 DEF MishapsInv

\* A handler that finishes settles its job, if that is still its job.
LEMMA MishapsOfFinish ==
  ASSUME TypeOK, MishapsInv, [Next]_vars, AttemptsInv', NEW h \in handlers, Finish(h)
  PROVE  MishapsInv'
<1> USE AsyncActionsAssumption
<1>1. /\ h.phase \in {"okRecorded", "badRecorded", "threw"}
      /\ handlers' = handlers \ {h} /\ row' = row /\ mishaps' = mishaps
  BY DEF Finish
<1>2. /\ h.act \in Actions /\ job[h.act] \in Job /\ mishaps \in Nat
      /\ \A b \in Actions : job[b].tries \in Nat
      /\ \A k \in handlers : k.act \in Actions
  BY DEF TypeOK, Job, Handler
<1>3. \A b \in Actions : Answered(b)' = Answered(b)
  BY <1>1 DEF Answered
<1>4. \A b \in Actions \ {h.act} : job'[b] = job[b]
  BY DEF Finish, TypeOK
<1>5. \/ job'[h.act] = job[h.act] /\ ~Current(h)
      \/ h.phase = "okRecorded" /\ job'[h.act].state = "completed" /\ job'[h.act].tries = job[h.act].tries
      \/ /\ Current(h) /\ h.phase # "okRecorded"
         /\ \/ job'[h.act].state = "retry" /\ job'[h.act].tries = job[h.act].tries + 1
            \/ job'[h.act].state = "failed" /\ job'[h.act].tries = job[h.act].tries
  BY <1>1, <1>2, FailedJobLemma DEF Finish, TypeOK, Job
<1>6. h.phase # "threw" => Answered(h.act)
  BY <1>1 DEF MishapsInv
<1>7. \A k \in handlers' : k.phase \in {"okRecorded", "badRecorded"} => Answered(k.act)'
  BY <1>1, <1>2, <1>3 DEF MishapsInv
<1>8. \A b \in Actions : job'[b].state = "completed" => Answered(b)'
  BY <1>3, <1>4, <1>5, <1>6 DEF MishapsInv
<1>9. ASSUME NEW b \in Actions PROVE Hopeful(b)'
  <2>1. Hopeful(b)
    BY DEF MishapsInv
  <2>2. CASE b = h.act
    BY <1>1, <1>3, <2>1, <2>2 DEF Hopeful
  <2>3. CASE b # h.act
    BY <1>1, <1>3, <1>4, <2>1, <2>3 DEF Hopeful, Running
  <2> QED
    BY <2>2, <2>3
<1>10. ASSUME ~SlowHandlers PROVE Current(h) /\ \A k \in handlers' : k.act # h.act
  BY <1>1, <1>10, OneHandler DEF MishapsInv
<1>11. ~SlowHandlers => \A k \in handlers' : Current(k)'
  BY <1>1, <1>2, <1>4, <1>10 DEF MishapsInv, Current
<1>12. ASSUME ~SlowHandlers, NEW b \in Actions PROVE Lost(b)'
  <2>1. Lost(b)
    BY <1>12 DEF MishapsInv
  <2>2. CASE b # h.act
    <3>1. Hopeless(b)' => Hopeless(b)
      BY <1>1, <2>2 DEF Hopeless
    <3> QED
      BY <1>1, <1>3, <1>4, <2>1, <2>2, <3>1 DEF Lost
  <2>3. CASE b = h.act
    <3> SUFFICES ASSUME b \notin Untransformable, ~Answered(b) PROVE Lost(b)'
      BY <1>3 DEF Lost
    <3>1. h.phase = "threw" /\ job[b].state = "active"
      BY <1>6, <1>10, <1>12, <2>3 DEF Current
    <3>2. Hopeless(b)
      BY <1>12, <2>3, <3>1, OneHandler DEF Hopeless
    <3>3. mishaps >= job[b].tries + 1
      BY <2>1, <3>1, <3>2 DEF Lost
    <3>4. mishaps' >= job'[b].tries /\ (job'[b].state = "failed" => mishaps' >= job'[b].tries + 1) /\ job'[b].state # "active"
      BY <1>1, <1>2, <1>5, <1>10, <1>12, <2>3, <3>1, <3>3
    <3> QED
      BY <3>4 DEF Lost
  <2> QED
    BY <2>2, <2>3
<1> QED
  BY <1>7, <1>8, <1>9, <1>11, <1>12 DEF MishapsInv

\* A crash is a mishap: one for each action, whatever it kills.
LEMMA MishapsOfCrash ==
  ASSUME TypeOK, MishapsInv, [Next]_vars, AttemptsInv', NEW s \in Servers, Crash(s)
  PROVE  MishapsInv'
<1>1. handlers' \subseteq handlers /\ row' = row /\ job' = job /\ mishaps' = mishaps + 1
  BY DEF Crash, Mishap
<1>2. /\ mishaps \in Nat /\ \A b \in Actions : job[b].tries \in Nat
      /\ \A k \in handlers : k.act \in Actions
  BY AsyncActionsAssumption DEF TypeOK, Job, Handler
<1>3. \A b \in Actions : Answered(b)' = Answered(b)
  BY <1>1 DEF Answered
<1>4. \A k \in handlers' : k.phase \in {"okRecorded", "badRecorded"} => Answered(k.act)'
  BY <1>1, <1>2, <1>3 DEF MishapsInv
<1>5. \A b \in Actions : Hopeful(b)'
  BY <1>1, <1>2 DEF Hopeful
<1>6. ~SlowHandlers => \A k \in handlers' : Current(k)'
  BY <1>1 DEF MishapsInv, Current
<1>7. ~SlowHandlers => \A b \in Actions : Lost(b)'
  BY <1>1, <1>2, <1>3 DEF MishapsInv, Lost
<1>8. \A b \in Actions : job'[b].state = "completed" => Answered(b)'
  BY <1>1, <1>3 DEF MishapsInv
<1> QED
  BY <1>4, <1>5, <1>6, <1>7, <1>8 DEF MishapsInv

\* Every action keeps MishapsInv.
LEMMA MishapsStep == TypeOK /\ MishapsInv /\ [Next]_vars => MishapsInv'
<1> SUFFICES ASSUME TypeOK, MishapsInv, [Next]_vars PROVE MishapsInv'
  OBVIOUS
<1>1. AttemptsInv'
  BY AttemptsStep DEF MishapsInv
<1>2. CASE UNCHANGED vars
  BY <1>1, <1>2 DEF vars, MishapsInv, Answered, Hopeful, Running, Current, Lost, Hopeless
<1>3. ASSUME NEW a \in Actions, Send(a) \/ Mark(a) \/ RequestFails(a)
      PROVE  MishapsInv'
  <2>1. request[a].at \in Servers
    BY <1>3 DEF Send, Mark, RequestFails, TypeOK, Request
  <2> QED
    BY <1>1, <1>3, <2>1, MishapsOfRequest
<1>4. ASSUME NEW s \in Servers, NEW a \in Actions, Insert(s, a)
      PROVE  MishapsInv'
  BY <1>1, <1>4, MishapsOfRequest
<1> QED
  BY <1>1, <1>2, <1>3, <1>4, MishapsOfExpire, MishapsOfFetch, MishapsOfHandler, MishapsOfFinish,
     MishapsOfCrash
     DEF Next, HandlerStep

\* Unless the request transform throws for its input, a job is given up without
\* a trace only by mishaps: one for every attempt when no handler outlives its
\* job, and at least one otherwise.
THEOREM UnansweredOnlyByMishaps == Spec => []UnansweredByMishaps
<1>1. Init => MishapsInv
  <2>1. Init => AttemptsInv
    BY AsyncActionsAssumption DEF Init, AttemptsInv, SentOnce, AttemptsBounded
  <2>2. Init => /\ \A a \in Actions : Hopeful(a) /\ Lost(a)
                /\ handlers = {}
                /\ \A a \in Actions : job[a].state = "none"
    BY AsyncActionsAssumption DEF Init, Hopeful, Lost
  <2> QED
    BY <2>1, <2>2 DEF MishapsInv
<1>2. TypeOK /\ MishapsInv => UnansweredByMishaps
  <2> SUFFICES ASSUME TypeOK, MishapsInv, NEW a \in Actions,
                      job[a].state = "failed", ~Answered(a), ~Running(a),
                      a \notin Untransformable
               PROVE  mishaps >= (IF SlowHandlers THEN 1 ELSE RetryLimit + 1)
    BY DEF UnansweredByMishaps
  <2>1. mishaps \in Nat /\ mishaps # 0
    BY AsyncActionsAssumption DEF TypeOK, MishapsInv, Hopeful
  <2>2. ~SlowHandlers => mishaps >= job[a].tries + 1
    BY DEF MishapsInv, Lost
  <2>3. job[a].tries = RetryLimit
    BY DEF MishapsInv, AttemptsInv, SentOnce
  <2> QED
    BY <2>1, <2>2, <2>3
<1> QED
  BY <1>1, <1>2, TypeCorrect, MishapsStep, PTL DEF Spec

-----------------------------------------------------------------------------
(* The late mark.  While handlers end before their jobs expire, a handler  *)
(* is of the current attempt of its job, so that an action has at most one *)
(* and none when its job is over: nothing but Mark writes into the row     *)
(* after an outcome that the job is about to be completed with.            *)

\* The row serves the output, or did before it was marked.
ServedOrMarked(a) ==
  \/ row[a].status = "completed"
  \/ row[a].status = "processing" /\ request[a].phase = "over"

PromptInv ==
  /\ \A h \in handlers : Current(h)
  /\ \A h \in handlers : h.phase = "okRecorded" => ServedOrMarked(h.act)
  /\ OnlyTheMarkHides

\* Two handlers of one action are the same.
LEMMA OnlyHandler ==
  ASSUME AttemptsInv, PromptInv, NEW g \in handlers, NEW h \in handlers, g.act = h.act
  PROVE  g = h
BY DEF AttemptsInv, AttemptsBounded, PromptInv, Current

\* Steps of a request: those of an action whose job is completed, or whose
\* handler has recorded an output, can only mark the row.
LEMMA PromptOfRequest ==
  ASSUME TypeOK, AttemptsInv, PromptInv, NEW a \in Actions, NEW s \in Servers,
         Insert(s, a) \/ Send(a) \/ Mark(a) \/ RequestFails(a)
  PROVE  PromptInv'
<1>1. SentOnce /\ \A h \in handlers : h.act \in Actions /\ h \in Handler
  BY DEF AttemptsInv, TypeOK, Handler
<1>2. handlers' = handlers
  BY DEF Insert, Send, Mark, RequestFails
<1>3. \A b \in Actions : job[b].state \in {"active", "completed"} => job'[b] = job[b]
  BY <1>1, SentOnceOfRequest
<1>4. \A b \in Actions : job'[b].state = "completed" => job[b].state = "completed"
  BY <1>1, SentOnceOfRequest
<1>5. \A b \in Actions : ServedOrMarked(b) => ServedOrMarked(b)'
  <2>1. CASE Insert(s, a)
    <3>1. \A b \in Actions \ {a} : row'[b] = row[b] /\ request'[b] = request[b]
      BY <2>1 DEF Insert, SetStatus, TypeOK
    <3>2. ~ServedOrMarked(a)
      BY <2>1 DEF Insert, ServedOrMarked
    <3> QED
      BY <3>1, <3>2 DEF ServedOrMarked
  <2>2. CASE Send(a)
    <3>1. row' = row /\ \A b \in Actions \ {a} : request'[b] = request[b]
      BY <2>2 DEF Send, TypeOK
    <3>2. request[a].phase # "over"
      BY <2>2 DEF Send
    <3> QED
      BY <3>1, <3>2 DEF ServedOrMarked
  <2>3. CASE Mark(a)
    <3>1. \A b \in Actions \ {a} : row'[b] = row[b] /\ request'[b] = request[b]
      BY <2>3 DEF Mark, SetStatus, TypeOK
    <3>2. row'[a].status = "processing"
      BY <2>3 DEF Mark, SetStatus, TypeOK, Row
    <3>3. request'[a].phase = "over"
      BY <2>3 DEF Mark, TypeOK, Request
    <3> QED
      BY <3>1, <3>2, <3>3 DEF ServedOrMarked
  <2>4. CASE RequestFails(a)
    <3>1. row' = row /\ \A b \in Actions \ {a} : request'[b] = request[b]
      BY <2>4 DEF RequestFails, TypeOK
    <3>2. request[a].phase # "over"
      BY <2>4 DEF RequestFails
    <3> QED
      BY <3>1, <3>2 DEF ServedOrMarked
  <2> QED
    BY <2>1, <2>2, <2>3, <2>4
<1>6. \A h \in handlers' : Current(h)'
  BY <1>1, <1>2, <1>3 DEF PromptInv, Current
<1>7. \A h \in handlers' : h.phase = "okRecorded" => ServedOrMarked(h.act)'
  BY <1>1, <1>2, <1>5 DEF PromptInv
<1>8. OnlyTheMarkHides'
  BY <1>4, <1>5 DEF PromptInv, OnlyTheMarkHides, ServedOrMarked
<1> QED
  BY <1>6, <1>7, <1>8 DEF PromptInv

\* Steps that leave the rows alone, and add no handler with a recorded output.
LEMMA PromptKept ==
  ASSUME TypeOK, PromptInv, row' = row,
         \A b \in Actions : ServedOrMarked(b) => ServedOrMarked(b)',
         \A h \in handlers' : Current(h)',
         \A h \in handlers' : h.phase = "okRecorded" => h \in handlers,
         \A b \in Actions : job'[b].state = "completed" => ServedOrMarked(b)
  PROVE  PromptInv'
<1>1. \A h \in handlers : h.act \in Actions
  BY DEF TypeOK, Handler
<1>2. \A h \in handlers' : h.phase = "okRecorded" => ServedOrMarked(h.act)'
  BY <1>1 DEF PromptInv
<1>3. OnlyTheMarkHides'
  BY DEF OnlyTheMarkHides, ServedOrMarked
<1> QED
  BY <1>2, <1>3 DEF PromptInv

\* Steps of a handler.
LEMMA PromptOfHandler ==
  ASSUME TypeOK, AttemptsInv, PromptInv, NEW h \in handlers, HandlerStep(h)
  PROVE  PromptInv'
<1>1. /\ \A g \in handlers : g \in Handler /\ g.act \in Actions
      /\ job[h.act].state = "active" /\ request' = request
  BY DEF TypeOK, Handler, PromptInv, Current, HandlerStep, Post, OnSuccess, OnFailure,
         HandlerThrows, Finish
<1>2. \A g \in handlers \ {h} : g.act # h.act
  BY OnlyHandler
<1>3. \A b \in Actions : job[b].state = "completed" => ServedOrMarked(b)
  BY DEF PromptInv, OnlyTheMarkHides, ServedOrMarked
<1>4. ASSUME NEW ph \in Phases, handlers' = InPhase(h, ph), job' = job
      PROVE  /\ \A g \in handlers' : Current(g)'
             /\ \A g \in handlers' : \/ g \in handlers \ {h}
                                     \/ g.act = h.act /\ g.phase = ph
  <2> DEFINE k == [h EXCEPT !.phase = ph]
  <2>1. k.act = h.act /\ k.try = h.try /\ k.phase = ph
    BY <1>1, PhaseLemma
  <2>2. handlers' = (handlers \ {h}) \cup {k}
    BY <1>4 DEF InPhase
  <2> HIDE DEF k
  <2> QED
    BY <1>4, <2>1, <2>2 DEF PromptInv, Current
<1>5. ASSUME NEW ph \in Phases \ {"okRecorded"}, handlers' = InPhase(h, ph), job' = job, row' = row
      PROVE  PromptInv'
  <2>1. \A g \in handlers' : g.phase = "okRecorded" => g \in handlers
    BY <1>4, <1>5
  <2>2. \A b \in Actions : ServedOrMarked(b) => ServedOrMarked(b)'
    BY <1>1, <1>5 DEF ServedOrMarked
  <2> QED
    BY <1>3, <1>4, <1>5, <2>1, <2>2, PromptKept
<1>6. CASE Post(h)
  <2>1. PICK ph \in {"ok", "bad", "threw"} : handlers' = InPhase(h, ph)
    BY <1>6 DEF Post
  <2> QED
    BY <1>5, <1>6, <2>1 DEF Post, Phases
<1>7. CASE HandlerThrows(h)
  BY <1>5, <1>7 DEF HandlerThrows, Phases
<1>8. ASSUME NEW ph \in {"okRecorded", "badRecorded"}, handlers' = InPhase(h, ph), job' = job,
             \A b \in Actions \ {h.act} : row'[b] = row[b],
             ph = "okRecorded" => row'[h.act].status = "completed"
      PROVE  PromptInv'
  <2>1. \A b \in Actions \ {h.act} : ServedOrMarked(b) => ServedOrMarked(b)'
    BY <1>1, <1>8 DEF ServedOrMarked
  <2>2. \A g \in handlers' : Current(g)'
    BY <1>4, <1>8 DEF Phases
  <2>3. \A g \in handlers' : g.phase = "okRecorded" => ServedOrMarked(g.act)'
    <3> SUFFICES ASSUME NEW g \in handlers', g.phase = "okRecorded" PROVE ServedOrMarked(g.act)'
      OBVIOUS
    <3>1. g \in handlers \ {h} \/ (g.act = h.act /\ g.phase = ph)
      BY <1>4, <1>8 DEF Phases
    <3>2. CASE g \in handlers \ {h}
      BY <1>1, <1>2, <2>1, <3>2 DEF PromptInv
    <3>3. CASE g.act = h.act /\ g.phase = ph
      BY <1>8, <3>3 DEF ServedOrMarked
    <3> QED
      BY <3>1, <3>2, <3>3
  <2>4. OnlyTheMarkHides'
    <3> SUFFICES ASSUME NEW b \in Actions, job'[b].state = "completed" PROVE ServedOrMarked(b)'
      BY DEF OnlyTheMarkHides, ServedOrMarked
    <3>1. b # h.act /\ ServedOrMarked(b)
      BY <1>1, <1>3, <1>8
    <3> QED
      BY <2>1, <3>1
  <2> QED
    BY <2>2, <2>3, <2>4 DEF PromptInv
<1>9. CASE OnSuccess(h)
  <2>1. \A b \in Actions \ {h.act} : row'[b] = row[b]
    BY <1>1, <1>9 DEF OnSuccess, TypeOK
  <2>2. row'[h.act].status = "completed"
    BY <1>1, <1>9 DEF OnSuccess, TypeOK, Row
  <2> QED
    BY <1>8, <1>9, <2>1, <2>2 DEF OnSuccess
<1>10. CASE OnFailure(h)
  <2>1. \A b \in Actions \ {h.act} : row'[b] = row[b]
    BY <1>1, <1>10 DEF OnFailure, TypeOK
  <2> QED
    BY <1>8, <1>10, <2>1 DEF OnFailure
<1>11. CASE Finish(h)
  <2>1. handlers' = handlers \ {h} /\ row' = row
    BY <1>11 DEF Finish
  <2>2. \A b \in Actions \ {h.act} : job'[b] = job[b]
    BY <1>1, <1>11 DEF Finish, TypeOK
  <2>3. \A g \in handlers' : Current(g)'
    BY <1>1, <1>2, <2>1, <2>2 DEF PromptInv, Current
  <2>4. job'[h.act].state = "completed" => h.phase = "okRecorded"
    <3>1. FailedJob(job[h.act]).state # "completed"
      BY DEF FailedJob
    <3> QED
      BY <1>1, <1>11, <3>1 DEF Finish, TypeOK
  <2>5. \A b \in Actions : job'[b].state = "completed" => ServedOrMarked(b)
    BY <1>3, <2>2, <2>4 DEF PromptInv
  <2>6. \A b \in Actions : ServedOrMarked(b) => ServedOrMarked(b)'
    BY <1>1, <2>1 DEF ServedOrMarked
  <2> QED
    BY <2>1, <2>3, <2>5, <2>6, PromptKept
<1> QED
  BY <1>6, <1>7, <1>9, <1>10, <1>11 DEF HandlerStep

\* Every step keeps PromptInv, if handlers end before their jobs expire.
LEMMA PromptStep ==
  ASSUME ~SlowHandlers, TypeOK, AttemptsInv, PromptInv, [Next]_vars
  PROVE  PromptInv'
<1>1. /\ \A h \in handlers : h.act \in Actions
      /\ \A b \in Actions : job[b].state = "completed" => ServedOrMarked(b)
  BY DEF TypeOK, Handler, PromptInv, OnlyTheMarkHides, ServedOrMarked
<1>2. CASE UNCHANGED vars
  BY <1>2 DEF vars, PromptInv, OnlyTheMarkHides, ServedOrMarked, Current
<1>3. ASSUME NEW a \in Actions, Send(a) \/ Mark(a) \/ RequestFails(a)
      PROVE  PromptInv'
  <2>1. request[a].at \in Servers
    BY <1>3 DEF Send, Mark, RequestFails, TypeOK, Request
  <2> QED
    BY <1>3, <2>1, PromptOfRequest
<1>4. ASSUME NEW s \in Servers, NEW a \in Actions, Insert(s, a) PROVE PromptInv'
  BY <1>4, PromptOfRequest
<1>5. ASSUME NEW a \in Actions, Expire(a) PROVE PromptInv'
  <2>1. /\ \A b \in Actions \ {a} : job'[b] = job[b]
        /\ job'[a] = FailedJob(job[a]) /\ handlers' = handlers /\ row' = row /\ request' = request
    BY <1>5 DEF Expire, TypeOK
  <2>2. \A h \in handlers : h.act # a
    BY <1>5 DEF Expire, HasHandler, PromptInv
  <2>3. \A h \in handlers' : Current(h)'
    BY <1>1, <2>1, <2>2 DEF PromptInv, Current
  <2>4. FailedJob(job[a]).state # "completed"
    BY DEF FailedJob
  <2>5. \A b \in Actions : job'[b].state = "completed" => ServedOrMarked(b)
    BY <1>1, <2>1, <2>4
  <2>6. \A b \in Actions : ServedOrMarked(b) => ServedOrMarked(b)'
    BY <2>1 DEF ServedOrMarked
  <2> QED
    BY <2>1, <2>3, <2>5, <2>6, PromptKept
<1>6. ASSUME NEW s \in Servers, NEW a \in Actions, Fetch(s, a) PROVE PromptInv'
  <2> DEFINE new == [act |-> a, try |-> job[a].tries, at |-> s, phase |-> "posting"]
  <2>1. /\ \A b \in Actions \ {a} : job'[b] = job[b]
        /\ job'[a].state = "active" /\ job'[a].tries = job[a].tries
        /\ handlers' = handlers \cup {new} /\ row' = row /\ request' = request
        /\ job[a].state \in {"created", "retry"}
    BY <1>6 DEF Fetch, TypeOK, Job
  <2>2. \A h \in handlers : h.act # a
    BY <2>1 DEF PromptInv, Current
  <2>3. new.act = a /\ new.try = job[a].tries /\ new.phase = "posting"
    OBVIOUS
  <2> HIDE DEF new
  <2>4. \A h \in handlers' : Current(h)'
    BY <1>1, <2>1, <2>2, <2>3 DEF PromptInv, Current
  <2>5. \A b \in Actions : job'[b].state = "completed" => ServedOrMarked(b)
    BY <1>1, <2>1
  <2>6. \A b \in Actions : ServedOrMarked(b) => ServedOrMarked(b)'
    BY <2>1 DEF ServedOrMarked
  <2>7. \A h \in handlers' : h.phase = "okRecorded" => h \in handlers
    BY <2>1, <2>3
  <2> QED
    BY <2>1, <2>4, <2>5, <2>6, <2>7, PromptKept
<1>7. ASSUME NEW h \in handlers, HandlerStep(h) PROVE PromptInv'
  BY <1>7, PromptOfHandler
<1>8. ASSUME NEW s \in Servers, Crash(s) PROVE PromptInv'
  <2>1. handlers' \subseteq handlers /\ row' = row /\ job' = job
    BY <1>8 DEF Crash
  <2>2. \A b \in Actions : request[b].phase = "over" => request'[b].phase = "over"
    BY <1>8 DEF Crash
  <2>3. \A b \in Actions : ServedOrMarked(b) => ServedOrMarked(b)'
    BY <2>1, <2>2 DEF ServedOrMarked
  <2>4. \A h \in handlers' : Current(h)'
    BY <2>1 DEF PromptInv, Current
  <2> QED
    BY <1>1, <2>1, <2>3, <2>4, PromptKept
<1> QED
  BY <1>2, <1>3, <1>4, <1>5, <1>6, <1>7, <1>8 DEF Next

\* While handlers end before their jobs expire, the status of a completed job
\* is 'completed', or the 'processing' of the mutation's late mark: no attempt
\* overwrites the outcome of another, whatever crashes and rejects.
THEOREM OnlyTheLateMark ==
  ASSUME ~SlowHandlers
  PROVE  Spec => []OnlyTheMarkHides
<1>1. Init => AttemptsInv /\ PromptInv
  BY AsyncActionsAssumption
     DEF Init, AttemptsInv, SentOnce, AttemptsBounded, PromptInv, OnlyTheMarkHides
<1>2. TypeOK /\ AttemptsInv /\ PromptInv /\ [Next]_vars => (AttemptsInv /\ PromptInv)'
  BY AttemptsStep, PromptStep
<1>3. PromptInv => OnlyTheMarkHides
  BY DEF PromptInv
<1> QED
  BY <1>1, <1>2, <1>3, TypeCorrect, PTL DEF Spec
=============================================================================
