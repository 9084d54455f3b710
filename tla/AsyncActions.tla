---------------------------- MODULE AsyncActions ----------------------------
(***************************************************************************)
(* Asynchronous actions: src/src/actions/async.ts.                         *)
(*                                                                         *)
(* The mutation inserts a row into hakkyra.async_action_log, sends a job,  *)
(* marks the row 'processing' and returns its id.  A worker calls the      *)
(* action's handler and writes the output or the errors into the row; a    *)
(* failure is thrown back at the job queue, which retries.  Clients learn  *)
(* the outcome by reading the row.                                         *)
(*                                                                         *)
(* The job queue is external (pg-boss), modelled from the calls made to    *)
(* it: at most retryLimit retries of a job, and a job whose handler        *)
(* outlives expireInSeconds is failed while that handler keeps running.    *)
(***************************************************************************)
EXTENDS Integers, FiniteSets

CONSTANTS
  Actions,      \* ids of async_action_log rows
  Servers,      \* hakkyra instances sharing the database
  RetryLimit,   \* retryLimit of the action queues (async.ts:153)
  MaxRows,      \* bound: rows inserted
  MaxMishaps,   \* bound: crashes, and queries or sends that reject
  SlowHandlers, \* TRUE: a handler may outlive its job's expireInSeconds
  Untransformable \* actions for whose stored input the request transform throws

ASSUME AsyncActionsAssumption ==
  /\ RetryLimit \in Nat
  /\ MaxRows \in Nat
  /\ MaxMishaps \in Nat
  /\ SlowHandlers \in BOOLEAN
  /\ Untransformable \subseteq Actions

VARIABLES
  row,       \* async_action_log
  job,       \* the job sent for each action
  request,   \* where enqueueAsyncAction is with each action
  handlers,  \* job handlers running in some server
  mishaps,   \* number of crashes and rejected calls so far
  accepted,  \* history: actions whose handler answered with usable data
  posts      \* history: <<action, attempt>> of every call of the handler

vars == <<row, job, request, handlers, mishaps, accepted, posts>>

\* output and errors: whether the column holds a value.
Row == [status : {"none", "created", "processing", "completed", "failed"},
        output : BOOLEAN,
        errors : BOOLEAN]

Job == [state : {"none", "created", "active", "retry", "completed", "failed"},
        tries : Nat]

\* "over": answered with the id, failed, or lost with its server.
Request == [at : Servers, phase : {"inserted", "sent", "over"}] \cup {[phase |-> "none"]}

Handler == [act : Actions, try : Nat, at : Servers,
            phase : {"posting", "ok", "bad", "okRecorded", "badRecorded", "threw"}]

TypeOK ==
  /\ row \in [Actions -> Row]
  /\ job \in [Actions -> Job]
  /\ request \in [Actions -> Request]
  /\ handlers \subseteq Handler
  /\ mishaps \in 0..MaxMishaps
  /\ accepted \subseteq Actions
  /\ posts \subseteq Actions \X Nat

Init ==
  /\ row = [a \in Actions |-> [status |-> "none", output |-> FALSE, errors |-> FALSE]]
  /\ job = [a \in Actions |-> [state |-> "none", tries |-> 0]]
  /\ request = [a \in Actions |-> [phase |-> "none"]]
  /\ handlers = {}
  /\ mishaps = 0
  /\ accepted = {}
  /\ posts = {}

\* Something goes wrong: a crash, or a call of the database or the queue.
Mishap ==
  /\ mishaps < MaxMishaps
  /\ mishaps' = mishaps + 1

-----------------------------------------------------------------------------
(* enqueueAsyncAction.                                                     *)

SetStatus(a, st) == [row EXCEPT ![a].status = st]

Insert(s, a) ==
  /\ row[a].status = "none"
  /\ Cardinality({b \in Actions : row[b].status # "none"}) < MaxRows
  /\ row' = SetStatus(a, "created")
  /\ request' = [request EXCEPT ![a] = [at |-> s, phase |-> "inserted"]]
  /\ UNCHANGED <<job, handlers, mishaps, accepted, posts>>

Send(a) ==
  /\ request[a].phase = "inserted"
  /\ job' = [job EXCEPT ![a].state = "created"]
  /\ request' = [request EXCEPT ![a].phase = "sent"]
  /\ UNCHANGED <<row, handlers, mishaps, accepted, posts>>

\* The UPDATE does not look at the status the row has by now.
Mark(a) ==
  /\ request[a].phase = "sent"
  /\ row' = SetStatus(a, "processing")
  /\ request' = [request EXCEPT ![a].phase = "over"]
  /\ UNCHANGED <<job, handlers, mishaps, accepted, posts>>

\* send or the UPDATE rejects: the mutation fails, the row (and job) stays.
RequestFails(a) ==
  /\ request[a].phase \in {"inserted", "sent"}
  /\ Mishap
  /\ request' = [request EXCEPT ![a].phase = "over"]
  /\ UNCHANGED <<row, job, handlers, accepted, posts>>

-----------------------------------------------------------------------------
(* The job queue and the worker of registerAsyncActionWorkers.             *)

Current(h) == job[h.act].state = "active" /\ job[h.act].tries = h.try

\* Mutant: one retry more than retryLimit.
FailedJobLate(j) ==
  IF j.tries <= RetryLimit THEN [state |-> "retry", tries |-> j.tries + 1]
                           ELSE [state |-> "failed", tries |-> j.tries]

\* The job fails: the queue retries it while retries are left.
FailedJob(j) ==
  IF j.tries < RetryLimit THEN [state |-> "retry", tries |-> j.tries + 1]
                          ELSE [state |-> "failed", tries |-> j.tries]

InPhase(h, ph) == (handlers \ {h}) \cup {[h EXCEPT !.phase = ph]}

\* A worker takes the job and reads the action's row, which always exists.
Fetch(s, a) ==
  /\ job[a].state \in {"created", "retry"}
  /\ job' = [job EXCEPT ![a].state = "active"]
  /\ handlers' = handlers \cup
       {[act |-> a, try |-> job[a].tries, at |-> s, phase |-> "posting"]}
  /\ UNCHANGED <<row, request, mishaps, accepted, posts>>

\* deliver, executeAction: success needs a 2xx answer that parses and transforms.
\* What the request transform throws (a value that would leave the path of the
\* URL, a URL that does not parse) leaves deliver before the call, and nobody
\* catches it: neither onSuccess nor onFailure runs.  It throws for what is in
\* the row and the configuration, so at every attempt.
Post(h) ==
  /\ h.phase = "posting"
  /\ \/ /\ h.act \in Untransformable
        /\ handlers' = InPhase(h, "threw")
        /\ UNCHANGED <<posts, accepted>>
     \/ /\ h.act \notin Untransformable
        /\ posts' = posts \cup {<<h.act, h.try>>}
        /\ \/ accepted' = accepted \cup {h.act} /\ handlers' = InPhase(h, "ok")
           \/ accepted' = accepted /\ handlers' = InPhase(h, "bad")
  /\ UNCHANGED <<row, job, request, mishaps>>

\* Mutant: any answer of the handler is stored as output.
OnSuccessAnyway(h) ==
  /\ h.phase \in {"ok", "bad"}
  /\ row' = [row EXCEPT ![h.act].status = "completed", ![h.act].output = TRUE]
  /\ handlers' = InPhase(h, "okRecorded")
  /\ UNCHANGED <<job, request, mishaps, accepted, posts>>

\* errors of earlier attempts stay.
OnSuccess(h) ==
  /\ h.phase = "ok"
  /\ row' = [row EXCEPT ![h.act].status = "completed", ![h.act].output = TRUE]
  /\ handlers' = InPhase(h, "okRecorded")
  /\ UNCHANGED <<job, request, mishaps, accepted, posts>>

\* Mutant: the status is called 'error', as for scheduled events.
OnFailureMisnamed(h) ==
  /\ h.phase = "bad"
  /\ row' = [row EXCEPT ![h.act].status = "error", ![h.act].errors = TRUE]
  /\ handlers' = InPhase(h, "badRecorded")
  /\ UNCHANGED <<job, request, mishaps, accepted, posts>>

\* Mutant: UPDATE ... WHERE status = 'processing'.
OnFailureGuarded(h) ==
  /\ h.phase = "bad"
  /\ row' = IF row[h.act].status = "processing"
              THEN [row EXCEPT ![h.act].status = "failed", ![h.act].errors = TRUE]
              ELSE row
  /\ handlers' = InPhase(h, "badRecorded")
  /\ UNCHANGED <<job, request, mishaps, accepted, posts>>

\* 'failed' is written at every failed attempt, also when a retry follows.
OnFailure(h) ==
  /\ h.phase = "bad"
  /\ row' = [row EXCEPT ![h.act].status = "failed", ![h.act].errors = TRUE]
  /\ handlers' = InPhase(h, "badRecorded")
  /\ UNCHANGED <<job, request, mishaps, accepted, posts>>

\* Mutant: an UPDATE that rejects is logged and swallowed.
HandlerSwallows(h) ==
  /\ h.phase \in {"posting", "ok", "bad"}
  /\ Mishap
  /\ handlers' = InPhase(h, IF h.phase = "ok" THEN "okRecorded" ELSE "threw")
  /\ UNCHANGED <<row, job, request, accepted, posts>>

\* The SELECT of the row or the UPDATE of the outcome rejects.
HandlerThrows(h) ==
  /\ h.phase \in {"posting", "ok", "bad"}
  /\ Mishap
  /\ handlers' = InPhase(h, "threw")
  /\ UNCHANGED <<row, job, request, accepted, posts>>

\* The handler returns, or throws for a failed call, and the job is settled.
Finish(h) ==
  /\ h.phase \in {"okRecorded", "badRecorded", "threw"}
  /\ handlers' = handlers \ {h}
  /\ job' = IF ~Current(h) THEN job
            ELSE IF h.phase = "okRecorded" THEN [job EXCEPT ![h.act].state = "completed"]
            ELSE [job EXCEPT ![h.act] = FailedJob(@)]
  /\ UNCHANGED <<row, request, mishaps, accepted, posts>>

HasHandler(a) == \E h \in handlers : h.act = a /\ Current(h)

\* Mutant: no expireInSeconds, so the job of a dead handler stays active.
ExpireSlowOnly(a) ==
  /\ SlowHandlers
  /\ HasHandler(a)
  /\ job' = [job EXCEPT ![a] = FailedJob(@)]
  /\ UNCHANGED <<row, request, handlers, mishaps, accepted, posts>>

\* expireInSeconds: the handler died with its server, or is too slow.
Expire(a) ==
  /\ job[a].state = "active"
  /\ SlowHandlers \/ ~HasHandler(a)
  /\ job' = [job EXCEPT ![a] = FailedJob(@)]
  /\ UNCHANGED <<row, request, handlers, mishaps, accepted, posts>>

\* A server dies (another, or the same one restarted, keeps working).
Crash(s) ==
  /\ Mishap
  /\ handlers' = {h \in handlers : h.at # s}
  /\ request' = [a \in Actions |->
       IF request[a].phase \in {"inserted", "sent"} /\ request[a].at = s
         THEN [request[a] EXCEPT !.phase = "over"] ELSE request[a]]
  /\ UNCHANGED <<row, job, accepted, posts>>

-----------------------------------------------------------------------------

HandlerStep(h) ==
  Post(h) \/ OnSuccess(h) \/ OnFailure(h) \/ HandlerThrows(h) \/ Finish(h)

Next ==
  \/ \E a \in Actions : Send(a) \/ Mark(a) \/ RequestFails(a) \/ Expire(a)
  \/ \E s \in Servers, a \in Actions : Insert(s, a) \/ Fetch(s, a)
  \/ \E h \in handlers : HandlerStep(h)
  \/ \E s \in Servers : Crash(s)

Spec == Init /\ [][Next]_vars

(* Workers keep polling, the queue keeps expiring, and an event loop keeps *)
(* running its callbacks.  Clients and mishaps are not fair.               *)
Fairness ==
  \A a \in Actions :
    /\ WF_vars(Send(a) \/ Mark(a))
    /\ WF_vars((\E s \in Servers : Fetch(s, a)) \/ Expire(a))
    /\ WF_vars(\E h \in handlers :
                 h.act = a /\ (Post(h) \/ OnSuccess(h) \/ OnFailure(h) \/ Finish(h)))

FairSpec == Spec /\ Fairness

-----------------------------------------------------------------------------
(* Properties.                                                             *)

Answered(a) == row[a].output \/ row[a].errors

\* A client reads 'completed' only with an output, of a call that succeeded,
\* whatever attempts of the job run at once (async.ts:230-240); and the queue
\* forgets a job only with its outcome in the row: a completed job has its
\* output stored although the UPDATE comes first and may reject.
OutputIsReal ==
  \A a \in Actions :
    /\ row[a].status = "completed" => row[a].output
    /\ row[a].output => a \in accepted
    /\ job[a].state = "completed" => row[a].output

\* The queue's retries are the only ones, unlike those of event triggers: each
\* attempt has at most one handler and calls the action once, RetryLimit + 1
\* times in all.
Attempted(a, t) ==
  /\ t <= job[a].tries
  /\ job[a].state \in {"none", "created", "retry"} => t < job[a].tries

AttemptsBounded ==
  /\ \A p \in posts : p[2] <= RetryLimit /\ Attempted(p[1], p[2])
  /\ \A g, h \in handlers : g.act = h.act /\ g.try = h.try => g = h
  /\ \A h \in handlers :
       Attempted(h.act, h.try) /\ (h.phase = "posting" => <<h.act, h.try>> \notin posts)

\* A job is given up without a trace in the row only if the request transform
\* throws, or by mishaps: one for every attempt, or a single one that kills
\* several attempts whose jobs expired while their handlers were running.
Running(a) == \E h \in handlers : h.act = a

UnansweredByMishaps ==
  \A a \in Actions :
    job[a].state = "failed" /\ ~Answered(a) /\ ~Running(a) =>
      \/ a \in Untransformable
      \/ mishaps >= (IF SlowHandlers THEN 1 ELSE RetryLimit + 1)

\* "If the action is still processing, returns null" (schema.ts:786) is not for
\* ever: every action whose job was sent gets an output or errors, or the queue
\* gives its job up.
EventuallyAnswered ==
  \A a \in Actions :
    (job[a].state # "none") ~> (Answered(a) \/ job[a].state = "failed")

\* "If the action completed, returns the output data" (schema.ts:788): once the
\* job is completed and the mutation has returned, the status is 'completed'.
CompletedIsServed ==
  \A a \in Actions :
    job[a].state = "completed" /\ request[a].phase = "over" => row[a].status = "completed"

\* That late mark is all that can hide a completed job while handlers end before their
\* jobs expire: the failure of one attempt never overwrites the outcome of another
\* (async.ts:232-250 updates the row whatever its status is).
OnlyTheMarkHides ==
  \A a \in Actions :
    job[a].state = "completed" =>
      \/ row[a].status = "completed"
      \/ row[a].status = "processing" /\ request[a].phase = "over"
=============================================================================
