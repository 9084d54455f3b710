------------------------------ MODULE EventLog ------------------------------
(***************************************************************************)
(* Event triggers: the transactional outbox of src/src/events.             *)
(*                                                                         *)
(* A tracked write inserts rows into hakkyra.event_log inside its own      *)
(* transaction and sends a NOTIFY.  Every listening server reacts to a     *)
(* NOTIFY by claiming a batch of pending rows (one UPDATE, SKIP LOCKED)    *)
(* and then sending one job per claimed row to the job queue.  A worker    *)
(* takes the job, posts the webhook and writes the outcome back into the   *)
(* row; a failed post is retried by the job queue *and*, because the row   *)
(* goes back to 'pending', by the next claim.                              *)
(*                                                                         *)
(* The job queue is external (pg-boss) and modelled from the calls made    *)
(* to it: at most retryLimit retries of a job, and a job whose handler     *)
(* outlives expireInSeconds is failed while that handler keeps running.    *)
(***************************************************************************)
EXTENDS Integers, Sequences, FiniteSets

CONSTANTS
  Events,        \* identities of event_log rows
  ManualEvents,  \* those created by POST /v1/events/invoke/:trigger
  Servers,       \* hakkyra instances sharing the database
  Loops,         \* bound: claim-and-send loops running at once in one server
  NumRetries,    \* retry_conf.num_retries of the trigger
  BatchSize,     \* event_delivery.batch_size
  MaxBacklog,    \* bound: NOTIFYs a server has received and not yet handled
  MaxCrashes,    \* bound: crashes (or kills) of servers
  Faults,        \* TRUE: a send to the job queue or an UPDATE may fail
  SlowHandlers   \* TRUE: a handler may outlive its job's expireInSeconds

ASSUME EventLogAssumption ==
  /\ ManualEvents \subseteq Events
  /\ NumRetries \in Nat
  /\ BatchSize \in Nat \ {0}
  /\ MaxBacklog \in Nat \ {0}
  /\ MaxCrashes \in Nat
  /\ Faults \in BOOLEAN
  /\ SlowHandlers \in BOOLEAN

VARIABLES
  row,       \* event_log: status, retry_count and whether next_retry <= now()
  jobs,      \* per row, the jobs that claims and invocations made for it
  handlers,  \* job handlers running in some server
  invoking,  \* invoke requests being handled by some server
  server,    \* "down", "listening" (before the catch-up) or "up"
  notify,    \* NOTIFYs received by a server and not yet handled
  crashes,   \* number of crashes so far
  acked,     \* history: rows whose webhook answered 2xx at least once
  posts      \* history: <<row, job, attempt>> of every webhook POST made

vars == <<row, jobs, handlers, invoking, server, notify, crashes, acked, posts>>

Statuses == {"pending", "processing", "delivered", "failed"}

\* "none": not inserted yet; "deleted": removed by the retention clean-up.
Row == [status : Statuses \cup {"none", "deleted"}, retries : Nat, due : BOOLEAN]

\* by: the loop that claimed the row and has to send the job.
\* "unsent": row claimed, jobQueue.send not reached; "lost": never will be.
\* "failed" and "abandoned" are both the queue's failed state: after the
\* failure was written into the row, or without anything written.
Loop == Servers \X Loops
ByInvoke == <<"invoke">>
Job == [state : {"unsent", "lost", "created", "active", "retry",
                 "completed", "failed", "abandoned"},
        tries : Nat,
        by    : Loop \cup {ByInvoke}]

Handler == [ev : Events, job : Nat, try : Nat, at : Servers,
            phase : {"posting", "ok", "bad", "okRecorded", "badRecorded", "threw"}]

\* A request to the invoke route: its row is inserted, then its job sent.
Invocation == [ev : ManualEvents, at : Servers, phase : {"inserted", "sent"}]

TypeOK ==
  /\ row \in [Events -> Row]
  /\ jobs \in [Events -> Seq(Job)]
  /\ handlers \subseteq Handler
  /\ invoking \subseteq Invocation
  /\ server \in [Servers -> {"down", "listening", "up"}]
  /\ notify \in [Servers -> Nat]
  /\ crashes \in Nat
  /\ acked \subseteq Events
  /\ posts \subseteq Events \X Nat \X Nat

-----------------------------------------------------------------------------

Init ==
  /\ row = [e \in Events |-> [status |-> "none", retries |-> 0, due |-> FALSE]]
  /\ jobs = [e \in Events |-> <<>>]
  /\ handlers = {}
  /\ invoking = {}
  /\ server = [s \in Servers |-> "down"]
  /\ notify = [s \in Servers |-> 0]
  /\ crashes = 0
  /\ acked = {}
  /\ posts = {}

Listening(s) == server[s] # "down"
Exists(e) == row[e].status \in Statuses

\* The defaults of the event_log columns.
NewRow == [status |-> "pending", retries |-> 0, due |-> TRUE]

\* UPDATE event_log SET status = st WHERE id = e: no effect on a deleted row.
SetStatus(e, st) ==
  IF Exists(e) THEN [row EXCEPT ![e].status = st] ELSE row

\* A committed write to a tracked table: the trigger function inserts one row
\* per matching event trigger and always sends the NOTIFY, even when no
\* tracked column changed (E is empty then).
Write(E) ==
  /\ \A e \in E : row[e].status = "none"
  /\ \A s \in Servers : notify[s] < MaxBacklog
  /\ row' = [e \in Events |-> IF e \in E THEN NewRow ELSE row[e]]
  /\ notify' = [s \in Servers |-> IF Listening(s) THEN notify[s] + 1 ELSE notify[s]]
  /\ UNCHANGED <<jobs, handlers, invoking, server, crashes, acked, posts>>

\* next_retry of a row passes.
RetryDue(e) ==
  /\ row[e].status = "pending"
  /\ ~row[e].due
  /\ row' = [row EXCEPT ![e].due = TRUE]
  /\ UNCHANGED <<jobs, handlers, invoking, server, notify, crashes, acked, posts>>

-----------------------------------------------------------------------------
(* enqueuePendingEvents: the claim, then one send per claimed row.         *)

\* Mutant: the claim does not look at rows being processed elsewhere.
ClaimableAny == {e \in Events : row[e].status \in {"pending", "processing"} /\ row[e].due}

Claimable == {e \in Events : row[e].status = "pending" /\ row[e].due}

\* LIMIT batchSize.  created_at decides which rows fit; any may here.
Batches ==
  {B \in SUBSET Claimable :
     Cardinality(B) = BatchSize \/ (B = Claimable /\ Cardinality(B) <= BatchSize)}

LoopIdle(by) ==
  \A e \in Events : \A k \in DOMAIN jobs[e] :
    ~(jobs[e][k].state = "unsent" /\ jobs[e][k].by = by)

NewJob(state, by) == [state |-> state, tries |-> 0, by |-> by]

SetJob(e, k, j) == [jobs EXCEPT ![e][k] = j]

\* The loops in lost end before sending the rest of their batches.
LoseUnsent(lost) ==
  [e \in Events |-> [k \in DOMAIN jobs[e] |->
     IF jobs[e][k].state = "unsent" /\ jobs[e][k].by \in lost
       THEN [jobs[e][k] EXCEPT !.state = "lost"]
       ELSE jobs[e][k]]]

\* The UPDATE ... RETURNING that turns a batch of rows to 'processing'.
Claim(by, B) ==
  /\ LoopIdle(by)
  /\ row' = [e \in Events |->
               IF e \in B THEN [row[e] EXCEPT !.status = "processing"] ELSE row[e]]
  /\ jobs' = [e \in Events |->
               IF e \in B THEN Append(jobs[e], NewJob("unsent", by)) ELSE jobs[e]]

\* A notification runs enqueuePendingEvents; nothing serialises the loops.
OnNotify(s, l) ==
  /\ Listening(s)
  /\ notify[s] > 0
  /\ \E B \in Batches : Claim(<<s, l>>, B)
  /\ notify' = [notify EXCEPT ![s] = @ - 1]
  /\ UNCHANGED <<handlers, invoking, server, crashes, acked, posts>>

\* Mutant: no catch-up after LISTEN.
StartNoCatchup(s) ==
  /\ server[s] = "down"
  /\ server' = [server EXCEPT ![s] = "up"]
  /\ UNCHANGED <<row, jobs, handlers, invoking, notify, crashes, acked, posts>>

\* init: trigger reconciliation and workers first, then LISTEN ...
Start(s) ==
  /\ server[s] = "down"
  /\ server' = [server EXCEPT ![s] = "listening"]
  /\ UNCHANGED <<row, jobs, handlers, invoking, notify, crashes, acked, posts>>

\* ... then one catch-up batch.
Catchup(s, l) ==
  /\ server[s] = "listening"
  /\ \E B \in Batches : Claim(<<s, l>>, B)
  /\ server' = [server EXCEPT ![s] = "up"]
  /\ UNCHANGED <<handlers, invoking, notify, crashes, acked, posts>>

\* One iteration of the loop over the claimed rows.
Send(e, k) ==
  /\ jobs[e][k].state = "unsent"
  /\ jobs' = SetJob(e, k, [jobs[e][k] EXCEPT !.state = "created"])
  /\ UNCHANGED <<row, handlers, invoking, server, notify, crashes, acked, posts>>

\* jobQueue.send rejects: the loop ends and the rest of its batch is dropped.
SendFails(by) ==
  /\ Faults
  /\ ~LoopIdle(by)
  /\ jobs' = LoseUnsent({by})
  /\ UNCHANGED <<row, handlers, invoking, server, notify, crashes, acked, posts>>

-----------------------------------------------------------------------------
(* The job queue and registerWebhookWorker's handler.                      *)

Waiting(e, k) == jobs[e][k].state \in {"created", "retry"}

\* A handler whose result the queue still waits for: later attempts, and
\* jobs that expired, are no longer settled by it.
Current(h) ==
  /\ jobs[h.ev][h.job].state = "active"
  /\ jobs[h.ev][h.job].tries = h.try

\* The job fails: the queue retries it while retries are left.
FailedJob(j, final) ==
  IF j.tries < NumRetries THEN [j EXCEPT !.state = "retry", !.tries = @ + 1]
                          ELSE [j EXCEPT !.state = final]

\* The queue's verdict once a handler has returned (or thrown).
SettledJob(j, phase) ==
  CASE phase = "okRecorded"  -> [j EXCEPT !.state = "completed"]
    [] phase = "badRecorded" -> FailedJob(j, "failed")
    [] phase = "threw"       -> FailedJob(j, "abandoned")

InPhase(h, ph) == (handlers \ {h}) \cup {[h EXCEPT !.phase = ph]}

\* A worker of server s takes the job and resolves its webhook.
Fetch(s, e, k) ==
  /\ Listening(s)
  /\ Waiting(e, k)
  /\ jobs' = SetJob(e, k, [jobs[e][k] EXCEPT !.state = "active"])
  /\ handlers' = handlers \cup
       {[ev |-> e, job |-> k, try |-> jobs[e][k].tries, at |-> s, phase |-> "posting"]}
  /\ UNCHANGED <<row, invoking, server, notify, crashes, acked, posts>>

\* deliverWebhook: an HTTP answer, a network error or a timeout.
Post(h) ==
  /\ h.phase = "posting"
  /\ posts' = posts \cup {<<h.ev, h.job, h.try>>}
  /\ \/ acked' = acked \cup {h.ev} /\ handlers' = InPhase(h, "ok")
     \/ acked' = acked /\ handlers' = InPhase(h, "bad")
  /\ UNCHANGED <<row, jobs, invoking, server, notify, crashes>>

\* Mutant: the outcome of the post is not looked at.
OnSuccessAnyway(h) ==
  /\ h.phase \in {"ok", "bad"}
  /\ row' = SetStatus(h.ev, "delivered")
  /\ handlers' = InPhase(h, "okRecorded")
  /\ UNCHANGED <<jobs, invoking, server, notify, crashes, acked, posts>>

\* Mutant: UPDATE ... WHERE status = 'pending'.
OnSuccessGuarded(h) ==
  /\ h.phase = "ok"
  /\ row' = IF row[h.ev].status = "pending" THEN SetStatus(h.ev, "delivered") ELSE row
  /\ handlers' = InPhase(h, "okRecorded")
  /\ UNCHANGED <<jobs, invoking, server, notify, crashes, acked, posts>>

OnSuccess(h) ==
  /\ h.phase = "ok"
  /\ row' = SetStatus(h.ev, "delivered")
  /\ handlers' = InPhase(h, "okRecorded")
  /\ UNCHANGED <<jobs, invoking, server, notify, crashes, acked, posts>>

\* Mutant: the failed attempt itself is not counted.
FailedRowLate(r) ==
  [status  |-> IF r.retries > NumRetries THEN "failed" ELSE "pending",
   retries |-> r.retries + 1,
   due     |-> FALSE]

\* Mutant: the terminal status is called 'error', as for scheduled events.
FailedRowMisnamed(r) ==
  [status  |-> IF r.retries + 1 >= NumRetries THEN "error" ELSE "pending",
   retries |-> r.retries + 1,
   due     |-> FALSE]

\* The row after a failed post.
FailedRow(r) ==
  [status  |-> IF r.retries + 1 >= NumRetries THEN "failed" ELSE "pending",
   retries |-> r.retries + 1,
   due     |-> FALSE]

OnFailure(h) ==
  /\ h.phase = "bad"
  /\ row' = IF Exists(h.ev) THEN [row EXCEPT ![h.ev] = FailedRow(row[h.ev])] ELSE row
  /\ handlers' = InPhase(h, "badRecorded")
  /\ UNCHANGED <<jobs, invoking, server, notify, crashes, acked, posts>>

\* resolveWebhook finds no URL, or the UPDATE of the outcome rejects.
HandlerThrows(h) ==
  /\ Faults
  /\ h.phase \in {"posting", "ok", "bad"}
  /\ handlers' = InPhase(h, "threw")
  /\ UNCHANGED <<row, jobs, invoking, server, notify, crashes, acked, posts>>

\* The handler returns or throws, and the queue settles the job.
Finish(h) ==
  /\ h.phase \in {"okRecorded", "badRecorded", "threw"}
  /\ handlers' = handlers \ {h}
  /\ jobs' = IF ~Current(h) THEN jobs
             ELSE SetJob(h.ev, h.job, SettledJob(jobs[h.ev][h.job], h.phase))
  /\ UNCHANGED <<row, invoking, server, notify, crashes, acked, posts>>

\* expireInSeconds: the job's handler died with its server, or is too slow.
Expire(e, k) ==
  /\ jobs[e][k].state = "active"
  /\ \/ SlowHandlers
     \/ \A h \in handlers : ~(h.ev = e /\ h.job = k /\ h.try = jobs[e][k].tries)
  /\ jobs' = SetJob(e, k, FailedJob(jobs[e][k], "abandoned"))
  /\ UNCHANGED <<row, handlers, invoking, server, notify, crashes, acked, posts>>

-----------------------------------------------------------------------------
(* The invoke route, the retention clean-up and crashes.                   *)

\* INSERT of the MANUAL row: it is 'pending' and due, so a claim may take it.
InvokeInsert(s, e) ==
  /\ server[s] = "up"
  /\ row[e].status = "none"
  /\ row' = [row EXCEPT ![e] = NewRow]
  /\ invoking' = invoking \cup {[ev |-> e, at |-> s, phase |-> "inserted"]}
  /\ UNCHANGED <<jobs, handlers, server, notify, crashes, acked, posts>>

InvokeSend(i) ==
  /\ i.phase = "inserted"
  /\ jobs' = [jobs EXCEPT ![i.ev] = Append(@, NewJob("created", ByInvoke))]
  /\ invoking' = (invoking \ {i}) \cup {[i EXCEPT !.phase = "sent"]}
  /\ UNCHANGED <<row, handlers, server, notify, crashes, acked, posts>>

\* The final UPDATE of the route, whatever the row's status is by now.
InvokeMark(i) ==
  /\ i.phase = "sent"
  /\ row' = SetStatus(i.ev, "processing")
  /\ invoking' = invoking \ {i}
  /\ UNCHANGED <<jobs, handlers, server, notify, crashes, acked, posts>>

\* send or the UPDATE rejects: 500, and the row stays as it is.
InvokeFails(i) ==
  /\ Faults
  /\ invoking' = invoking \ {i}
  /\ UNCHANGED <<row, jobs, handlers, server, notify, crashes, acked, posts>>

\* The daily clean-up deletes delivered rows past their retention.
Cleanup(E) ==
  /\ E # {}
  /\ \A e \in E : row[e].status = "delivered"
  /\ row' = [e \in Events |->
               IF e \in E THEN [row[e] EXCEPT !.status = "deleted"] ELSE row[e]]
  /\ UNCHANGED <<jobs, handlers, invoking, server, notify, crashes, acked, posts>>

\* What a server holds in memory is gone; rows and jobs are in PostgreSQL.
Crash(s) ==
  /\ Listening(s)
  /\ crashes < MaxCrashes
  /\ crashes' = crashes + 1
  /\ server' = [server EXCEPT ![s] = "down"]
  /\ notify' = [notify EXCEPT ![s] = 0]
  /\ handlers' = {h \in handlers : h.at # s}
  /\ invoking' = {i \in invoking : i.at # s}
  /\ jobs' = LoseUnsent({s} \X Loops)
  /\ UNCHANGED <<row, acked, posts>>

-----------------------------------------------------------------------------

Listener(s) == \E l \in Loops : OnNotify(s, l) \/ Catchup(s, l)

JobStep(e, k) == Send(e, k) \/ (\E s \in Servers : Fetch(s, e, k)) \/ Expire(e, k)

HandlerStep(h) ==
  Post(h) \/ OnSuccess(h) \/ OnFailure(h) \/ HandlerThrows(h) \/ Finish(h)

InvokeStep(i) == InvokeSend(i) \/ InvokeMark(i) \/ InvokeFails(i)

Next ==
  \/ \E E \in SUBSET (Events \ ManualEvents) : Write(E)
  \/ \E s \in Servers : Start(s) \/ Listener(s) \/ Crash(s)
  \/ \E s \in Servers, l \in Loops : SendFails(<<s, l>>)
  \/ \E e \in Events : RetryDue(e) \/ \E k \in DOMAIN jobs[e] : JobStep(e, k)
  \/ \E h \in handlers : HandlerStep(h)
  \/ \E s \in Servers, e \in ManualEvents : InvokeInsert(s, e)
  \/ \E i \in invoking : InvokeStep(i)
  \/ \E E \in SUBSET Events : Cleanup(E)

Spec == Init /\ [][Next]_vars

(* The event loop of a server that is up keeps running its callbacks, the  *)
(* queue keeps polling and expiring, and a dead server is restarted.       *)
(* Nothing obliges clients to write, so Write is not fair; nor are crashes *)
(* and faults.                                                             *)
Fairness ==
  /\ \A s \in Servers : WF_vars(Start(s)) /\ WF_vars(Listener(s))
  /\ \A e \in Events : WF_vars(RetryDue(e))
  /\ \A e \in Events : WF_vars(\E k \in DOMAIN jobs[e] : JobStep(e, k))
  /\ \A e \in Events :
       WF_vars(\E h \in handlers :
                 h.ev = e /\ (Post(h) \/ OnSuccess(h) \/ OnFailure(h) \/ Finish(h)))
  /\ WF_vars(\E i \in invoking : InvokeSend(i) \/ InvokeMark(i))

FairSpec == Spec /\ Fairness

\* The same while tracked tables keep being written to.
BusySpec == FairSpec /\ WF_vars(Write({}))

-----------------------------------------------------------------------------
(* Properties.                                                             *)

\* Every claim of a row follows its insertion or a recorded failure that left
\* retries, so a row never gets more than NumRetries jobs (one when
\* NumRetries = 0) plus the one of an invocation; and no attempt of a job is
\* posted twice.  Together: the webhook of an event is posted at most
\* JobsPerEvent * (NumRetries + 1) times, however claims, the queue's own
\* retries, expiries and crashes interleave (delivery.ts:160-180 and 133-138
\* retry independently of each other).
JobsPerEvent == (IF NumRetries > 1 THEN NumRetries ELSE 1) + 1

BoundedDeliveries ==
  /\ \A e \in Events :
       Len(jobs[e]) <= JobsPerEvent - (IF e \in ManualEvents THEN 0 ELSE 1)
  /\ \A p \in posts : p[2] \in 1..Len(jobs[p[1]]) /\ p[3] <= NumRetries
  /\ \A h \in handlers : h.phase = "posting" => <<h.ev, h.job, h.try>> \notin posts

\* Attempt t of a job has been taken by a worker.
Started(j, t) ==
  /\ t <= j.tries
  /\ j.state \in {"unsent", "lost", "created", "retry"} => t < j.tries

\* Handlers and posts are of started attempts, one handler per attempt, and a
\* handler that has yet to post is the first of its attempt.
AttemptsInv ==
  /\ \A e \in Events : \A k \in DOMAIN jobs[e] : jobs[e][k].tries <= NumRetries
  /\ \A h \in handlers : h.job \in DOMAIN jobs[h.ev] /\ Started(jobs[h.ev][h.job], h.try)
  /\ \A p \in posts : p[2] \in DOMAIN jobs[p[1]] /\ Started(jobs[p[1]][p[2]], p[3])
  /\ \A g, h \in handlers : (g.ev = h.ev /\ g.job = h.job /\ g.try = h.try) => g = h
  /\ \A h \in handlers : h.phase = "posting" => <<h.ev, h.job, h.try>> \notin posts

\* The jobs made for a row and those still to come are paid for by its
\* insertion, its invocation, or a failure that sent it back to 'pending'.
ClaimToCome(e) == IF row[e].status = "pending" THEN 1 ELSE 0

InvokeToCome(e) ==
  IF e \in ManualEvents /\ (\/ row[e].status = "none"
                            \/ \E i \in invoking : i.ev = e /\ i.phase = "inserted")
    THEN 1 ELSE 0

Requeued(e) ==
  IF row[e].retries < NumRetries THEN row[e].retries
  ELSE IF NumRetries > 0 THEN NumRetries - 1 ELSE 0

BudgetInv ==
  /\ \A e \in Events :
       Len(jobs[e]) + ClaimToCome(e) + InvokeToCome(e)
         <= 1 + Requeued(e) + (IF e \in ManualEvents THEN 1 ELSE 0)
  /\ \A e \in Events : row[e].status = "none" =>
       jobs[e] = <<>> /\ row[e].retries = 0 /\ \A i \in invoking : i.ev # e
  /\ \A i, j \in invoking : i.ev = j.ev => i = j

\* A row is only reported delivered, and only cleaned up, when its webhook
\* really answered 2xx: no late failure, retry or invocation can mark a row
\* delivered, and the clean-up (cleanup.ts:45-50) never drops an undelivered one.
DeliveredWasAcked ==
  \A e \in Events : row[e].status \in {"delivered", "deleted"} => e \in acked

AckedInv ==
  /\ DeliveredWasAcked
  /\ \A h \in handlers : h.phase \in {"ok", "okRecorded"} => h.ev \in acked

\* A 'processing' row that no invocation wrote is carried by some job that is
\* going to change it: one still to be sent, waiting, or active with an outcome
\* not yet recorded.  Only a lost send or a job the queue gave up on without
\* its outcome recorded can strand it (delivery.ts:86 has no counterpart that
\* looks for rows left in 'processing').
Recorded(e, k) ==
  \E h \in handlers : /\ h.ev = e /\ h.job = k /\ h.try = jobs[e][k].tries
                      /\ h.phase \in {"okRecorded", "badRecorded"}

Carries(e, k) ==
  \/ jobs[e][k].state \in {"unsent", "created", "retry"}
  \/ jobs[e][k].state = "active" /\ ~Recorded(e, k)

Stranded(e) == \E k \in DOMAIN jobs[e] : jobs[e][k].state \in {"lost", "abandoned"}

ProcessingIsCarried ==
  \A e \in Events \ ManualEvents :
    row[e].status = "processing" =>
      Stranded(e) \/ \E k \in DOMAIN jobs[e] : Carries(e, k)

\* Every captured event ends as delivered or failed (README.md:397, "with
\* at-least-once semantics"): claims of several servers, the queue's retries and
\* rows that go back to 'pending' and are claimed again never leave it in between.
Settled(e) == row[e].status \in {"delivered", "failed", "deleted"}

EventuallySettled ==
  \A e \in Events : (row[e].status = "pending") ~> Settled(e)
=============================================================================
