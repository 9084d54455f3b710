--------------------------- MODULE ScheduledEvents ---------------------------
(***************************************************************************)
(* One-off scheduled events (src/src/scheduled-events).                    *)
(*                                                                         *)
(* Every server polls hakkyra.scheduled_events: a tick claims a batch of   *)
(* due rows (status 'locked', locked_at = now()), delivers them one after  *)
(* the other, and writes each outcome back by id, without checking that it *)
(* still holds the lock.  A lock older than STALE_LOCK_SECONDS is claimed  *)
(* again.  Delivering a batch takes up to batchSize * timeout_seconds, so  *)
(* a lock may get old under a server that is alive: SlowBatches.           *)
(***************************************************************************)
EXTENDS Integers, FiniteSets

CONSTANTS
  Events,       \* identities of scheduled_events rows
  Servers,      \* hakkyra instances sharing the database
  NumRetries,   \* retry_conf.num_retries
  BatchSize,    \* scheduled_events.batch_size
  SlowBatches,  \* TRUE: a batch may take longer than STALE_LOCK_SECONDS
  MaxMishaps    \* bound: crashes and failed queries

ASSUME ScheduledEventsAssumption ==
  /\ NumRetries \in Nat
  /\ BatchSize \in Nat \ {0}
  /\ SlowBatches \in BOOLEAN
  /\ MaxMishaps \in Nat

VARIABLES
  row,      \* scheduled_events, with the clock abstracted to due and stale
  server,   \* "down", "up" (polling) or "stopping"
  batch,    \* per server, claimed rows its tick has not come to yet
  work,     \* per server, the delivery its tick is in
  mishaps,
  acked,    \* history: events whose webhook answered 2xx
  posted,   \* history: number of POSTs made for an event
  logged,   \* scheduled_event_invocations: number of rows of an event
  cancelled \* history: events deleted while 'scheduled'

vars == <<row, server, batch, work, mishaps, acked, posted, logged, cancelled>>

Statuses == {"scheduled", "locked", "delivered", "error"}

\* due: scheduled_time and next_retry_at have passed.
\* stale: locked_at is more than STALE_LOCK_SECONDS ago.
Row == [status : Statuses \cup {"none", "deleted"}, tries : Nat,
        due : BOOLEAN, stale : BOOLEAN]

\* What RETURNING gave the claim: tries is a snapshot.
Claimed == [ev : Events, tries : Nat]

Phases == {"posting", "ok", "bad", "okLogged", "badLogged", "threw"}
Idle == [phase |-> "idle"]
Working == [phase : Phases, ev : Events, tries : Nat]

TypeOK ==
  /\ row \in [Events -> Row]
  /\ server \in [Servers -> {"down", "up", "stopping"}]
  /\ batch \in [Servers -> SUBSET Claimed]
  /\ work \in [Servers -> Working \cup {Idle}]
  /\ mishaps \in Nat
  /\ acked \subseteq Events
  /\ posted \in [Events -> Nat]
  /\ logged \in [Events -> Nat]
  /\ cancelled \subseteq Events

-----------------------------------------------------------------------------

Init ==
  /\ row = [e \in Events |->
              [status |-> "none", tries |-> 0, due |-> FALSE, stale |-> FALSE]]
  /\ server = [s \in Servers |-> "down"]
  /\ batch = [s \in Servers |-> {}]
  /\ work = [s \in Servers |-> Idle]
  /\ mishaps = 0
  /\ acked = {}
  /\ posted = [e \in Events |-> 0]
  /\ logged = [e \in Events |-> 0]
  /\ cancelled = {}

Exists(e) == row[e].status \in Statuses

SetRow(e, r) == IF Exists(e) THEN [row EXCEPT ![e] = r] ELSE row

\* Server s has claimed e and not finished with it.
Holds(s, e) ==
  \/ \E c \in batch[s] : c.ev = e
  \/ work[s] # Idle /\ work[s].ev = e

-----------------------------------------------------------------------------
(* The metadata API, direct inserts, and time.                             *)

Create(e) ==
  /\ row[e].status = "none"
  /\ \E due \in BOOLEAN :
       row' = [row EXCEPT ![e] = [status |-> "scheduled", tries |-> 0,
                                  due |-> due, stale |-> FALSE]]
  /\ UNCHANGED <<server, batch, work, mishaps, acked, posted, logged, cancelled>>

\* DELETE whatever the status; the invocations go with the row.
Delete(e) ==
  /\ Exists(e)
  /\ row' = [row EXCEPT ![e].status = "deleted"]
  /\ logged' = [logged EXCEPT ![e] = 0]
  /\ cancelled' = IF row[e].status = "scheduled" THEN cancelled \cup {e} ELSE cancelled
  /\ UNCHANGED <<server, batch, work, mishaps, acked, posted>>

BecomeDue(e) ==
  /\ row[e].status = "scheduled"
  /\ ~row[e].due
  /\ row' = [row EXCEPT ![e].due = TRUE]
  /\ UNCHANGED <<server, batch, work, mishaps, acked, posted, logged, cancelled>>

LockAges(e) ==
  /\ row[e].status = "locked"
  /\ ~row[e].stale
  /\ SlowBatches \/ \A s \in Servers : ~Holds(s, e)
  /\ row' = [row EXCEPT ![e].stale = TRUE]
  /\ UNCHANGED <<server, batch, work, mishaps, acked, posted, logged, cancelled>>

-----------------------------------------------------------------------------
(* The poller: tick and claimDueScheduledEvents.                           *)

Start(s) ==
  /\ server[s] = "down"
  /\ server' = [server EXCEPT ![s] = "up"]
  /\ UNCHANGED <<row, batch, work, mishaps, acked, posted, logged, cancelled>>

\* Mutant: any locked row may be claimed.
DueLocked ==
  {e \in Events : \/ row[e].status = "scheduled" /\ row[e].due
                  \/ row[e].status = "locked"}

\* Mutant: stale locks are not reclaimed.
DueUnlocked == {e \in Events : row[e].status = "scheduled" /\ row[e].due}

Due ==
  {e \in Events : \/ row[e].status = "scheduled" /\ row[e].due
                  \/ row[e].status = "locked" /\ row[e].stale}

\* LIMIT batchSize; scheduled_time decides which rows fit, any may here.
Batches ==
  {B \in SUBSET Due :
     Cardinality(B) = BatchSize \/ (B = Due /\ Cardinality(B) <= BatchSize)}

\* Mutant: the claim only stamps locked_at.
LockStamp(r) == [r EXCEPT !.stale = FALSE]

Lock(r) == [r EXCEPT !.status = "locked", !.stale = FALSE]

\* The ticking flag: no tick while the previous one is delivering.
Tick(s) ==
  /\ server[s] = "up"
  /\ batch[s] = {} /\ work[s] = Idle
  /\ \E B \in Batches \ {{}} :
       /\ row' = [e \in Events |-> IF e \in B THEN Lock(row[e]) ELSE row[e]]
       /\ batch' = [batch EXCEPT ![s] = {[ev |-> e, tries |-> row[e].tries] : e \in B}]
  /\ UNCHANGED <<server, work, mishaps, acked, posted, logged, cancelled>>

\* The loop of processDueScheduledEvents comes to the next claimed event.
Take(s) ==
  /\ work[s] = Idle
  /\ \E c \in batch[s] :
       /\ batch' = [batch EXCEPT ![s] = @ \ {c}]
       /\ work' = [work EXCEPT ![s] = [phase |-> "posting", ev |-> c.ev, tries |-> c.tries]]
  /\ UNCHANGED <<row, server, mishaps, acked, posted, logged, cancelled>>

\* stop: no further tick, and the one in flight is awaited.
Stop(s) ==
  /\ server[s] = "up"
  /\ server' = [server EXCEPT ![s] = "stopping"]
  /\ UNCHANGED <<row, batch, work, mishaps, acked, posted, logged, cancelled>>

Exit(s) ==
  /\ server[s] = "stopping"
  /\ batch[s] = {} /\ work[s] = Idle
  /\ server' = [server EXCEPT ![s] = "down"]
  /\ UNCHANGED <<row, batch, work, mishaps, acked, posted, logged, cancelled>>

-----------------------------------------------------------------------------
(* deliverScheduledEvent.                                                  *)

InPhase(s, ph) == [work EXCEPT ![s].phase = ph]

Post(s) ==
  /\ work[s].phase = "posting"
  /\ posted' = [posted EXCEPT ![work[s].ev] = @ + 1]
  /\ \/ work' = InPhase(s, "ok") /\ acked' = acked \cup {work[s].ev}
     \/ work' = InPhase(s, "bad") /\ acked' = acked
  /\ UNCHANGED <<row, server, batch, mishaps, logged, cancelled>>

\* Mutant: only failed attempts are recorded.
LogFailures(s) ==
  /\ work[s].phase \in {"ok", "bad"}
  /\ logged' = IF work[s].phase = "bad" /\ Exists(work[s].ev)
                 THEN [logged EXCEPT ![work[s].ev] = @ + 1] ELSE logged
  /\ work' = InPhase(s, IF work[s].phase = "ok" THEN "okLogged" ELSE "badLogged")
  /\ UNCHANGED <<row, server, batch, mishaps, acked, posted, cancelled>>

\* INSERT of the invocation; the foreign key rejects it once the row is gone.
LogInvocation(s) ==
  /\ work[s].phase \in {"ok", "bad"}
  /\ IF Exists(work[s].ev)
       THEN /\ logged' = [logged EXCEPT ![work[s].ev] = @ + 1]
            /\ work' = InPhase(s, IF work[s].phase = "ok" THEN "okLogged" ELSE "badLogged")
       ELSE /\ logged' = logged
            /\ work' = InPhase(s, "threw")
  /\ UNCHANGED <<row, server, batch, mishaps, acked, posted, cancelled>>

\* Mutant: the failed attempt itself is not counted.
ExhaustedLate(w) == w.tries > NumRetries

\* event.tries + 1 > num_retries, event being the claim's snapshot.
Exhausted(w) == w.tries + 1 > NumRetries

\* Mutant: the terminal status is called 'failed', as in event_log.
OutcomeMisnamed(r, w) ==
  [r EXCEPT !.status = IF w.phase = "okLogged" THEN "delivered"
                       ELSE IF Exhausted(w) THEN "failed" ELSE "scheduled",
            !.tries = @ + 1, !.stale = FALSE, !.due = FALSE]

\* The row after the outcome w of an attempt.
Outcome(r, w) ==
  IF w.phase = "okLogged"
    THEN [r EXCEPT !.status = "delivered", !.tries = @ + 1, !.stale = FALSE]
  ELSE IF Exhausted(w)
    THEN [r EXCEPT !.status = "error", !.tries = @ + 1, !.stale = FALSE]
    ELSE [r EXCEPT !.status = "scheduled", !.tries = @ + 1, !.stale = FALSE, !.due = FALSE]

Record(s) ==
  /\ work[s].phase \in {"okLogged", "badLogged"}
  /\ row' = SetRow(work[s].ev, Outcome(row[work[s].ev], work[s]))
  /\ work' = [work EXCEPT ![s] = Idle]
  /\ UNCHANGED <<server, batch, mishaps, acked, posted, logged, cancelled>>

\* A query of deliverScheduledEvent rejects (or its configuration makes it
\* throw before the POST).
Throw(s) ==
  /\ mishaps < MaxMishaps
  /\ work[s].phase \in Phases \ {"threw"}
  /\ mishaps' = mishaps + 1
  /\ work' = InPhase(s, "threw")
  /\ UNCHANGED <<row, server, batch, acked, posted, logged, cancelled>>

\* The catch releases whatever lock the row has; the attempt is not counted.
Unlock(r) == [r EXCEPT !.status = "scheduled", !.stale = FALSE]

Release(s) ==
  /\ work[s].phase = "threw"
  /\ row' = IF row[work[s].ev].status = "locked"
              THEN [row EXCEPT ![work[s].ev] = Unlock(@)] ELSE row
  /\ work' = [work EXCEPT ![s] = Idle]
  /\ UNCHANGED <<server, batch, mishaps, acked, posted, logged, cancelled>>

\* The UPDATE of the catch rejects as well and is ignored.
ReleaseFails(s) ==
  /\ mishaps < MaxMishaps
  /\ work[s].phase = "threw"
  /\ mishaps' = mishaps + 1
  /\ work' = [work EXCEPT ![s] = Idle]
  /\ UNCHANGED <<row, server, batch, acked, posted, logged, cancelled>>

Crash(s) ==
  /\ server[s] # "down"
  /\ mishaps < MaxMishaps
  /\ mishaps' = mishaps + 1
  /\ server' = [server EXCEPT ![s] = "down"]
  /\ batch' = [batch EXCEPT ![s] = {}]
  /\ work' = [work EXCEPT ![s] = Idle]
  /\ UNCHANGED <<row, acked, posted, logged, cancelled>>

-----------------------------------------------------------------------------

Clock(e) == BecomeDue(e) \/ LockAges(e)

Poll(s) == Start(s) \/ Tick(s) \/ Take(s) \/ Exit(s)

Deliver(s) == Post(s) \/ LogInvocation(s) \/ Record(s) \/ Release(s)

Mishap(s) == Throw(s) \/ ReleaseFails(s) \/ Crash(s)

Next ==
  \/ \E e \in Events : Create(e) \/ Delete(e) \/ Clock(e)
  \/ \E s \in Servers : Poll(s) \/ Stop(s) \/ Deliver(s) \/ Mishap(s)

Spec == Init /\ [][Next]_vars

(* Time passes, pollers keep polling, a stopped or crashed server is       *)
(* started again, and a delivery that has begun goes on.  Ticks are        *)
(* strongly fair because init awaits a tick before anything can stop the   *)
(* poller, so a server restarted over and over still polls.                *)
Fairness ==
  /\ \A e \in Events : WF_vars(Clock(e))
  /\ \A s \in Servers : WF_vars(Poll(s)) /\ SF_vars(Tick(s)) /\ WF_vars(Deliver(s))

FairSpec == Spec /\ Fairness

-----------------------------------------------------------------------------
(* Properties.                                                             *)

\* No two servers work on the same event, and a server holds an event once:
\* the claim takes locks that are free or were held by a crashed server
\* (delivery.ts:8-9 and 56-57).
OneHolder ==
  \A e \in Events : \A s, t \in Servers :
    Holds(s, e) /\ Holds(t, e) =>
      s = t /\ ~(work[s] # Idle /\ work[s].ev = e /\ \E c \in batch[s] : c.ev = e)

\* The claim c of an event is what the row still says, unless it was deleted.
Locked(c) ==
  \/ row[c.ev].status = "deleted"
  \/ row[c.ev].status = "locked" /\ ~row[c.ev].stale /\ c.tries = row[c.ev].tries

\* What a server holds is locked, and not for long, unless it was deleted; the
\* claim's snapshot of tries is then the row's.
HoldingInv ==
  /\ \A s \in Servers : \A c \in batch[s] : Locked(c)
  /\ \A s \in Servers : work[s] # Idle => Locked(work[s])
  /\ \A s, t \in Servers : \A c \in batch[s], d \in batch[t] :
       c.ev = d.ev => s = t /\ c = d
  /\ \A s, t \in Servers :
       work[s] # Idle /\ work[t] # Idle /\ work[s].ev = work[t].ev => s = t
  /\ \A s, t \in Servers : \A c \in batch[s] : work[t] # Idle => c.ev # work[t].ev

\* Tries are counted from zero, and an event that waits has retries left.
TriesInv ==
  \A e \in Events :
    /\ row[e].status = "none" => row[e].tries = 0
    /\ row[e].status \in {"scheduled", "locked"} => row[e].tries <= NumRetries

\* Claims, retries counted from the claim's snapshot (delivery.ts:161), writes
\* by id without a lock check, releases and crashes give every event the life
\* that ScheduledEventLife promises.
LifeOf(e) ==
  [status |-> IF row[e].status = "locked" THEN "scheduled" ELSE row[e].status,
   tries  |-> row[e].tries]

Life == INSTANCE ScheduledEventLife WITH life <- [e \in Events |-> LifeOf(e)]

RefinesLife == Life!Spec

\* "delete_scheduled_event cancels a pending event" (README.md:467): an event
\* deleted while 'scheduled' is never posted any more.
CancelIsFinal ==
  [][\A e \in cancelled : posted'[e] = posted[e]]_vars

\* A counted attempt has its invocation, and 'delivered' is never written
\* without a 2xx answer: the INSERT precedes the UPDATE (delivery.ts:134-158).
CountedIsLogged ==
  \A e \in Events : Exists(e) =>
    /\ row[e].tries <= logged[e]
    /\ row[e].status = "delivered" => e \in acked

\* Every event that is not deleted ends delivered or in error, whatever
\* crashes while it is locked.
EventuallyResolved ==
  \A e \in Events :
    (row[e].status = "scheduled") ~> (row[e].status \in {"delivered", "error", "deleted"})
=============================================================================
