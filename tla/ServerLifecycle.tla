-------------------------- MODULE ServerLifecycle ---------------------------
(***************************************************************************)
(* Servers from their start to their exit: src/src/commands/start.ts,      *)
(* src/src/server.ts and src/src/server/jobs.ts.  A server starts its      *)
(* parts one after the other, and goes on without a part that fails; in    *)
(* dev mode it reloads its configuration when files change; a signal stops *)
(* its parts in a fixed order while their work is still in flight.         *)
(***************************************************************************)
EXTENDS TriggerReconciler

CONSTANTS
  DevServers,   \* servers in dev mode, which watch the files
  BusyServers,  \* servers whose work in flight and shutdown are followed
  SlowJobs,     \* TRUE: a job may outlast job_queue.graceful_shutdown_ms
  MaxOutside,   \* bound: edits of the configuration and signals to a server, together
  MaxFaults     \* bound: parts and statements that fail, reloads that reject, crashes

ASSUME LifecycleAssumption ==
  /\ DevServers \cup BusyServers \subseteq Servers
  /\ SlowJobs \in BOOLEAN
  /\ {MaxOutside, MaxFaults} \subseteq Nat

VARIABLES
  boot,     \* per server, how far it is
  on,       \* per server, the parts that run
  kept,     \* per server, the parts it holds a handle of and will stop
  work,     \* per server, the kinds of work in flight
  closed,   \* per server, what a shutdown has closed
  stops,    \* per server, its shutdowns: the step each of them is at
  files,    \* version of the configuration files
  watch,    \* per server, "quiet", "event" (not yet seen) or "timer" (debounced)
  reloads,  \* per server, reloads under way: the version read (-1: not yet), by their start
  served,   \* per server, the versions its schema, permissions, functions and REST routes are of
  excused,  \* history, per server: a reload overlapped another or rejected, or an edit came
            \* after its start had read the files and before it watched them
  faults    \* number of faults so far

lifeVars == <<boot, on, kept, work, closed, stops, files, watch, reloads, served, excused, faults>>
vars == <<recVars, lifeVars>>

Parts == {"sched", "queue", "crons", "events", "actions", "changes", "subscriptions"}
Work == {"request", "job", "tick"}

\* What shutdown() awaits, in its order.
StopOrder == <<"changes", "events", "sched", "queue", "http", "pools">>

NoVersion == -1
NothingServed == [schema |-> 0, permissions |-> 0, functions |-> 0, rest |-> 0]

TypeOK ==
  /\ RecTypeOK
  /\ boot \in [Servers -> {"down", "sched", "queue", "crons", "events", "catchup", "actions",
                           "subs", "listen", "serving", "exited"}]
  /\ on \in [Servers -> SUBSET Parts]
  /\ kept \in [Servers -> SUBSET Parts]
  /\ work \in [Servers -> SUBSET Work]
  /\ closed \in [Servers -> SUBSET (Parts \cup {"http", "pools"})]
  /\ stops \in [Servers -> Seq(1..Len(StopOrder) + 1)]
  /\ files \in 0..MaxOutside
  /\ watch \in [Servers -> {"quiet", "event", "timer"}]
  /\ reloads \in [Servers -> Seq(NoVersion..MaxOutside)]
  /\ \A s \in Servers : served[s] \in [schema : 0..MaxOutside, permissions : 0..MaxOutside,
                                        functions : NoVersion..MaxOutside, rest : 0..MaxOutside]
  /\ excused \in [Servers -> BOOLEAN]
  /\ faults \in 0..MaxFaults

Init ==
  /\ RecInit
  /\ boot = [s \in Servers |-> "down"]
  /\ on = [s \in Servers |-> {}]
  /\ kept = [s \in Servers |-> {}]
  /\ work = [s \in Servers |-> {}]
  /\ closed = [s \in Servers |-> {}]
  /\ stops = [s \in Servers |-> <<>>]
  /\ files = 0
  /\ watch = [s \in Servers |-> "quiet"]
  /\ reloads = [s \in Servers |-> <<>>]
  /\ served = [s \in Servers |-> NothingServed]
  /\ excused = [s \in Servers |-> FALSE]
  /\ faults = 0

Fault == faults < MaxFaults /\ faults' = faults + 1

Up(s) == boot[s] \notin {"down", "exited"}

\* The process ends; its connections and jobs end with it.
Gone(s) ==
  /\ boot' = [boot EXCEPT ![s] = "exited"]
  /\ on' = [on EXCEPT ![s] = {}]
  /\ kept' = [kept EXCEPT ![s] = {}]
  /\ work' = [work EXCEPT ![s] = {}]
  /\ closed' = [closed EXCEPT ![s] = {}]
  /\ stops' = [stops EXCEPT ![s] = <<>>]
  /\ watch' = [watch EXCEPT ![s] = "quiet"]
  /\ reloads' = [reloads EXCEPT ![s] = <<>>]
  /\ rec' = IF rec[s].pc = "done" THEN rec ELSE Fails(s)
  /\ served' = [served EXCEPT ![s] = NothingServed]
  /\ excused' = [excused EXCEPT ![s] = FALSE]
  /\ UNCHANGED <<catalog, body, files>>

Crash(s) ==
  /\ Up(s)
  /\ Fault
  /\ Gone(s)

-----------------------------------------------------------------------------
(* The start.                                                              *)

\* boot moves on, with the parts p running and the handles h held.
Booted(s, next, p, h) ==
  /\ boot' = [boot EXCEPT ![s] = next]
  /\ on' = [on EXCEPT ![s] = @ \cup p]
  /\ kept' = [kept EXCEPT ![s] = h]

Quietly == UNCHANGED <<work, closed, stops, files, watch, reloads, excused>>

\* startServer and createServer up to the background parts: the files are read, then
\* connections, introspection, model, permissions, schema and routes; any of them that
\* fails is fatal (Crash).
Start(s) ==
  /\ boot[s] = "down"
  /\ Booted(s, "sched", {}, {})
  /\ served' = [served EXCEPT ![s] = [schema |-> files, permissions |-> files,
                                      functions |-> files, rest |-> files]]
  /\ Quietly /\ UNCHANGED <<recVars, faults>>

StartScheduled(s) ==
  /\ boot[s] = "sched"
  /\ \/ Booted(s, "queue", {"sched"}, {"sched"}) /\ UNCHANGED faults
     \/ Booted(s, "queue", {}, {}) /\ Fault
  /\ Quietly /\ UNCHANGED <<recVars, served>>

\* A queue that does not start is kept: the parts that need it are still tried.  One
\* that cannot be created leaves none of them.
StartQueue(s) ==
  /\ boot[s] = "queue"
  /\ \/ Booted(s, "crons", {"queue"}, kept[s] \cup {"queue"}) /\ UNCHANGED faults
     \/ Booted(s, "crons", {}, kept[s] \cup {"queue"}) /\ Fault
     \/ Booted(s, "subs", {}, kept[s]) /\ Fault
  /\ Quietly /\ UNCHANGED <<recVars, served>>

\* Events come after crons in one try block: a cron trigger that cannot be registered
\* leaves the server without event triggers, too.
StartCrons(s) ==
  /\ boot[s] = "crons"
  /\ \/ "queue" \in on[s] /\ Booted(s, "events", {"crons"}, kept[s] \cup {"crons", "events"})
        /\ UNCHANGED faults
     \/ "queue" \notin on[s] /\ Booted(s, "actions", {}, kept[s]) /\ UNCHANGED faults
     \/ Booted(s, "actions", {}, kept[s]) /\ Fault
  /\ Quietly /\ UNCHANGED <<recVars, served>>

\* EventManager.init: the triggers, ...
StartEvents(s) ==
  /\ boot[s] = "events"
  /\ \/ Reconcile(s) /\ UNCHANGED faults
     \/ StatementFails(s) /\ Fault
  /\ UNCHANGED <<boot, on, kept, served>> /\ Quietly

\* ... the workers and the listener, ...
ListenEvents(s) ==
  /\ boot[s] = "events" /\ rec[s].pc = "done"
  /\ Booted(s, "catchup", {"events"}, kept[s])
  /\ Quietly /\ UNCHANGED <<recVars, served, faults>>

\* ... the catch-up, and the clean-up job.  When one of them fails the handles are
\* dropped, whether the listener runs or not.
CatchUp(s) ==
  /\ boot[s] = "catchup"
  /\ \/ Booted(s, "actions", {}, kept[s]) /\ UNCHANGED faults
     \/ Booted(s, "actions", {}, kept[s] \ {"crons", "events"}) /\ Fault
  /\ Quietly /\ UNCHANGED <<recVars, served>>

EventsFailed(s) ==
  /\ boot[s] = "events" /\ rec[s].pc = "failed"
  /\ Booted(s, "actions", {}, kept[s] \ {"crons", "events"})
  /\ Quietly /\ UNCHANGED <<recVars, served, faults>>

StartActions(s) ==
  /\ boot[s] = "actions"
  /\ \/ "queue" \in on[s] /\ Booted(s, "subs", {"actions"}, kept[s] \cup {"actions"})
        /\ UNCHANGED faults
     \/ "queue" \notin on[s] /\ Booted(s, "subs", {}, kept[s]) /\ UNCHANGED faults
     \/ Booted(s, "subs", {}, kept[s]) /\ Fault
  /\ Quietly /\ UNCHANGED <<recVars, served>>

\* The notify triggers, the listener and the manager of subscriptions.  A failure
\* before the manager exists leaves the server without subscriptions; a failure
\* after that leaves subscriptions that are never updated.
StartSubscriptions(s) ==
  /\ boot[s] = "subs"
  /\ \/ Booted(s, "listen", {"changes", "subscriptions"}, kept[s] \cup {"changes"})
        /\ UNCHANGED faults
     \/ Booted(s, "listen", {}, kept[s]) /\ Fault
     \/ Booted(s, "listen", {"subscriptions"}, kept[s]) /\ Fault
  /\ Quietly /\ UNCHANGED <<recVars, served>>

Listen(s) ==
  /\ boot[s] = "listen" /\ stops[s] = <<>>
  /\ Booted(s, "serving", {}, kept[s])
  /\ Quietly /\ UNCHANGED <<recVars, served, faults>>

BootStep(s) ==
  \/ Start(s) \/ StartScheduled(s) \/ StartQueue(s) \/ StartCrons(s)
  \/ StartEvents(s) \/ ListenEvents(s) \/ CatchUp(s) \/ EventsFailed(s)
  \/ StartActions(s) \/ StartSubscriptions(s) \/ Listen(s)

-----------------------------------------------------------------------------
(* Hot reload.                                                             *)

Still == UNCHANGED <<recVars, boot, on, kept, work, closed, stops>>

\* The watcher of a server that has started and is not stopping.
Watches(s) == s \in DevServers /\ boot[s] \in {"listen", "serving"} /\ stops[s] = <<>>

\* Bound: an edit and the work in flight are not followed together, for what they touch
\* is disjoint; a signal may come at any time.
Edit ==
  /\ files < MaxOutside /\ \A s \in Servers : work[s] = {} /\ stops[s] = <<>>
  /\ files' = files + 1
  /\ watch' = [s \in Servers |-> IF Watches(s) THEN "event" ELSE watch[s]]
  /\ excused' = [s \in Servers |-> excused[s] \/ (Up(s) /\ ~Watches(s))]
  /\ Still /\ UNCHANGED <<reloads, served, faults>>

\* Mutant: a change during a reload is dropped.
WatchEventDropped(s) ==
  /\ watch[s] = "event"
  /\ watch' = [watch EXCEPT ![s] = IF reloads[s] = <<>> THEN "timer" ELSE "quiet"]
  /\ Still /\ UNCHANGED <<files, reloads, served, excused, faults>>

\* The watcher's handleChange: the debounce timer starts again.
WatchEvent(s) ==
  /\ watch[s] = "event"
  /\ watch' = [watch EXCEPT ![s] = "timer"]
  /\ Still /\ UNCHANGED <<files, reloads, served, excused, faults>>

\* The timer fires: a reload begins, whether or not another is under way.
BeginReload(s) ==
  /\ watch[s] = "timer"
  /\ watch' = [watch EXCEPT ![s] = "quiet"]
  /\ reloads' = [reloads EXCEPT ![s] = Append(@, NoVersion)]
  /\ excused' = [excused EXCEPT ![s] = @ \/ reloads[s] # <<>>]
  /\ Still /\ UNCHANGED <<files, served, faults>>

\* loadConfig, then introspection and enums, all of them awaited.
ReadConfig(s, k) ==
  /\ reloads[s][k] = NoVersion
  /\ reloads' = [reloads EXCEPT ![s][k] = files]
  /\ Still /\ UNCHANGED <<files, watch, served, excused, faults>>

\* replaceSchema, permissions, inherited roles and the caches change in one turn of
\* the event loop.  The schema is generated without the tracked functions; the REST
\* routes, the tables of the resolver context and the documents stay as they were.
Apply(s, k) ==
  /\ reloads[s][k] # NoVersion
  /\ served' = [served EXCEPT ![s].schema = reloads[s][k], ![s].permissions = reloads[s][k],
                              ![s].functions = NoVersion]
  /\ reloads' = [reloads EXCEPT ![s] = RemoveAt(@, k)]
  /\ Still /\ UNCHANGED <<files, watch, excused, faults>>

\* An invalid file, or a database that does not answer: everything stays.
ReloadFails(s, k) ==
  /\ Fault
  /\ reloads' = [reloads EXCEPT ![s] = RemoveAt(@, k)]
  /\ excused' = [excused EXCEPT ![s] = TRUE]
  /\ Still /\ UNCHANGED <<files, watch, served>>

ReloadStep(s) ==
  \/ WatchEvent(s) \/ BeginReload(s)
  \/ \E k \in DOMAIN reloads[s] : ReadConfig(s, k) \/ Apply(s, k) \/ ReloadFails(s, k)

-----------------------------------------------------------------------------
(* Work in flight.                                                         *)

\* Bound: work and signals are followed once no server is starting any more; what they
\* touch is the server's own, and what a start shares is the catalog.
AllStarted == \A s \in Servers : boot[s] \in {"listen", "serving", "exited"}

Accepts(s, w) ==
  /\ s \in BusyServers /\ AllStarted /\ watch[s] = "quiet" /\ reloads[s] = <<>>
  /\ CASE w = "request" -> boot[s] = "serving" /\ "http" \notin closed[s]
       [] w = "job"     -> {"queue", "events"} \subseteq on[s]
       [] w = "tick"    -> "sched" \in on[s]

Unmoved == UNCHANGED <<recVars, boot, on, kept, closed, stops, files, watch, reloads, served,
                       excused, faults>>

BeginWork(s, w) ==
  /\ Accepts(s, w)
  /\ work' = [work EXCEPT ![s] = @ \cup {w}]
  /\ Unmoved

EndWork(s, w) ==
  /\ w \in work[s]
  /\ work' = [work EXCEPT ![s] = @ \ {w}]
  /\ Unmoved

-----------------------------------------------------------------------------
(* Shutdown.                                                               *)

\* SIGTERM or SIGINT after createServer; earlier it simply ends the process (Crash).
Signal(s) ==
  /\ s \in BusyServers /\ boot[s] \in {"listen", "serving"} /\ AllStarted
  /\ files + Len(stops[s]) < MaxOutside
  /\ stops' = [stops EXCEPT ![s] = Append(@, 1)]
  /\ watch' = [watch EXCEPT ![s] = "quiet"]
  /\ UNCHANGED <<recVars, boot, on, kept, work, closed, files, reloads, served, excused, faults>>

\* Mutant: the pools are ended without waiting for requests.
AwaitsNoRequests(s, k, part) ==
  /\ part = "sched" => "tick" \notin work[s]
  /\ part = "queue" => "job" \notin work[s] \/ SlowJobs \/ k > 1

\* What a step waits for: the tick in flight, the jobs (until the graceful time-out;
\* for a second shutdown the queue, which is stopping already, returns at once), the requests.
Awaits(s, k, part) ==
  /\ part = "sched" => "tick" \notin work[s]
  /\ part = "queue" => "job" \notin work[s] \/ SlowJobs \/ k > 1
  /\ part = "http" => "request" \notin work[s]

\* The parts a step closes take no more work from its beginning.
BeginStop(s, k) ==
  LET part == StopOrder[stops[s][k]] IN
  /\ stops[s][k] < Len(StopOrder)
  /\ part \in kept[s] \cup {"http"} /\ part \notin closed[s]
  /\ on' = [on EXCEPT ![s] = @ \ {part}]
  /\ closed' = [closed EXCEPT ![s] = @ \cup {part}]
  /\ UNCHANGED <<recVars, boot, kept, work, stops, files, watch, reloads, served, excused, faults>>

\* The step is over; one for a part without a handle is none.
EndStop(s, k) ==
  LET part == StopOrder[stops[s][k]] IN
  /\ stops[s][k] < Len(StopOrder)
  /\ part \in kept[s] \cup {"http"} => part \in closed[s] /\ Awaits(s, k, part)
  /\ stops' = [stops EXCEPT ![s][k] = @ + 1]
  /\ UNCHANGED <<recVars, boot, on, kept, work, closed, files, watch, reloads, served, excused,
                 faults>>

\* The last step: connectionManager.shutdown.
EndPools(s, k) ==
  /\ stops[s][k] = Len(StopOrder) /\ "pools" \notin closed[s]
  /\ closed' = [closed EXCEPT ![s] = @ \cup {"pools"}]
  /\ stops' = [stops EXCEPT ![s][k] = @ + 1]
  /\ UNCHANGED <<recVars, boot, on, kept, work, files, watch, reloads, served, excused, faults>>

\* A shutdown that is through exits with 0, and so does one that comes to pools that
\* have been ended already, with 1.
Exit(s, k) ==
  /\ \/ stops[s][k] > Len(StopOrder)
     \/ stops[s][k] = Len(StopOrder) /\ "pools" \in closed[s]
  /\ Gone(s)
  /\ UNCHANGED faults

StopStep(s) ==
  \E k \in DOMAIN stops[s] : BeginStop(s, k) \/ EndStop(s, k) \/ EndPools(s, k) \/ Exit(s, k)

-----------------------------------------------------------------------------

Next ==
  \/ \E s \in Servers : BootStep(s) \/ ReloadStep(s) \/ Crash(s) \/ Signal(s) \/ StopStep(s)
  \/ Edit
  \/ \E s \in Servers, w \in Work : BeginWork(s, w) \/ EndWork(s, w)

Spec == Init /\ [][Next]_vars

-----------------------------------------------------------------------------
(* Properties.                                                             *)

\* What reconcileTriggers is for (trigger-reconciler.ts:109-116), under concurrent
\* starts: a write is recorded for every operation the configuration wants, at any
\* time if the trigger it found was the wanted one, and otherwise once some server
\* has reconciled, except between a server's DROP and CREATE or after a fault.
EveryWriteCaptured ==
  \A t \in ToSet(Order) \ Views : \A o \in Desired[t] :
    o \notin Captured(t) =>
      /\ Installed[t] # Desired[t]
      /\ \/ \A s \in Servers : rec[s].pc # "done"
         \/ \E s \in Servers : BetweenDropAndCreate(s, t)
         \/ faults > 0

\* Two servers that start at once can make each other fail, but not all of them:
\* without faults some server runs the event triggers, as long as none has exited.
SomeServerDelivers ==
  (faults = 0 /\ \A s \in Servers : boot[s] \in {"listen", "serving"} /\ stops[s] = <<>>)
    => \E s \in Servers : "events" \in on[s]

\* A graceful shutdown ends the pools only when no request, no delivery of a
\* scheduled event and no job that ends in time is left (server.ts:386-400),
\* whatever failed in the start.  A second signal and slow jobs are what breaks it.
PoolOutlivesWork ==
  \A s \in Servers :
    ("pools" \in closed[s] /\ Len(stops[s]) = 1)
      => work[s] \cap {"request", "tick", "job"} = {}

\* In dev mode (README.md:32), when no change is under way any more, the schema and
\* the permissions are those of the files, unless reloads overlapped or rejected, or
\* an edit fell between the start's look at the files and its watch of them.
ServesTheFiles ==
  \A s \in DevServers :
    (boot[s] \in {"listen", "serving"} /\ stops[s] = <<>> /\ watch[s] = "quiet"
       /\ reloads[s] = <<>> /\ ~excused[s])
      => served[s].schema = files /\ served[s].permissions = files
=============================================================================
