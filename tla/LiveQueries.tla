---------------------------- MODULE LiveQueries -----------------------------
(***************************************************************************)
(* Live queries: src/src/subscriptions and the resolvers that feed clients *)
(* from them.                                                              *)
(*                                                                         *)
(* Every commit to a tracked table NOTIFYs all listening servers; with     *)
(* Redis each of them forwards the change to the others.  A change restarts*)
(* the table's debounce timer; when it fires, every subscription that      *)
(* watches the table is queried again, and a result whose hash differs     *)
(* from the last one is pushed to the client.  Nothing orders the queries  *)
(* of one subscription: they run on pooled connections, and the results    *)
(* are taken as they come.                                                 *)
(***************************************************************************)
EXTENDS Integers, SequencesExt

CONSTANTS
  Tables,      \* tracked tables; every subscription watches all of them
  Servers,     \* hakkyra instances sharing the database
  Subs,        \* subscriptions (a client that subscribes again is a new one)
  Values,      \* what the query of the subscriptions may return
  First,       \* what it returns at the beginning
  Redis,       \* TRUE: config.redis is set
  Replica,     \* TRUE: subscription_query_routing is 'replica'
  SlowQueries, \* TRUE: a query may take longer than the debounce interval
  MaxWrites,   \* bound: commits to the tables
  MaxMishaps   \* bound: lost LISTEN connections and Redis messages, failed queries

ASSUME LiveQueriesAssumption ==
  /\ First \in Values
  /\ {Redis, Replica, SlowQueries} \subseteq BOOLEAN
  /\ MaxWrites \in Nat
  /\ MaxMishaps \in Nat

VARIABLES
  history,   \* what the query returns after each commit, oldest first
  listening, \* servers whose LISTEN connection is up
  pg,        \* NOTIFYs not yet handled, per server and table
  forwarded, \* Redis messages not yet handled, per server and table
  timer,     \* debounce timers running, per server and table
  sub,       \* the subscriptions
  flights,   \* per subscription, its re-queries in flight
  mishaps    \* number of mishaps so far

vars == <<history, listening, pg, forwarded, timer, sub, flights, mishaps>>

\* "asking": the initial query runs; "asked": its result is about to be
\* registered; "refused": the initial query rejected; "live": in the manager's
\* maps and its table index.
\* first: the version the initial query read.  hash: what lastHash is the hash
\* of.  Histories: since, the last version at the registration; failed, whether
\* a re-query failed; sent, what the client was sent, with the versions read.
Versions == 1..(MaxWrites + 1)

Result == [val : Values, ver : Versions]

Sub == [phase : {"new", "asking", "asked", "refused", "live", "closed"},
        at    : Servers \cup {"nowhere"},
        first : 0..(MaxWrites + 1),
        since : 0..(MaxWrites + 1),
        failed : BOOLEAN,
        hash  : Values,
        sent  : Seq(Result)]

\* snap = 0: the query has not been given its snapshot yet.
Flight == [table : Tables, snap : 0..(MaxWrites + 1)]

TypeOK ==
  /\ history \in Seq(Values) /\ Len(history) \in Versions
  /\ listening \subseteq Servers
  /\ pg \in [Servers -> [Tables -> Nat]]
  /\ forwarded \in [Servers -> [Tables -> Nat]]
  /\ timer \in [Servers -> [Tables -> BOOLEAN]]
  /\ sub \in [Subs -> Sub]
  /\ flights \in [Subs -> Seq(Flight)]
  /\ mishaps \in 0..MaxMishaps

Init ==
  /\ history = <<First>>
  /\ listening = Servers
  /\ pg = [s \in Servers |-> [t \in Tables |-> 0]]
  /\ forwarded = [s \in Servers |-> [t \in Tables |-> 0]]
  /\ timer = [s \in Servers |-> [t \in Tables |-> FALSE]]
  /\ sub = [c \in Subs |-> [phase |-> "new", at |-> "nowhere", first |-> 0,
                            since |-> 0, failed |-> FALSE, hash |-> First, sent |-> <<>>]]
  /\ flights = [c \in Subs |-> <<>>]
  /\ mishaps = 0

Mishap ==
  /\ mishaps < MaxMishaps
  /\ mishaps' = mishaps + 1

-----------------------------------------------------------------------------
(* PostgreSQL.                                                             *)

\* A commit; v may be what it was, when the rows written do not matter to the
\* subscriptions.
Write(t, v) ==
  /\ Len(history) <= MaxWrites
  /\ history' = Append(history, v)
  /\ pg' = [s \in Servers |->
              IF s \in listening THEN [pg[s] EXCEPT ![t] = @ + 1] ELSE pg[s]]
  /\ UNCHANGED <<listening, forwarded, timer, sub, flights, mishaps>>

\* pg-listen reconnects by itself; the NOTIFYs of the meantime are lost.
Disconnect(s) ==
  /\ s \in listening
  /\ Mishap
  /\ listening' = listening \ {s}
  /\ pg' = [pg EXCEPT ![s] = [t \in Tables |-> 0]]
  /\ UNCHANGED <<history, forwarded, timer, sub, flights>>

Reconnect(s) ==
  /\ s \notin listening
  /\ listening' = listening \cup {s}
  /\ UNCHANGED <<history, pg, forwarded, timer, sub, flights, mishaps>>

-----------------------------------------------------------------------------
(* handleChange, from the server's own LISTEN or from Redis.               *)

Watched(s) == \E c \in Subs : sub[c].phase = "live" /\ sub[c].at = s

\* Mutant: a timer that is running swallows the change that cleared it.
HandleChangeOnce(s, t) == timer' = [timer EXCEPT ![s][t] = ~@ /\ Watched(s)]

\* A change of a table nobody watches is dropped; else the timer (re)starts.
HandleChange(s, t) == timer' = [timer EXCEPT ![s][t] = @ \/ Watched(s)]

Notified(s, t) ==
  /\ pg[s][t] > 0
  /\ pg' = [pg EXCEPT ![s][t] = @ - 1]
  /\ HandleChange(s, t)
  /\ forwarded' =
       [r \in Servers |->
          IF Redis /\ r # s THEN [forwarded[r] EXCEPT ![t] = @ + 1] ELSE forwarded[r]]
  /\ UNCHANGED <<history, listening, sub, flights, mishaps>>

\* Mutant: a change is handled that no server forwarded.
RemoteChangeAny(s, t) ==
  /\ Redis
  /\ forwarded' = [forwarded EXCEPT ![s][t] = @ - 1]
  /\ HandleChange(s, t)
  /\ UNCHANGED <<history, listening, pg, sub, flights, mishaps>>

RemoteChange(s, t) ==
  /\ forwarded[s][t] > 0
  /\ forwarded' = [forwarded EXCEPT ![s][t] = @ - 1]
  /\ HandleChange(s, t)
  /\ UNCHANGED <<history, listening, pg, sub, flights, mishaps>>

\* Redis pub/sub delivers at most once.
LoseMessage(s, t) ==
  /\ forwarded[s][t] > 0
  /\ Mishap
  /\ forwarded' = [forwarded EXCEPT ![s][t] = @ - 1]
  /\ UNCHANGED <<history, listening, pg, timer, sub, flights>>

-----------------------------------------------------------------------------
(* reQueryTable: the timer fires, and every query goes its own way.        *)

Flying(c, t) == \E k \in DOMAIN flights[c] : flights[c][k].table = t

\* Unless SlowQueries, the queries of a table's last round are over: rounds of
\* one table are at least a debounce interval apart, those of two are not.
Fire(s, t) ==
  /\ timer[s][t]
  /\ SlowQueries \/ \A c \in Subs : sub[c].at = s => ~Flying(c, t)
  /\ timer' = [timer EXCEPT ![s][t] = FALSE]
  /\ flights' = [c \in Subs |->
       IF sub[c].phase = "live" /\ sub[c].at = s
         THEN Append(flights[c], [table |-> t, snap |-> 0]) ELSE flights[c]]
  /\ UNCHANGED <<history, listening, pg, forwarded, sub, mishaps>>

\* What a query may see that gets its snapshot now: the primary is up to date,
\* a replica lags (and the next query may go to another one).
Visible == IF Replica THEN 1..Len(history) ELSE {Len(history)}

Snapshot(c, k) ==
  /\ flights[c][k].snap = 0
  /\ \E n \in Visible : flights' = [flights EXCEPT ![c][k].snap = n]
  /\ UNCHANGED <<history, listening, pg, forwarded, timer, sub, mishaps>>

\* Mutant: the hash is compared and forgotten.
CompareKeepHash(s, n) ==
  IF s.phase = "live" /\ history[n] # s.hash
    THEN [s EXCEPT !.sent = Append(@, [val |-> history[n], ver |-> n])]
    ELSE s

\* Mutant: the queue of a closed subscription takes what comes late.
CompareLate(s, n) ==
  IF history[n] # s.hash
    THEN [s EXCEPT !.hash = history[n],
                   !.sent = Append(@, [val |-> history[n], ver |-> n])]
    ELSE s

\* The hash-diff; the queue of a closed subscription takes nothing.
Compare(s, n) ==
  IF s.phase = "live" /\ history[n] # s.hash
    THEN [s EXCEPT !.hash = history[n],
                   !.sent = Append(@, [val |-> history[n], ver |-> n])]
    ELSE s

Answer(c, k) ==
  /\ flights[c][k].snap > 0
  /\ sub' = [sub EXCEPT ![c] = Compare(@, flights[c][k].snap)]
  /\ flights' = [flights EXCEPT ![c] = RemoveAt(@, k)]
  /\ UNCHANGED <<history, listening, pg, forwarded, timer, mishaps>>

\* A query that rejects is logged; the change it was for is forgotten.
QueryFails(c, k) ==
  /\ Mishap
  /\ flights' = [flights EXCEPT ![c] = RemoveAt(@, k)]
  /\ sub' = [sub EXCEPT ![c].failed = TRUE]
  /\ UNCHANGED <<history, listening, pg, forwarded, timer>>

-----------------------------------------------------------------------------
(* A subscription: the initial query, then register, then unregister.      *)

Subscribe(c, s) ==
  /\ sub[c].phase = "new"
  /\ sub' = [sub EXCEPT ![c].phase = "asking", ![c].at = s]
  /\ UNCHANGED <<history, listening, pg, forwarded, timer, flights, mishaps>>

InitialSnapshot(c) ==
  /\ sub[c].phase = "asking"
  /\ \E n \in Visible : sub' = [sub EXCEPT ![c].phase = "asked", ![c].first = n]
  /\ UNCHANGED <<history, listening, pg, forwarded, timer, flights, mishaps>>

\* Only now do changes reach the subscription; the client gets the result.
Register(c) ==
  /\ sub[c].phase = "asked"
  /\ LET v == history[sub[c].first] IN
       sub' = [sub EXCEPT ![c].phase = "live", ![c].hash = v,
                          ![c].since = Len(history),
                          ![c].sent = <<[val |-> v, ver |-> sub[c].first]>>]
  /\ UNCHANGED <<history, listening, pg, forwarded, timer, flights, mishaps>>

\* The initial query rejects: nothing is registered, the client gets an error.
RegisterFails(c) ==
  /\ sub[c].phase \in {"asking", "asked"}
  /\ Mishap
  /\ sub' = [sub EXCEPT ![c].phase = "refused"]
  /\ UNCHANGED <<history, listening, pg, forwarded, timer, flights>>

\* The client disconnects; re-queries in flight go on.
Unregister(c) ==
  /\ sub[c].phase = "live"
  /\ sub' = [sub EXCEPT ![c].phase = "closed"]
  /\ UNCHANGED <<history, listening, pg, forwarded, timer, flights, mishaps>>

-----------------------------------------------------------------------------

Change(s, t) == Notified(s, t) \/ RemoteChange(s, t) \/ Fire(s, t)

FlightStep(c, k) == Snapshot(c, k) \/ Answer(c, k)

Next ==
  \/ \E t \in Tables, v \in Values : Write(t, v)
  \/ \E s \in Servers : Disconnect(s) \/ Reconnect(s)
  \/ \E s \in Servers, t \in Tables : Change(s, t) \/ LoseMessage(s, t)
  \/ \E c \in Subs : \E k \in DOMAIN flights[c] : FlightStep(c, k) \/ QueryFails(c, k)
  \/ \E c \in Subs, s \in Servers : Subscribe(c, s)
  \/ \E c \in Subs : InitialSnapshot(c) \/ Register(c) \/ RegisterFails(c) \/ Unregister(c)

Spec == Init /\ [][Next]_vars

(* Messages arrive, timers fire and queries are answered.  A timer that    *)
(* every change starts anew fires only because commits are finitely many.  *)
Fairness ==
  /\ \A s \in Servers : WF_vars(Reconnect(s))
  /\ \A s \in Servers, t \in Tables :
       /\ WF_vars(Notified(s, t))
       /\ WF_vars(RemoteChange(s, t))
       /\ WF_vars(Fire(s, t))
  /\ \A c \in Subs :
       /\ WF_vars(\E k \in DOMAIN flights[c] : FlightStep(c, k))
       /\ WF_vars(InitialSnapshot(c) \/ Register(c))

FairSpec == Spec /\ Fairness

-----------------------------------------------------------------------------
(* Properties.                                                             *)

\* "only pushed to the client if the data actually changed" (README.md:373):
\* however many servers, timers and queries a change goes through, a client is
\* never sent twice in a row what it already has, and what it has is what the
\* next result is compared with.
NoRepeat ==
  \A c \in Subs : sub[c].phase \in {"live", "closed"} =>
    /\ Last(sub[c].sent).val = sub[c].hash
    /\ \A i \in 1..(Len(sub[c].sent) - 1) : sub[c].sent[i].val # sub[c].sent[i + 1].val

\* A client is never taken back to a state of the database older than the one
\* it was sent before: each result sent is the answer of a later snapshot.
NoGoingBack ==
  \A c \in Subs : \A i \in 1..(Len(sub[c].sent) - 1) :
    sub[c].sent[i].ver < sub[c].sent[i + 1].ver

\* A commit after the registration is reflected in the end by what the client
\* was sent last, unless it disconnects, a re-query fails, or a later commit
\* changes the result again; a LISTEN connection that is lost is made up for by
\* Redis, and a Redis message that is lost by LISTEN (subscriptions/
\* manager.ts:317-338 and 167-229, redis-fanout.ts:93-113).
UpToDate(c, n) ==
  /\ sub[c].sent # <<>>
  /\ \E m \in n..Len(history) : history[m] = Last(sub[c].sent).val

EventuallyCurrent ==
  \A c \in Subs, n \in Versions :
    (sub[c].phase = "live" /\ sub[c].since < n /\ n <= Len(history))
      ~> (sub[c].phase = "closed" \/ sub[c].failed \/ UpToDate(c, n))

-----------------------------------------------------------------------------
(* What the clients see of it all (subscriptions/manager.ts:173-296): the  *)
(* abstract LiveView, without servers, NOTIFYs, timers, hashes and flights.*)

PhaseSeen(s) ==
  CASE s.phase \in {"new", "asking", "asked"} -> "waiting"
    [] s.phase = "live" -> "open"
    [] s.phase \in {"closed", "refused"} -> "over"

\* When results are read in the order in which they are compared.
InSequence == ~SlowQueries /\ ~Replica /\ \A t, u \in Tables : t = u

View == INSTANCE LiveView WITH
  phase <- [c \in Subs |-> PhaseSeen(sub[c])],
  sent <- [c \in Subs |-> sub[c].sent],
  Ordered <- InSequence

\* Whatever servers, notifications, timers and queries in flight do, each
\* client is sent its first result, then results of other versions that differ
\* from the one it has, never an older one if results come in sequence; and
\* nothing when it has left, although queries for it may still be in flight.
ServesAsView == View!Spec
=============================================================================
