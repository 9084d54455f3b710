------------------------------ MODULE Streams -------------------------------
(***************************************************************************)
(* One streaming subscription ({table}Stream) on one server: src/src/      *)
(* schema/subscription-resolvers.ts and src/src/subscriptions/manager.ts.  *)
(*                                                                         *)
(* The subscription remembers a cursor.  Whenever a table it watches has   *)
(* changed, the manager asks for the next batch of rows behind the cursor, *)
(* sets the cursor to the last row of the answer and pushes the batch to a *)
(* queue from which the client's generator pulls.  The way of a change to  *)
(* the debounce timer is that of LiveQueries, here for one server.         *)
(***************************************************************************)
EXTENDS Integers, Sequences, FiniteSets, FiniteSetsExt

CONSTANTS
  Main,        \* the table that is streamed
  Related,     \* other tables the selection reads, which are watched too
  Columns,     \* number of cursor columns
  Keys,        \* what the cursor columns of a row may hold
  From,        \* the initialValue of the cursor
  InOrder,     \* TRUE: rows commit in the order of their keys, without ties
  Selected,    \* the cursor columns the client selects
  BatchSize,   \* batchSize, capped by graphql.max_limit
  Overlap,     \* TRUE: re-queries overlap (of two tables, or slower than the debouncing)
  Replica,     \* TRUE: subscription_query_routing is 'replica'
  MaxRows,     \* bound: rows inserted
  MaxTouches,  \* bound: commits to related tables
  MaxMishaps   \* bound: lost LISTEN connections and failed queries

ASSUME StreamsAssumption ==
  /\ Main \notin Related
  /\ Columns \in Nat \ {0}
  /\ Keys \subseteq [1..Columns -> Int]
  /\ From \in [1..Columns -> Int]
  /\ Selected \subseteq 1..Columns
  /\ BatchSize \in Nat \ {0}
  /\ {InOrder, Overlap, Replica} \subseteq BOOLEAN
  /\ {MaxRows, MaxTouches, MaxMishaps} \subseteq Nat

VARIABLES
  log,      \* keys of the rows of Main, in the order of their commits
  changes,  \* per table, NOTIFYs not yet handled
  touches,  \* number of commits to related tables so far
  timer,    \* debounce timers running, per table
  phase,    \* where the subscription is
  cursor,   \* currentCursors
  flights,  \* re-queries in flight
  queue,    \* batches pushed and not yet pulled
  got,      \* batches the client has pulled
  asked,    \* history: how far the log had come at the query of each batch
  failed,   \* history: whether a query rejected or a NOTIFY was lost
  mishaps   \* number of mishaps so far

vars == <<log, changes, touches, timer, phase, cursor, flights, queue, got,
          asked, failed, mishaps>>

Tables == Related \cup {Main}

Rows == 1..MaxRows

\* A batch is the set of its rows; only the last of them matters beyond that.
Batch == SUBSET Rows

\* snap: the rows its snapshot saw (-1: not taken); last: the cursor it was compiled with.
Flight == [last : [1..Columns -> Int], snap : -1..MaxRows]

TypeOK ==
  /\ log \in Seq(Keys) /\ Len(log) <= MaxRows
  /\ changes \in [Tables -> Nat]
  /\ touches \in 0..MaxTouches
  /\ timer \in [Tables -> BOOLEAN]
  /\ phase \in {"new", "asking", "asked", "refused", "live", "closed"}
  /\ cursor \in [1..Columns -> Int]
  /\ flights \in Seq(Flight)
  /\ queue \in Seq(Batch)
  /\ got \in Seq(Batch)
  /\ asked \in Seq(0..MaxRows)
  /\ failed \in BOOLEAN
  /\ mishaps \in 0..MaxMishaps

Init ==
  /\ log = <<>>
  /\ changes = [t \in Tables |-> 0]
  /\ touches = 0
  /\ timer = [t \in Tables |-> FALSE]
  /\ phase = "new"
  /\ cursor = From
  /\ flights = <<>>
  /\ queue = <<>>
  /\ got = <<>>
  /\ asked = <<>>
  /\ failed = FALSE
  /\ mishaps = 0

Mishap ==
  /\ mishaps < MaxMishaps
  /\ mishaps' = mishaps + 1
  /\ failed' = TRUE

-----------------------------------------------------------------------------
(* The query of a batch.                                                   *)

\* Mutant: a row that ties with the cursor is taken again.
AfterOrAt(k, c) ==
  \E i \in 1..Columns : (\A j \in 1..(i - 1) : k[j] = c[j]) /\ k[i] >= c[i]

\* buildCursorBoolExp: (a > $1) OR (a = $1 AND b > $2) OR ...
After(k, c) ==
  \E i \in 1..Columns : (\A j \in 1..(i - 1) : k[j] = c[j]) /\ k[i] > c[i]

\* What ORDER BY the cursor columns says of two rows.
Sorted(r, s) == log[r] = log[s] \/ After(log[s], log[r])

\* Mutant: the LIMIT is left out.
BatchesUnlimited(n, c) == {{r \in 1..n : After(log[r], c)}}

\* The batches that ORDER BY and LIMIT may return: rows that tie on all cursor
\* columns come in any order.
Batches(n, c) ==
  LET behind == {r \in 1..n : After(log[r], c)}
      size   == IF Cardinality(behind) < BatchSize THEN Cardinality(behind) ELSE BatchSize
  IN {b \in kSubset(size, behind) : \A r \in b, s \in behind \ b : Sorted(r, s)}

LastRow(b) == CHOOSE r \in b : \A s \in b : Sorted(s, r)

\* updateCursorsFromRows: a cursor column that is not in the row stays.
Advance(c, b) ==
  IF b = {} THEN c
  ELSE [i \in 1..Columns |-> IF i \in Selected THEN log[LastRow(b)][i] ELSE c[i]]

\* What a query may see that gets its snapshot now.
Visible == IF Replica THEN 0..Len(log) ELSE {Len(log)}

-----------------------------------------------------------------------------
(* Commits and their NOTIFYs.                                              *)

Insert(k) ==
  /\ Len(log) < MaxRows
  /\ InOrder => \A r \in DOMAIN log : After(k, log[r])
  /\ log' = Append(log, k)
  /\ changes' = [changes EXCEPT ![Main] = @ + 1]
  /\ UNCHANGED <<touches, timer, phase, cursor, flights, queue, got, asked, failed, mishaps>>

Touch(t) ==
  /\ touches < MaxTouches
  /\ touches' = touches + 1
  /\ changes' = [changes EXCEPT ![t] = @ + 1]
  /\ UNCHANGED <<log, timer, phase, cursor, flights, queue, got, asked, failed, mishaps>>

\* The LISTEN connection goes away and comes back without what was sent meanwhile.
LoseNotifications ==
  /\ \E t \in Tables : changes[t] > 0
  /\ Mishap
  /\ changes' = [t \in Tables |-> 0]
  /\ UNCHANGED <<log, touches, timer, phase, cursor, flights, queue, got, asked>>

\* Mutant: a change that finds the timer running stops it.
HandleChangeOnce(t) ==
  /\ changes[t] > 0
  /\ changes' = [changes EXCEPT ![t] = @ - 1]
  /\ timer' = [timer EXCEPT ![t] = phase = "live" /\ ~@]
  /\ UNCHANGED <<log, touches, phase, cursor, flights, queue, got, asked, failed, mishaps>>

\* Mutant: a change is handled that never came.
HandleChangeAny(t) ==
  /\ changes' = [changes EXCEPT ![t] = @ - 1]
  /\ timer' = [timer EXCEPT ![t] = @ \/ phase = "live"]
  /\ UNCHANGED <<log, touches, phase, cursor, flights, queue, got, asked, failed, mishaps>>

\* handleChange: dropped unless the subscription is in the table index.
HandleChange(t) ==
  /\ changes[t] > 0
  /\ changes' = [changes EXCEPT ![t] = @ - 1]
  /\ timer' = [timer EXCEPT ![t] = @ \/ phase = "live"]
  /\ UNCHANGED <<log, touches, phase, cursor, flights, queue, got, asked, failed, mishaps>>

-----------------------------------------------------------------------------
(* reQueryTable for a streaming subscription.                              *)

\* The query is compiled with the cursor as it is now.  Nothing in the code waits
\* for the last one; without Overlap it has been answered, since changes are rare.
Fire(t) ==
  /\ timer[t]
  /\ Overlap \/ flights = <<>>
  /\ timer' = [timer EXCEPT ![t] = FALSE]
  /\ flights' = IF phase = "live"
                  THEN Append(flights, [last |-> cursor, snap |-> -1])
                  ELSE flights
  /\ UNCHANGED <<log, changes, touches, phase, cursor, queue, got, asked, failed, mishaps>>

Snapshot(k) ==
  /\ flights[k].snap = -1
  /\ \E n \in Visible : flights' = [flights EXCEPT ![k].snap = n]
  /\ UNCHANGED <<log, changes, touches, timer, phase, cursor, queue, got, asked, failed, mishaps>>

Landed(k) == SubSeq(flights, 1, k - 1) \o SubSeq(flights, k + 1, Len(flights))

\* Mutant: a batch is dropped when the client has not pulled the last one.
PushIfIdle(b, n) ==
  IF phase = "live" /\ b # {} /\ queue = <<>>
    THEN queue' = Append(queue, b) /\ asked' = Append(asked, n)
    ELSE UNCHANGED <<queue, asked>>

\* push, unless the queue is finished.
Push(b, n) ==
  IF phase = "live" /\ b # {}
    THEN queue' = Append(queue, b) /\ asked' = Append(asked, n)
    ELSE UNCHANGED <<queue, asked>>

\* The answer: no hash, the cursor is set to its last row whatever it is by now.
Answer(k) ==
  /\ flights[k].snap >= 0
  /\ \E b \in Batches(flights[k].snap, flights[k].last) :
       /\ cursor' = Advance(cursor, b)
       /\ Push(b, flights[k].snap)
  /\ flights' = Landed(k)
  /\ UNCHANGED <<log, changes, touches, timer, phase, got, failed, mishaps>>

\* A query that rejects is logged; the change it was for is forgotten.
QueryFails(k) ==
  /\ Mishap
  /\ flights' = Landed(k)
  /\ UNCHANGED <<log, changes, touches, timer, phase, cursor, queue, got, asked>>

-----------------------------------------------------------------------------
(* The generator of the client.                                            *)

\* registerStreaming sends the initial query.
Subscribe ==
  /\ phase = "new"
  /\ phase' = "asking"
  /\ UNCHANGED <<log, changes, touches, timer, cursor, flights, queue, got, asked, failed, mishaps>>

InitialSnapshot ==
  /\ phase = "asking"
  /\ phase' = "asked"
  /\ \E n \in Visible : asked' = <<n>>
  /\ UNCHANGED <<log, changes, touches, timer, cursor, flights, queue, got, failed, mishaps>>

\* It is answered: the subscription enters the table index, the cursor moves, and
\* the client gets the batch, even an empty one.
Register ==
  /\ phase = "asked"
  /\ phase' = "live"
  /\ \E b \in Batches(asked[1], cursor) : cursor' = Advance(cursor, b) /\ got' = <<b>>
  /\ UNCHANGED <<log, changes, touches, timer, flights, queue, asked, failed, mishaps>>

\* Or it rejects: the client gets an error.
RegisterFails ==
  /\ phase \in {"asking", "asked"}
  /\ Mishap
  /\ phase' = "refused"
  /\ UNCHANGED <<log, changes, touches, timer, cursor, flights, queue, got, asked>>

Pull ==
  /\ phase = "live" /\ queue # <<>>
  /\ got' = Append(got, Head(queue))
  /\ queue' = Tail(queue)
  /\ UNCHANGED <<log, changes, touches, timer, phase, cursor, flights, asked, failed, mishaps>>

\* The client disconnects: unregistered, its queue done; queries in flight go on.
Unregister ==
  /\ phase = "live"
  /\ phase' = "closed"
  /\ UNCHANGED <<log, changes, touches, timer, cursor, flights, queue, got, asked, failed, mishaps>>

-----------------------------------------------------------------------------

FlightStep == \E k \in DOMAIN flights : Snapshot(k) \/ Answer(k)

Next ==
  \/ \E k \in Keys : Insert(k)
  \/ \E t \in Related : Touch(t)
  \/ LoseNotifications
  \/ \E t \in Tables : HandleChange(t) \/ Fire(t)
  \/ FlightStep
  \/ \E k \in DOMAIN flights : QueryFails(k)
  \/ Subscribe \/ InitialSnapshot \/ Register \/ RegisterFails
  \/ Pull \/ Unregister

Spec == Init /\ [][Next]_vars

(* NOTIFYs arrive, timers fire (commits are finitely many, see LiveQueries),*)
(* queries are answered; a client that stays keeps pulling.                *)
Fairness ==
  /\ \A t \in Tables : WF_vars(HandleChange(t)) /\ WF_vars(Fire(t))
  /\ WF_vars(FlightStep)
  /\ WF_vars(InitialSnapshot \/ Register)
  /\ WF_vars(Pull)

FairSpec == Spec /\ Fairness

-----------------------------------------------------------------------------
(* Properties.                                                             *)

\* All batches the client has got or will pull, in order.
Sent == got \o queue

Delivered == UNION {Sent[i] : i \in DOMAIN Sent}

\* "deliver batches of new rows" (schema/subscription-resolvers.ts:857): no row is
\* sent twice and no batch goes back behind an earlier one, in whatever order rows
\* commit and however they tie, as long as no two re-queries overlap.
NewRowsOnly ==
  \A i, j \in DOMAIN Sent : i < j =>
    \A r \in Sent[i], s \in Sent[j] : r # s /\ After(log[s], log[r])

\* A row behind the initial cursor that the cursor has passed was sent, or it
\* committed after the query that passed it, or it ties with the last row of a
\* batch that was full (subscription-resolvers.ts:949, manager.ts:205-216).  With
\* rows that commit in order and without ties, this says no row is ever skipped.
SkippedOnlyIfLateOrTied ==
  \A r \in DOMAIN log :
    (After(log[r], From) /\ ~After(log[r], cursor) /\ r \notin Delivered
       /\ phase = "live") =>
      \E i \in DOMAIN Sent :
        /\ Sent[i] # {}
        /\ Sorted(r, LastRow(Sent[i]))
        /\ \/ ~InOrder /\ r > asked[i]
           \/ ~InOrder /\ log[r] = log[LastRow(Sent[i])] /\ Cardinality(Sent[i]) = BatchSize

\* Every insertion brings the client at least one batch further or up to date:
\* a subscription that is behind when a row commits is sent something afterwards
\* (unless the client leaves, or a query or a NOTIFY is lost).
EveryInsertMovesOn ==
  \A n \in Rows, d \in 0..MaxRows :
    [](phase = "live" /\ Len(log) = n - 1 /\ Cardinality(Delivered) = d
         => (<>(Len(log) = n /\ After(log[n], cursor))
               => <>(Cardinality(Delivered) > d \/ phase = "closed" \/ failed)))

-----------------------------------------------------------------------------
(* While no two re-queries overlap, all this is a scan.                    *)

\* How far the log had come at the query of the last batch.
SeenLast == IF Sent = <<>> THEN 0 ELSE asked[Len(asked)]
Ended == phase \in {"closed", "refused"}

Scan == INSTANCE StreamScan
  WITH rows <- log, out <- Sent, pulled <- Len(got), seen <- SeenLast, over <- Ended

\* "Streaming subscriptions" (schema/subscription-resolvers.ts:857, manager.ts:205-216):
\* though a batch is asked for with a cursor remembered from the last answer, read later
\* and answered later still, the client sees a scan that reads each batch at one moment,
\* after the last one, and begins right behind the rows it has sent.
ReadsAsScan == Scan!Spec
=============================================================================
