---------------------------- MODULE Connections -----------------------------
(***************************************************************************)
(* The pools of src/src/connections/: which database a statement is sent   *)
(* to, its transaction, the read-your-writes tracker and the named         *)
(* prepared statements.  Several servers share a primary and its replicas; *)
(* each server has a tracker and a statement cache of its own.             *)
(*                                                                         *)
(* A request is one statement of a user.  Queries and mutations go through *)
(* queryWithSession; nested inserts (schema/resolvers/insert.ts) and the   *)
(* REST routes (rest/router.ts) take a pool and use it themselves.         *)
(***************************************************************************)
EXTENDS Integers, Sequences, FiniteSets, SequencesExt, FiniteSetsExt

CONSTANTS
  Servers,
  Users,
  Anonymous,        \* users whose session has no user id
  Replicas,         \* the replica pools, in the order of the configuration
  PoolSize,         \* connections per pool of a server
  Texts,            \* SQL texts
  Name(_),          \* the statement name of a text: its 32-bit hash
  Plain,            \* the text of statements that are sent without a name
  MaxCached,        \* prepared_statements.max_cached
  LagWithinWindow,  \* TRUE: a replica is never behind for longer than window_seconds
  MaxRequests,      \* bound: requests
  MaxFaults         \* bound: statements that reject, COMMITs whose answer is lost

ASSUME ConnectionsAssumption ==
  /\ Anonymous \subseteq Users
  /\ Replicas \in Seq(STRING)
  /\ Plain \in Texts
  /\ {PoolSize, MaxCached} \subseteq Nat \ {0}
  /\ LagWithinWindow \in BOOLEAN
  /\ {MaxRequests, MaxFaults} \subseteq Nat

VARIABLES
  log,       \* the users of the commits on the primary, in their order
  applied,   \* per replica, how many of them it has applied
  marks,     \* per server, the users marked in its tracker: to the last write they are marked for
  readIndex, \* per server, the round-robin position
  cache,     \* per server, the texts in its statement cache, the oldest first
  prepared,  \* per server, pool and connection, the texts prepared on it
  sent,      \* history: per server, the texts that went through the cache, in their order
  req,       \* the requests, in the order they came
  faults     \* number of faults so far

vars == <<log, applied, marks, readIndex, cache, prepared, sent, req, faults>>

Primary == "primary"
Pools == {Primary} \cup ToSet(Replicas)
Conns == 1..PoolSize

\* Direct: REST routes, and nested inserts, which write, take a pool and use it themselves.
WithSession == {"query", "mutation"}
ReadKinds == {"query", "directRead"}
WriteKinds == {"mutation", "directWrite"}
Kinds == ReadKinds \cup WriteKinds

Unmarked == 0

\* pc: waiting for a connection, open, ran, committed, then answered ("done", "failed").
\* version: of the primary, as seen by a read or made by a write.
\* after: history, the requests that had been answered when this one came.
Request == [srv : Servers, user : Users, kind : Kinds, text : Texts,
            pc : {"waiting", "open", "ran", "committed", "done", "failed"},
            pool : Pools, conn : 0..PoolSize, version : 0..MaxRequests,
            after : SUBSET (1..MaxRequests)]

TypeOK ==
  /\ log \in Seq(Users)
  /\ applied \in [ToSet(Replicas) -> 0..Len(log)]
  /\ marks \in [Servers -> [Users -> 0..Len(log)]]
  /\ readIndex \in [Servers -> Nat]
  /\ cache \in [Servers -> Seq(Texts)]
  /\ prepared \in [Servers -> [Pools -> [Conns -> SUBSET Texts]]]
  /\ sent \in [Servers -> Seq(Texts)]
  /\ req \in Seq(Request)
  /\ faults \in 0..MaxFaults
  \* One request at a time on a connection.
  /\ \A i, j \in DOMAIN req :
       i # j /\ req[i].conn # 0 =>
         <<req[i].srv, req[i].pool, req[i].conn>> # <<req[j].srv, req[j].pool, req[j].conn>>
  \* Two texts of one name are never both prepared on a connection.
  /\ \A s \in Servers, p \in Pools, c \in Conns :
       \A t, u \in prepared[s][p][c] : Name(t) = Name(u) => t = u

Init ==
  /\ log = <<>>
  /\ applied = [r \in ToSet(Replicas) |-> 0]
  /\ marks = [s \in Servers |-> [u \in Users |-> Unmarked]]
  /\ readIndex = [s \in Servers |-> 0]
  /\ cache = [s \in Servers |-> <<>>]
  /\ prepared = [s \in Servers |-> [p \in Pools |-> [c \in Conns |-> {}]]]
  /\ sent = [s \in Servers |-> <<>>]
  /\ req = <<>>
  /\ faults = 0

-----------------------------------------------------------------------------
(* Routing.                                                                *)

\* shouldReadFromPrimary
ReadsPrimary(s, u) == u \notin Anonymous /\ marks[s][u] # Unmarked

\* getPool of nested inserts and REST routes has no user to ask the tracker about.
RoundRobin(s, kind, u) ==
  /\ kind \in ReadKinds /\ Replicas # <<>>
  /\ kind = "query" => ~ReadsPrimary(s, u)

\* selectPool
SelectPool(s, kind, u) ==
  IF RoundRobin(s, kind, u) THEN Replicas[readIndex[s] + 1] ELSE Primary

Begin(s, u, kind, text) ==
  /\ Len(req) < MaxRequests
  /\ kind \notin WithSession => text = Plain
  /\ req' = Append(req, [srv |-> s, user |-> u, kind |-> kind, text |-> text, pc |-> "waiting",
                         pool |-> SelectPool(s, kind, u), conn |-> 0, version |-> 0,
                         after |-> {i \in DOMAIN req : req[i].pc = "done"}])
  /\ readIndex' = IF RoundRobin(s, kind, u)
                    THEN [readIndex EXCEPT ![s] = (@ + 1) % Len(Replicas)]
                    ELSE readIndex
  /\ UNCHANGED <<log, applied, marks, cache, prepared, sent, faults>>

\* Mutant: a pool hands out connections without counting.
ConnectAny(i) ==
  /\ req[i].pc = "waiting"
  /\ \E c \in Conns : req' = [req EXCEPT ![i].pc = "open", ![i].conn = c]
  /\ UNCHANGED <<log, applied, marks, readIndex, cache, prepared, sent, faults>>

\* pool.connect: a connection no request holds.
Connect(i) ==
  /\ req[i].pc = "waiting"
  /\ \E c \in Conns :
       /\ \A j \in DOMAIN req : <<req[j].srv, req[j].pool, req[j].conn>>
                                  # <<req[i].srv, req[i].pool, c>>
       /\ req' = [req EXCEPT ![i].pc = "open", ![i].conn = c]
  /\ UNCHANGED <<log, applied, marks, readIndex, cache, prepared, sent, faults>>

-----------------------------------------------------------------------------
(* The transaction.                                                        *)

\* Mutant: a hit leaves the text where it is, so that the first in is the first out.
CachedFifo(seen, text) ==
  IF text \in ToSet(seen) THEN seen
  ELSE IF Len(seen) >= MaxCached THEN Append(Tail(seen), text) ELSE Append(seen, text)

\* getOrCreate: the text moves to the end; the oldest is evicted when the cache is full.
Cached(seen, text) ==
  IF text \in ToSet(seen) THEN Append(RemoveFirst(seen, text), text)
  ELSE IF Len(seen) >= MaxCached THEN Append(Tail(seen), text) ELSE Append(seen, text)

\* The driver refuses a name that stands for another text on this connection.
Clashes(i) ==
  \E t \in prepared[req[i].srv][req[i].pool][req[i].conn] :
    t # req[i].text /\ Name(t) = Name(req[i].text)

\* prepare: the text goes through the cache, whatever becomes of it.
Prepare(i) ==
  LET r == req[i] IN
  IF r.kind \in WithSession
    THEN /\ cache' = [cache EXCEPT ![r.srv] = Cached(@, r.text)]
         /\ sent' = [sent EXCEPT ![r.srv] = Append(@, r.text)]
    ELSE UNCHANGED <<cache, sent>>

\* What the database of the request's pool has.
VersionAt(pool) == IF pool = Primary THEN Len(log) ELSE applied[pool]

Answer(i, pc) == [req EXCEPT ![i].pc = pc, ![i].conn = 0]

\* The statement runs.  A write has changed nothing others see yet.
Execute(i) ==
  LET r == req[i] IN
  /\ r.pc = "open"
  /\ r.kind \in WithSession => ~Clashes(i)
  /\ req' = [req EXCEPT ![i].pc = "ran",
                        ![i].version = IF r.kind \in ReadKinds THEN VersionAt(r.pool) ELSE 0]
  /\ Prepare(i)
  /\ prepared' = IF r.kind \in WithSession
                   THEN [prepared EXCEPT ![r.srv][r.pool][r.conn] = @ \cup {r.text}]
                   ELSE prepared
  /\ UNCHANGED <<log, applied, marks, readIndex, faults>>

\* Mutant: the connection of a statement that throws is not released.
NameTakenKeeps(i) ==
  /\ req[i].pc = "open" /\ req[i].kind \in WithSession
  /\ Clashes(i)
  /\ Prepare(i)
  /\ req' = [req EXCEPT ![i].pc = "failed"]
  /\ UNCHANGED <<log, applied, marks, readIndex, prepared, faults>>

\* It clashes: the driver throws, ROLLBACK, the connection is released.
NameTaken(i) ==
  /\ req[i].pc = "open" /\ req[i].kind \in WithSession
  /\ Clashes(i)
  /\ Prepare(i)
  /\ req' = Answer(i, "failed")
  /\ UNCHANGED <<log, applied, marks, readIndex, prepared, faults>>

\* The database rejects the statement: ROLLBACK.
Reject(i) ==
  /\ req[i].pc = "open"
  /\ faults < MaxFaults /\ faults' = faults + 1
  /\ Prepare(i)
  /\ req' = Answer(i, "failed")
  /\ UNCHANGED <<log, applied, marks, readIndex, prepared>>

Commit(i) ==
  /\ req[i].pc = "ran"
  /\ IF req[i].kind \in WriteKinds
       THEN /\ log' = Append(log, req[i].user)
            /\ req' = [req EXCEPT ![i].pc = "committed", ![i].version = Len(log) + 1]
       ELSE /\ log' = log
            /\ req' = [req EXCEPT ![i].pc = "committed"]
  /\ UNCHANGED <<applied, marks, readIndex, cache, prepared, sent, faults>>

\* Mutant: the mark is forgotten.
MarkedNot(i) == marks

\* markMutation, for writes of queryWithSession whose session has a user id.
Marked(i) ==
  LET r == req[i] IN
  IF r.kind = "mutation" /\ r.user \notin Anonymous
    THEN [marks EXCEPT ![r.srv][r.user] = Max({@, r.version})]
    ELSE marks

\* The answer to COMMIT arrives: mark the user, release the connection, return.
Finish(i) ==
  /\ req[i].pc = "committed"
  /\ marks' = Marked(i)
  /\ req' = Answer(i, "done")
  /\ UNCHANGED <<log, applied, readIndex, cache, prepared, sent, faults>>

\* The answer to COMMIT is lost with the connection: an error, and no mark.
LoseCommit(i) ==
  /\ req[i].pc = "committed"
  /\ faults < MaxFaults /\ faults' = faults + 1
  /\ prepared' = [prepared EXCEPT ![req[i].srv][req[i].pool][req[i].conn] = {}]
  /\ req' = Answer(i, "failed")
  /\ UNCHANGED <<log, applied, marks, readIndex, cache, sent>>

-----------------------------------------------------------------------------
(* Around it.                                                              *)

Replicate(r) ==
  /\ applied[r] < Len(log)
  /\ applied' = [applied EXCEPT ![r] = @ + 1]
  /\ UNCHANGED <<log, marks, readIndex, cache, prepared, sent, req, faults>>

\* The window after the last mutation of u is over (the entry goes at the next look).
Expire(s, u) ==
  /\ marks[s][u] # Unmarked
  /\ LagWithinWindow => \A r \in ToSet(Replicas) : applied[r] >= marks[s][u]
  /\ marks' = [marks EXCEPT ![s][u] = Unmarked]
  /\ UNCHANGED <<log, applied, readIndex, cache, prepared, sent, req, faults>>

Step(i) == Connect(i) \/ Execute(i) \/ NameTaken(i) \/ Commit(i) \/ Finish(i)

Next ==
  \/ \E s \in Servers, u \in Users, k \in Kinds, t \in Texts : Begin(s, u, k, t)
  \/ \E i \in DOMAIN req : Step(i) \/ Reject(i) \/ LoseCommit(i)
  \/ \E r \in ToSet(Replicas) : Replicate(r)
  \/ \E s \in Servers, u \in Users : Expire(s, u)

Spec == Init /\ [][Next]_vars

(* Connections are handed out in turn and the database answers.            *)
Fairness == \A i \in 1..MaxRequests : WF_vars(i \in DOMAIN req /\ Step(i))

FairSpec == Spec /\ Fairness

-----------------------------------------------------------------------------
(* Properties.                                                             *)

\* Read-your-writes (consistency.ts:4-7, README.md:129): a query sees every mutation
\* the same server had acknowledged to the same user before the query came, on
\* whatever database it runs, with whatever in flight.  Users without an id, nested
\* inserts, REST routes and other servers are outside what the tracker covers.
ReadYourWrites ==
  \A i \in DOMAIN req : \A j \in req[i].after :
    /\ req[i].kind = "query" /\ req[i].pc = "done" /\ req[j].kind = "mutation"
    /\ req[i].srv = req[j].srv /\ req[i].user = req[j].user /\ req[i].user \notin Anonymous
    => req[i].version >= req[j].version

\* The cache of statement names is what an LRU cache of MaxCached entries promises: a text
\* is in it exactly if it was sent and, since it was last sent, fewer than MaxCached other
\* texts were; and the one that goes next is the one not sent for the longest time.
\* (prepared-statements.ts:49-69)
LastSent(s, t) == Max({0} \cup {i \in DOMAIN sent[s] : sent[s][i] = t})

MostRecent ==
  \A s \in Servers :
    /\ \A t \in Texts :
         t \in ToSet(cache[s]) <=>
           /\ LastSent(s, t) > 0
           /\ Cardinality({u \in Texts : LastSent(s, u) > LastSent(s, t)}) < MaxCached
    /\ \A t \in ToSet(cache[s]) : LastSent(s, Head(cache[s])) <= LastSent(s, t)

\* No request waits for ever, even if every pool has a single connection and names
\* clash: no step holds one connection while it waits for another.
EveryRequestAnswered ==
  \A i \in 1..MaxRequests :
    (i \in DOMAIN req) ~> (i \in DOMAIN req /\ req[i].pc \in {"done", "failed"})
=============================================================================
