------------------------------ MODULE Requests ------------------------------
(***************************************************************************)
(* Requests of several users on one table, by GraphQL, subscription, REST  *)
(* and named query: authentication, permissions, reads and writes put      *)
(* together.  A request is one statement or transaction, and one step, but *)
(* for an update of many entries, which is a transaction for each.         *)
(***************************************************************************)
EXTENDS Rest, TrackedFunctions, Actions, Sessions

CONSTANTS
  Databases,    \* the rows there may be at first
  Queries,      \* [kind, live, id, agg, ask]
  RestQueries,  \* [kind, id, ask]
  Endpoints,    \* [types, method, query, body, params, ask]
  Writes,       \* mutations, as Mutate takes them
  RestWrites,   \* [op, id, body, conflict]
  UpdatesMany,  \* sequences of entries
  Calls,        \* [kind, live, name, args, agg, ask], of functions and native queries, and
                \* [kind, live, name, args, client, id, ask], of actions
  MaxRequests   \* how many requests there are

VARIABLES
  db,      \* the rows of the table
  many,    \* the update of many entries that is under way, if any: [session, entries, start],
           \* start the rows before its first entry
  left     \* how many requests there may still be

vars == <<db, last, many, left>>

Init == db \in Databases /\ last = Nothing /\ many = <<>> /\ left = MaxRequests

\* PostgreSQL reads the rows in one of two orders.
Scans(rows) == {InOrder(rows), Reverse(InOrder(rows))}

\* There may be another request; what may follow one that changed nothing may follow the one
\* before it as well.
Ready == left > 0 /\ (last.kind = "none" \/ db # last.before \/ many # <<>>)

Done(kind, c, req, answer) ==
  /\ left' = left - 1
  /\ Serve(kind, c, req, db, answer)

Reject(c) ==
  /\ Refuse(c)
  /\ left' = left - 1
  /\ UNCHANGED <<db, many>>

-----------------------------------------------------------------------------
(* Reads.                                                                  *)

AnswerOf(session, scan, q) ==
  CASE q.kind = "many" -> SelectMany(session, db, scan, q.live, q.ask)
    [] q.kind = "pk" -> SelectByPk(session, db, scan, q.live, q.id, q.ask)
    [] q.kind = "aggregate" -> SelectAggregate(session, db, scan, q.live, q.agg, q.ask)

ReadBy(kind, c, q, answers) ==
  /\ \E answer \in answers : Done(kind, c, q, answer)
  /\ UNCHANGED <<db, many>>

Query(c, q) ==
  \E session \in Authenticated("query", c, q) :
    ReadBy("query", c, q, {AnswerOf(session, scan, q) : scan \in Scans(db)})

RestAnswer(session, scan, q) ==
  CASE q.kind = "list" -> RestList(session, db, scan, q.ask)
    [] q.kind = "get" -> RestGet(session, db, scan, q.id)
    [] q.kind = "aggregate" -> RestAggregate(session, db, scan, q.ask)

RestRead(c, q) ==
  \E session \in Authenticated("rest", c, q) :
    ReadBy("rest", c, q, {RestAnswer(session, scan, q) : scan \in Scans(db)})

CallEndpoint(c, e) ==
  LET variables == EndpointVariables(e.types, e.method, e.query, e.body, e.params) IN
  \E session \in Authenticated("endpoint", c, e) :
    ReadBy("endpoint", c, e,
           {Endpoint(session, db, scan, e.types, variables, e.ask) : scan \in Scans(db)})

-----------------------------------------------------------------------------
(* Writes.                                                                 *)

Wrote(kind, c, req, result) ==
  /\ Done(kind, c, req, [rows |-> result.rows, error |-> result.error])
  /\ db' = result.db
  /\ UNCHANGED many

Mutation(c, req) ==
  \E session \in Authenticated("write", c, req) : \E result \in {Mutate(session, db, req)} :
    Wrote("write", c, req, result)

RestMutate(session, req) ==
  CASE req.op = "insert" -> RestInsert(session, db, req.body, req.conflict)
    [] req.op = "update" -> RestUpdate(session, db, req.id, req.body)
    [] req.op = "delete" -> RestDelete(session, db, req.id)

RestWrite(c, req) ==
  \E session \in Authenticated("rest_write", c, req) : \E result \in {RestMutate(session, req)} :
    Wrote("rest_write", c, req, result)

\* What an asynchronous action has come to, as an answer.
Ended(outcome) == Refused(outcome.error) @@ [data |-> outcome.data]

\* A function, a native query, an action, or what an asynchronous action has come to.
Calling(session, call) ==
  CASE call.kind = "function" ->
         CallFunction(session, db, ~call.live, call.name, call.args, call.ask)
    [] call.kind = "scalar" -> CallScalar(session, db, call.name, call.args)
    [] call.kind = "aggregate" ->
         CallAggregate(session, db, ~call.live, call.name, call.args, call.agg, call.ask)
    [] call.kind = "native" ->
         [db |-> db, answer |-> NativeRows(session, db, call.name, call.args)]
    [] call.kind = "action" ->
         [db |-> db,
          answer |-> RunAction(session, db, call.name, call.args, call.client, call.ask)]
    [] call.kind = "result" ->
         [db |-> db, answer |-> Ended(AsyncResult(session, call.name, call.id))]
    [] call.kind = "status" -> [db |-> db, answer |-> Ended(AsyncStatus(session, call.id))]

Ran(c, call, result) ==
  /\ Done("call", c, call, result.answer)
  /\ db' = result.db
  /\ UNCHANGED many

CallField(c, call) ==
  \E session \in Authenticated("call", c, call) : \E result \in {Calling(session, call)} :
    Ran(c, call, result)

\* An update of many entries is compiled; its entries run one after another.
BeginMany(c, entries) ==
  /\ many = <<>>
  /\ \E session \in Authenticated("begin", c, entries) :
     \E error \in {UpdateManyError(session, entries)} :
       /\ Done("begin", c, entries, [rows |-> {}, error |-> error])
       /\ many' = IF error # "" THEN <<>>
                  ELSE <<[session |-> session, entries |-> entries, start |-> db]>>
  /\ UNCHANGED db

\* Mutant: the loop goes on after the last entry.
AheadForEver(error) == IF error # "" THEN <<>> ELSE <<[many[1] EXCEPT !.entries = Tail(@)]>>

\* The entries after the first, unless it has failed or is the last.
Ahead(error) ==
  IF error # "" \/ Len(many[1].entries) = 1 THEN <<>> ELSE <<[many[1] EXCEPT !.entries = Tail(@)]>>

StepMany ==
  /\ many # <<>>
  /\ \E session \in {many[1].session}, entry \in {Head(many[1].entries)} :
     \E result \in {UpdateEntry(session, db, entry)} :
        /\ db' = result.db
        /\ many' = Ahead(result.error)
        /\ GoOn(session, entry @@ [start |-> many[1].start], db,
                [rows |-> result.rows, error |-> result.error])
  /\ UNCHANGED left

Next ==
  \/ Ready /\ \E c \in Credentials :
       \/ Reject(c)
       \/ \E q \in Queries : Query(c, q)
       \/ \E q \in RestQueries : RestRead(c, q)
       \/ \E e \in Endpoints : CallEndpoint(c, e)
       \/ \E req \in Writes : Mutation(c, req)
       \/ \E req \in RestWrites : RestWrite(c, req)
       \/ \E call \in Calls : CallField(c, call)
       \/ \E entries \in UpdatesMany : BeginMany(c, entries)
  \/ StepMany

Spec == Init /\ [][Next]_vars

-----------------------------------------------------------------------------
(* Properties.                                                             *)

\* What requests leave is rows of distinct keys, none of them null.
TypeOK ==
  /\ \A r \in db : DOMAIN r = Columns /\ r.id # Null
  /\ \A r, s \in db : r.id = s.id => r = s
  /\ left \in 0..MaxRequests
  /\ many # <<>> => many[1].entries # <<>>

\* The session whose permissions count beneath the rows of a root field.
Remote(session) == IF session.isAdmin THEN [session EXCEPT !.role = "admin"] ELSE session

\* The rows that some session may see and that an expression means.
WantedRows(session, rows, where) ==
  {r \in rows : MayOn(session, rows, "select", r) /\ Meaning(session, rows, where, r) = T}

\* A JSON object is a row: its columns are those asked for and allowed, with its values.
IsRow(session, ask, r, object) ==
  object.columns = [c \in (ask.columns \cup {"id"}) \cap MayColumns(session, "select") |-> r[c]]

\* Expressions of columns only, as far as relationships are concerned.
RECURSIVE OfColumns(_)
OfColumns(e) ==
  \A i \in DOMAIN e : /\ e[i].key \notin {"manager", "reports", "_exists"}
                      /\ \A j \in DOMAIN e[i].subs : OfColumns(e[i].subs[j])
Understood(known, e) == Plain(e) /\ (known \/ OfColumns(e))

\* What the roles of a session may ask for, and the highest limit it has.
MayAsk(session, live, field) ==
  \/ session.isAdmin \/ session.role = "admin"
  \/ \E p \in Granting(session, "select") : RootFieldAllowed(p, live, field)
MayAggregate(session) ==
  \/ session.isAdmin \/ session.role = "admin"
  \/ \E p \in Granting(session, "select") : p.aggregate
MaySee(session, field) ==
  \/ session.isAdmin \/ session.role = "admin"
  \/ \E p \in Granting(session, "select") : p.fields = Every \/ field \in p.fields
LimitOf(session) ==
  IF Unbound(session, "select") THEN Unlimited
  ELSE Max({p.limit : p \in Granting(session, "select")})
Highest(session, ask) == Min({ask.limit, GraphqlMaxLimit, LimitOf(session)})

\* v is the greatest of some rows' values in a column.
Greatest(some, c, v) ==
  IF \A r \in some : r[c] = Null THEN v = Null
  ELSE (\E r \in some : r[c] = v) /\ \A r \in some : ~Less(v, r[c])

\* What stands beneath a row is related to it, and what the session may see of it, as many
\* rows as there are up to its limits; and what is counted are such rows.
RECURSIVE BeneathRow(_, _, _, _, _)
BeneathRow(session, rows, ask, r, object) ==
  LET remote == Remote(session)
      Meant(sub, key) == {s \in RowsOf(rows, r, key) : s \in WantedRows(remote, rows, sub.where)}
      Right(sub, key, o) ==
        \E s \in RowsOf(rows, r, key) : /\ MayOn(remote, rows, "select", s)
                                        /\ IsRow(remote, sub, s, o)
                                        /\ BeneathRow(session, rows, sub, s, o)
      All(sub, key, m) ==
        /\ \A i \in DOMAIN m : Right(sub, key, m[i])
        /\ sub.distinct = <<>> /\ Understood(FALSE, sub.where) =>
             Len(m) = Min({sub.limit, LimitOf(remote),
                           Max({0, Cardinality(Meant(sub, key)) - sub.offset})})
  IN /\ \A m \in ToSet(object.manager) : \A i \in DOMAIN m :
          Right(ask.manager[Len(ask.manager)], "manager", m[i])
     /\ \A m \in ToSet(object.reports) : All(ask.reports[Len(ask.reports)], "reports", m)
     /\ \A m \in ToSet(object.mates) : All(ask.mates[Len(ask.mates)], "mates", m)
     /\ \A n \in ToSet(object.tally) :
          \E some \in {Meant(ask.tally[Len(ask.tally)], "reports")} :
            /\ n.count = Cardinality(some)
            /\ \A c \in DOMAIN n.most : Greatest(some, c, n.most[c])

\* A row that a root field answers, with the computed fields that the role is given.
IsAnswer(session, rows, ask, r, object) ==
  /\ IsRow(session, ask, r, object)
  /\ \A f \in DOMAIN object.computed : MaySee(session, f) /\ object.computed[f] = Compute(rows, r)
  /\ object.mates # <<>> => MaySee(session, "mates")
  /\ BeneathRow(session, rows, ask, r, object)

\* The rows of an answer, each of them one of the rows there are.
RowOf(rows, object) == CHOOSE r \in rows : r.id = object.columns.id

\* A list: of the rows wanted, those from offset on up to the limit, each at a place the
\* order allows; with distinctOn, of every group of rows one that comes first.
ListAsDeclared(session, rows, ask, objects, wanted) ==
  LET groups == ToSet(ask.distinct) \cap MayColumns(session, "select")
      Group(r) == IF groups = {} THEN r ELSE [c \in groups |-> r[c]]
      Sooner(x, y) == Before(rows, ask.order, x, y)
      number == Cardinality({Group(r) : r \in wanted})
      At(i) == RowOf(rows, objects[i])
  IN /\ Len(objects) = Min({Highest(session, ask), Max({0, number - ask.offset})})
     /\ \A i \in DOMAIN objects :
          /\ \E r \in wanted : r.id = objects[i].columns.id
          /\ IsAnswer(session, rows, ask, At(i), objects[i])
          /\ \A j \in DOMAIN objects : i # j => Group(At(i)) # Group(At(j))
          /\ groups = {} =>
               /\ Cardinality({w \in wanted : Sooner(w, At(i))}) < ask.offset + i
               /\ Cardinality({w \in wanted : ~Sooner(At(i), w)}) >= ask.offset + i
          /\ \A w \in wanted : Group(w) = Group(At(i)) => ~Sooner(w, At(i))

\* An aggregate: of all the rows wanted, whatever its nodes are limited to, and of the columns
\* of the role; groups have every numeric column if there are none.
AggregateAsDeclared(session, q, answer, wanted) ==
  LET groups == ToSet(q.ask.distinct) \cap MayColumns(session, "select")
      Count(some) == IF q.agg.count = <<>> THEN Cardinality(some)
                     ELSE LET values == [r \in some |-> r[q.agg.count[1]]] IN
                          IF q.agg.distinct THEN Cardinality({values[r] : r \in some} \ {Null})
                          ELSE Cardinality({r \in some : values[r] # Null})
      mine == q.agg.most \cap MayColumns(session, "select")
      OfThese(some, a) ==
        /\ a.count = Count(some)
        /\ DOMAIN a.most = IF groups # {} /\ mine = {} THEN q.agg.most \cap Numeric ELSE mine
        /\ \A c \in DOMAIN a.most : Greatest(some, c, a.most[c])
  IN IF groups = {}
     THEN OfThese(wanted, answer) /\ Len(answer.rows) <= Highest(session, q.ask)
     ELSE \A k \in {[c \in groups |-> r[c]] : r \in wanted} :
            \E g \in answer.groups :
              g.keys = k /\ OfThese({r \in wanted : [c \in groups |-> r[c]] = k}, g)

\* What a query or a subscription answers is what the permissions of the role, or of the
\* roles it inherits from, say of the rows: those of the where and of some filter, all of
\* them up to the limits, in order, with the columns allowed and what is related; and it is
\* refused if and only if no role may ask.  (select.ts, lookup.ts, compiler.ts, where.ts)
QueriesAsDeclared ==
  LET q == last.req
      session == last.session
      answer == last.answer
      field == CASE q.kind = "many" -> "select" [] q.kind = "pk" -> "select_by_pk"
                 [] q.kind = "aggregate" -> "select_aggregate"
      found == {r \in last.before : r.id = q.id /\ MayOn(session, last.before, "select", r)}
  IN last.kind = "query" /\ Understood(~q.live \/ q.kind = "aggregate", q.ask.where) =>
     /\ (answer.error = "denied") = ~MayAsk(session, q.live, field)
     /\ (answer.error = "aggregate") =
          (q.kind = "aggregate" /\ answer.error # "denied" /\ ~MayAggregate(session))
     /\ answer.error = "" =>
          CASE q.kind = "many" ->
                 ListAsDeclared(session, last.before, q.ask, answer.rows,
                                WantedRows(session, last.before, q.ask.where))
            [] q.kind = "aggregate" ->
                 AggregateAsDeclared(session, q, answer,
                                     WantedRows(session, last.before, q.ask.where))
            [] q.kind = "pk" ->
                 /\ Len(answer.rows) = Cardinality(found)
                 /\ \A r \in found : IsAnswer(session, last.before, q.ask, r, answer.rows[1])

OfActions(call) == call.kind \in {"action", "result", "status"}

\* A function or native query of the tracked ones answers rows it has found, and those that
\* the role may see; only the roles that it is tracked for may call it.
CallsAsDeclared ==
  LET call == last.req
      session == last.session
      objects == last.answer.rows
      found == Call(call.name, last.before, ExtractFuncArgs(call.name, call.args)).rows
      raw == ToSet(Rows(call.name, last.before, call.args))
      p == Native[call.name][session.role]
      Right(r, object) ==
        /\ session.isAdmin \/ MayOn(session, last.before, "select", r)
        /\ \A c \in DOMAIN object.columns : object.columns[c] = r[c]
  IN last.kind = "call" /\ ~OfActions(call) /\ last.answer.error = "" =>
     IF call.kind = "native"
     THEN \A i \in DOMAIN objects : \E r \in raw :
            /\ objects[i].columns = Restrict(r, DOMAIN objects[i].columns)
            /\ session.isAdmin \/ (/\ DOMAIN objects[i].columns \subseteq p.columns
                                   /\ Meaning(session, last.before, p.filter, r) = T)
     ELSE /\ session.isAdmin \/ Constituents(session.role) \cap Tracked[call.name].roles # {}
          /\ \A i \in DOMAIN objects : \E r \in ToSet(found) : Right(r, objects[i])
          /\ call.kind = "aggregate" =>
               last.answer.count = Cardinality(
                 {r \in ToSet(found) :
                    r \in WantedRows(Remote(session), last.before, call.ask.where)})

\* An action is run by whom any of his roles, or one they inherit from, may run it; its
\* handler is told the role that was taken, and what is configured of the headers; its answer
\* is related to the rows of its keys that the role may see, and to all of them.  The output
\* of an asynchronous action is for those that may run it, and there when it has completed.
ActionsAsDeclared ==
  LET call == last.req
      session == last.session
      answer == last.answer
      action == Configured[call.name]
      mapping == action.relationship.mapping
      roles == session.roles \cup UNION {Constituents(r) : r \in session.roles}
      MayRun(name) == session.isAdmin \/ roles \cap Configured[name].roles # {}
      Key(f) == IF f \in DOMAIN answer.data.sub THEN answer.data.sub[f].leaf ELSE Null
      wanted == {r \in last.before : /\ MayOn(session, last.before, "select", r)
                                     /\ \A f \in DOMAIN mapping : r[mapping[f]] = Key(f)}
      most == IF action.relationship.type = "object" THEN 1 ELSE Unlimited
      Told(request) ==
        /\ action.request = <<>> =>
             request.body.sub["session_variables"].sub["x-hasura-role"] = Leaf(session.role)
        /\ \A h \in DOMAIN action.headers : request.headers[h] = action.headers[h]
      keyless == \E f \in DOMAIN mapping : Key(f) = Null
  IN last.kind = "call" /\ OfActions(call) =>
     IF call.kind = "action"
     THEN /\ (answer.error = "denied") = ~MayRun(call.name)
          /\ \A i \in DOMAIN answer.told : Told(answer.told[i])
          /\ answer.error = "" =>
               /\ Len(answer.rows) = IF keyless \/ wanted = {} THEN 0
                                     ELSE Min({most, LimitOf(session), Cardinality(wanted)})
               /\ \A i \in DOMAIN answer.rows : \E r \in wanted :
                    /\ IsRow(session, call.ask, r, answer.rows[i])
                    /\ BeneathRow(session, last.before, Beneath(call.ask), r, answer.rows[i])
     ELSE answer.data # JsonNull =>
            /\ Jobs[call.id].status = "completed"
            /\ call.kind = "result" => Jobs[call.id].action = call.name
            /\ answer.data = Jobs[call.id].output
            /\ session.isAdmin \/ MayRun(Jobs[call.id].action)

\* What is read is what is declared, by table, by function and by action.
ReadsAsDeclared == QueriesAsDeclared /\ CallsAsDeclared /\ ActionsAsDeclared

-----------------------------------------------------------------------------
(* Properties of writes.                                                   *)

\* Presets of the role itself; what it inherits has none.
Presets(session, op) ==
  IF session.role \in RolesFor(op) THEN Declared[op][session.role].presets ELSE <<>>
Preset(session, op, c) == PresetValue(session, Presets(session, op)[c])

\* Presets that an insert by REST may leave out (router.ts:243), and an update (router.ts:324).
Spared(session, op) ==
  IF last.kind = "rest_write" THEN DOMAIN Presets(session, op) \ MayColumns(session, op) ELSE {}

Fulfils(session, rows, op, r) ==
  \/ Unbound(session, op)
  \/ \E p \in Granting(session, op) : p.checked => Meaning(session, rows, p.check, r) = T

\* Nobody's rows but those wanted and permitted change, in no columns but those set, and
\* all of those do.
UpdatedAsDeclared(session, rows, set, inc, wanted, answered) ==
  LET touched == {r \in wanted : MayOn(session, rows, "update", r)}
      columns == (DOMAIN set \cup DOMAIN inc) \cap MayColumns(session, "update")
      presets == DOMAIN Presets(session, "update")
      Now(r) == CHOOSE s \in db : s.id = r.id
  IN /\ {r.id : r \in db} = {r.id : r \in rows}
     /\ rows \ db \subseteq touched
     /\ \A r \in touched : \A c \in Columns :
          Now(r)[c] # r[c] =>
            \/ c \in columns
            \/ c \in presets /\ Now(r)[c] = Preset(session, "update", c)
     /\ columns # {} => \A r \in touched :
          /\ \A c \in DOMAIN set \cap columns : Now(r)[c] = set[c]
          /\ \A c \in DOMAIN inc \ DOMAIN set : r[c] # Null => Rank[Now(r)[c]] = Rank[r[c]] + inc[c]
          /\ \A c \in presets \ Spared(session, "update") : Now(r)[c] = Preset(session, "update", c)
     /\ answered \subseteq {Now(r) : r \in touched}
     /\ \A s \in answered : Fulfils(session, rows, "update", s)

\* New rows are those sent, with the presets; a row that was there is changed only where the
\* clause on conflict says so.
InsertedAsDeclared(session, rows, objects, conflict, answered) ==
  LET presets == DOMAIN Presets(session, "insert")
      Is(o, s) == \A c \in Columns :
        \/ c \in presets /\ s[c] = Preset(session, "insert", c)
        \/ c \in Spared(session, "insert") /\ s[c] = Default[c]
        \/ c \notin presets /\ s[c] = (o @@ Default)[c]
      Kept(r) == \E s \in db : /\ s.id = r.id
                               /\ \A c \in Columns \ conflict[1].columns : s[c] = r[c]
                               /\ Meaning(session, rows, conflict[1].where, r) = T
  IN /\ rows \ db # {} => conflict # NoConflict
     /\ \A r \in rows \ db : Kept(r)
     /\ \A s \in db \ rows : s.id \in {r.id : r \in rows} \/ \E o \in ToSet(objects) : Is(o, s)
     /\ \A o \in ToSet(objects) : \E s \in db : s.id = (o @@ Default).id \/ Is(o, s)
     /\ answered \subseteq db
     /\ \A s \in answered : Fulfils(session, rows, "insert", s)

\* A write touches the rows and columns that the filters and columns of the role let the
\* request touch, no others and, if it is no error, all of them, with the values sent and the
\* presets; it answers such of these rows only as fulfil a check of the role; and an error
\* leaves no trace, unless it says that an inserted row does not fulfil the check.  Rows that
\* fail the check and are not answered stay (insert.ts:276), and an insert by REST leaves out
\* presets of columns that the role may not insert (router.ts:243): neither is ruled out here.
\* (resolvers/insert.ts, update.ts, delete.ts, router.ts, the sql compilers)
WritesAsDeclared ==
  LET req == last.req
      rest == last.kind = "rest_write"
      op == CASE last.kind = "entry" -> "update"
              [] rest -> req.op \o "_by_pk"
              [] OTHER -> req.op
      session == IF rest THEN Remote(last.session) ELSE last.session
      error == last.answer.error
      one == {r \in last.before : r.id = req.id}
      wanted == IF op \in {"update_by_pk", "delete_by_pk"} THEN one
                ELSE {r \in last.before : Meaning(session, last.before, req.where, r) = T}
      doomed == {r \in wanted : MayOn(session, last.before, "delete", r)}
      Cut(body) == IF rest THEN Restrict(body, DOMAIN body \cap MayColumns(session, req.op))
                   ELSE body
      sent == CASE op = "insert" -> req.objects
                [] op = "insert_one" -> <<req.object>>
                [] op = "insert_by_pk" -> <<Cut(req.body)>>
  IN last.kind \in {"write", "rest_write", "entry"} =>
     /\ error \notin {"", "check"} => db = last.before /\ last.answer.rows = {}
     /\ error \in {"", "check"} =>
          CASE op \in {"update", "update_by_pk"} /\ ~rest ->
                 /\ op = "update" => Understood(last.kind # "entry", req.where)
                 /\ "id" \notin DOMAIN req.set
                 => UpdatedAsDeclared(session, last.before, req.set, req.inc, wanted,
                                      last.answer.rows)
            [] op = "update_by_pk" /\ rest ->
                 UpdatedAsDeclared(session, last.before, Cut(req.body), <<>>, wanted, {})
            [] op \in {"delete", "delete_by_pk"} ->
                 (op = "delete" => Understood(TRUE, req.where)) =>
                   db = last.before \ doomed /\ last.answer.rows = doomed
            [] op \in {"insert", "insert_one", "insert_by_pk"} ->
                 (op = "insert_one" => req.before \o req.after = <<>>) =>
                   InsertedAsDeclared(session, last.before, sent, req.conflict,
                                      IF rest THEN {} ELSE last.answer.rows)

\* An insert of related objects is there as a whole, each object referring to the one it
\* belongs to, or not at all.  (executeNestedInsertOne)
NestedWhole ==
  LET req == last.req
      There(object) == \E r \in db \ last.before : \A c \in DOMAIN object : r[c] = object[c]
      linked == [c \in {req.before[i].column : i \in DOMAIN req.before} |->
                   LET i == CHOOSE i \in DOMAIN req.before : req.before[i].column = c
                   IN req.before[i].object.id]
      whole == /\ There(linked @@ req.object)
               /\ \A n \in ToSet(req.before) : There(n.object)
               /\ \A n \in ToSet(req.after) : There((n.column :> req.object.id) @@ n.object)
  IN last.kind = "write" /\ last.req.op = "insert_one" /\ req.before \o req.after # <<>> =>
     /\ last.answer.rows # {} => whole
     /\ last.answer.error # "" => db = last.before

-----------------------------------------------------------------------------

\* The question of a REST list, asked in GraphQL.
Translated(session, ask) ==
  LET Entries(f) == <<[key |-> f.column, subs |-> <<>>, ops |-> <<[op |-> f.op, val |-> f.val]>>]>>
      Not(e) == <<[key |-> "_not", subs |-> <<e>>, ops |-> <<>>]>>
      Filter(f) == IF f.not THEN Not(Entries(f)) ELSE Entries(f)
      some == ask.columns \cap MayColumns(session, "select")
  IN [Ask EXCEPT
        !.columns = IF some = {} THEN MayColumns(session, "select") ELSE some,
        !.where = <<[key |-> "_and", subs |-> [i \in DOMAIN ask.filters |-> Filter(ask.filters[i])],
                     ops |-> <<>>]>>,
        !.order = IF ask.order = <<>> THEN DefaultOrder ELSE ask.order,
        !.distinct = ask.distinct, !.offset = ask.offset,
        !.limit = Min({IF ask.limit = Unlimited THEN DefaultLimit ELSE ask.limit, MaxLimit})]

SameList(same, asked, rows) ==
  /\ same.error = ""
  /\ Len(same.rows) = Len(rows)
  /\ \A i \in DOMAIN rows : rows[i] = Restrict(same.rows[i].columns, asked.columns)

\* Of the columns that GraphQL answers aggregates of.
SameTotal(same, asked, groups) ==
  LET Cut(g, columns) == [g EXCEPT !.most = Restrict(@, columns)]
  IN /\ same.error = ""
     /\ IF asked.distinct = <<>>
        THEN \A g \in groups : g.count = same.count /\ Cut(g, DOMAIN same.most).most = same.most
        ELSE {[keys |-> g.keys, count |-> g.count] : g \in groups}
               = {[keys |-> g.keys, count |-> g.count] : g \in same.groups}
             /\ \A s \in same.groups : \E g \in groups : Cut(g, DOMAIN s.most) = s

AllNumbers == [count |-> <<>>, distinct |-> FALSE, most |-> Numeric]

ListLikeGraphql(session, rows, ask, objects) ==
  \E scan \in Scans(rows), asked \in {Translated(session, ask)} :
    SameList(SelectMany(session, rows, scan, FALSE, asked), asked, objects)

TotalLikeGraphql(session, rows, ask, groups) ==
  \E asked \in {Translated(session, ask)} :
    SameTotal(SelectAggregate(session, rows, InOrder(rows), FALSE, AllNumbers, asked),
              asked, groups)

\* The filters with not that parseFilterValue has a counterpart of.
Negated(ask) ==
  LET known == DOMAIN Negation \cup {"_isNull"}
  IN \A i \in DOMAIN ask.filters : ask.filters[i].not => ask.filters[i].op \in known

\* REST does not know inherited roles.
IsInherited(role) == \E i \in DOMAIN Inherited : Inherited[i].role = role


\* An update of many entries is one transaction: one that fails leaves the rows as they were
\* before the first entry.  (the comment on compileUpdateMany, sql/update.ts)
ManyIsOne == last.kind = "entry" /\ last.answer.error # "" => db = last.req.start
=============================================================================
