-------------------------- MODULE TrackedFunctions --------------------------
(***************************************************************************)
(* Functions of the database and queries of the metadata that are fields   *)
(* of the API: tracked functions (src/src/schema/tracked-functions.ts) and *)
(* native queries (native-queries.ts), as queries, as mutations and as the *)
(* query of a subscription (subscription-resolvers.ts).                    *)
(***************************************************************************)
EXTENDS Selects

CONSTANTS
  Tracked,        \* name to [roles, kind, table, args, defaults]: kind is "rows", "row" or
                  \* "scalar"; args are [name, is] with is "user", "session" or "row";
                  \* the last defaults of them have a default
  Call(_, _, _),  \* what function f does with its arguments: [db, rows]
  Native,         \* name to its select permissions, role to [filter, columns]
  Rows(_, _, _)   \* the rows of a native query, given its parameters

SessionJson == "claims" \* the session, as JSON

\* hasRolePermission: an inherited role has what one of its roles has.
HasRolePermission(role, roles) ==
  \/ role \in roles
  \/ \E i \in DOMAIN Inherited : Inherited[i].role = role /\ ToSet(Inherited[i].of) \cap roles # {}

FunctionDenied(session, f) ==
  ~session.isAdmin /\ ~HasRolePermission(session.role, Tracked[f].roles)

\* extractFuncArgs: an argument that is not given is left out if it has a default, and null
\* otherwise.
ExtractFuncArgs(f, given) ==
  LET args == Tracked[f].args
      Named(i) == \/ args[i].is = "session"
                  \/ args[i].is = "user" /\ (\/ args[i].name \in DOMAIN given
                                            \/ i <= Len(args) - Tracked[f].defaults)
      Value(i) == CASE args[i].is = "session" -> SessionJson
                    [] args[i].is = "user" /\ args[i].name \in DOMAIN given -> given[args[i].name]
                    [] OTHER -> Null
      passed == {i \in DOMAIN args : Named(i)}
  IN [a \in {args[i].name : i \in passed} |-> Value(CHOOSE i \in passed : args[i].name = a)]

Called(db, refusal) == [db |-> db, answer |-> Refused(refusal)]

\* compileTrackedFunctionCall, with what runs it.  The statement sees the rows from before
\* the call; distinctOn is accepted, and nothing is made of it.  known is FALSE for a
\* subscription.
Returned(session, db, known, f, run, p, ask) ==
  LET where == IF Tracked[f].kind = "rows" THEN ask.where ELSE <<>>
      wanted == Filtered(session, db, p, known, where, run.rows)
      rows == IF Tracked[f].kind = "rows"
                THEN Window(Sorted(db, ask.order, wanted), ResolveLimit(p, ask), ask.offset)
                ELSE Window(wanted, 1, 0)
  IN [db |-> run.db, answer |-> AsJson(session, db, InOrder(db), p, Beneath(ask), rows)]

FunctionRows(session, db, known, f, given, ask) ==
  Returned(session, db, known, f, Call(f, db, ExtractFuncArgs(f, given)),
           RemotePermission(session), ask)

\* makeTrackedFunctionResolver and makeTrackedFunctionSubscriptionSubscribe.
CallFunction(session, db, known, f, given, ask) ==
  IF FunctionDenied(session, f) \/ ~Allowed(session, "select") THEN Called(db, "denied")
  ELSE IF ~OnlyColumns(ask.order) \/ ~OrdersCompile(ask) THEN Called(db, "sql")
  ELSE FunctionRows(session, db, known, f, given, ask)

\* makeScalarFunctionResolver.  The value of a function is how many rows it has found.
CallScalar(session, db, f, given) ==
  LET run == Call(f, db, ExtractFuncArgs(f, given)) IN
  IF FunctionDenied(session, f) THEN Called(db, "denied")
  ELSE [db |-> run.db, answer |-> [Refused("") EXCEPT !.count = Len(run.rows)]]

\* The aggregate of the rows a call has found, in a query or a subscription: of all of them,
\* whatever limit and offset say, and of any column.
FunctionTotal(session, db, known, p, agg, ask, run) ==
  LET wanted == Filtered(session, db, p, known, ask.where, run.rows)
  IN [db |-> run.db,
      answer |-> [Refused("") EXCEPT !.count = Len(wanted),
                                     !.most = [c \in agg.most |-> MaxOf(c, wanted)]]]

\* makeTrackedFunctionAggregateResolver and the subscription of the same name.
CallAggregate(session, db, known, f, given, agg, ask) ==
  LET p == RemotePermission(session)
  IN IF FunctionDenied(session, f) \/ ~Allowed(session, "select") \/ ~p.aggregate
       THEN Called(db, "denied")
     ELSE FunctionTotal(session, db, known, p, agg, ask, Call(f, db, ExtractFuncArgs(f, given)))

-----------------------------------------------------------------------------
(* Native queries.                                                         *)

\* resolveSessionVariable: of an array, the first.
NativeValue(session, v) == IF v \in SessionVars THEN Sent(SessionValue(session, v).vals[1]) ELSE v

NativeCompare(session, x, o) ==
  CASE o.op = "_isNull" -> IsNull(x, o.val[1])
    [] o.op = "_in" -> SqlIn(x, o.val)
    [] o.op = "_nin" -> Not3(SqlIn(x, o.val))
    [] o.op \in {"_eq", "_neq", "_gt", "_lt", "_gte", "_lte"} ->
         SqlCompare(o.op, x, NativeValue(session, o.val[1]))
    [] OTHER -> T

\* compilePermissionFilter of native-queries.ts: no relationships, no _exists.
RECURSIVE NativeFilter(_, _, _)
NativeFilter(session, e, row) ==
  LET Sub(key) == LET subs == e[Entry(e, key)].subs IN
                  [i \in DOMAIN subs |-> NativeFilter(session, subs[i], row)]
      Column(c) == IF c.subs # <<>> THEN T
                   ELSE And3([i \in DOMAIN c.ops |-> NativeCompare(session, row[c.key], c.ops[i])])
  IN
  CASE Has(e, "_and") -> And3(Sub("_and"))
    [] ~Has(e, "_and") /\ Has(e, "_or") -> Or3(Sub("_or"))
    [] ~Has(e, "_and") /\ ~Has(e, "_or") /\ Has(e, "_not") -> Not3(Sub("_not")[1])
    [] OTHER -> And3([i \in DOMAIN e |-> Column(e[i])])

\* What a native query, or a subscription to one, answers: rows that a filter leaves, in
\* columns of a permission; where, orderBy, limit, offset and distinctOn change nothing.
NativeAnswer(kept, columns) ==
  [Refused("") EXCEPT !.rows = [i \in DOMAIN kept |->
     [columns |-> Restrict(kept[i], DOMAIN kept[i] \cap columns)]]]

\* makeNativeQueryResolver: no inherited roles.
NativeRows(session, db, q, params) ==
  LET p == Native[q][session.role]
      Kept(r) == session.isAdmin \/ NativeFilter(session, p.filter, r) = T
      rows == Rows(q, db, params)
      columns == IF session.isAdmin THEN UNION {DOMAIN rows[i] : i \in DOMAIN rows} ELSE p.columns
  IN IF ~session.isAdmin /\ session.role \notin DOMAIN Native[q] THEN Refused("denied")
     ELSE NativeAnswer(SelectSeq(rows, Kept), columns)
=============================================================================
