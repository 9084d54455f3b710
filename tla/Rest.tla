-------------------------------- MODULE Rest --------------------------------
(***************************************************************************)
(* The REST routes of a table (src/src/rest/router.ts, filters.ts) and the *)
(* named queries served as REST endpoints (hasura-endpoints.ts).           *)
(***************************************************************************)
EXTENDS Selects, Mutations

CONSTANTS
  DefaultLimit,   \* pagination.defaultLimit
  MaxLimit,       \* pagination.maxLimit
  DefaultOrder    \* default_order of an override, order items

\* checkPermission: the roles the metadata names for the operation.
CheckPermission(session, op) == session.isAdmin \/ session.role \in RolesFor(op)

\* The permission a route works with: none for an administrator, and none for a role that
\* may not select, because it is looked up as a select permission.
RoutePermission(session, op) ==
  IF ~session.isAdmin /\ HasPermission(session, "select") THEN Permission(session, op)
  ELSE NoPermission

Response(status, rows) == [status |-> status, rows |-> rows]

-----------------------------------------------------------------------------
(* The query string.  A filter is [column, not, op, val], op as in BoolExp. *)

Negation == "_eq" :> "_neq" @@ "_neq" :> "_eq" @@ "_in" :> "_nin" @@ "_like" :> "_nlike"


\* parseFilterValue: not.gt and other operators without a counterpart stay as they are.
ParseFilterValue(f) ==
  CASE f.not /\ f.op \in DOMAIN Negation -> [op |-> Negation[f.op], val |-> f.val]
    [] f.not /\ f.op = "_isNull" -> [op |-> "_isNull",
                                         val |-> <<IF f.val[1] = "true" THEN "false" ELSE "true">>]
    [] OTHER -> [op |-> f.op, val |-> f.val]

\* parseRESTFilters and buildWhere: one entry for each column.
BuildWhere(filters) ==
  [i \in DOMAIN filters |->
     [key |-> filters[i].column, subs |-> <<>>, ops |-> <<ParseFilterValue(filters[i])>>]]

-----------------------------------------------------------------------------
(* Reading.                                                                *)

\* The ORDER BY of buildSelectSQL: the items of the distinct columns in the order asked,
\* those that are missing, and the other items.
RestOrder(columns, order) ==
  LET Of(items, yes) == SelectSeq(items, LAMBDA item : (item.column \in ToSet(columns)) = yes)
      missing == SelectSeq(columns, LAMBDA c : \A i \in DOMAIN order : order[i].column # c)
      ascending == [i \in DOMAIN missing |->
                      [by |-> "column", column |-> missing[i], dir |-> "asc", nulls |-> ""]]
  IN Of(order, TRUE) \o ascending \o Of(order, FALSE)

\* buildSelectSQL, of the rows wanted.
RestRows(db, p, distinct, ask, wanted) ==
  LET wished == IF ask.order = <<>> THEN DefaultOrder ELSE ask.order
      order == SelectSeq(RestOrder(distinct, wished), LAMBDA item : item.column \in p.columns)
      limit == IF ask.limit = Unlimited THEN DefaultLimit ELSE ask.limit
  IN Window(DistinctOn(distinct, Sorted(db, order, wanted)),
            Min({limit, p.limit, MaxLimit}), ask.offset)

Shown(p, asked, rows) ==
  [i \in DOMAIN rows |-> Restrict(rows[i], IF asked \cap p.columns = {} THEN p.columns
                                           ELSE asked \cap p.columns)]

\* registerListRoute.
RestList(session, db, scan, ask) ==
  LET p == RoutePermission(session, "select")
      wanted == Filtered(session, db, p, FALSE, BuildWhere(ask.filters), scan)
  IN IF ~CheckPermission(session, "select") THEN Response(403, <<>>)
     ELSE Response(200, Shown(p, ask.columns,
                              RestRows(db, p, PermittedDistinct(p, ask), ask, wanted)))

\* registerGetByPKRoute and buildSelectByPKSQL.
RestGet(session, db, scan, id) ==
  LET p == RoutePermission(session, "select")
      rows == SelectSeq(scan, LAMBDA r : r.id = id /\ AnyOf(session, db, p.filters, r))
  IN CASE ~CheckPermission(session, "select") -> Response(403, <<>>)
       [] CheckPermission(session, "select") /\ rows = <<>> -> Response(404, <<>>)
       [] OTHER -> Response(200, <<[c \in p.columns |-> rows[1][c]]>>)

\* registerAggregateRoute: how many rows and the aggregates of every numeric column, be it
\* one of the role or not, or those of the groups of group_by.
RestAggregate(session, db, scan, ask) ==
  LET p == RoutePermission(session, "select")
      mayCount == CheckPermission(session, "select")
                  /\ (session.isAdmin \/ Declared["select"][session.role].aggregate)
      columns == SelectSeq(ask.distinct, LAMBDA c : c \in p.columns)
      wanted == Filtered(session, db, p, FALSE, BuildWhere(ask.filters), scan)
      all == [count |-> <<>>, distinct |-> FALSE, most |-> Numeric]
  IN CASE ~mayCount -> Response(403, {})
       [] mayCount /\ columns # <<>> -> Response(200, GroupsOf(columns, all, wanted))
       [] OTHER -> Response(200, {[keys |-> <<>>, count |-> Len(wanted),
                                   most |-> [c \in Numeric |-> MaxOf(c, wanted)]]})

-----------------------------------------------------------------------------
(* Writing.  A result is that of a statement, with a status.               *)

Answer(result, status) == result @@ [status |-> status]

\* The body with the presets of the permission, as far as its columns are allowed.
MergedBody(session, p, body) ==
  LET merged == [c \in DOMAIN p.presets |-> PresetValue(session, p.presets[c])] @@ body
  IN [c \in DOMAIN merged \cap p.columns |-> merged[c]]

\* registerInsertRoute and buildInsertSQL: no check, and nothing to set means the defaults.
RestInsert(session, db, body, conflict) ==
  LET p == RoutePermission(session, "insert")
      merged == MergedBody(session, p, body)
      clause == IF conflict = NoConflict THEN NoConflict
                ELSE <<[conflict[1] EXCEPT !.columns = @ \cap p.columns]>>
      result == InsertRow(session, db, IF merged = <<>> THEN NoConflict ELSE clause,
                          Answered(db, {}), merged @@ Default)
  IN IF ~CheckPermission(session, "insert") THEN Answer(Failed(db, "denied"), 403)
     ELSE Answer(result, IF result.error = "" THEN 201 ELSE 400)

\* registerUpdateRoute and buildUpdateSQL.
RestUpdated(db, merged, old) ==
  LET new == {merged @@ r : r \in old}
      after == (db \ old) \cup new
  IN IF merged = <<>> THEN Answer(Failed(db, "nothing"), 400)
     ELSE IF old = {} THEN Answer(Answered(db, {}), 404)
     ELSE IF Cardinality({r.id : r \in after}) < Cardinality(db)
            THEN Answer(Failed(db, "unique"), 400)
     ELSE Answer(Answered(after, new), 200)

\* The row of a key, if the permission shows it.
Routed(session, db, p, id) == {r \in db : r.id = id /\ AnyOf(session, db, p.filters, r)}

RestUpdate(session, db, id, body) ==
  LET p == RoutePermission(session, "update")
  IN IF ~CheckPermission(session, "update") THEN Answer(Failed(db, "denied"), 403)
     ELSE RestUpdated(db, MergedBody(session, p, body), Routed(session, db, p, id))

\* registerDeleteRoute and buildDeleteSQL.
RestDeleted(db, old) == Answer(Answered(db \ old, old), IF old = {} THEN 404 ELSE 200)

RestDelete(session, db, id) ==
  IF ~CheckPermission(session, "delete") THEN Answer(Failed(db, "denied"), 403)
  ELSE RestDeleted(db, Routed(session, db, RoutePermission(session, "delete"), id))

-----------------------------------------------------------------------------
(* Named queries.  A value is [kind, text]: kind is that of the JSON value, *)
(* "string" for what a URL says.                                            *)

\* coerceValue: a text that is no number stays one.
CoerceValue(type, v) ==
  CASE v.kind = "string" /\ type = "Int" /\ v.text \in DOMAIN Rank -> [v EXCEPT !.kind = "Int"]
    [] v.kind = "string" /\ type = "Boolean" /\ v.text \in {"true", "false"} ->
         [v EXCEPT !.kind = "Boolean"]
    [] OTHER -> v

\* The variables of a query: those of the URL for GET, those of the body otherwise, and the
\* parameters of the route, which win.  What a body says is not converted.
EndpointVariables(types, method, query, body, params) ==
  LET coerced(vs) == [x \in DOMAIN vs |-> IF x \in DOMAIN types
                                            THEN CoerceValue(types[x], vs[x]) ELSE vs[x]]
  IN IF method = "GET" THEN coerced(params @@ query) ELSE coerced(params) @@ body

\* What GraphQL takes for a variable: the type itself, or a string for other scalars.
Valid(type, v) == v.kind = type \/ (type \notin {"Int", "Boolean"} /\ v.kind = "string")

\* The handler of registerHasuraRestEndpoints, of a query that selects the row of $id.
EndpointResponse(answer) ==
  IF answer.error # "" THEN Response(400, <<>>) ELSE Response(200, answer.rows)

Endpoint(session, db, scan, types, variables, ask) ==
  IF \E x \in DOMAIN types : ~(x \in DOMAIN variables /\ Valid(types[x], variables[x]))
    THEN Response(400, <<>>)
  ELSE EndpointResponse(SelectByPk(session, db, scan, FALSE, variables["id"].text, ask))
=============================================================================
