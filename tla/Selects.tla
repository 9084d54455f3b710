------------------------------ MODULE Selects -------------------------------
(***************************************************************************)
(* Queries of one table related to itself: what a selection set asks       *)
(* (src/src/schema/resolve-info.ts), the select resolvers                  *)
(* (src/src/schema/resolvers/select.ts) and the statements they compile    *)
(* (src/src/sql/select.ts), with what PostgreSQL answers.                  *)
(*                                                                         *)
(* PostgreSQL reads rows in an order of its own, a sequence of the rows of *)
(* db that a query is given.                                               *)
(***************************************************************************)
EXTENDS Permissions, Functions

CONSTANTS GraphqlMaxLimit    \* the limit of the configuration, for every query

(* An ask is a field with its arguments and its selection set:              *)
(*   columns, computed  the columns and computed fields selected            *)
(*   manager, reports   the selections of each relationship, asks again,    *)
(*                      one for every fragment that has one                 *)
(*   mates              those of a computed field that returns rows, likewise *)
(*   tally              those of reportsAggregate: [where, most], where most *)
(*                      are the columns max is asked of                     *)
(*   where, order, distinct, limit, offset                                  *)
(* An order item is [by, column, dir, nulls]: by a column, a computed field *)
(* (its name is column), a column of the manager or the number of reports.  *)
Ask == [columns |-> {"id"}, computed |-> {}, manager |-> <<>>, reports |-> <<>>, mates |-> <<>>,
        tally |-> <<>>, where |-> <<>>, order |-> <<>>, distinct |-> <<>>,
        limit |-> Unlimited, offset |-> 0]

\* Two functions of the database that are computed fields: lead, and mates, a set of rows.
Compute(db, row) == IF Related(db, row, "reports") = {} THEN "0" ELSE "1"
Mates(db, row) == {r \in db : r.owner = row.owner /\ r.id # row.id}

Numeric == {"grade", "boss"}     \* the columns of a numeric type

\* Some order of the rows.
InOrder(rows) == FoldSet(LAMBDA r, acc : Append(acc, r), <<>>, rows)

-----------------------------------------------------------------------------
(* Clauses.                                                                *)

Asc(item) == item.dir = "asc"
NullsFirst(item) == item.nulls = "first" \/ (item.nulls = "" /\ ~Asc(item))

Beyond == 1000       \* after, and before, the rank of every value

\* buildOrderByJoins and buildAggregateOrderExpr: what a row is ordered by.
OrderValue(db, row, item) ==
  CASE item.by = "column" -> row[item.column]
    [] item.by = "computed" -> Compute(db, row)
    [] item.by = "manager" ->
         LET related == Related(db, row, "manager")
         IN IF related = {} THEN Null ELSE (CHOOSE r \in related : TRUE)[item.column]
    [] item.by = "tally" -> ToString(Cardinality(Related(db, row, "reports")))

Place(item, v) ==
  CASE v = Null -> IF NullsFirst(item) THEN -Beyond ELSE Beyond
    [] v # Null /\ Asc(item) -> Rank[v]
    [] OTHER -> -Rank[v]

Position(db, row, item) == Place(item, OrderValue(db, row, item))

\* x comes before y by the first item that tells them apart.
Before(db, order, x, y) ==
  \E k \in DOMAIN order :
    /\ Position(db, x, order[k]) < Position(db, y, order[k])
    /\ \A j \in 1..(k - 1) : Position(db, x, order[j]) = Position(db, y, order[j])

\* ORDER BY, of rows in the order they are read.
Sorted(db, order, rows) ==
  LET sooner(i, j) == Before(db, order, rows[i], rows[j])
                      \/ (i < j /\ ~Before(db, order, rows[j], rows[i]))
      sorted == SortSeq([i \in DOMAIN rows |-> i], sooner)
  IN [i \in DOMAIN rows |-> rows[sorted[i]]]

\* DISTINCT ON: the first of the rows that agree on the columns.
DistinctOn(columns, rows) ==
  LET Kept(i) == \A j \in 1..(i - 1) : \E c \in ToSet(columns) : rows[j][c] # rows[i][c]
      kept == SelectSeq([i \in DOMAIN rows |-> i], LAMBDA i : columns = <<>> \/ Kept(i))
  IN [i \in DOMAIN kept |-> rows[kept[i]]]

\* LIMIT and OFFSET.
Window(rows, limit, offset) == SubSeq(rows, offset + 1, Min({Len(rows), offset + limit}))

\* The item of a column.  Other items have none, and are "" to ensureDistinctOnInOrderBy.
ColumnOf(item) == IF item.by = "column" THEN item.column ELSE ""

\* ensureDistinctOnInOrderBy: the columns first, each as asked or ascending, then what else
\* is asked, but one item of each column.
EnsureDistinctOnInOrderBy(columns, order) ==
  LET FirstOf(c) == SelectSeq(order, LAMBDA item : ColumnOf(item) = c)
      Leading(c) == IF FirstOf(c) # <<>> THEN FirstOf(c)[1]
                    ELSE [by |-> "column", column |-> c, dir |-> "asc", nulls |-> ""]
      leading == [i \in DOMAIN columns |-> Leading(columns[i])]
  IN IF columns = <<>> THEN order
     ELSE FoldLeft(LAMBDA acc, item : IF \E i \in DOMAIN acc : ColumnOf(acc[i]) = ColumnOf(item)
                                        THEN acc ELSE Append(acc, item),
                   leading, order)

\* The WHERE of a query: what is asked, and the filter of the permission.
Filtered(session, db, p, known, where, rows) ==
  SelectSeq(rows, LAMBDA r : /\ Selects(session, db, known, where, r)
                             /\ AnyOf(session, db, p.filters, r))

-----------------------------------------------------------------------------
(* Selections.                                                             *)

\* filterColumns, of the columns parseSelectionSet collects: the primary key is one.
FilterColumns(p, columns) == (columns \cup {"id"}) \cap p.columns

\* The relationships of the rows a relationship answers are parsed, too, but neither their
\* computed fields nor their aggregates are asked for.
Beneath(ask) == [ask EXCEPT !.computed = {}, !.mates = <<>>, !.tally = <<>>]

\* Of the rows that a computed field returns its computed fields are, too.
BeneathField(ask) == [ask EXCEPT !.tally = <<>>]

\* buildComputedFieldSelections and buildSetReturningComputedFieldSelections: the computed
\* fields that the role is given.  A subscription leaves aggregates of relationships out.
Permitted(session, p, live, ask) ==
  LET Given(f) == session.isAdmin \/ p.fields = Every \/ f \in p.fields
  IN [ask EXCEPT !.computed = {f \in @ : Given(f)},
                 !.mates = IF Given("mates") THEN @ ELSE <<>>,
                 !.tally = IF live THEN <<>> ELSE @]

\* compileOrderBy knows columns only, where a relationship, what a computed field returns or
\* the nodes of an aggregate are ordered; the statement fails otherwise.
RECURSIVE OrdersCompile(_)
OrdersCompile(ask) ==
  LET ByColumns(sub) == \A k \in DOMAIN sub.order : sub.order[k].by = "column"
  IN /\ \A sub \in ToSet(ask.manager) : OrdersCompile(Beneath(sub))
     /\ \A sub \in ToSet(ask.reports) : ByColumns(sub) /\ OrdersCompile(Beneath(sub))
     /\ \A sub \in ToSet(ask.mates) : ByColumns(sub) /\ OrdersCompile(BeneathField(sub))

\* buildJoinConditions, and the call of a function.
RowsOf(db, row, key) == IF key = "mates" THEN Mates(db, row) ELSE Related(db, row, key)

\* What a relationship reaches, as the permission lets the session see it.
Reached(session, db, scan, p, where, row, key) ==
  Filtered(session, db, p, FALSE, where, SelectSeq(scan, LAMBDA r : r \in RowsOf(db, row, key)))

\* The rows that a list of some permission answers of those wanted.
Listed(db, columns, order, limit, offset, wanted) ==
  LET sorted == Sorted(db, EnsureDistinctOnInOrderBy(columns, order), wanted)
  IN Window(DistinctOn(columns, sorted), limit, offset)

\* The permission that counts beneath the rows of a root field.
RemotePermission(session) ==
  IF session.isAdmin THEN NoPermission ELSE Permission(session, "select")

\* The rows of a relationship, or of a computed field, that are answered of those reached.
Chosen(db, remote, key, sub, reached) ==
  IF key = "manager" THEN Window(reached, 1, 0)
  ELSE Listed(db, IF key = "mates" THEN <<>> ELSE sub.distinct, sub.order,
              Min({sub.limit, remote.limit}), sub.offset, reached)

\* Of several selections of one relationship the last is what the JSON object keeps.
LastOf(session, subs) ==
  IF subs = <<>> \/ ~Allowed(session, "select") THEN <<>> ELSE <<subs[Len(subs)]>>

\* max, which stands for sum, avg and the others.
MaxOf(c, rows) ==
  LET values == {rows[i][c] : i \in DOMAIN rows} \ {Null}
  IN IF values = {} THEN Null ELSE CHOOSE v \in values : \A w \in values : ~Less(v, w)

\* buildAggregateRelationshipSelections and buildAggregateRelationshipSubquery: of every
\* numeric column, be it one of the role or not.
Total(session, db, scan, remote, asked, row) ==
  LET rows == Reached(session, db, scan, remote, asked.where, row, "reports")
  IN [count |-> Len(rows), most |-> [c \in asked.most \cap Numeric |-> MaxOf(c, rows)]]

\* buildJsonFields, buildRelationshipSubquery and buildSetReturningComputedFieldSubquery: the
\* answer for a row, of a permission that is p, and remote beneath it.  The arguments of an
\* object relationship are not looked at.
RECURSIVE JsonFields(_, _, _, _, _, _, _)
JsonFields(session, db, scan, p, remote, ask, row) ==
  LET Sub(key, sub) == IF key = "mates" THEN BeneathField(sub) ELSE Beneath(sub)
      Objects(sub, rows) ==
        [i \in DOMAIN rows |-> JsonFields(session, db, scan, remote, remote, sub, rows[i])]
      Asked(key, sub) == IF key = "manager" THEN <<>> ELSE sub.where
      Answers(key, subs) ==
        [i \in DOMAIN subs |->
           Objects(Sub(key, subs[i]),
                   Chosen(db, remote, key, subs[i],
                          Reached(session, db, scan, remote, Asked(key, subs[i]), row, key)))]
      totals == LastOf(session, ask.tally)
  IN [key \in {"manager", "reports", "mates"} |-> Answers(key, LastOf(session, ask[key]))] @@
     [columns |-> [c \in FilterColumns(p, ask.columns) |-> row[c]],
      computed |-> [f \in ask.computed |-> Compute(db, row)],
      tally |-> [i \in DOMAIN totals |-> Total(session, db, scan, remote, totals[i], row)]]

-----------------------------------------------------------------------------
(* Root fields.                                                            *)

Refused(why) == [rows |-> <<>>, count |-> 0, most |-> <<>>, groups |-> {}, error |-> why]

\* isQueryRootFieldAllowed and isSubscriptionRootFieldAllowed.
RootFieldAllowed(p, live, field) ==
  LET roots == IF live THEN p.liveRoots ELSE p.roots IN roots = Every \/ field \in roots

NotAllowed(session, live, field) ==
  \/ ~Allowed(session, "select")
  \/ ~session.isAdmin /\ ~RootFieldAllowed(Permission(session, "select"), live, field)

\* resolveLimit.
ResolveLimit(p, ask) == Min({ask.limit, p.limit, GraphqlMaxLimit})

\* The columns of distinctOn that the role may see.
PermittedDistinct(p, ask) == SelectSeq(ask.distinct, LAMBDA c : c \in p.columns)

\* The rows compileSelect selects, before they are made JSON.
SelectedRows(session, db, scan, p, known, ask) ==
  Listed(db, PermittedDistinct(p, ask), ask.order, ResolveLimit(p, ask), ask.offset,
         Filtered(session, db, p, known, ask.where, scan))

\* remapOrderBy of a subscription and of a function: relationships are no columns.
OnlyColumns(order) == \A i \in DOMAIN order : order[i].by \in {"column", "computed"}

\* The rows as the answer to an ask; a root field answers it unless it is refused, or its
\* statement fails.
AsJson(session, db, scan, p, ask, rows) ==
  LET remote == RemotePermission(session)
  IN [Refused("") EXCEPT
        !.rows = [i \in DOMAIN rows |-> JsonFields(session, db, scan, p, remote, ask, rows[i])]]

Answering(session, live, field, compiles, answer) ==
  CASE NotAllowed(session, live, field) -> Refused("denied")
    [] ~NotAllowed(session, live, field) /\ ~compiles -> Refused("sql")
    [] OTHER -> answer

\* makeSelectResolver, makeSubscriptionSelectSubscribe and compileSelect.
SelectAs(session, db, scan, live, ask, p) ==
  Answering(session, live, "select", OrdersCompile(ask) /\ (live => OnlyColumns(ask.order)),
            AsJson(session, db, scan, p, ask, SelectedRows(session, db, scan, p, ~live, ask)))

SelectMany(session, db, scan, live, ask) ==
  LET p == Permission(session, "select")
  IN SelectAs(session, db, scan, live, Permitted(session, p, live, ask), p)

\* makeSelectByPkResolver, makeSubscriptionSelectByPkSubscribe and compileSelectByPk: null if
\* there is none, but a subscription answers a list then, which is no row.
ById(session, db, scan, p, id) ==
  SelectSeq(scan, LAMBDA r : r.id = id /\ AnyOf(session, db, p.filters, r))

ByPkAs(session, db, scan, live, ask, p, rows) ==
  Answering(session, live, "select_by_pk", OrdersCompile(ask),
            IF live /\ rows = <<>> THEN Refused("list")
            ELSE AsJson(session, db, scan, p, ask, rows))

SelectByPk(session, db, scan, live, id, ask) ==
  LET p == Permission(session, "select")
  IN ByPkAs(session, db, scan, live, Permitted(session, p, live, ask), p,
            ById(session, db, scan, p, id))

\* count, of some columns or of the rows.
CountOf(columns, distinct, rows) ==
  LET values == {rows[i][columns[1]] : i \in DOMAIN rows} \ {Null} IN
  CASE columns = <<>> -> Len(rows)
    [] columns # <<>> /\ distinct -> Cardinality(values)
    [] OTHER -> Len(SelectSeq(rows, LAMBDA r : r[columns[1]] # Null))

\* The rows an aggregate is of: those of the WHERE, whatever limit there is.
Aggregated(rows, limit, offset) == rows

\* One group for each combination of the columns.
GroupsOf(columns, agg, rows) ==
  LET Key(r) == [c \in ToSet(columns) |-> r[c]]
      Members(k) == SelectSeq(rows, LAMBDA r : Key(r) = k)
  IN {[keys |-> k, count |-> CountOf(agg.count, agg.distinct, Members(k)),
       most |-> [c \in agg.most |-> MaxOf(c, Members(k))]] :
        k \in {Key(rows[i]) : i \in DOMAIN rows}}

\* makeSelectAggregateResolver, makeSubscriptionSelectAggregateSubscribe and
\* compileSelectAggregate.  agg says which aggregates are
\* asked for: [count (columns), distinct, most (columns)].  With distinctOn there are
\* groups and nothing else; count of several columns is no SQL.
AggregateOf(session, db, scan, p, agg, ask, wanted) ==
  LET limit == ResolveLimit(p, ask)
      counted == Aggregated(wanted, limit, ask.offset)
  IN [AsJson(session, db, scan, p, Beneath(ask),
             Window(Sorted(db, ask.order, wanted), limit, ask.offset))
        EXCEPT !.count = CountOf(agg.count, agg.distinct, counted),
               !.most = [c \in agg.most |-> MaxOf(c, counted)]]

AggregateAs(session, db, scan, live, agg, ask, p, wanted) ==
  CASE NotAllowed(session, live, "select_aggregate") -> Refused("denied")
    [] ~NotAllowed(session, live, "select_aggregate") /\ ~(session.isAdmin \/ p.aggregate) ->
         Refused("aggregate")
    [] OTHER ->
         CASE Len(agg.count) > 1 -> Refused("sql")
           [] Len(agg.count) < 2 /\ PermittedDistinct(p, ask) # <<>> ->
                [Refused("") EXCEPT !.groups = GroupsOf(PermittedDistinct(p, ask), agg, wanted)]
           [] OTHER -> IF OrdersCompile(ask) /\ OnlyColumns(ask.order)
                       THEN AggregateOf(session, db, scan, p, agg, ask, wanted) ELSE Refused("sql")

\* The columns of the role, or, of groups and if there are none, every numeric one.
Narrowed(agg, p, grouped) ==
  LET columns == agg.most \cap p.columns
  IN [agg EXCEPT !.most = IF grouped /\ columns = {} THEN @ \cap Numeric ELSE columns]

SelectAggregate(session, db, scan, live, agg, ask) ==
  LET p == Permission(session, "select")
  IN AggregateAs(session, db, scan, live,
                 Narrowed(agg, p, PermittedDistinct(p, ask) # <<>>), ask, p,
                 Filtered(session, db, p, TRUE, ask.where, scan))
=============================================================================
