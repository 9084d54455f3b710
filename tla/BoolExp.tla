------------------------------ MODULE BoolExp -------------------------------
(***************************************************************************)
(* Boolean expressions over the rows of a table, and their two compilers:  *)
(* that of permission filters (src/src/permissions/compiler.ts) and that   *)
(* of the filters of a request (src/src/sql/where.ts).  SQL is modelled by *)
(* what PostgreSQL makes of it, in three-valued logic.                     *)
(*                                                                         *)
(* An expression is a JSON object: the sequence of its entries             *)
(* [key, subs, ops], where key is "_and", "_or", "_not" or "_exists" (subs *)
(* are expressions), a relationship (one of subs), Tally (subs[1] says     *)
(* which of the reports are counted, ops compare their number) or a column *)
(* (ops are [op, val] records).  Values are strings.                       *)
(*                                                                         *)
(* There is one table, of rows [id, owner, grade, boss], with an object    *)
(* relationship manager, by boss, and its inverse, reports.                *)
(***************************************************************************)
EXTENDS Integers, Sequences, SequencesExt, FiniteSets, TLC

CONSTANTS
  Ranks,      \* a number for each of the values of columns, in the order PostgreSQL gives them
  Likes,      \* pairs of a value and a pattern that match (LIKE, regex, @>, ?)
  SessionVars \* values that name a session variable

\* Constants that are used often are defined, as TLC evaluates a definition only once.
Rank == Ranks

Null == "null"
None == "none"       \* no such variable in the session
Text == "{..}"       \* an array of several values, where one value is expected

Tally == "reportsAggregate"
Logical == {"_and", "_or", "_not", "_exists"}

-----------------------------------------------------------------------------
(* Three-valued logic.                                                     *)

T == "t"
F == "f"
U == "u"

And3(s) == IF F \in ToSet(s) THEN F ELSE IF U \in ToSet(s) THEN U ELSE T
Or3(s) == IF T \in ToSet(s) THEN T ELSE IF U \in ToSet(s) THEN U ELSE F
Not3(x) == IF x = U THEN U ELSE IF x = T THEN F ELSE T
Truth(b) == IF b THEN T ELSE F

Less(x, y) == x \in DOMAIN Rank /\ y \in DOMAIN Rank /\ Rank[x] < Rank[y]

\* x op v of two values, as PostgreSQL evaluates it.
SqlCompare(op, x, v) ==
  IF Null \in {x, v} THEN U
  ELSE CASE op = "_eq" -> Truth(x = v)
         [] op = "_neq" -> Truth(x # v)
         [] op = "_gt" -> Truth(Less(v, x))
         [] op = "_lt" -> Truth(Less(x, v))
         [] op = "_gte" -> Truth(x = v \/ Less(v, x))
         [] op = "_lte" -> Truth(x = v \/ Less(x, v))
         [] op = "_like" -> Truth(<<x, v>> \in Likes)
         [] op = "_nlike" -> Truth(<<x, v>> \notin Likes)

\* x IN (vs); an empty list is the constant the compilers write for it.
SqlIn(x, vs) == Or3([i \in DOMAIN vs |-> SqlCompare("_eq", x, vs[i])])

IsNull(x, yes) == Truth((x = Null) = (yes = "true"))

-----------------------------------------------------------------------------
(* Values.                                                                 *)

\* resolveSessionVar: a variable of the session is a string or an array of strings.
SessionValue(session, v) ==
  IF v \in DOMAIN session.vars THEN session.vars[v] ELSE [array |-> FALSE, vals |-> <<None>>]

Sent(v) == IF v = None THEN Null ELSE v

\* compiler.ts: an unknown variable is NULL, an array of one value is the value.
PermValues(session, v) ==
  LET vals == SessionValue(session, v).vals
  IN IF v \notin SessionVars THEN <<v>> ELSE [i \in DOMAIN vals |-> Sent(vals[i])]

PermValue(session, v) ==
  LET vs == PermValues(session, v) IN IF Len(vs) = 1 THEN vs[1] ELSE Text

\* where.ts: likewise, but arrays of one value stay arrays and lists are not flattened;
\* an unknown variable is sent as NULL, too, but is not null for the compiler.
WhereValue(session, v) ==
  IF v \notin SessionVars THEN v
  ELSE IF SessionValue(session, v).array THEN Text
  ELSE SessionValue(session, v).vals[1]

-----------------------------------------------------------------------------
(* One operator on one column of a row.                                    *)

\* comparisonNode.  val is a sequence of values for _in and _nin, and of one otherwise.
PermCompare(session, x, o) ==
  LET flat == FlattenSeq([i \in DOMAIN o.val |-> PermValues(session, o.val[i])]) IN
  CASE o.op = "_isNull" -> IsNull(x, o.val[1])
    [] o.op = "_in" -> SqlIn(x, flat)
    [] o.op = "_nin" -> Not3(SqlIn(x, flat))
    [] OTHER -> SqlCompare(o.op, x, PermValue(session, o.val[1]))

\* compileColumnOperators: null is compared with IS NULL.
WhereCompare(session, x, o) ==
  LET v == WhereValue(session, o.val[1])
      list == [i \in DOMAIN o.val |-> Sent(WhereValue(session, o.val[i]))]
  IN
  CASE o.op = "_isNull" -> IsNull(x, o.val[1])
    [] o.op = "_in" -> SqlIn(x, list)
    [] o.op = "_nin" -> Not3(SqlIn(x, list))
    [] o.op = "_eq" /\ v = Null -> IsNull(x, "true")
    [] o.op = "_neq" /\ v = Null -> IsNull(x, "false")
    [] OTHER -> SqlCompare(o.op, x, Sent(v))

-----------------------------------------------------------------------------
(* Compiled expressions, for the rows db.                                  *)

Entry(e, key) == CHOOSE i \in DOMAIN e : e[i].key = key
Has(e, key) == \E i \in DOMAIN e : e[i].key = key

\* buildJoinConditions: NULL joins nothing.
Related(db, row, key) ==
  IF key = "manager" THEN {r \in db : row.boss # Null /\ r.id = row.boss}
  ELSE {r \in db : r.boss # Null /\ r.boss = row.id}

\* EXISTS (SELECT 1 ... WHERE w), of what w is for the rows: never unknown.
Exists3(truths) == Truth(T \in truths)

\* Mutant: _or of a permission is joined with AND.
PermOrAnd(s) == IF Len(s) = 0 THEN T ELSE And3(s)

\* orNode: nothing to choose from is no restriction.
PermOr(s) == IF Len(s) = 0 THEN T ELSE Or3(s)

\* parseBoolExp and the nodes it builds: the first logical key found decides, whatever
\* else the object says.  known says whether the relationships are handed down: they are not
\* beneath a relationship or an _exists, where the name of one is taken for the table of the
\* columns under it, which PostgreSQL rejects (Compiles), and counts for nothing without any.
RECURSIVE Permits(_, _, _, _, _)
Permits(session, db, known, e, row) ==
  LET Sub(key) == LET subs == e[Entry(e, key)].subs IN
                  [i \in DOMAIN subs |-> Permits(session, db, known, subs[i], row)]
      Nested(c, r) == Permits(session, db, FALSE, c.subs[1], r)
      Column(c) ==
        CASE c.subs = <<>> ->
               And3([i \in DOMAIN c.ops |-> PermCompare(session, row[c.key], c.ops[i])])
          [] c.subs # <<>> /\ known ->
               Exists3({Nested(c, r) : r \in Related(db, row, c.key)})
          [] OTHER -> Nested(c, row)
  IN
  CASE Has(e, "_and") -> And3(Sub("_and"))
    [] ~Has(e, "_and") /\ Has(e, "_or") -> PermOr(Sub("_or"))
    [] ~Has(e, "_and") /\ ~Has(e, "_or") /\ Has(e, "_not") -> Not3(Sub("_not")[1])
    [] ~Has(e, "_and") /\ ~Has(e, "_or") /\ ~Has(e, "_not") /\ Has(e, "_exists") ->
         Exists3({Nested(e[Entry(e, "_exists")], r) : r \in db})
    [] OTHER -> And3([i \in DOMAIN e |-> Column(e[i])])

\* What parseBoolExp makes of an expression is SQL: no relationship stands beneath another
\* one or an _exists, unless it asks for nothing.  Other statements fail, whoever asks.
RECURSIVE Compiles(_, _)
Compiles(known, e) ==
  \A i \in DOMAIN e :
    /\ e[i].key \in {"manager", "reports"} => known \/ e[i].subs[1] = <<>>
    /\ \A j \in DOMAIN e[i].subs :
         Compiles(known /\ e[i].key \in Logical \ {"_exists"}, e[i].subs[j])

\* The parts that there are, joined.
AndOf(parts) == IF parts = <<>> THEN <<>> ELSE <<And3(parts)>>
OrOf(parts) == IF parts = <<>> THEN <<>> ELSE <<Or3(parts)>>
NotOf(parts) == IF parts = <<>> THEN <<>> ELSE <<Not3(parts[1])>>

\* remapBoolExp: what compileBoolExp takes a key for.  known says whether the resolver gave
\* remapBoolExp the tables: if it did not, a relationship is an object like any other, and
\* the number of reports, which is no SQL then, is not asked for.
Kind(known, key) ==
  CASE key = Tally -> "aggregate"
    [] key \in {"manager", "reports"} -> IF known THEN "relationship" ELSE "object"
    [] OTHER -> "column"

\* compileBoolExp: <<>> for an expression that compiles to no SQL at all, which the
\* expression around it leaves out, and <<truth>> otherwise.
RECURSIVE Compiled(_, _, _, _, _)
RelationshipFilter(session, db, c, row) ==
  LET Nested(r) == And3(Compiled(session, db, TRUE, c.subs[1], r))
  IN <<Exists3({Nested(r) : r \in Related(db, row, c.key)})>>

\* What stands under a key that is no relationship is compiled for the row itself; logical
\* keys are taken for operators there, of which none is known.
OwnFilter(session, db, c, row) ==
  IF \E i \in DOMAIN c.subs[1] : c.subs[1][i].key \in Logical THEN <<>>
  ELSE Compiled(session, db, FALSE, c.subs[1], row)

AggregateFilter(session, db, c, row) ==
  LET Nested(r) == And3(Compiled(session, db, TRUE, c.subs[1], r))
      count == Cardinality({r \in Related(db, row, "reports") : Nested(r) = T})
  IN [i \in DOMAIN c.ops |-> WhereCompare(session, ToString(count), c.ops[i])]

Compiled(session, db, known, e, row) ==
  LET Parts(key) == LET subs == e[Entry(e, key)].subs IN
                    FlattenSeq([i \in DOMAIN subs |-> Compiled(session, db, known, subs[i], row)])
      \* remapBoolExp leaves an _exists as it is.
      Where(r) == And3(Compiled(session, db, FALSE, e[Entry(e, "_exists")].subs[1], r))
      Column(c) ==
        CASE Kind(known, c.key) = "column" ->
               [i \in DOMAIN c.ops |-> WhereCompare(session, row[c.key], c.ops[i])]
          [] Kind(known, c.key) = "aggregate" -> AggregateFilter(session, db, c, row)
          [] Kind(known, c.key) = "relationship" -> RelationshipFilter(session, db, c, row)
          [] Kind(known, c.key) = "object" -> OwnFilter(session, db, c, row)
  IN
  CASE Has(e, "_and") -> AndOf(Parts("_and"))
    [] ~Has(e, "_and") /\ Has(e, "_or") -> OrOf(Parts("_or"))
    [] ~Has(e, "_and") /\ ~Has(e, "_or") /\ Has(e, "_not") -> NotOf(Parts("_not"))
    [] ~Has(e, "_and") /\ ~Has(e, "_or") /\ ~Has(e, "_not") /\ Has(e, "_exists") ->
         <<Exists3({Where(r) : r \in db})>>
    [] OTHER -> AndOf(FlattenSeq([i \in DOMAIN e |-> Column(e[i])]))

\* What a WHERE makes of it.
Selects(session, db, known, e, row) == And3(Compiled(session, db, known, e, row)) = T

-----------------------------------------------------------------------------
(* The meaning both are meant to have: the keys of an object are a         *)
(* conjunction, an empty one is true.                                      *)

RECURSIVE Meaning(_, _, _, _)
Meaning(session, db, e, row) ==
  LET Key(c) ==
        LET subs == [i \in DOMAIN c.subs |-> Meaning(session, db, c.subs[i], row)]
            Nested(r) == Meaning(session, db, c.subs[1], r)
        IN
        CASE c.key = "_and" -> And3(subs)
          [] c.key = "_or" -> Or3(subs)
          [] c.key = "_not" -> Not3(subs[1])
          [] c.key = "_exists" -> Exists3({Nested(r) : r \in db})
          [] c.key \in {"manager", "reports"} ->
               Exists3({Nested(r) : r \in Related(db, row, c.key)})
          [] c.key = Tally ->
               LET count == Cardinality({r \in Related(db, row, "reports") : Nested(r) = T})
               IN And3([i \in DOMAIN c.ops |-> PermCompare(session, ToString(count), c.ops[i])])
          [] OTHER -> And3([i \in DOMAIN c.ops |-> PermCompare(session, row[c.key], c.ops[i])])
  IN And3([i \in DOMAIN e |-> Key(e[i])])

\* Expressions both compilers are right about: a logical key stands alone, and no
\* alternative and nothing negated is empty.
RECURSIVE Plain(_)
Plain(e) ==
  /\ \A i \in DOMAIN e : e[i].key \in Logical => Len(e) = 1
  /\ \A i \in DOMAIN e :
       /\ e[i].key \in {"_or", "_not"} =>
            Len(e[i].subs) > 0 /\ \A j \in DOMAIN e[i].subs : e[i].subs[j] # <<>>
       /\ \A j \in DOMAIN e[i].subs : Plain(e[i].subs[j])
=============================================================================
