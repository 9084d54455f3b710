----------------------------- MODULE Mutations ------------------------------
(***************************************************************************)
(* Inserts, updates and deletes of one table, related to itself: the       *)
(* resolvers (src/src/schema/resolvers) and the statements they compile    *)
(* (src/src/sql), with what PostgreSQL does to run them.                   *)
(*                                                                         *)
(* A statement is an operator from the rows before it to a result          *)
(* [db, rows, error]: the rows after it, those it answers, and "" or why   *)
(* it failed, in which case the rows are those before it.                  *)
(***************************************************************************)
EXTENDS Permissions, Functions

CONSTANTS
  Default,          \* the row that DEFAULT VALUES inserts
  MaxParams,        \* PG_MAX_PARAMS
  UnnestThreshold,  \* UNNEST_THRESHOLD
  ChunkSize,        \* DEFAULT_BATCH_CHUNK_SIZE
  KeyField          \* the field that the primary key column, id, is answered as

Failed(db, why) == [db |-> db, rows |-> {}, error |-> why]
Answered(db, rows) == [db |-> db, rows |-> rows, error |-> ""]

\* makeInsertResolver and its siblings, before anything else.
Denied(session, op) ==
  \/ ~Allowed(session, op)
  \/ op = "insert" /\ Permission(session, op).backend /\ ~session.backend

\* The rows an INSERT or UPDATE answers: those its check, evaluated on the rows as they
\* were before the statement, admits.  The others are written all the same.
Checked(session, db, p, rows) ==
  {r \in rows : p.checked => AnyOf(session, db, p.checks, r)}

-----------------------------------------------------------------------------
(* INSERT.                                                                 *)

\* ON CONFLICT ON CONSTRAINT pkey: none, or one clause [columns, where].
NoConflict == <<>>

\* One row of an INSERT, on what the rows before it in the same statement left.
InsertRow(session, before, conflict, acc, row) ==
  LET same == CHOOSE r \in acc.db : r.id = row.id
      new == [c \in Columns |-> IF c \in conflict[1].columns THEN row[c] ELSE same[c]]
  IN
  IF acc.error # "" THEN acc
  ELSE IF row.id = Null THEN Failed(before, "not null")
  ELSE IF \A r \in acc.db : r.id # row.id THEN Answered(acc.db \cup {row}, acc.rows \cup {row})
  ELSE IF conflict = NoConflict THEN Failed(before, "unique")
  ELSE IF conflict[1].columns = {} THEN acc
  ELSE IF \E r \in acc.rows : r.id = row.id THEN Failed(before, "twice")
  ELSE IF ~Selects(session, before, FALSE, conflict[1].where, same) THEN acc
  ELSE Answered((acc.db \ {same}) \cup {new}, acc.rows \cup {new})

\* prepareInsertData, of an object whose columns are accepted.
PrepareInsertData(session, p, object) ==
  [c \in DOMAIN p.presets |-> PresetValue(session, p.presets[c])] @@ object

\* The statement compileInsertOne compiles, and compileInsertChunk and compileInsertUnnest
\* for several objects: an absent column is its default.
Insert(session, db, p, objects, conflict) ==
  LET Row(object) == PrepareInsertData(session, p, object) @@ Default
      result == FoldLeft(LAMBDA acc, object : InsertRow(session, db, conflict, acc, Row(object)),
                         Answered(db, {}), objects)
  IN IF \E i \in DOMAIN objects : ~ColumnsAccepted(p, DOMAIN objects[i]) THEN Failed(db, "columns")
     ELSE [result EXCEPT !.rows = Checked(session, db, p, @)]

\* compileInsert: a batch with more parameters than PostgreSQL takes is cut to its first
\* chunk, unless its objects name the same columns and are enough for UNNEST.
CompiledObjects(p, objects) ==
  LET named(i) == DOMAIN objects[i] \cup DOMAIN p.presets
      columns == UNION {named(i) : i \in DOMAIN objects}
      size == Min({ChunkSize, MaxParams \div Cardinality(columns)})
  IN IF \/ Len(objects) * Cardinality(columns) <= MaxParams
        \/ Len(objects) >= UnnestThreshold /\ \A i \in DOMAIN objects : named(i) = columns
       THEN objects
       ELSE SubSeq(objects, 1, size)

\* makeInsertResolver: that rows are missing from the answer is no error.
InsertMany(session, db, req) ==
  LET p == Permission(session, "insert") IN
  IF Denied(session, "insert") THEN Failed(db, "denied")
  ELSE IF req.objects = <<>> THEN Answered(db, {})
  ELSE IF \E i \in DOMAIN req.objects : ~ColumnsAccepted(p, DOMAIN req.objects[i])
    THEN Failed(db, "columns")
  ELSE Insert(session, db, p, CompiledObjects(p, req.objects), req.conflict)

\* A statement whose answer is needed.
Must(needed, result, why) ==
  IF needed /\ result.error = "" /\ result.rows = {} THEN [result EXCEPT !.error = why] ELSE result

\* The statement compileInsertOne compiles.
CompileInsertOne(session, db, p, object, conflict) == Insert(session, db, p, <<object>>, conflict)

\* No row is an error, where there is a check, and null otherwise.
InsertOneAs(session, db, p, object, conflict) ==
  Must(p.checked, CompileInsertOne(session, db, p, object, conflict), "check")

\* makeInsertOneResolver, nothing nested.  The error comes after the commit.
InsertOne(session, db, req) ==
  IF Denied(session, "insert") THEN Failed(db, "denied")
  ELSE InsertOneAs(session, db, Permission(session, "insert"), req.object, req.conflict)

-----------------------------------------------------------------------------
(* Nested inserts: one transaction.                                        *)

\* The statement of a nested object, unless one before it has failed.
InsertNested(session, acc, object) ==
  IF acc.error # "" THEN acc
  ELSE CompileInsertOne(session, acc.db, Permission(session, "insert"), object, NoConflict)

\* The key of an answered row.  An answer with relationships names its keys by field.
KeyOf(row, related) == IF related /\ KeyField # "id" THEN Null ELSE row.id

\* Mutant: no ROLLBACK.
RollbackNothing(db, result) == result

\* ROLLBACK on any error.
Rollback(db, result) == IF result.error = "" THEN result ELSE Failed(db, result.error)

\* executeNestedInsertOne.  req.before are objects inserted first, that the columns of the
\* object refer to; req.after are [column, object], inserted with that column referring to
\* it.  The objects before must answer; if the object itself does not, because of a conflict,
\* what was inserted before it is committed, and nothing after it is inserted.
TheRow(rows) == CHOOSE row \in rows : TRUE

WithKey(n, object, result) ==
  [result |-> result,
   object |-> IF result.error = "" THEN (n.column :> TheRow(result.rows).id) @@ object ELSE object]

InsertBefore(session, db, req) ==
  FoldLeft(LAMBDA acc, n : WithKey(n, acc.object,
                                  Must(TRUE, InsertNested(session, acc.result, n.object),
                                       "no data")),
           [result |-> Answered(db, {}), object |-> req.object], req.before)

InsertParent(session, req, before) ==
  IF before.result.error # "" THEN before.result
  ELSE InsertOneAs(session, before.result.db, Permission(session, "insert"), before.object,
                   req.conflict)

InsertAfter(session, req, parent) ==
  LET key == KeyOf(TheRow(parent.rows), req.related)
      after == FoldLeft(LAMBDA acc, n : InsertNested(session, acc, (n.column :> key) @@ n.object),
                        parent, req.after)
  IN IF parent.error # "" \/ parent.rows = {} THEN parent ELSE [after EXCEPT !.rows = parent.rows]

InsertTree(session, db, req) ==
  LET parent == InsertParent(session, req, InsertBefore(session, db, req))
  IN IF Denied(session, "insert") THEN Failed(db, "denied")
     ELSE Rollback(db, InsertAfter(session, req, parent))

-----------------------------------------------------------------------------
(* UPDATE and DELETE.                                                      *)

\* The rows a WHERE leaves: those the filter of the permission admits, too.
Targets(session, db, p, wanted) == {r \in wanted : AnyOf(session, db, p.filters, r)}

\* col = col + by, of the ranked values; NULL stays NULL.
Bump(v, by) == IF v = Null THEN Null ELSE CHOOSE w \in DOMAIN Rank : Rank[w] = Rank[v] + by

\* buildSetClause: _set wins over _inc, and nobody sets a column with a preset.
SetClause(session, p, req, row) ==
  [c \in Columns |->
     CASE c \in DOMAIN req.set -> req.set[c]
       [] c \notin DOMAIN req.set /\ c \in DOMAIN req.inc -> Bump(row[c], req.inc[c])
       [] c \in DOMAIN p.presets -> PresetValue(session, p.presets[c])
       [] OTHER -> row[c]]

\* buildSetClause throws before the statement is there.
SetError(p, req) ==
  CASE ~ColumnsAccepted(p, DOMAIN req.set \cup DOMAIN req.inc) -> "columns"
    [] DOMAIN req.set \cup DOMAIN req.inc \cup DOMAIN p.presets = {} -> "nothing"
    [] OTHER -> ""

\* The rows old become new.
Rewritten(session, db, p, old, new) ==
  IF Cardinality({r.id : r \in (db \ old) \cup new}) < Cardinality(db) THEN Failed(db, "unique")
  ELSE Answered((db \ old) \cup new, Checked(session, db, p, new))

Updated(session, db, p, req, old) ==
  Rewritten(session, db, p, old, {SetClause(session, p, req, r) : r \in old})

\* Mutant: the filter of the permission is left out.
UpdateUnfiltered(session, db, p, req, wanted) ==
  IF SetError(p, req) # "" THEN Failed(db, SetError(p, req))
  ELSE Updated(session, db, p, req, wanted)

\* The statement compileUpdate and compileUpdateByPk compile.
Update(session, db, p, req, wanted) ==
  IF SetError(p, req) # "" THEN Failed(db, SetError(p, req))
  ELSE Updated(session, db, p, req, Targets(session, db, p, wanted))

\* makeUpdateResolver and makeUpdateByPkResolver: without _set and _inc nothing is done,
\* presets or not.
UpdateRows(session, db, req, wanted) ==
  IF Denied(session, "update") THEN Failed(db, "denied")
  ELSE IF DOMAIN req.set \cup DOMAIN req.inc = {} THEN Answered(db, {})
  ELSE Update(session, db, Permission(session, "update"), req, wanted)

\* makeDeleteResolver and makeDeleteByPkResolver, compileDelete and compileDeleteByPk.
Deleted(db, old) == Answered(db \ old, old)
DeleteRows(session, db, wanted) ==
  IF Denied(session, "delete") THEN Failed(db, "denied")
  ELSE Deleted(db, Targets(session, db, Permission(session, "delete"), wanted))

\* makeUpdateManyResolver and compileUpdateMany: every entry is compiled before the first
\* one runs, its where without the tables; then each is a transaction of its own.
UpdateManyError(session, entries) ==
  LET errors == {SetError(Permission(session, "update"), entries[i]) : i \in DOMAIN entries} \ {""}
  IN IF Denied(session, "update") THEN "denied"
     ELSE IF errors # {} THEN CHOOSE e \in errors : TRUE ELSE ""

UpdateEntry(session, db, entry) ==
  Update(session, db, Permission(session, "update"), entry,
         {r \in db : Selects(session, db, FALSE, entry.where, r)})

\* What a WHERE asks for: an expression, or a key.
WantedBy(session, db, req) ==
  {r \in db : IF req.op \in {"update", "delete"} THEN Selects(session, db, TRUE, req.where, r)
              ELSE r.id = req.id}

\* One mutation of one statement or transaction.
Mutate(session, db, req) ==
  CASE req.op = "insert" -> InsertMany(session, db, req)
    [] req.op = "insert_one" /\ req.before \o req.after = <<>> -> InsertOne(session, db, req)
    [] req.op = "insert_one" /\ req.before \o req.after # <<>> -> InsertTree(session, db, req)
    [] req.op \in {"update", "update_by_pk"} ->
         UpdateRows(session, db, req, WantedBy(session, db, req))
    [] req.op \in {"delete", "delete_by_pk"} ->
         DeleteRows(session, db, WantedBy(session, db, req))
=============================================================================
