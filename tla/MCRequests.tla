----------------------------- MODULE MCRequests ------------------------------
(* Instances of Requests for TLC. *)
EXTENDS Requests

-----------------------------------------------------------------------------
(* The table, and what is declared of it.                                  *)

Ranked == ("0" :> 0) @@ ("1" :> 1) @@ ("2" :> 2) @@ ("3" :> 3) @@ ("4" :> 4) @@ ("5" :> 5)
          @@ ("6" :> 6) @@ ("a" :> 10) @@ ("b" :> 11)
Likeness == {<<"a", "a%">>}
TableColumns == {"id", "owner", "grade", "boss"}
Defaults == [id |-> "0", owner |-> Null, grade |-> "0", boss |-> Null]

Row(id, owner, grade, boss) == [id |-> id, owner |-> owner, grade |-> grade, boss |-> boss]
TwoTables ==
  {{Row("1", "a", "2", Null), Row("2", "b", "1", "1"), Row("3", "a", Null, "1")},
   {Row("1", "b", "0", "2"), Row("2", "a", "2", Null), Row("3", "b", "2", "2")}}

Variables == {"X-User", "X-Roles"}
VariableSuffixes == ("X-User" :> "user-id") @@ ("X-Roles" :> "allowed-roles")

Op(op, v) == [op |-> op, val |-> <<v>>]
On(column, op, v) == [key |-> column, subs |-> <<>>, ops |-> <<Op(op, v)>>]
Of(key, e) == [key |-> key, subs |-> <<e>>, ops |-> <<>>]
Among(key, es) == [key |-> key, subs |-> es, ops |-> <<>>]

Mine == <<On("owner", "_eq", "X-User")>>
Graded == <<On("grade", "_gte", "2")>>

May == [filter |-> <<>>, checked |-> FALSE, check |-> <<>>, columns |-> TableColumns,
        presets |-> <<>>, limit |-> Unlimited, aggregate |-> FALSE, fields |-> Every,
        roots |-> Every, liveRoots |-> Every, backend |-> FALSE]

Granted == [
  select |->
    ("user" :> [May EXCEPT !.filter = <<Among("_or", <<Mine, <<Of("manager", Mine)>>>>)>>,
                           !.columns = {"id", "owner", "grade"}, !.limit = 2, !.aggregate = TRUE, !.fields = {"lead", "mates"}]) @@
    ("auditor" :> [May EXCEPT !.filter = Graded, !.columns = {"id", "grade"}, !.limit = 3,
                              !.fields = {}, !.roots = {"select", "select_aggregate"},
                              !.liveRoots = {"select"}]),
  insert |->
    ("user" :> [May EXCEPT !.checked = TRUE, !.check = <<On("grade", "_lt", "4")>>,
                           !.columns = {"id", "grade", "boss"}, !.presets = "owner" :> "X-User"]) @@
    ("auditor" :> [May EXCEPT !.checked = TRUE, !.backend = TRUE]),
  update |->
    ("user" :> [May EXCEPT !.filter = Mine, !.checked = TRUE, !.check = <<On("grade", "_lt", "3")>>,
                           !.columns = {"grade", "boss"}]) @@
    ("auditor" :> [May EXCEPT !.filter = Graded, !.columns = {"grade"}, !.presets = "boss" :> "1"]),
  delete |->
    ("user" :> [May EXCEPT !.filter =
                  <<Among("_and", <<Mine, <<Of("_not", <<Of("reports", <<>>)>>)>>>>)>>])]

Leads == <<[role |-> "lead", of |-> <<"user", "auditor">>]>>

-----------------------------------------------------------------------------
(* Those who ask.                                                          *)

Settings == [namespace |-> "x-hk", secret |-> "s", jwt |-> TRUE, requireExp |-> TRUE,
             adminRoleIsAdmin |-> FALSE, claimsMap |-> <<>>, webhook |-> TRUE,
             unauthorized |-> "guest"]

ClaimsFor(namespace, roleSuffix, role, allowed, user) ==
  (<<namespace, roleSuffix>> :> One(role)) @@
  (<<namespace, "allowed-roles">> :> [array |-> TRUE, vals |-> allowed]) @@
  (<<namespace, "user-id">> :> One(user))

Token(exp, claims) ==
  [verified |-> TRUE, exp |-> exp, form |-> "claims", claims |-> claims, paths |-> <<>>]
TokenOfA ==
  Token(TRUE, ClaimsFor("x-hasura", "default-role", "user", <<"user", "auditor", "lead">>, "a"))
TokenOfB == Token(TRUE, ClaimsFor("x-hk", "default-role", "user", <<"user">>, "b"))
NoToken == Token(FALSE, <<>>)

\* One who sends the same over HTTP and over a WebSocket.
Sending(names, tokens, claims) ==
  [http |-> [names |-> names, scheme |-> IF tokens = <<>> THEN NoValue ELSE "Bearer",
             token |-> IF tokens = <<>> THEN NoToken ELSE tokens[1],
             answer |-> [ok |-> claims # <<>>, claims |-> claims]],
   ws |-> [direct |-> <<>>, headers |-> names, tokens |-> tokens]]

Secret == <<"x-hk", "admin-secret">> :> "s"
Role(r) == <<"x-hk", "role">> :> r
Backend == <<"x-hasura", "use-backend-only-permissions">> :> "true"

Users == {
  Sending(Secret, <<>>, <<>>),
  Sending(Secret @@ Role("user"), <<>>, <<>>),
  Sending(<<>>, <<TokenOfA>>, <<>>),
  Sending(Role("lead"), <<TokenOfA>>, <<>>),
  Sending(Role("auditor") @@ Backend, <<TokenOfA>>, <<>>),
  Sending(<<>>, <<TokenOfB>>, <<>>),
  Sending(Role("auditor"), <<TokenOfB>>, <<>>),
  Sending(<<>>, <<>>, ClaimsFor("x-hk", "role", "auditor", <<"auditor">>, "b")),
  Sending(<<>>, <<>>, <<>>)}

-----------------------------------------------------------------------------
(* What they ask for.                                                      *)

By(column, dir) == [by |-> "column", column |-> column, dir |-> dir, nulls |-> ""]

Wide == [Ask EXCEPT
  !.columns = {"grade", "owner"}, !.computed = {"lead"}, !.order = <<By("grade", "asc")>>,
  !.limit = 2, !.offset = 1,
  !.manager = <<[Ask EXCEPT !.columns = {"owner", "grade"}]>>,
  !.mates = <<[Ask EXCEPT !.computed = {"lead"}, !.reports = <<Ask>>, !.limit = 1,
                          !.order = <<By("grade", "desc")>>]>>]
Deep == [Ask EXCEPT
  !.order = <<[By("lead", "desc") EXCEPT !.by = "computed"],
              [By("grade", "asc") EXCEPT !.nulls = "first"]>>,
  !.reports = <<[Ask EXCEPT !.where = <<On("grade", "_isNull", "false")>>, !.limit = 1,
                            !.order = <<By("grade", "desc")>>, !.manager = <<Ask>>]>>,
  !.tally = <<[where |-> <<On("owner", "_neq", "X-User")>>, most |-> {"grade"}]>>]
Related2 == [Ask EXCEPT
  !.where = <<Among("_or", <<<<Of("manager", <<On("grade", "_eq", "2")>>)>>,
                             <<[key |-> Tally, subs |-> <<<<>>>>,
                               ops |-> <<Op("_gt", "0")>>]>>>>)>>,
  !.order = <<[By("grade", "desc") EXCEPT !.by = "manager"],
              [By("", "asc") EXCEPT !.by = "tally"]>>]
Owners == [Ask EXCEPT !.columns = {"owner"}, !.distinct = <<"owner">>,
                      !.order = <<By("grade", "desc"), By("owner", "desc")>>]
NotMine == [Ask EXCEPT !.where = <<Among("_and", <<<<Of("_not", Mine)>>,
                                                   <<[key |-> "grade", subs |-> <<>>,
                                                      ops |-> <<[op |-> "_in",
                                                                val |-> <<"1", "2">>]>>]>>>>)>>]

All == [count |-> <<>>, distinct |-> FALSE, most |-> {"grade", "owner"}]
Asking(kind, live, ask) == [kind |-> kind, live |-> live, id |-> "2", agg |-> All, ask |-> ask]

Asked == {
  Asking("many", FALSE, Wide), Asking("many", FALSE, Deep), Asking("many", FALSE, Related2),
  Asking("many", FALSE, Owners), Asking("many", TRUE, NotMine), Asking("many", TRUE, Related2),
  Asking("pk", FALSE, Deep), Asking("pk", TRUE, Wide),
  Asking("aggregate", FALSE, [Wide EXCEPT !.limit = 1]),
  [Asking("aggregate", FALSE, Owners) EXCEPT !.agg.count = <<"grade">>, !.agg.distinct = TRUE],
  [Asking("aggregate", FALSE, [Owners EXCEPT !.distinct = <<"grade">>])
    EXCEPT !.agg.most = {"owner"}],
  [Asking("aggregate", TRUE, NotMine) EXCEPT !.agg.count = <<"boss">>]}

FilterOn(column, not, op, vals) == [column |-> column, not |-> not, op |-> op, val |-> vals]
Listing(filters) == [columns |-> {"id", "grade"}, filters |-> filters, order |-> <<>>,
                     distinct |-> <<>>, limit |-> Unlimited, offset |-> 0]
RestAsked == {
  [kind |-> "list", id |-> "", ask |-> Listing(<<FilterOn("grade", TRUE, "_eq", <<"2">>)>>)],
  [kind |-> "list", id |-> "",
   ask |-> [Listing(<<>>) EXCEPT !.distinct = <<"owner">>, !.order = <<By("grade", "desc")>>]],
  [kind |-> "list", id |-> "", ask |-> Listing(<<FilterOn("grade", TRUE, "_gt", <<"1">>)>>)],
  [kind |-> "get", id |-> "2", ask |-> Listing(<<>>)],
  [kind |-> "aggregate", id |-> "",
   ask |-> Listing(<<FilterOn("grade", TRUE, "_isNull", <<"true">>)>>)],
  [kind |-> "aggregate", id |-> "", ask |-> [Listing(<<>>) EXCEPT !.distinct = <<"owner">>]]}
ById1 == <<By("id", "asc")>>

Said(text) == [kind |-> "string", text |-> text]
EndpointsAsked == {
  [types |-> ("id" :> "ID") @@ ("n" :> "Int"), method |-> "GET",
   query |-> ("id" :> Said("1")) @@ ("n" :> Said("3")), body |-> <<>>, params |-> "id" :> Said("2"),
   ask |-> Wide],
  [types |-> ("id" :> "ID") @@ ("n" :> "Int"), method |-> "POST",
   query |-> <<>>, body |-> "n" :> Said("3"), params |-> "id" :> Said("2"), ask |-> Wide],
  [types |-> "id" :> "ID", method |-> "GET", query |-> "id" :> Said("1"), body |-> <<>>,
   params |-> <<>>, ask |-> Wide]}

-----------------------------------------------------------------------------

Clause == <<[columns |-> {"grade"}, where |-> <<On("grade", "_lt", "3")>>]>>
Nest(object, before, after) ==
  [op |-> "insert_one", object |-> object, before |-> before, after |-> after,
   conflict |-> NoConflict, related |-> FALSE]
NewRow(id, grade) == [id |-> id, grade |-> grade]
Setting(op, where, id, set, inc) ==
  [op |-> op, where |-> where, id |-> id, set |-> set, inc |-> inc]

Mutated == {
  [op |-> "insert", objects |-> <<NewRow("4", "2"), NewRow("1", "3")>>, conflict |-> NoConflict],
  [op |-> "insert", objects |-> <<NewRow("4", "4"), NewRow("1", "3")>>, conflict |-> Clause],
  Nest([owner |-> "b"] @@ NewRow("4", "1"), <<>>, <<>>),
  Nest(NewRow("4", "4"), <<>>, <<>>),
  Nest(NewRow("4", "1"), <<[column |-> "boss", object |-> NewRow("5", "2")]>>,
       <<[column |-> "boss", object |-> NewRow("6", "0")]>>),
  Nest(NewRow("4", "1"), <<>>, <<[column |-> "boss", object |-> NewRow("3", "2")]>>),
  Setting("update", Related2.where, "", <<>>, "grade" :> 1),
  Setting("update", <<>>, "", [grade |-> "2"], <<>>),
  Setting("update_by_pk", <<>>, "1", [boss |-> "2"], <<>>),
  Setting("update_by_pk", <<>>, "2", [grade |-> "3"], <<>>),
  Setting("delete", <<On("grade", "_lte", "2")>>, "", <<>>, <<>>),
  Setting("delete_by_pk", <<>>, "3", <<>>, <<>>)}

RestMutated == {
  [op |-> "insert", id |-> "", body |-> [owner |-> "b"] @@ NewRow("4", "1"),
   conflict |-> NoConflict],
  [op |-> "insert", id |-> "", body |-> NewRow("2", "0"), conflict |-> Clause],
  [op |-> "update", id |-> "2", body |-> [grade |-> "1"], conflict |-> NoConflict],
  [op |-> "delete", id |-> "3", body |-> <<>>, conflict |-> NoConflict]}

ManyMutated == {
  <<Setting("update", <<On("grade", "_eq", "2")>>, "", [grade |-> "3"], <<>>),
    Setting("update", <<On("grade", "_eq", "3")>>, "", [boss |-> "2"], <<>>)>>,
  <<Setting("update", <<Of("manager", <<On("grade", "_eq", "2")>>)>>, "", [grade |-> "1"], <<>>),
    Setting("update", <<On("boss", "_isNull", "false")>>, "", [id |-> "1"], <<>>)>>}

-----------------------------------------------------------------------------
(* Functions and native queries.                                           *)

Functions == [
  teamOf |-> [roles |-> {"user"}, kind |-> "rows", table |-> "people",
              args |-> <<[name |-> "boss", is |-> "user"]>>, defaults |-> 0],
  promote |-> [roles |-> {"auditor", "user"}, kind |-> "row", table |-> "people",
               args |-> <<[name |-> "session", is |-> "session"], [name |-> "id", is |-> "user"]>>,
               defaults |-> 0],
  size |-> [roles |-> {"user"}, kind |-> "scalar", table |-> "people",
            args |-> <<[name |-> "boss", is |-> "user"]>>, defaults |-> 1]]

Team(rows, args) == {r \in rows : "boss" \in DOMAIN args => r.boss = args["boss"]}
Promoted(rows, args) == {[r EXCEPT !.grade = "3"] : r \in {r \in rows : r.id = args["id"]}}
Run(f, rows, args) ==
  CASE f = "promote" -> [db |-> {r \in rows : r.id # args["id"]} \cup Promoted(rows, args),
                         rows |-> InOrder(Promoted(rows, args))]
    [] OTHER -> [db |-> rows, rows |-> InOrder(Team(rows, args))]

NativeQueries == "byGrade" :> ("auditor" :> [filter |-> Graded, columns |-> {"id", "grade"}])
Sql(q, rows, params) == InOrder({r \in rows : r.grade # params["not"]})

Invoking(kind, live, name, args) ==
  [kind |-> kind, live |-> live, name |-> name, args |-> args, agg |-> All,
   ask |-> [NotMine EXCEPT !.order = <<By("grade", "desc")>>, !.limit = 1]]

\* Actions.  A handler says something of a person; it has no id for person 2, and does not
\* know person 3.
Action(roles, relationship) ==
  [roles |-> roles, url |-> TRUE, timeout |-> 30, headers |-> "x-key" :> "k", forward |-> FALSE,
   request |-> <<>>, response |-> <<>>, relationship |-> relationship]
Var(path) == [path |-> path, text |-> "", sub |-> <<>>]
Objects(f) == [path |-> <<>>, text |-> "", sub |-> f]
ActionsKnown == [
  reportOf |-> [Action({"auditor", "guest"}, [type |-> "object", mapping |-> "boss" :> "boss"])
               EXCEPT !.forward = TRUE],
  teamUnder |-> [Action({"user"}, [type |-> "array", mapping |-> "lead" :> "boss"])
    EXCEPT !.request = <<[method |-> "PUT", url |-> <<Var(<<"$body", "input", "id">>)>>,
                          body |-> <<Var(<<"$body">>)>>,
                          headers |-> "x-role" :> Var(<<"$session_variables", "x-hasura-role">>)]>>,
           !.response = <<[body |-> <<Objects("lead" :> Var(<<"$body", "id">>))>>]>>]]
LowerCase == ("host" :> "host") @@ ("x-key" :> "x-key") @@ ("X-Trace" :> "x-trace")
HandledAs(name, request) ==
  LET id == request.body.sub["input"].sub["id"]
      known == id # Leaf("3")
  IN [seconds |-> IF id = Leaf("9") THEN 60 ELSE 1, length |-> 1, ok |-> known, json |-> TRUE,
      body |-> IF known THEN Object(IF id = Leaf("2") THEN "boss" :> id
                                     ELSE ("id" :> id) @@ ("boss" :> id))
               ELSE Object("message" :> Leaf("unknown"))]
JobsKnown == ("j1" :> [action |-> "reportOf", status |-> "completed", output |-> Leaf("1"),
                       error |-> ""])
          @@ ("j2" :> [action |-> "gone", status |-> "completed", output |-> Leaf("1"),
                       error |-> ""])
          @@ ("j3" :> [action |-> "reportOf", status |-> "failed", output |-> JsonNull,
                       error |-> "unknown"])
Acting(kind, name, id, ask) ==
  [kind |-> kind, live |-> FALSE, name |-> name, args |-> "id" :> Leaf(id), id |-> id,
   client |-> ("x-key" :> "mine") @@ ("host" :> "here") @@ ("X-Trace" :> "t"), ask |-> ask]
Related1 == [Deep EXCEPT !.columns = {"grade"}, !.order = <<>>]

CallsMade == {
  Acting("action", "reportOf", "1", Related1), Acting("action", "reportOf", "9", Ask),
  Acting("action", "teamUnder", "1", Related1), Acting("action", "teamUnder", "2", Ask),
  Acting("action", "teamUnder", "3", Ask),
  Acting("result", "reportOf", "j1", Ask), Acting("result", "teamUnder", "j1", Ask),
  Acting("result", "reportOf", "j3", Ask),
  Acting("status", "reportOf", "j1", Ask), Acting("status", "reportOf", "j2", Ask),
  Invoking("function", FALSE, "teamOf", "boss" :> "1"),
  Invoking("function", TRUE, "teamOf", "boss" :> "2"),
  Invoking("function", FALSE, "promote", "id" :> "2"), Invoking("scalar", FALSE, "size", <<>>),
  Invoking("aggregate", FALSE, "teamOf", "boss" :> "1"),
  Invoking("native", FALSE, "byGrade", "not" :> "3")}

\* Nothing but the evaluation of the constants, before TLC's workers share them.
ASSUME Evaluated ==
  /\ Senders = Credentials /\ Asked = Queries /\ RestAsked = RestQueries /\ Mutated = Writes
  /\ RestMutated = RestWrites /\ ManyMutated = UpdatesMany /\ CallsMade = Calls
  /\ EndpointsAsked = Endpoints /\ Granted = Metadata /\ Leads = Inherited
  /\ ActionsKnown = Configured /\ JobsKnown = Jobs
  /\ Settings = Options /\ Functions = Tracked /\ NativeQueries = Native /\ TwoTables = Databases
=============================================================================
