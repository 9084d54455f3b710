------------------------- MODULE MCServerLifecycle --------------------------
(* Instances of ServerLifecycle for TLC. *)
EXTENDS ServerLifecycle

\* orders is new, users has the wrong events, audit is configured no more;
\* each table has a trigger for inserts and a manual one.
TwoTables == <<"users", "orders">>
Wanted == [t \in {"users", "orders"} |-> {{"INSERT"}, {}}]
Found == [users |-> {"UPDATE"}, orders |-> {}, audit |-> {"INSERT"}]
=============================================================================
