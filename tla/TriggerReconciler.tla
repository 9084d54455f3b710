------------------------- MODULE TriggerReconciler --------------------------
(***************************************************************************)
(* The reconciliation of the event triggers in the database with those of  *)
(* the configuration (src/src/shared/trigger-reconciler.ts), as every      *)
(* server does it when it starts, statement by statement and without a     *)
(* transaction or a lock, while other servers do the same and writers go   *)
(* on writing.  ServerLifecycle composes it with the rest of the start.    *)
(***************************************************************************)
EXTENDS Integers, Sequences, FiniteSets, SequencesExt

CONSTANTS
  Servers,
  Ops,            \* INSERT, UPDATE, DELETE
  Order,          \* the tables with event triggers, in the order of the configuration
  Orphans,        \* tables whose event triggers the configuration has no more
  Views,          \* those of Order that cannot have row triggers
  Triggers,       \* per table of Order, the operations of each of its event triggers
  Installed       \* per table, the operations of the trigger found by the first server

TableSet == ToSet(Order) \cup Orphans

\* generateEventTriggerSQL: one trigger and one function per table, for the operations
\* any of its event triggers asks for.
Desired == [t \in ToSet(Order) |-> UNION Triggers[t]]

ASSUME ReconcilerAssumption ==
  /\ Order \in Seq(ToSet(Order)) /\ IsInjective(Order) /\ ToSet(Order) \cap Orphans = {}
  /\ Views \subseteq ToSet(Order)
  /\ Triggers \in [ToSet(Order) -> SUBSET SUBSET Ops]
  /\ Installed \in [TableSet -> SUBSET Ops]
  /\ \A t \in Orphans : Installed[t] # {}

VARIABLES
  catalog,  \* per table, the operations its trigger fires for ({}: there is none)
  body,     \* per table, the operations its trigger function writes to the event log
  rec       \* per server, where its reconciliation is

recVars == <<catalog, body, rec>>

\* seen: what fetchExistingTriggers returned; left, gone: what is still to be done.
NotStarted == [pc |-> "idle", seen |-> [t \in TableSet |-> {}], left |-> <<>>, gone |-> {}]

RecTypeOK ==
  /\ catalog \in [TableSet -> SUBSET Ops]
  /\ body \in [TableSet -> SUBSET Ops]
  /\ \A s \in Servers :
       /\ rec[s].pc \in {"idle", "function", "trigger", "create", "orphans", "done", "failed"}
       /\ rec[s].seen \in [TableSet -> SUBSET Ops]
       /\ IsSuffix(rec[s].left, Order)
       /\ rec[s].gone \subseteq Orphans

RecInit ==
  /\ catalog = Installed
  /\ body = Installed
  /\ rec = [s \in Servers |-> NotStarted]

-----------------------------------------------------------------------------

Current(s) == Head(rec[s].left)

\* Mutant: every server goes through the tables in an order of its own.
OrderReversed(s) == IF s = CHOOSE x \in Servers : TRUE THEN Reverse(Order) ELSE Order

\* desiredMap: the order of the configuration.
OrderOf(s) == Order

\* On to the next table, or to the orphans.
NextTable(s) ==
  [rec EXCEPT ![s].left = Tail(@), ![s].pc = IF Len(rec[s].left) = 1 THEN "orphans" ELSE "function"]

Fails(s) == [rec EXCEPT ![s] = [NotStarted EXCEPT !.pc = "failed"]]

\* fetchExistingTriggers, and the maps of what exists and what is wanted.
Discover(s) ==
  /\ rec[s].pc = "idle"
  /\ rec' = [rec EXCEPT ![s] = [pc |-> IF Order = <<>> THEN "orphans" ELSE "function",
                                seen |-> catalog, left |-> OrderOf(s),
                                gone |-> {t \in Orphans : catalog[t] # {}}]]
  /\ UNCHANGED <<catalog, body>>

\* Mutant: triggers are compared by name, and one that exists is left as it is.
ReplaceFunctionOnly(s) ==
  /\ rec[s].pc = "function"
  /\ body' = [body EXCEPT ![Current(s)] = Desired[Current(s)]]
  /\ rec' = IF rec[s].seen[Current(s)] # {} THEN NextTable(s) ELSE [rec EXCEPT ![s].pc = "create"]
  /\ UNCHANGED catalog

\* CREATE OR REPLACE FUNCTION, for a new trigger and for every existing one: the
\* body wanted never equals the one found, which is wrapped in DECLARE, BEGIN, END.
ReplaceFunction(s) ==
  /\ rec[s].pc = "function"
  /\ body' = [body EXCEPT ![Current(s)] = Desired[Current(s)]]
  /\ rec' = IF rec[s].seen[Current(s)] = Desired[Current(s)] /\ Desired[Current(s)] # {}
              THEN NextTable(s)
              ELSE [rec EXCEPT ![s].pc =
                        IF rec[s].seen[Current(s)] = {} THEN "create" ELSE "trigger"]
  /\ UNCHANGED catalog

\* PostgreSQL rejects it when another session replaces the same function meanwhile.
FunctionConflict(s) ==
  /\ rec[s].pc = "function"
  /\ \E o \in Servers \ {s} :
       /\ rec[o].pc \in {"function", "trigger", "create", "orphans"}
       /\ Len(rec[o].left) <= Len(rec[s].left)
  /\ rec' = Fails(s)
  /\ UNCHANGED <<catalog, body>>

\* The events have changed: DROP TRIGGER, a statement of its own.
DropChanged(s) ==
  /\ rec[s].pc = "trigger"
  /\ catalog' = [catalog EXCEPT ![Current(s)] = {}]
  /\ rec' = [rec EXCEPT ![s].pc = "create"]
  /\ UNCHANGED body

\* CREATE TRIGGER.  Only for a new trigger, "not a table" (42809) is skipped; that
\* the trigger exists by now, or that there is nothing to fire for, is an error.
CreateTrigger(s) ==
  LET t == Current(s) IN
  /\ rec[s].pc = "create"
  /\ IF t \in Views /\ rec[s].seen[t] = {} THEN rec' = NextTable(s) /\ UNCHANGED catalog
     ELSE IF catalog[t] # {} \/ Desired[t] = {} \/ t \in Views
       THEN rec' = Fails(s) /\ UNCHANGED catalog
       ELSE rec' = NextTable(s) /\ catalog' = [catalog EXCEPT ![t] = Desired[t]]
  /\ UNCHANGED body

\* Orphan cleanup: DROP TRIGGER IF EXISTS, then DROP FUNCTION IF EXISTS, which nobody
\* can observe once the trigger is gone.
DropOrphan(s) ==
  /\ rec[s].pc = "orphans"
  /\ \E t \in rec[s].gone :
       /\ catalog' = [catalog EXCEPT ![t] = {}]
       /\ body' = [body EXCEPT ![t] = {}]
       /\ rec' = [rec EXCEPT ![s].gone = @ \ {t}]

Reconciled(s) ==
  /\ rec[s].pc = "orphans" /\ rec[s].gone = {}
  /\ rec' = [rec EXCEPT ![s] = [NotStarted EXCEPT !.pc = "done"]]
  /\ UNCHANGED <<catalog, body>>

\* Any of its statements may reject: no roll-back of those before it.
StatementFails(s) ==
  /\ rec[s].pc \in {"idle", "function", "trigger", "create", "orphans"}
  /\ rec' = Fails(s)
  /\ UNCHANGED <<catalog, body>>

Reconcile(s) ==
  \/ Discover(s) \/ ReplaceFunction(s) \/ FunctionConflict(s) \/ DropChanged(s)
  \/ CreateTrigger(s) \/ DropOrphan(s) \/ Reconciled(s)

-----------------------------------------------------------------------------

\* The operations on t that a write would leave in the event log now.
Captured(t) == catalog[t] \cap body[t]

\* s has dropped the trigger of t and is about to create it.
BetweenDropAndCreate(s, t) ==
  rec[s].pc = "create" /\ Current(s) = t /\ rec[s].seen[t] \notin {{}, Desired[t]}
=============================================================================
