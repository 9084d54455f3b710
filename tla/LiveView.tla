------------------------------ MODULE LiveView ------------------------------
(***************************************************************************)
(* What a live query promises its clients: the results of one query, each  *)
(* read of some version of the tables, pushed only when it differs from    *)
(* the one before, and nothing once the subscription is over.  There are   *)
(* no servers, notifications, timers, hashes or queries that take time     *)
(* here; LiveQueries implements it.                                        *)
(***************************************************************************)
EXTENDS Integers, Sequences

CONSTANTS
  Subs,    \* subscriptions
  Values,  \* what the query may return
  First,   \* what it returns at the beginning
  Ordered  \* TRUE: no result is older than the one before

VARIABLES
  history,  \* what the query returns after each commit
  phase,    \* of each subscription: "waiting", "open" or "over"
  sent      \* to each subscription, the results [val, ver]

vars == <<history, phase, sent>>

Init ==
  /\ history = <<First>>
  /\ phase = [c \in Subs |-> "waiting"]
  /\ sent = [c \in Subs |-> <<>>]

Result(n) == [val |-> history[n], ver |-> n]

Commit(v) ==
  /\ history' = Append(history, v)
  /\ UNCHANGED <<phase, sent>>

\* The first result is sent whatever it is.
Open(c, n) ==
  /\ phase[c] = "waiting"
  /\ phase' = [phase EXCEPT ![c] = "open"]
  /\ sent' = [sent EXCEPT ![c] = <<Result(n)>>]
  /\ UNCHANGED history

Push(c, n) ==
  /\ phase[c] = "open"
  /\ \E latest \in {sent[c][Len(sent[c])]} : /\ latest.val # history[n]
                                             /\ Ordered => latest.ver < n
  /\ sent' = [sent EXCEPT ![c] = Append(@, Result(n))]
  /\ UNCHANGED <<history, phase>>

Close(c) ==
  /\ phase[c] \in {"waiting", "open"}
  /\ phase' = [phase EXCEPT ![c] = "over"]
  /\ UNCHANGED <<history, sent>>

Next ==
  \/ \E v \in Values : Commit(v)
  \/ \E c \in Subs, n \in DOMAIN history : Open(c, n) \/ Push(c, n)
  \/ \E c \in Subs : Close(c)

Spec == Init /\ [][Next]_vars
=============================================================================
