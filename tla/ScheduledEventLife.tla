------------------------- MODULE ScheduledEventLife -------------------------
(***************************************************************************)
(* What the scheduled-event component promises for each event, whatever    *)
(* the number of servers: it is attempted at most NumRetries + 1 times on  *)
(* the record, ends delivered at the first recorded success or in error    *)
(* after the last recorded failure, and never leaves those states except   *)
(* by deletion.  ScheduledEvents implements it.                            *)
(***************************************************************************)
EXTENDS Integers

CONSTANTS Events, NumRetries

VARIABLE life

Init == life = [e \in Events |-> [status |-> "none", tries |-> 0]]

Create(e) ==
  /\ life[e].status = "none"
  /\ life' = [life EXCEPT ![e].status = "scheduled"]

Succeed(e) ==
  /\ life[e].status = "scheduled"
  /\ life' = [life EXCEPT ![e] = [status |-> "delivered", tries |-> @.tries + 1]]

Retry(e) ==
  /\ life[e].status = "scheduled"
  /\ life[e].tries < NumRetries
  /\ life' = [life EXCEPT ![e].tries = @ + 1]

GiveUp(e) ==
  /\ life[e].status = "scheduled"
  /\ life[e].tries = NumRetries
  /\ life' = [life EXCEPT ![e] = [status |-> "error", tries |-> NumRetries + 1]]

Delete(e) ==
  /\ life[e].status \in {"scheduled", "delivered", "error"}
  /\ life' = [life EXCEPT ![e].status = "deleted"]

Next == \E e \in Events :
          Create(e) \/ Succeed(e) \/ Retry(e) \/ GiveUp(e) \/ Delete(e)

Spec == Init /\ [][Next]_life
=============================================================================
