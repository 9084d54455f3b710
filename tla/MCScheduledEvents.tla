-------------------------- MODULE MCScheduledEvents --------------------------
(* Instances of ScheduledEvents for TLC.                                   *)
EXTENDS ScheduledEvents

CONSTANTS e1, e2, s1, s2
=============================================================================
