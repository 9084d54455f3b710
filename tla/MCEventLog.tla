----------------------------- MODULE MCEventLog -----------------------------
(* Instances of EventLog for TLC.                                          *)
EXTENDS EventLog, TLC

CONSTANTS e1, e2, s1, s2, l1, l2

Perms == Permutations({s1, s2}) \cup Permutations({l1, l2})
=============================================================================
