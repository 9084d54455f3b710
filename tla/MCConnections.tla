--------------------------- MODULE MCConnections ----------------------------
(* An instance of Connections for TLC. *)
EXTENDS Connections

CONSTANTS t1, t2, t3

OneReplica == <<"replica">>

\* Two of three texts with the same hash.
PairName(t) == IF t = t1 THEN "a" ELSE "b"
=============================================================================
