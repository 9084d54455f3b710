---------------------------- MODULE MCLiveQueries ---------------------------
(* Instances of LiveQueries for TLC.                                       *)
EXTENDS LiveQueries

CONSTANTS t1, t2, s1, s2, c1, c2, v1, v2
=============================================================================
