--------------------------- MODULE MCAsyncActions ---------------------------
(* Instances of AsyncActions for TLC.                                      *)
EXTENDS AsyncActions

CONSTANTS a1, a2, s1, s2
=============================================================================
