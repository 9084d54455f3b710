----------------------------- MODULE MCStreams ------------------------------
(* Instances of Streams for TLC. *)
EXTENDS Streams

\* Two cursor columns: a position, and two behind it that differ in the second
\* column or in the first.
Start == <<1, 1>>
TwoKeys == {<<1, 2>>, <<2, 1>>}
BothColumns == {1, 2}
=============================================================================
