------------------------------- MODULE MCDemux ------------------------------
(* Model-checking instance of Demux: bytes to base 32, so that a unit of   *)
(* 33 bytes has a length of two digits, next to an empty and a short one.  *)
EXTENDS Demux

SomeNals == {<<>>, <<2>>, [k \in 1 .. 33 |-> k % 3]}

\* The tag is whole, or ends in its last unit, in a length, after the SPS of a
\* record, or before its last unit, for each of the units.
SomeCuts == {0, 1, 2, 3, 4, 5, 35, 36, 37}

=============================================================================
