------------------------------- MODULE MCHost -------------------------------
(* Model-checking instance of Host: small sets of connections and modes.   *)
EXTENDS Host, TLC

\* No definition of Host picks a connection.
Symmetry == Permutations(Conns)

\* Bound: at most this many kinds of disturbance in a behaviour.
MaxFaults == 3

FewFaults == Cardinality(faults) <= MaxFaults

=============================================================================
