---------------------------- MODULE MCConnections ----------------------------
(* Connections for TLC: connection threads and inputs are interchangeable. *)
EXTENDS Connections, TLC

Symmetry == Permutations(Conns) \cup Permutations(Inputs)

=============================================================================
