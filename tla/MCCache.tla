------------------------------- MODULE MCCache -------------------------------
(* Instances of Cache for TLC. *)
EXTENDS Cache, TLC

Symmetry == Permutations(Nodes)

=============================================================================
