--------------------------- MODULE MCRunClangTidy ---------------------------
(* Instances of RunClangTidy for TLC. *)
EXTENDS RunClangTidy, TLC

=============================================================================
