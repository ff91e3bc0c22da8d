-------------------------- MODULE MCRunClangFormat --------------------------
(* Instances of RunClangFormat for TLC. *)
EXTENDS RunClangFormat, TLC

=============================================================================
