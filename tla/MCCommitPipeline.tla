-------------------------- MODULE MCCommitPipeline --------------------------
(* Instances of CommitPipeline for TLC. *)
EXTENDS CommitPipeline, TLC

=============================================================================
