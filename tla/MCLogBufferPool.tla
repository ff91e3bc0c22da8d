--------------------------- MODULE MCLogBufferPool ---------------------------
(* Instances of LogBufferPool for TLC. *)
EXTENDS LogBufferPool

=============================================================================
