------------------------ MODULE MCCircularBufferPool ------------------------
(* Instances of CircularBufferPool for TLC. *)
EXTENDS CircularBufferPool, TLC

=============================================================================
