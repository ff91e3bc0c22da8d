--------------------------- MODULE MCLoggingStatus ---------------------------
(* Instances of LoggingStatus for TLC. *)
EXTENDS LoggingStatus

=============================================================================
