\* transactions of several records, and the logging mode may end
CONSTANTS
  Loggers = {l1, l2}
  Positions = {"NORMAL", "COMMIT"}
  GarbageIds = FALSE
  MayStop = TRUE
  MaxTxn = 2
SPECIFICATION FairSpec
INVARIANTS
  NoLostFlushWakeup
  AckedCollected
  FinalFlush
PROPERTIES
  CommitReturns
\* MainLoop ends, and the transactions are bounded
CHECK_DEADLOCK FALSE
