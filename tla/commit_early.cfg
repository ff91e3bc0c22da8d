\* transactions of one record
CONSTANTS
  Loggers = {l1}
  Positions = {"COMMIT"}
  GarbageIds = FALSE
  MayStop = FALSE
  MaxTxn = 2
SPECIFICATION Spec
INVARIANTS
  CommitDurable
