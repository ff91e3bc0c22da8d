\* two threads, more files than threads and places, every kind of file
\* that does not hold main up; no symmetry with liveness
CONSTANTS
  Workers = {w1, w2}
  NumFiles = 3
  Kinds = {"clean", "failing", "third_party", "undecodable"}
SPECIFICATION FairSpec
INVARIANTS
  TypeOK
  FailureReported
  NobodyWrites
  TasksCounted
  TmpdirRemoved
PROPERTIES
  RunEnds
\* main ends, or waits for a thread that has died
CHECK_DEADLOCK FALSE
