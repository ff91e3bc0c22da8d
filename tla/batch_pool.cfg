\* one logger and two collectors, one buffer more than places; no symmetry
\* with liveness
CONSTANTS
  Producers = {p1}
  Collectors = {c1, c2}
  Buffers = {b1, b2, b3}
  NULL = NULL
  Capacity = 2
SPECIFICATION FairSpec
INVARIANTS
  PutInBounds
  BufferConserved
PROPERTIES
  IsQueue
  PutReturns
\* the destructor ends every behaviour
CHECK_DEADLOCK FALSE
