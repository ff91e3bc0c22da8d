\* two setters and two waiters; no symmetry with liveness
CONSTANTS
  Setters = {s1, s2}
  Waiters = {w1, w2}
  Statuses = {INVALID, LOGGING, SLEEP}
  INVALID = INVALID
  NULL = NULL
  MaxSets = 3
SPECIFICATION FairSpec
INVARIANTS
  NoLostWakeup
PROPERTIES
  ReturnsInTarget
  WaitEnds
