\* two producers, one consumer, as many buffers as slots; the tickets pass
\* the wrap of the counters (8) and of the ring (4)
CONSTANTS
  Producers = {p1, p2}
  Consumers = {c1}
  Buffers = {b1, b2, b3, b4}
  NULL = NULL
  SizeA = 2
  SizeB = 2
  CounterMod = 8
  MaxTickets = 9
SPECIFICATION FairSpec
INVARIANTS
  TypeOK
  PutNeverOverwrites
  NoLostBuffer
  NoSharedBuffer
  GetNeverNull
  FullAndEmptySize
PROPERTIES
  IsQueue
  GetReturns
\* the ticket bound and the destructor end every behaviour
CHECK_DEADLOCK FALSE
