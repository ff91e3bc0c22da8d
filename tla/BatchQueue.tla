------------------------------ MODULE BatchQueue ------------------------------
(***************************************************************************)
(* A bounded queue to which the loggers add one buffer at a time and from  *)
(* which a flusher takes everything at once, in the order of the           *)
(* additions.  This is trash/log_buffer_pool.h but for one promise: line   *)
(* 27 says that GetAllBuffers "blocks if none available", and here a       *)
(* collection of the empty queue returns the empty batch, as the code's    *)
(* loop does.                                                              *)
(***************************************************************************)
EXTENDS Naturals, Sequences

CONSTANTS Buffers, Collectors, Capacity

VARIABLES
  queue,    \* buffers in the pool, oldest first
  outside,  \* buffers the clients hold, a running Put's included
  result,   \* the last batch of each collector
  open      \* the pool exists

vars == <<queue, outside, result, open>>

Init ==
  /\ queue = <<>>
  /\ outside = Buffers
  /\ result = [c \in Collectors |-> <<>>]
  /\ open = TRUE

Put(b) ==
  /\ open
  /\ b \in outside
  /\ Len(queue) < Capacity
  /\ queue' = Append(queue, b)
  /\ outside' = outside \ {b}
  /\ UNCHANGED <<result, open>>

GetAllBuffers(c) ==
  /\ open
  /\ result' = [result EXCEPT ![c] = queue]
  /\ outside' = outside \cup {queue[k] : k \in DOMAIN queue}
  /\ queue' = <<>>
  /\ UNCHANGED open

Close ==
  /\ open
  /\ open' = FALSE
  /\ queue' = <<>>
  /\ UNCHANGED <<outside, result>>

Next ==
  \/ \E b \in Buffers : Put(b)
  \/ \E c \in Collectors : GetAllBuffers(c)
  \/ Close

Spec == Init /\ [][Next]_vars

=============================================================================
