----------------------------- MODULE BufferQueue -----------------------------
(***************************************************************************)
(* What a pool of log buffers promises its clients, after the comments of  *)
(* src/logging/circular_buffer_pool.h: a bounded first-in first-out queue. *)
(* Put "blocks if over capacity", Get "blocks if none available", and the  *)
(* buffers a client does not hold are exactly those in the queue.          *)
(***************************************************************************)
EXTENDS Naturals, Sequences

CONSTANTS Buffers, Capacity

VARIABLES
  queue,    \* buffers in the pool, oldest first
  outside,  \* buffers owned by the clients
  open      \* the pool exists

vars == <<queue, outside, open>>

Init ==
  /\ queue = <<>>
  /\ outside = Buffers
  /\ open = TRUE

Put(b) ==
  /\ open
  /\ b \in outside
  /\ Len(queue) < Capacity
  /\ queue' = Append(queue, b)
  /\ outside' = outside \ {b}
  /\ UNCHANGED open

Get ==
  /\ open
  /\ queue # <<>>
  /\ queue' = Tail(queue)
  /\ outside' = outside \cup {Head(queue)}
  /\ UNCHANGED open

Close ==
  /\ open
  /\ open' = FALSE
  /\ queue' = <<>>
  /\ UNCHANGED outside

Next == Get \/ Close \/ \E b \in Buffers : Put(b)

Spec == Init /\ [][Next]_vars

=============================================================================
