---------------------------- MODULE LogBufferPool ----------------------------
(***************************************************************************)
(* The mutex-protected pool of trash/log_buffer_pool.*: Put checks the     *)
(* size before it takes the latch, GetAllBuffers empties the pool under    *)
(* the latch.  A lock is merged with the first access made under it, and   *)
(* an unlock with the last: nothing else reads what the latch protects.    *)
(***************************************************************************)
EXTENDS Naturals, Sequences, FiniteSets

CONSTANTS
  Producers,   \* threads that call Put
  Collectors,  \* threads that call GetAllBuffers
  Buffers,     \* the LogBuffer objects
  NULL,
  Capacity     \* BUFFER_POOL_SIZE

Threads == Producers \cup Collectors

ASSUME PoolAssumption ==
  /\ Capacity \in Nat \ {0}
  /\ Producers \cap Collectors = {}
  /\ NULL \notin Buffers \cup Threads

VARIABLES
  slots,    \* buffers_
  size,     \* size_
  latch,    \* holder of latch_, or NULL
  pc,       \* next access of each thread
  idx,      \* Put: current_idx; GetAllBuffers: i
  hand,     \* the parameter of a running Put
  batch,    \* buffer_queue of a running GetAllBuffers
  result,   \* the last buffer_queue returned
  outside,  \* buffers owned by the clients
  leaked,   \* buffers released by the destructor
  alive     \* the pool has not been destroyed

vars == <<slots, size, latch, pc, idx, hand, batch, result, outside, leaked,
          alive>>

-----------------------------------------------------------------------------

Init ==
  /\ slots = [i \in 0..Capacity-1 |-> NULL]
  /\ size = 0
  /\ latch = NULL
  /\ pc = [t \in Threads |-> "idle"]
  /\ idx = [t \in Threads |-> 0]
  /\ hand = [p \in Producers |-> NULL]
  /\ batch = [c \in Collectors |-> <<>>]
  /\ result = [c \in Collectors |-> <<>>]
  /\ outside = Buffers
  /\ leaked = {}
  /\ alive = TRUE

Goto(t, from, to) ==
  /\ pc[t] = from
  /\ pc' = [pc EXCEPT ![t] = to]

(* A call of Put gives the buffer away. *)
PutCall(p, b) ==
  /\ alive
  /\ b \in outside
  /\ Goto(p, "idle", "check")
  /\ hand' = [hand EXCEPT ![p] = b]
  /\ outside' = outside \ {b}
  /\ UNCHANGED <<slots, size, latch, idx, batch, result, leaked, alive>>

(* Mutant: the loop ends at "size_.load() <= capacity_". *)
PutCheck_le(p) ==
  /\ size <= Capacity
  /\ Goto(p, "check", "claim")
  /\ UNCHANGED <<slots, size, latch, idx, hand, batch, result, outside, leaked,
                 alive>>

(* The loop ends at the first load of size_ below capacity_. *)
PutCheck(p) ==
  /\ size < Capacity
  /\ Goto(p, "check", "claim")
  /\ UNCHANGED <<slots, size, latch, idx, hand, batch, result, outside, leaked,
                 alive>>

(* latch_.lock(); size_.fetch_add(1) *)
PutClaim(p) ==
  /\ latch = NULL
  /\ Goto(p, "claim", "store")
  /\ latch' = p
  /\ idx' = [idx EXCEPT ![p] = size]
  /\ size' = size + 1
  /\ UNCHANGED <<slots, hand, batch, result, outside, leaked, alive>>

(* Mutant: the slot is computed from size_ after the increment. *)
PutStore_pre(p) ==
  /\ size < Capacity
  /\ Goto(p, "store", "idle")
  /\ slots' = [slots EXCEPT ![size] = hand[p]]
  /\ latch' = NULL
  /\ idx' = [idx EXCEPT ![p] = 0]
  /\ hand' = [hand EXCEPT ![p] = NULL]
  /\ UNCHANGED <<size, batch, result, outside, leaked, alive>>

(* buffers_[current_idx] = std::move(buffer); latch_.unlock()             *)
(* A store behind the array is undefined: the model goes no further.       *)
PutStore(p) ==
  /\ idx[p] < Capacity
  /\ Goto(p, "store", "idle")
  /\ slots' = [slots EXCEPT ![idx[p]] = hand[p]]
  /\ latch' = NULL
  /\ idx' = [idx EXCEPT ![p] = 0]
  /\ hand' = [hand EXCEPT ![p] = NULL]
  /\ UNCHANGED <<size, batch, result, outside, leaked, alive>>

(* GetAllBuffers: latch_.lock() and the loop over the size_ of each round. *)
GetAllLock(c) ==
  /\ alive
  /\ latch = NULL
  /\ Goto(c, "idle", "move")
  /\ latch' = c
  /\ UNCHANGED <<slots, size, idx, hand, batch, result, outside, leaked, alive>>

GetAllMove(c) ==
  /\ pc[c] = "move"
  /\ idx[c] < size
  /\ batch' = [batch EXCEPT ![c] = Append(@, slots[idx[c]])]
  /\ slots' = [slots EXCEPT ![idx[c]] = NULL]
  /\ idx' = [idx EXCEPT ![c] = @ + 1]
  /\ UNCHANGED <<size, latch, pc, hand, result, outside, leaked, alive>>

(* Mutant: size_ is not reset. *)
GetAllReset_keep(c) ==
  /\ idx[c] >= size
  /\ Goto(c, "move", "idle")
  /\ latch' = NULL
  /\ idx' = [idx EXCEPT ![c] = 0]
  /\ result' = [result EXCEPT ![c] = batch[c]]
  /\ outside' = outside \cup {batch[c][k] : k \in DOMAIN batch[c]}
  /\ batch' = [batch EXCEPT ![c] = <<>>]
  /\ UNCHANGED <<slots, size, hand, leaked, alive>>

(* size_.exchange(0); latch_.unlock() *)
GetAllReset(c) ==
  /\ idx[c] >= size
  /\ Goto(c, "move", "idle")
  /\ size' = 0
  /\ latch' = NULL
  /\ idx' = [idx EXCEPT ![c] = 0]
  /\ result' = [result EXCEPT ![c] = batch[c]]
  /\ outside' = outside \cup {batch[c][k] : k \in DOMAIN batch[c]}
  /\ batch' = [batch EXCEPT ![c] = <<>>]
  /\ UNCHANGED <<slots, hand, leaked, alive>>

(* ~LogBufferPool releases the slots below size_, undeleted. *)
Destroy ==
  /\ alive
  /\ \A t \in Threads : pc[t] = "idle"
  /\ alive' = FALSE
  /\ leaked' = {slots[i] : i \in 0..size-1}
  /\ slots' = [i \in 0..Capacity-1 |-> NULL]
  /\ UNCHANGED <<size, latch, pc, idx, hand, batch, result, outside>>

-----------------------------------------------------------------------------

Put(p) ==
  \/ \E b \in Buffers : PutCall(p, b)
  \/ PutCheck(p)
  \/ PutClaim(p)
  \/ PutStore(p)

GetAllBuffers(c) ==
  \/ GetAllLock(c)
  \/ GetAllMove(c)
  \/ GetAllReset(c)

Next ==
  \/ \E p \in Producers : Put(p)
  \/ \E c \in Collectors : GetAllBuffers(c)
  \/ Destroy

Spec == Init /\ [][Next]_vars

(* The flusher collects in a loop as long as the pool exists, and sleeps   *)
(* between two rounds, so that a logger that waits for the latch gets it.  *)
(* A full pool with running Puts is not destroyed.                         *)
FairSpec ==
  /\ Spec
  /\ \A p \in Producers :
       WF_vars(PutCheck(p)) /\ SF_vars(PutClaim(p)) /\ WF_vars(PutStore(p))
  /\ \A c \in Collectors : WF_vars(GetAllBuffers(c))

-----------------------------------------------------------------------------

(* A Put stores inside the array: between its check of size_ and its       *)
(* fetch_add nobody else takes the last place.                             *)
PutInBounds ==
  \A p \in Producers : pc[p] = "store" => idx[p] < Capacity

(* The owners of a buffer: clients, slots, running Puts and the places of  *)
(* running batches.                                                        *)
Owners(b) ==
  {<<"clients", o>> : o \in outside \cap {b}}
    \cup {<<"destructor", l>> : l \in leaked \cap {b}}
    \cup {<<"slot", i>> : i \in {j \in 0..Capacity-1 : slots[j] = b}}
    \cup {<<"put", p>> : p \in {q \in Producers : hand[q] = b}}
    \cup UNION {{<<"batch", <<c, k>> >> : k \in {l \in DOMAIN batch[c] : batch[c][l] = b}}
                 : c \in Collectors}

(* No buffer is lost, and none has two owners. *)
BufferConserved == \A b \in Buffers : Cardinality(Owners(b)) = 1

(* What is in the pool: the part of it that a running GetAllBuffers has    *)
(* moved out, and the slots stored and not moved.                          *)
Stored == IF \E p \in Producers : pc[p] = "store" THEN size - 1 ELSE size
Moved == IF \E c \in Collectors : pc[c] = "move"
         THEN batch[CHOOSE c \in Collectors : pc[c] = "move"] ELSE <<>>

PoolQueue ==
  IF alive THEN Moved \o [k \in 1..(Stored - Len(Moved)) |-> slots[Len(Moved) + k - 1]]
           ELSE <<>>

(* A buffer that a running Put holds is not in the queue yet. *)
ClientBuffers == outside \cup ({hand[p] : p \in Producers} \ {NULL})

Queue == INSTANCE BatchQueue WITH
  queue <- PoolQueue,
  outside <- ClientBuffers,
  open <- alive

(* The pool implements the queue: a Put takes effect when it stores, a     *)
(* GetAllBuffers when it resets size_.  The queue lets a collection find   *)
(* nothing and return at once, for GetAllBuffers never blocks, although    *)
(* log_buffer_pool.h:27 says that it does "if none available".             *)
IsQueue == Queue!Spec

(* A Put that waits for place ends, as the flusher keeps collecting.       *)
PutReturns ==
  \A p \in Producers : (pc[p] = "check") ~> (pc[p] = "idle")

=============================================================================
