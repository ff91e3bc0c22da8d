------------------------- MODULE CircularBufferPool -------------------------
(***************************************************************************)
(* The lock-free ring of log buffers, src/logging/circular_buffer_pool.*.  *)
(* A Put takes a ticket from head_, a Get one from tail_; the slot of a    *)
(* ticket is its index in buffers_.  The slots themselves are plain        *)
(* std::unique_ptr objects: a move assignment reads the old pointer and    *)
(* then stores the new one, a move construction reads the pointer and then *)
(* stores null.  Each of those accesses is a step of its own here, which   *)
(* gives a race on a slot every outcome the -O0 x86 build has.             *)
(*                                                                         *)
(* head and tail count every fetch_add; the 32-bit atomics hold their      *)
(* values modulo CounterMod.                                               *)
(***************************************************************************)
EXTENDS Integers, FiniteSets

CONSTANTS
  Producers,   \* threads that call Put
  Consumers,   \* threads that call Get
  Buffers,     \* the LogBuffer objects in circulation
  NULL,        \* the null pointer
  SizeA,       \* BUFFER_POOL_SIZE is the token sequence "1024 * 8":
  SizeB,       \*   SizeA stands for 1024 and SizeB for 8
  CounterMod,  \* number of values of an unsigned int (2^32)
  MaxTickets   \* bound on the calls of Put, and on those of Get

Size == SizeA * SizeB
Threads == Producers \cup Consumers

(* The masks in the code are right for powers of two only. *)
ASSUME SizeAssumption ==
  /\ SizeA \in Nat \ {0}
  /\ SizeB \in Nat \ {0}
  /\ \E k \in 0..31 : Size = 2^k

(* BUFFER_POOL_SIZE divides 2^32, and is less. *)
ASSUME CounterAssumption ==
  \E k \in 2..CounterMod : CounterMod = k * Size

ASSUME ThreadAssumption ==
  /\ Producers \cap Consumers = {}
  /\ NULL \notin Buffers
  /\ IsFiniteSet(Buffers)
  /\ CounterMod \in Nat \ {0}
  /\ MaxTickets \in Nat

(* What the pool asks of its clients: Gets from one thread, and "enough    *)
(* place for put a buffer".                                                *)
OneConsumer == \A c, d \in Consumers : c = d
EnoughPlace == Cardinality(Buffers) <= Size

VARIABLES
  slots,    \* buffers_
  head,     \* number of tickets taken by Put; head_ = head % CounterMod
  tail,     \* number of tickets taken by Get; tail_ = tail % CounterMod
  pc,       \* next access of each thread
  ticket,   \* result of the thread's fetch_add
  hand,     \* Put: its parameter; Get: the pointer read from the slot
  prev,     \* Put: the pointer the move assignment replaces
  outside,  \* buffers owned by the clients of the pool
  freed,    \* buffers deleted
  leaked,   \* buffers released by the destructor
  alive     \* the pool has not been destroyed

vars == <<slots, head, tail, pc, ticket, hand, prev, outside, freed, leaked,
          alive>>

-----------------------------------------------------------------------------

(* Mutant: the mask used as a modulus. *)
IndexOf_mask(n) == (n % CounterMod) % (Size - 1)

(* GET_BUFFER_POOL_INDEX of the counter that holds n. *)
IndexOf(n) == (n % CounterMod) % Size

SlotOf(t) == IndexOf(ticket[t])

Init ==
  /\ slots = [i \in 0..Size-1 |-> NULL]
  /\ head = 0
  /\ tail = 0
  /\ pc = [t \in Threads |-> "idle"]
  /\ ticket = [t \in Threads |-> 0]
  /\ hand = [t \in Threads |-> NULL]
  /\ prev = [p \in Producers |-> NULL]
  /\ outside = Buffers
  /\ freed = {}
  /\ leaked = {}
  /\ alive = TRUE

Goto(t, from, to) ==
  /\ pc[t] = from
  /\ pc' = [pc EXCEPT ![t] = to]

-----------------------------------------------------------------------------
(* Put(buffer) *)

(* head_.fetch_add(1); the client gives the buffer away. *)
PutClaim(p, b) ==
  /\ alive
  /\ head < MaxTickets
  /\ b \in outside
  /\ Goto(p, "idle", "old")
  /\ ticket' = [ticket EXCEPT ![p] = head]
  /\ head' = head + 1
  /\ hand' = [hand EXCEPT ![p] = b]
  /\ outside' = outside \ {b}
  /\ UNCHANGED <<slots, tail, prev, freed, leaked, alive>>

(* unique_ptr::reset reads the pointer it is about to replace. *)
PutLoadOld(p) ==
  /\ Goto(p, "old", "assign")
  /\ prev' = [prev EXCEPT ![p] = slots[SlotOf(p)]]
  /\ UNCHANGED <<slots, head, tail, ticket, hand, outside, freed, leaked,
                 alive>>

(* Mutant: the index is computed from head_ again after the fetch_add. *)
PutAssign_reread(p) ==
  /\ Goto(p, "assign", "idle")
  /\ slots' = [slots EXCEPT ![IndexOf(head - 1)] = hand[p]]
  /\ freed' = freed \cup ({prev[p]} \ {NULL})
  /\ ticket' = [ticket EXCEPT ![p] = 0]
  /\ hand' = [hand EXCEPT ![p] = NULL]
  /\ prev' = [prev EXCEPT ![p] = NULL]
  /\ UNCHANGED <<head, tail, outside, leaked, alive>>

(* Mutant: the index is not masked. *)
PutAssign_unmasked(p) ==
  /\ Goto(p, "assign", "idle")
  /\ slots' = [i \in DOMAIN slots \cup {ticket[p] % CounterMod} |->
                 IF i = ticket[p] % CounterMod THEN hand[p] ELSE slots[i]]
  /\ freed' = freed \cup ({prev[p]} \ {NULL})
  /\ ticket' = [ticket EXCEPT ![p] = 0]
  /\ hand' = [hand EXCEPT ![p] = NULL]
  /\ prev' = [prev EXCEPT ![p] = NULL]
  /\ UNCHANGED <<head, tail, outside, leaked, alive>>

(* It stores the new pointer and deletes the old one, if there is one. *)
PutAssign(p) ==
  /\ Goto(p, "assign", "idle")
  /\ slots' = [slots EXCEPT ![SlotOf(p)] = hand[p]]
  /\ freed' = freed \cup ({prev[p]} \ {NULL})
  /\ ticket' = [ticket EXCEPT ![p] = 0]
  /\ hand' = [hand EXCEPT ![p] = NULL]
  /\ prev' = [prev EXCEPT ![p] = NULL]
  /\ UNCHANGED <<head, tail, outside, leaked, alive>>

-----------------------------------------------------------------------------
(* Get() *)

(* Mutant: tail_ is loaded, not incremented. *)
GetClaim_load(c) ==
  /\ alive
  /\ Goto(c, "idle", "spin")
  /\ ticket' = [ticket EXCEPT ![c] = tail]
  /\ UNCHANGED <<slots, head, tail, hand, prev, outside, freed, leaked, alive>>

(* tail_.fetch_add(1) *)
GetClaim(c) ==
  /\ alive
  /\ tail < MaxTickets
  /\ Goto(c, "idle", "spin")
  /\ ticket' = [ticket EXCEPT ![c] = tail]
  /\ tail' = tail + 1
  /\ UNCHANGED <<slots, head, hand, prev, outside, freed, leaked, alive>>

(* Mutant: no loop. *)
GetSee_noSpin(c) ==
  /\ Goto(c, "spin", "load")
  /\ UNCHANGED <<slots, head, tail, ticket, hand, prev, outside, freed,
                 leaked, alive>>

(* The loop ends at the first read of the slot that is not null; reads    *)
(* that find null change nothing.                                         *)
GetSee(c) ==
  /\ slots[SlotOf(c)] # NULL
  /\ Goto(c, "spin", "load")
  /\ UNCHANGED <<slots, head, tail, ticket, hand, prev, outside, freed,
                 leaked, alive>>

(* The move construction reads the pointer ... *)
GetLoad(c) ==
  /\ Goto(c, "load", "clear")
  /\ hand' = [hand EXCEPT ![c] = slots[SlotOf(c)]]
  /\ UNCHANGED <<slots, head, tail, ticket, prev, outside, freed, leaked,
                 alive>>

(* Mutant: the pointer is copied, not moved. *)
GetClear_copy(c) ==
  /\ Goto(c, "clear", "idle")
  /\ outside' = outside \cup ({hand[c]} \ {NULL})
  /\ ticket' = [ticket EXCEPT ![c] = 0]
  /\ hand' = [hand EXCEPT ![c] = NULL]
  /\ UNCHANGED <<slots, head, tail, prev, freed, leaked, alive>>

(* ... and stores null; the caller owns what was read. *)
GetClear(c) ==
  /\ Goto(c, "clear", "idle")
  /\ slots' = [slots EXCEPT ![SlotOf(c)] = NULL]
  /\ outside' = outside \cup ({hand[c]} \ {NULL})
  /\ ticket' = [ticket EXCEPT ![c] = 0]
  /\ hand' = [hand EXCEPT ![c] = NULL]
  /\ UNCHANGED <<head, tail, prev, freed, leaked, alive>>

-----------------------------------------------------------------------------

(* Mutant: a full pool is not distinguished from an empty one. *)
GetSize_noFull(h, t) ==
  ((IndexOf(h) - IndexOf(t) + SizeA * SizeB) % SizeA) * SizeB

(* GetSize() on the two loaded counters.  The macro text is substituted    *)
(* without parentheses: "% BUFFER_POOL_SIZE" is "% 1024 * 8".              *)
GetSize(h, t) ==
  LET size == IndexOf(h) - IndexOf(t)
  IN  IF size = 0 /\ (h - t) % CounterMod > 0
      THEN SizeA * SizeB
      ELSE ((size + SizeA * SizeB) % SizeA) * SizeB

(* The buffers the slots of S own. *)
Owned(S) == {slots[i] : i \in S} \ {NULL}

(* The indices the destructor's loop visits. *)
ReleasedSlots == {i \in 0..Size-1 : IndexOf(tail) <= i /\ i < IndexOf(head)}

(* ~CircularBufferPool: the loop releases the slots it visits, which gives *)
(* up their buffers undeleted; the array's destructor then deletes what    *)
(* the other slots own.  Callers destroy a pool nobody is using.           *)
Destroy ==
  /\ alive
  /\ \A t \in Threads : pc[t] = "idle"
  /\ alive' = FALSE
  /\ leaked' = leaked \cup Owned(ReleasedSlots)
  /\ freed' = freed \cup Owned((0..Size-1) \ ReleasedSlots)
  /\ slots' = [i \in 0..Size-1 |-> NULL]
  /\ UNCHANGED <<head, tail, pc, ticket, hand, prev, outside>>

-----------------------------------------------------------------------------

Producer(p) ==
  \/ \E b \in Buffers : PutClaim(p, b)
  \/ PutLoadOld(p)
  \/ PutAssign(p)

Consumer(c) ==
  \/ GetClaim(c)
  \/ GetSee(c)
  \/ GetLoad(c)
  \/ GetClear(c)

Next ==
  \/ \E p \in Producers : Producer(p)
  \/ \E c \in Consumers : Consumer(c)
  \/ Destroy

Spec == Init /\ [][Next]_vars

(* A thread inside a call keeps running; nobody has to make a call. *)
Fairness ==
  /\ \A p \in Producers : WF_vars(PutLoadOld(p) \/ PutAssign(p))
  /\ \A c \in Consumers : WF_vars(GetSee(c) \/ GetLoad(c) \/ GetClear(c))

FairSpec == Spec /\ Fairness

-----------------------------------------------------------------------------
(* Properties.  The safety properties and the refinement hold when the     *)
(* pool has one consumer thread and no more buffers than slots; the two    *)
(* assumptions of Put ("assume enough place for put a buffer").            *)

TypeOK ==
  /\ slots \in [0..Size-1 -> Buffers \cup {NULL}]
  /\ head \in 0..MaxTickets
  /\ tail \in 0..MaxTickets
  /\ pc \in [Threads -> {"idle", "old", "assign", "spin", "load", "clear"}]
  /\ \A p \in Producers : pc[p] \in {"idle", "old", "assign"}
  /\ \A c \in Consumers : pc[c] \in {"idle", "spin", "load", "clear"}
  /\ ticket \in [Threads -> 0..MaxTickets]
  /\ hand \in [Threads -> Buffers \cup {NULL}]
  /\ prev \in [Producers -> Buffers \cup {NULL}]
  /\ outside \subseteq Buffers
  /\ freed \subseteq Buffers
  /\ leaked \subseteq Buffers
  /\ alive \in BOOLEAN

(* A Put never replaces a buffer that is still queued: the slot of its     *)
(* ticket is empty when the assignment reads it and when it writes it.     *)
PutNeverOverwrites ==
  \A p \in Producers :
    /\ pc[p] \in {"old", "assign"} => slots[SlotOf(p)] = NULL
    /\ prev[p] = NULL

(* Whatever the interleaving, every buffer is with a client, in a slot, or *)
(* in the hand of a running Put; only the destructor gives buffers up.     *)
NoLostBuffer ==
  \A b \in Buffers :
    \/ b \in outside
    \/ \E i \in 0..Size-1 : slots[i] = b
    \/ \E p \in Producers : hand[p] = b
    \/ ~alive /\ b \in freed \cup leaked

(* A unique_ptr really is unique: no buffer is in two slots, in a slot and *)
(* in the hand of a Put, in the hands of two threads, or with a client     *)
(* while the pool can still hand it out or delete it.  The slot a Get has  *)
(* read and is about to clear is the one copy allowed.                     *)
NoSharedBuffer ==
  /\ \A i, j \in 0..Size-1 : slots[i] = slots[j] /\ slots[i] # NULL => i = j
  /\ \A t, u \in Threads : hand[t] = hand[u] /\ hand[t] # NULL => t = u
  /\ \A p \in Producers, i \in 0..Size-1 : slots[i] = hand[p] => slots[i] = NULL
  /\ \A c \in Consumers : pc[c] = "clear" => slots[SlotOf(c)] = hand[c]
  /\ \A t \in Threads : hand[t] \notin outside
  /\ \A i \in 0..Size-1 : slots[i] \notin outside
  /\ outside \cap (freed \cup leaked) = {}

(* The oldest ticket no Get has finished with, when there is one consumer. *)
Oldest == IF \E c \in Consumers : pc[c] # "idle" THEN tail - 1 ELSE tail

Busy(t) == pc[t] # "idle"

(* The tickets of the buffers that have been put and not yet been got.     *)
Window == Oldest..head-1

(* There is one buffer away from the clients for each ticket of the        *)
(* window; so, with no more buffers than slots, the window fits the ring   *)
(* and its tickets have different slots.                                   *)
TicketInv ==
  /\ Oldest \in 0..head
  /\ Cardinality(Buffers \ outside) = head - Oldest

(* A running Put holds a ticket of the window that nobody else holds, and  *)
(* the slot of that ticket is empty.                                       *)
PutInv ==
  \A p \in Producers :
    /\ ~Busy(p) => hand[p] = NULL
    /\ Busy(p) =>
         /\ ticket[p] \in Window
         /\ hand[p] # NULL
         /\ slots[SlotOf(p)] = NULL
         /\ \A q \in Producers : Busy(q) /\ ticket[q] = ticket[p] => q = p
    /\ prev[p] = NULL

(* Every buffer in a slot has a ticket of the window. *)
SlotInv ==
  \A i \in 0..Size-1 : slots[i] # NULL => \E n \in Window : i = IndexOf(n)

(* A running Get holds the oldest ticket, and the slot it has seen full    *)
(* stays full until it clears it.                                          *)
GetInv ==
  \A c \in Consumers :
    /\ Busy(c) => ticket[c] = Oldest
    /\ pc[c] \in {"load", "clear"} => slots[SlotOf(c)] # NULL
    /\ pc[c] = "clear" => hand[c] = slots[SlotOf(c)]
    /\ pc[c] # "clear" => hand[c] = NULL

(* Only the destructor gives buffers up, and it ends the pool. *)
LifeInv ==
  /\ alive => freed = {} /\ leaked = {}
  /\ ~alive => \A t \in Threads : ~Busy(t)

(* The inductive invariant of a pool with one consumer and no more buffers *)
(* than slots.                                                             *)
RingInv ==
  /\ TicketInv
  /\ PutInv
  /\ SlotInv
  /\ GetInv
  /\ LifeInv

(* The buffer of ticket t, stored already or in the hand of its Put.       *)
BufferOf(t) ==
  IF \E p \in Producers : pc[p] # "idle" /\ ticket[p] = t
  THEN hand[CHOOSE p \in Producers : pc[p] # "idle" /\ ticket[p] = t]
  ELSE slots[IndexOf(t)]

(* The buffers of the window, oldest first. *)
PoolQueue ==
  IF alive THEN [k \in 1..(head - Oldest) |-> BufferOf(Oldest + k - 1)] ELSE <<>>

(* The pool implements the bounded queue of its comments: a Put takes      *)
(* effect at its fetch_add, a Get when it clears the slot.                 *)
Queue == INSTANCE BufferQueue WITH
  Capacity <- Size,
  queue <- PoolQueue,
  open <- alive

IsQueue == Queue!Spec

(* A Get whose ticket has been given to a Put ends: "blocks if none        *)
(* available" and only then.                                               *)
GetReturns ==
  \A c \in Consumers, k \in 0..MaxTickets :
    (pc[c] # "idle" /\ ticket[c] = k /\ k < head) ~> (pc[c] = "idle")

(* A Get never returns a null pointer: "blocks if none available".         *)
GetNeverNull == \A c \in Consumers : pc[c] = "clear" => hand[c] # NULL

(* The number of buffers in the slots. *)
Available == Cardinality({i \in 0..Size-1 : slots[i] # NULL})

Quiescent == alive /\ \A t \in Threads : pc[t] = "idle"

(* When no call is running, GetSize tells a full pool from every other     *)
(* one, and an empty pool reports 0.                                       *)
FullAndEmptySize ==
  Quiescent =>
    /\ GetSize(head, tail) = Size <=> Available = Size
    /\ Available = 0 => GetSize(head, tail) = 0

(* When no call is running, GetSize is "the number of buffers available".  *)
QuiescentSize == Quiescent => GetSize(head, tail) = Available

(* The destructor frees every buffer the pool still owns.                  *)
NoLeak == leaked = {}

=============================================================================
