----------------------- MODULE CircularBufferPoolProofs -----------------------
(***************************************************************************)
(* Proofs about CircularBufferPool.  TypeOK holds of every pool.  The      *)
(* other invariants hold under OneConsumer and EnoughPlace, and follow     *)
(* from RingInv, which is inductive together with TypeOK and with the two  *)
(* invariants about the owners of a buffer.                                *)
(***************************************************************************)
EXTENDS CircularBufferPool, FiniteSetTheorems, FunctionTheorems,
        SequenceTheorems, TLAPS

-----------------------------------------------------------------------------
(* Facts about the remainder that a ring buffer rests on: what its index   *)
(* operator returns, that the wrap of the counter does not disturb it, and *)
(* that numbers less than one turn apart have different indices.           *)

(* The remainder of a division is an index. *)
LEMMA ModInRange ==
  ASSUME NEW n \in Nat, NEW s \in Nat \ {0}
  PROVE  n % s \in 0..s-1
OBVIOUS

(* Every natural number is a quotient and a remainder. *)
LEMMA DivMod ==
  ASSUME NEW n \in Nat, NEW s \in Nat \ {0}
  PROVE  \E q \in Nat, r \in 0..s-1 : n = s * q + r /\ r = n % s
<1>1. n \div s \in Nat /\ n = s * (n \div s) + (n % s)
  OBVIOUS
<1> QED
  BY <1>1, ModInRange

(* The remainder is unique. *)
LEMMA RemainderUnique ==
  ASSUME NEW s \in Nat \ {0},
         NEW q1 \in Int, NEW q2 \in Int,
         NEW r1 \in 0..s-1, NEW r2 \in 0..s-1,
         s * q1 + r1 = s * q2 + r2
  PROVE  r1 = r2
<1>1. CASE q1 < q2
  <2>1. s * q2 >= s * (q1 + 1)
    BY <1>1
  <2>2. s * (q1 + 1) = s * q1 + s
    OBVIOUS
  <2> QED
    BY <2>1, <2>2
<1>2. CASE q2 < q1
  <2>1. s * q1 >= s * (q2 + 1)
    BY <1>2
  <2>2. s * (q2 + 1) = s * q2 + s
    OBVIOUS
  <2> QED
    BY <2>1, <2>2
<1>3. CASE q1 = q2
  BY <1>3
<1> QED
  BY <1>1, <1>2, <1>3

(* A quotient by a multiple of s, regrouped as a quotient by s. *)
LEMMA Regroup ==
  ASSUME NEW s \in Nat, NEW k \in Nat, NEW q \in Nat, NEW e \in Nat, NEW u \in Nat
  PROVE  (k * s) * q + (s * e + u) = s * (k * q + e) + u
<1>1. (k * s) * q = s * (k * q)
  OBVIOUS
<1>2. s * (k * q + e) = s * (k * q) + s * e
  OBVIOUS
<1> QED
  BY <1>1, <1>2

(* A counter that wraps at a multiple of the ring's size yields the same   *)
(* index as one that does not wrap.                                        *)
LEMMA ModMod ==
  ASSUME NEW s \in Nat \ {0}, NEW k \in Nat \ {0}, k * s \in Nat \ {0}, NEW n \in Nat
  PROVE  (n % (k * s)) % s = n % s
<1>1. PICK q \in Nat, r \in 0..(k * s)-1 : n = (k * s) * q + r /\ r = n % (k * s)
  BY DivMod
<1>2. r \in Nat
  BY <1>1
<1>3. PICK e \in Nat, u \in 0..s-1 : r = s * e + u /\ u = r % s
  BY <1>2, DivMod
<1>4. PICK f \in Nat, v \in 0..s-1 : n = s * f + v /\ v = n % s
  BY DivMod
<1>5. s * (k * q + e) + u = s * f + v
  <2>1. (k * s) * q + (s * e + u) = s * (k * q + e) + u
    BY Regroup
  <2>2. n = (k * s) * q + (s * e + u) /\ n = s * f + v
    BY <1>1, <1>3, <1>4, Zenon
  <2> QED
    BY <2>1, <2>2, Zenon
<1>6. k * q + e \in Int
  OBVIOUS
<1>7. u = v
  BY <1>5, <1>6, RemainderUnique
<1> QED
  BY <1>7, <1>1, <1>3, <1>4

(* Numbers less than one turn apart that have the same index are equal. *)
LEMMA SameIndex ==
  ASSUME NEW s \in Nat \ {0}, NEW a \in Nat, NEW b \in Nat,
         a % s = b % s, a - b < s, b - a < s
  PROVE  a = b
<1>1. PICK q \in Nat, r \in 0..s-1 : a = s * q + r /\ r = a % s
  BY DivMod
<1>2. PICK p \in Nat, u \in 0..s-1 : b = s * p + u /\ u = b % s
  BY DivMod
<1>3. a - b = s * (q - p) /\ b - a = s * (p - q)
  <2>1. s * (q - p) = s * q - s * p /\ s * (p - q) = s * p - s * q
    OBVIOUS
  <2> QED
    BY <2>1, <1>1, <1>2
<1>4. CASE q > p
  <2>1. s * (q - p) >= s
    BY <1>4
  <2> QED
    BY <2>1, <1>3
<1>5. CASE q < p
  <2>1. s * (p - q) >= s
    BY <1>5
  <2> QED
    BY <2>1, <1>3
<1>6. CASE q = p
  BY <1>6, <1>1, <1>2
<1> QED
  BY <1>4, <1>5, <1>6

-----------------------------------------------------------------------------

(* The ring has at least one slot. *)
LEMMA SizePositive == Size \in Nat \ {0}
BY SizeAssumption DEF Size

(* Every ticket has a slot. *)
LEMMA IndexInRange ==
  ASSUME NEW n \in Nat
  PROVE  IndexOf(n) \in 0..Size-1
<1>1. n % CounterMod \in Nat
  BY ModInRange, ThreadAssumption
<1> QED
  BY <1>1, ModInRange, SizePositive DEF IndexOf

(* Tickets less than one turn apart have different slots, even when the    *)
(* counter wraps between them.                                             *)
LEMMA IndexInjective ==
  ASSUME NEW a \in Nat, NEW b \in Nat,
         a - b < Size, b - a < Size, IndexOf(a) = IndexOf(b)
  PROVE  a = b
<1>1. PICK k \in 2..CounterMod : CounterMod = k * Size
  BY CounterAssumption
<1>2. k \in Nat \ {0} /\ k * Size \in Nat \ {0}
  BY <1>1, ThreadAssumption
<1>3. IndexOf(a) = a % Size /\ IndexOf(b) = b % Size
  <2>1. \A n \in Nat : (n % (k * Size)) % Size = n % Size
    BY <1>2, ModMod, SizePositive
  <2> QED
    BY <2>1, <1>1 DEF IndexOf
<1> QED
  BY <1>3, SameIndex, SizePositive

-----------------------------------------------------------------------------

(* Every step keeps the types. *)
LEMMA TypeStep == TypeOK /\ [Next]_vars => TypeOK'
<1> SUFFICES ASSUME TypeOK, [Next]_vars
             PROVE  TypeOK'
  OBVIOUS
<1> USE DEF TypeOK, Goto
<1>0. 0 \in 0..MaxTickets
  BY ThreadAssumption
<1>1. \A t \in Threads : SlotOf(t) \in 0..Size-1
  <2>1. \A t \in Threads : ticket[t] \in Nat
    BY ThreadAssumption
  <2> QED
    BY <2>1, IndexInRange DEF SlotOf
<1>2. ASSUME NEW p \in Producers, NEW b \in Buffers, PutClaim(p, b)
      PROVE  TypeOK'
  BY <1>2, ThreadAssumption DEF PutClaim, Threads
<1>3. ASSUME NEW p \in Producers, PutLoadOld(p)
      PROVE  TypeOK'
  BY <1>3, <1>1 DEF PutLoadOld, Threads
<1>4. ASSUME NEW p \in Producers, PutAssign(p)
      PROVE  TypeOK'
  <2>1. hand[p] \in Buffers \cup {NULL} /\ prev[p] \in Buffers \cup {NULL}
    BY DEF Threads
  <2>2. slots' \in [0..Size-1 -> Buffers \cup {NULL}] /\ freed' \subseteq Buffers
    BY <1>4, <2>1 DEF PutAssign
  <2>3. ticket' \in [Threads -> 0..MaxTickets]
    BY <1>4, <1>0 DEF PutAssign
  <2>4. /\ hand' \in [Threads -> Buffers \cup {NULL}]
        /\ prev' \in [Producers -> Buffers \cup {NULL}]
    BY <1>4 DEF PutAssign
  <2> QED
    BY <1>4, <2>2, <2>3, <2>4, ThreadAssumption DEF PutAssign, Threads
<1>5. ASSUME NEW c \in Consumers, GetClaim(c)
      PROVE  TypeOK'
  BY <1>5, ThreadAssumption DEF GetClaim, Threads
<1>6. ASSUME NEW c \in Consumers, GetSee(c)
      PROVE  TypeOK'
  BY <1>6, ThreadAssumption DEF GetSee, Threads
<1>7. ASSUME NEW c \in Consumers, GetLoad(c)
      PROVE  TypeOK'
  BY <1>7, <1>1, ThreadAssumption DEF GetLoad, Threads
<1>8. ASSUME NEW c \in Consumers, GetClear(c)
      PROVE  TypeOK'
  <2>1. hand[c] \in Buffers \cup {NULL}
    BY DEF Threads
  <2>2. slots' \in [0..Size-1 -> Buffers \cup {NULL}] /\ outside' \subseteq Buffers
    BY <1>8, <2>1 DEF GetClear
  <2>3. ticket' \in [Threads -> 0..MaxTickets]
    BY <1>8, <1>0 DEF GetClear
  <2>4. hand' \in [Threads -> Buffers \cup {NULL}]
    BY <1>8 DEF GetClear
  <2> QED
    BY <1>8, <2>2, <2>3, <2>4, ThreadAssumption DEF GetClear, Threads
<1>9. CASE Destroy
  BY <1>9 DEF Destroy, Owned, ReleasedSlots
<1>10. CASE UNCHANGED vars
  BY <1>10 DEF vars
<1> QED
  BY <1>2, <1>3, <1>4, <1>5, <1>6, <1>7, <1>8, <1>9, <1>10
     DEF Next, Producer, Consumer

(* Type correctness: in particular no Put and no Get indexes outside the   *)
(* array, whatever the number of threads and of buffers.                   *)
THEOREM TypeCorrect == Spec => []TypeOK
<1>1. Init => TypeOK
  BY ThreadAssumption DEF Init, TypeOK, Threads
<1> QED
  BY <1>1, TypeStep, PTL DEF Spec

-----------------------------------------------------------------------------

(* The inductive invariant. *)
IInv == TypeOK /\ RingInv /\ NoSharedBuffer /\ NoLostBuffer

(* Tickets are natural numbers, and have slots. *)
LEMMA SlotInRange ==
  ASSUME TypeOK, NEW t \in Threads
  PROVE  ticket[t] \in Nat /\ SlotOf(t) \in 0..Size-1
<1>1. ticket[t] \in Nat
  BY ThreadAssumption DEF TypeOK
<1> QED
  BY <1>1, IndexInRange DEF SlotOf

(* The window is never longer than the ring, and shorter when a client     *)
(* holds a buffer.                                                         *)
LEMMA WindowFits ==
  ASSUME EnoughPlace, TypeOK, TicketInv
  PROVE  /\ head - Oldest <= Size
         /\ outside # {} => head - Oldest < Size
<1>1. IsFiniteSet(Buffers) /\ outside \subseteq Buffers
  BY ThreadAssumption DEF TypeOK
<1>2. Cardinality(Buffers \ outside) <= Cardinality(Buffers)
  BY <1>1, FS_Subset
<1>3. Cardinality(Buffers) \in Nat /\ Cardinality(Buffers \ outside) \in Nat
  BY <1>1, FS_CardinalityType, FS_Subset
<1>4. outside # {} => Cardinality(Buffers \ outside) < Cardinality(Buffers)
  <2>1. outside # {} => Buffers # Buffers \ outside
    BY <1>1
  <2>2. Cardinality(Buffers \ outside) = Cardinality(Buffers)
          => Buffers = Buffers \ outside
    <3>1. Buffers \ outside \in SUBSET Buffers
      OBVIOUS
    <3> QED
      BY <1>1, <3>1, FS_Subset
  <2> QED
    BY <2>1, <2>2, <1>2, <1>3
<1> QED
  BY <1>2, <1>3, <1>4, SizePositive DEF EnoughPlace, TicketInv, TypeOK

(* The tickets of the window have different slots. *)
LEMMA DistinctSlots ==
  ASSUME EnoughPlace, TypeOK, TicketInv,
         NEW a \in Window, NEW b \in Window, IndexOf(a) = IndexOf(b)
  PROVE  a = b
<1>1. head - Oldest <= Size /\ head \in Nat /\ Oldest \in Nat
  BY WindowFits, ThreadAssumption DEF TicketInv, TypeOK
<1>2. a \in Nat /\ b \in Nat /\ a - b < Size /\ b - a < Size
  BY <1>1, SizePositive DEF Window
<1> QED
  BY <1>2, IndexInjective

(* Oldest, seen from the one consumer. *)
LEMMA OldestIs ==
  ASSUME OneConsumer, NEW c \in Consumers
  PROVE  Oldest = IF Busy(c) THEN tail - 1 ELSE tail
BY DEF OneConsumer, Oldest, Busy

-----------------------------------------------------------------------------
(* The steps of Put. *)

(* A step of a producer that leaves tail alone leaves the oldest ticket.   *)
LEMMA OldestKept ==
  ASSUME TypeOK, NEW p \in Producers, NEW from, NEW to, Goto(p, from, to), tail' = tail
  PROVE  /\ Oldest' = Oldest
         /\ \A c \in Consumers : pc'[c] = pc[c]
<1>1. \A c \in Consumers : pc'[c] = pc[c]
  BY ThreadAssumption DEF Goto, TypeOK, Threads
<1> QED
  BY <1>1 DEF Oldest

LEMMA PutClaimStep ==
  ASSUME EnoughPlace, IInv, TypeOK', NEW p \in Producers, NEW b \in Buffers,
         PutClaim(p, b)
  PROVE  IInv'
<1> USE DEF IInv, RingInv
<1>1. /\ pc[p] = "idle" /\ b \in outside /\ alive /\ b # NULL
      /\ ticket' = [ticket EXCEPT ![p] = head] /\ ticket'[p] = head
      /\ hand' = [hand EXCEPT ![p] = b] /\ hand'[p] = b
      /\ pc' = [pc EXCEPT ![p] = "old"] /\ pc'[p] = "old"
      /\ outside' = outside \ {b} /\ head' = head + 1
      /\ UNCHANGED <<slots, tail, prev, freed, leaked, alive>>
  BY ThreadAssumption DEF PutClaim, Goto, TypeOK, Threads
<1>2. Oldest' = Oldest /\ \A c \in Consumers : pc'[c] = pc[c]
  BY <1>1, OldestKept DEF PutClaim
<1>3. \A t \in Threads : t # p => pc'[t] = pc[t] /\ ticket'[t] = ticket[t] /\ hand'[t] = hand[t]
  BY <1>1 DEF TypeOK
<1>4. /\ head \in Nat /\ Oldest \in Nat /\ head - Oldest < Size
      /\ Window' = Window \cup {head} /\ Oldest <= head
  <2>1. head \in Nat /\ Oldest \in Nat /\ head - Oldest < Size /\ Oldest <= head
    BY <1>1, WindowFits, ThreadAssumption DEF TicketInv, TypeOK
  <2>2. Oldest..(head + 1)-1 = (Oldest..head-1) \cup {head}
    BY <2>1
  <2> QED
    BY <2>1, <2>2, <1>1, <1>2 DEF Window
<1>5. slots[IndexOf(head)] = NULL
  <2> SUFFICES ASSUME slots[IndexOf(head)] # NULL
               PROVE  FALSE
    OBVIOUS
  <2>1. PICK n \in Window : IndexOf(head) = IndexOf(n)
    BY <1>4, IndexInRange DEF SlotInv
  <2>2. n \in Nat /\ head - n < Size /\ n - head < Size /\ n # head
    BY <1>4, SizePositive DEF Window
  <2> QED
    BY <2>1, <2>2, <1>4, IndexInjective
<1>6. TicketInv'
  <2>1. IsFiniteSet(Buffers \ outside) /\ b \notin Buffers \ outside
    BY <1>1, ThreadAssumption, FS_Subset
  <2>2. Buffers \ (outside \ {b}) = (Buffers \ outside) \cup {b}
    OBVIOUS
  <2>3. Cardinality(Buffers \ outside') = Cardinality(Buffers \ outside) + 1
    BY <1>1, <2>1, <2>2, FS_AddElement
  <2>4. Cardinality(Buffers \ outside) = head - Oldest
    BY DEF TicketInv
  <2> QED
    BY <2>3, <2>4, <1>1, <1>2, <1>4 DEF TicketInv
<1>7. PutInv'
  <2>1. prev'[p] = NULL /\ SlotOf(p)' = IndexOf(head)
    BY <1>1 DEF PutInv, SlotOf, IndexOf
  <2>2. \A q \in Producers : Busy(q) => ticket[q] # head
    BY <1>4 DEF PutInv, Window
  <2>3. \A q \in Producers : q # p =>
          Busy(q)' = Busy(q) /\ SlotOf(q)' = SlotOf(q) /\ ticket'[q] = ticket[q]
    BY <1>1, <1>3 DEF Busy, SlotOf, IndexOf, Threads
  <2>4. ASSUME NEW q \in Producers, q # p
        PROVE  /\ ~Busy(q)' => hand'[q] = NULL
               /\ Busy(q)' =>
                    /\ ticket'[q] \in Window'
                    /\ hand'[q] # NULL
                    /\ slots'[SlotOf(q)'] = NULL
                    /\ \A r \in Producers : Busy(r)' /\ ticket'[r] = ticket'[q] => r = q
               /\ prev'[q] = NULL
    BY <2>2, <2>3, <2>4, <1>1, <1>3, <1>4 DEF PutInv, Threads
  <2>5. /\ ticket'[p] \in Window' /\ hand'[p] # NULL /\ slots'[SlotOf(p)'] = NULL
        /\ \A r \in Producers : Busy(r)' /\ ticket'[r] = ticket'[p] => r = p
    BY <2>1, <2>2, <2>3, <1>1, <1>4, <1>5
  <2>6. Busy(p)'
    BY <1>1 DEF Busy
  <2> QED
    BY <2>1, <2>4, <2>5, <2>6 DEF PutInv
<1>8. SlotInv'
  BY <1>1, <1>4 DEF SlotInv, IndexOf
<1>9. GetInv'
  <2>1. \A c \in Consumers : c # p /\ c \in Threads
    BY ThreadAssumption DEF Threads
  <2> QED
    BY <2>1, <1>1, <1>2, <1>3 DEF GetInv, Busy, SlotOf, IndexOf
<1>10. LifeInv'
  BY <1>1 DEF LifeInv
<1>11. NoSharedBuffer'
  <2>1. \A t \in Threads : hand[t] # b
    BY <1>1 DEF NoSharedBuffer
  <2>2. \A i \in 0..Size-1 : slots[i] # b
    BY <1>1 DEF NoSharedBuffer
  <2>3. \A c \in Consumers : SlotOf(c)' = SlotOf(c) /\ hand'[c] = hand[c] /\ pc'[c] = pc[c]
    BY <1>1, <1>3, ThreadAssumption DEF SlotOf, IndexOf, Threads
  <2> QED
    BY <2>1, <2>2, <2>3, <1>1, <1>3 DEF NoSharedBuffer, Threads
<1>12. NoLostBuffer'
  <2>1. hand[p] = NULL
    BY <1>1 DEF PutInv, Busy
  <2> QED
    BY <2>1, <1>1, <1>3, ThreadAssumption DEF NoLostBuffer, Threads
<1> QED
  BY <1>6, <1>7, <1>8, <1>9, <1>10, <1>11, <1>12

(* The assignment reads a slot that is empty. *)
LEMMA PutLoadOldStep ==
  ASSUME IInv, TypeOK', NEW p \in Producers, PutLoadOld(p)
  PROVE  IInv'
<1> USE DEF IInv, RingInv
<1>1. /\ pc[p] = "old" /\ pc' = [pc EXCEPT ![p] = "assign"] /\ pc'[p] = "assign"
      /\ prev' = [prev EXCEPT ![p] = slots[SlotOf(p)]] /\ prev'[p] = slots[SlotOf(p)]
      /\ UNCHANGED <<slots, head, tail, ticket, hand, outside, freed, leaked, alive>>
  BY DEF PutLoadOld, Goto, TypeOK, Threads
<1>2. Oldest' = Oldest /\ Window' = Window /\ \A c \in Consumers : pc'[c] = pc[c]
  BY <1>1, OldestKept DEF PutLoadOld, Window
<1>3. \A t \in Threads : Busy(t)' = Busy(t) /\ SlotOf(t)' = SlotOf(t)
  BY <1>1 DEF TypeOK, Busy, SlotOf, IndexOf
<1>4. prev' = prev
  <2>1. slots[SlotOf(p)] = NULL /\ prev[p] = NULL
    BY <1>1 DEF PutInv, Busy
  <2> QED
    BY <2>1, <1>1 DEF TypeOK
<1>5. TicketInv'
  BY <1>1, <1>2 DEF TicketInv
<1>6. PutInv'
  BY <1>1, <1>2, <1>3, <1>4 DEF PutInv, Threads
<1>7. SlotInv'
  BY <1>1, <1>2 DEF SlotInv, IndexOf
<1>8. GetInv'
  BY <1>1, <1>2, <1>3 DEF GetInv, Threads
<1>9. LifeInv'
  BY <1>1, <1>3 DEF LifeInv
<1>10. NoSharedBuffer'
  BY <1>1, <1>2, <1>3 DEF NoSharedBuffer, Threads
<1>11. NoLostBuffer'
  BY <1>1 DEF NoLostBuffer
<1> QED
  BY <1>5, <1>6, <1>7, <1>8, <1>9, <1>10, <1>11

(* The buffer moves from the hand of the Put to its empty slot. *)
LEMMA PutAssignStep ==
  ASSUME EnoughPlace, IInv, TypeOK', NEW p \in Producers, PutAssign(p)
  PROVE  IInv'
<1> USE DEF IInv, RingInv
<1> DEFINE k == SlotOf(p)
<1>1. /\ pc[p] = "assign" /\ pc' = [pc EXCEPT ![p] = "idle"] /\ pc'[p] = "idle"
      /\ slots' = [slots EXCEPT ![k] = hand[p]]
      /\ hand' = [hand EXCEPT ![p] = NULL] /\ hand'[p] = NULL
      /\ ticket' = [ticket EXCEPT ![p] = 0]
      /\ prev' = [prev EXCEPT ![p] = NULL] /\ prev'[p] = NULL
      /\ UNCHANGED <<head, tail, outside, leaked, alive>>
  BY DEF PutAssign, Goto, TypeOK, Threads
<1>2. Oldest' = Oldest /\ Window' = Window /\ \A c \in Consumers : pc'[c] = pc[c]
  BY <1>1, OldestKept DEF PutAssign, Window
<1>3. \A t \in Threads : t # p =>
        /\ pc'[t] = pc[t] /\ ticket'[t] = ticket[t] /\ hand'[t] = hand[t]
        /\ SlotOf(t)' = SlotOf(t) /\ Busy(t)' = Busy(t)
  BY <1>1 DEF TypeOK, SlotOf, IndexOf, Busy
<1>4. /\ k \in 0..Size-1 /\ slots[k] = NULL /\ hand[p] # NULL /\ prev[p] = NULL
      /\ ticket[p] \in Window /\ k = IndexOf(ticket[p])
  BY <1>1, SlotInRange DEF PutInv, Busy, Threads, SlotOf
<1>5. /\ freed' = freed /\ prev' = prev
  BY <1>1, <1>4 DEF PutAssign, TypeOK
<1>6. slots'[k] = hand[p] /\ \A i \in 0..Size-1 : i # k => slots'[i] = slots[i]
  BY <1>1, <1>4 DEF TypeOK
<1>7. \A c \in Consumers : c # p /\ c \in Threads
  BY ThreadAssumption DEF Threads
<1> HIDE DEF k
<1>8. TicketInv'
  BY <1>1, <1>2 DEF TicketInv
<1>9. PutInv'
  <2>1. ASSUME NEW q \in Producers, q # p, Busy(q)
        PROVE  SlotOf(q) # k /\ SlotOf(q) \in 0..Size-1
    <3>1. ticket[q] \in Window /\ ticket[q] # ticket[p] /\ Busy(p)
      BY <2>1, <1>1 DEF PutInv, Busy
    <3> QED
      BY <3>1, <1>4, DistinctSlots, SlotInRange DEF SlotOf, Threads
  <2>2. ASSUME NEW q \in Producers, q # p
        PROVE  /\ ~Busy(q)' => hand'[q] = NULL
               /\ Busy(q)' =>
                    /\ ticket'[q] \in Window'
                    /\ hand'[q] # NULL
                    /\ slots'[SlotOf(q)'] = NULL
                    /\ \A r \in Producers : Busy(r)' /\ ticket'[r] = ticket'[q] => r = q
    <3>1. ~Busy(p)'
      BY <1>1 DEF Busy
    <3> QED
      BY <3>1, <2>1, <2>2, <1>2, <1>3, <1>6 DEF PutInv, Threads
  <2>3. ~Busy(p)' /\ hand'[p] = NULL
    BY <1>1 DEF Busy
  <2> QED
    BY <2>2, <2>3, <1>5 DEF PutInv
<1>10. SlotInv'
  BY <1>2, <1>4, <1>6 DEF SlotInv, IndexOf
<1>11. GetInv'
  <2> SUFFICES ASSUME NEW c \in Consumers
               PROVE  /\ Busy(c)' => ticket'[c] = Oldest'
                      /\ pc'[c] \in {"load", "clear"} => slots'[SlotOf(c)'] # NULL
                      /\ pc'[c] = "clear" => hand'[c] = slots'[SlotOf(c)']
                      /\ pc'[c] # "clear" => hand'[c] = NULL
    BY DEF GetInv
  <2>1. pc[c] \in {"load", "clear"} => SlotOf(c) # k /\ SlotOf(c) \in 0..Size-1
    BY <1>4, <1>7, SlotInRange DEF GetInv
  <2> QED
    BY <2>1, <1>2, <1>3, <1>6, <1>7 DEF GetInv
<1>12. LifeInv'
  BY <1>1, <1>3, <1>5 DEF LifeInv, Busy
<1>13. NoSharedBuffer'
  <2>1. \A i \in 0..Size-1 : slots[i] # hand[p]
    BY <1>4 DEF NoSharedBuffer
  <2>2. \A t \in Threads : t # p => hand[t] # hand[p]
    BY <1>4 DEF NoSharedBuffer, Threads
  <2>3. hand[p] \notin outside
    BY DEF NoSharedBuffer, Threads
  <2>4. \A i, j \in 0..Size-1 : slots'[i] = slots'[j] /\ slots'[i] # NULL => i = j
    BY <2>1, <1>6 DEF NoSharedBuffer
  <2>5. \A t, u \in Threads : hand'[t] = hand'[u] /\ hand'[t] # NULL => t = u
    BY <1>1, <1>3 DEF NoSharedBuffer
  <2>6. \A q \in Producers, i \in 0..Size-1 : slots'[i] = hand'[q] => slots'[i] = NULL
    BY <2>2, <1>1, <1>3, <1>6 DEF NoSharedBuffer, Threads
  <2>7. \A c \in Consumers : pc'[c] = "clear" => slots'[SlotOf(c)'] = hand'[c]
    BY <1>11 DEF GetInv
  <2>8. \A t \in Threads : hand'[t] \notin outside'
    <3>1. NULL \notin outside
      BY ThreadAssumption DEF TypeOK
    <3> QED
      BY <3>1, <1>1, <1>3 DEF NoSharedBuffer
  <2>9. \A i \in 0..Size-1 : slots'[i] \notin outside'
    BY <2>3, <1>1, <1>6 DEF NoSharedBuffer
  <2> QED
    BY <2>4, <2>5, <2>6, <2>7, <2>8, <2>9, <1>1, <1>5 DEF NoSharedBuffer
<1>14. NoLostBuffer'
  <2> SUFFICES ASSUME NEW b \in Buffers
               PROVE  \/ b \in outside'
                      \/ \E i \in 0..Size-1 : slots'[i] = b
                      \/ \E q \in Producers : hand'[q] = b
                      \/ ~alive' /\ b \in freed' \cup leaked'
    BY DEF NoLostBuffer
  <2>1. CASE b = hand[p]
    BY <2>1, <1>4, <1>6
  <2>2. CASE \E i \in 0..Size-1 : slots[i] = b
    BY <2>2, <1>4, <1>6, ThreadAssumption
  <2>3. CASE \E q \in Producers : q # p /\ hand[q] = b
    BY <2>3, <1>3 DEF Threads
  <2> QED
    BY <2>1, <2>2, <2>3, <1>1, <1>5 DEF NoLostBuffer
<1> QED
  BY <1>8, <1>9, <1>10, <1>11, <1>12, <1>13, <1>14

-----------------------------------------------------------------------------
(* The steps of Get. *)

(* A Get takes the oldest ticket, which stays the oldest. *)
LEMMA GetClaimStep ==
  ASSUME OneConsumer, IInv, TypeOK', NEW c \in Consumers, GetClaim(c)
  PROVE  IInv'
<1> USE DEF IInv, RingInv
<1>1. /\ pc[c] = "idle" /\ pc' = [pc EXCEPT ![c] = "spin"] /\ pc'[c] = "spin" /\ alive
      /\ ticket' = [ticket EXCEPT ![c] = tail] /\ ticket'[c] = tail /\ tail' = tail + 1
      /\ UNCHANGED <<slots, head, hand, prev, outside, freed, leaked, alive>>
  BY DEF GetClaim, Goto, TypeOK, Threads
<1>2. \A d \in Consumers : d = c
  BY DEF OneConsumer
<1>3. /\ \A p \in Producers : p # c /\ p \in Threads
      /\ \A t \in Threads : t # c => pc'[t] = pc[t] /\ ticket'[t] = ticket[t]
  BY <1>1, ThreadAssumption DEF TypeOK, Threads
<1>4. Oldest = tail /\ Oldest' = tail /\ Window' = Window
  <2>1. tail \in Nat
    BY ThreadAssumption DEF TypeOK
  <2> QED
    BY <2>1, <1>1, <1>2 DEF Oldest, Window
<1>5. TicketInv'
  BY <1>1, <1>4 DEF TicketInv
<1>6. PutInv'
  BY <1>1, <1>3, <1>4 DEF PutInv, Busy, SlotOf, IndexOf
<1>7. SlotInv'
  BY <1>1, <1>4 DEF SlotInv, IndexOf
<1>8. GetInv'
  BY <1>1, <1>2, <1>4 DEF GetInv
<1>9. LifeInv'
  BY <1>1 DEF LifeInv
<1>10. NoSharedBuffer'
  BY <1>1, <1>2 DEF NoSharedBuffer
<1>11. NoLostBuffer'
  BY <1>1 DEF NoLostBuffer
<1> QED
  BY <1>5, <1>6, <1>7, <1>8, <1>9, <1>10, <1>11

(* The slot has been seen full; with one consumer nobody empties it. *)
LEMMA GetSeeStep ==
  ASSUME OneConsumer, IInv, TypeOK', NEW c \in Consumers, GetSee(c)
  PROVE  IInv'
<1> USE DEF IInv, RingInv
<1>1. /\ pc[c] = "spin" /\ pc' = [pc EXCEPT ![c] = "load"] /\ pc'[c] = "load"
      /\ slots[SlotOf(c)] # NULL
      /\ UNCHANGED <<slots, head, tail, ticket, hand, prev, outside, freed, leaked, alive>>
  BY DEF GetSee, Goto, TypeOK, Threads
<1>2. \A d \in Consumers : d = c
  BY DEF OneConsumer
<1>3. /\ \A p \in Producers : p \in Threads /\ pc'[p] = pc[p]
      /\ \A t \in Threads : Busy(t)' = Busy(t) /\ SlotOf(t)' = SlotOf(t)
  BY <1>1, ThreadAssumption DEF TypeOK, Threads, Busy, SlotOf, IndexOf
<1>4. Oldest' = Oldest /\ Window' = Window
  BY <1>1, <1>2 DEF Oldest, Window
<1>5. TicketInv'
  BY <1>1, <1>4 DEF TicketInv
<1>6. PutInv'
  BY <1>1, <1>3, <1>4 DEF PutInv
<1>7. SlotInv'
  BY <1>1, <1>4 DEF SlotInv, IndexOf
<1>8. GetInv'
  BY <1>1, <1>2, <1>3, <1>4 DEF GetInv, Threads
<1>9. LifeInv'
  BY <1>1, <1>3 DEF LifeInv
<1>10. NoSharedBuffer'
  BY <1>1, <1>2 DEF NoSharedBuffer
<1>11. NoLostBuffer'
  BY <1>1 DEF NoLostBuffer
<1> QED
  BY <1>5, <1>6, <1>7, <1>8, <1>9, <1>10, <1>11

(* The pointer is read: slot and hand now name the same buffer. *)
LEMMA GetLoadStep ==
  ASSUME OneConsumer, IInv, TypeOK', NEW c \in Consumers, GetLoad(c)
  PROVE  IInv'
<1> USE DEF IInv, RingInv
<1>1. /\ pc[c] = "load" /\ pc' = [pc EXCEPT ![c] = "clear"] /\ pc'[c] = "clear"
      /\ hand' = [hand EXCEPT ![c] = slots[SlotOf(c)]] /\ hand'[c] = slots[SlotOf(c)]
      /\ UNCHANGED <<slots, head, tail, ticket, prev, outside, freed, leaked, alive>>
  BY DEF GetLoad, Goto, TypeOK, Threads
<1>2. \A d \in Consumers : d = c
  BY DEF OneConsumer
<1>3. /\ \A p \in Producers : p # c /\ p \in Threads /\ pc'[p] = pc[p] /\ hand'[p] = hand[p]
      /\ \A t \in Threads : Busy(t)' = Busy(t) /\ SlotOf(t)' = SlotOf(t)
      /\ \A t \in Threads : t # c => hand'[t] = hand[t]
  BY <1>1, ThreadAssumption DEF TypeOK, Threads, Busy, SlotOf, IndexOf
<1>4. Oldest' = Oldest /\ Window' = Window
  BY <1>1, <1>2 DEF Oldest, Window
<1>5. SlotOf(c) \in 0..Size-1 /\ slots[SlotOf(c)] # NULL /\ hand[c] = NULL
  BY <1>1, SlotInRange DEF GetInv, Threads
<1>6. TicketInv'
  BY <1>1, <1>4 DEF TicketInv
<1>7. PutInv'
  BY <1>1, <1>3, <1>4 DEF PutInv
<1>8. SlotInv'
  BY <1>1, <1>4 DEF SlotInv, IndexOf
<1>9. GetInv'
  BY <1>1, <1>2, <1>3, <1>4, <1>5 DEF GetInv, Threads
<1>10. LifeInv'
  BY <1>1, <1>3 DEF LifeInv
<1>11. NoSharedBuffer'
  <2>1. \A t \in Threads : t # c => t \in Producers
    BY <1>2 DEF Threads
  <2>2. \A p \in Producers : hand[p] # slots[SlotOf(c)]
    BY <1>5 DEF NoSharedBuffer
  <2>3. \A t, u \in Threads : hand'[t] = hand'[u] /\ hand'[t] # NULL => t = u
    BY <2>1, <2>2, <1>1, <1>3 DEF NoSharedBuffer
  <2>4. \A t \in Threads : hand'[t] \notin outside
    BY <1>1, <1>3, <1>5 DEF NoSharedBuffer
  <2> QED
    BY <2>3, <2>4, <1>1, <1>3, <1>9 DEF NoSharedBuffer, GetInv
<1>12. NoLostBuffer'
  BY <1>1, <1>3 DEF NoLostBuffer
<1> QED
  BY <1>6, <1>7, <1>8, <1>9, <1>10, <1>11, <1>12

(* The slot is emptied, the buffer is the client's and the oldest ticket   *)
(* is done with.                                                           *)
LEMMA GetClearStep ==
  ASSUME OneConsumer, EnoughPlace, IInv, TypeOK', NEW c \in Consumers, GetClear(c)
  PROVE  IInv'
<1> USE DEF IInv, RingInv
<1> DEFINE k == SlotOf(c)
<1> DEFINE b == hand[c]
<1>1. /\ pc[c] = "clear" /\ pc' = [pc EXCEPT ![c] = "idle"] /\ pc'[c] = "idle"
      /\ slots' = [slots EXCEPT ![k] = NULL] /\ outside' = outside \cup ({b} \ {NULL})
      /\ ticket' = [ticket EXCEPT ![c] = 0]
      /\ hand' = [hand EXCEPT ![c] = NULL] /\ hand'[c] = NULL
      /\ UNCHANGED <<head, tail, prev, freed, leaked, alive>>
  BY DEF GetClear, Goto, TypeOK, Threads
<1>2. \A d \in Consumers : d = c
  BY DEF OneConsumer
<1>3. /\ \A p \in Producers : p # c /\ p \in Threads
      /\ \A t \in Threads : t # c =>
           /\ pc'[t] = pc[t] /\ ticket'[t] = ticket[t] /\ hand'[t] = hand[t]
           /\ Busy(t)' = Busy(t) /\ SlotOf(t)' = SlotOf(t)
  BY <1>1, ThreadAssumption DEF TypeOK, Threads, Busy, SlotOf, IndexOf
<1>4. /\ Busy(c) /\ ticket[c] = Oldest /\ k = IndexOf(Oldest) /\ k \in 0..Size-1
      /\ slots[k] = b /\ b # NULL /\ b \in Buffers /\ b \notin outside
  BY <1>1, SlotInRange DEF GetInv, Busy, SlotOf, Threads, NoSharedBuffer, TypeOK
<1>5. slots'[k] = NULL /\ \A i \in 0..Size-1 : i # k => slots'[i] = slots[i]
  BY <1>1, <1>4 DEF TypeOK
<1>6. outside' = outside \cup {b}
  BY <1>1, <1>4
<1>7. /\ Oldest \in Nat /\ head \in Nat /\ Oldest < head /\ Oldest' = Oldest + 1
      /\ Window' = Window \ {Oldest}
  <2>1. Oldest = tail - 1 /\ Oldest' = tail /\ tail \in Nat /\ head \in Nat
    BY <1>1, <1>2, <1>4, ThreadAssumption DEF Oldest, Busy, TypeOK
  <2>2. Oldest \in Nat
    BY <2>1, <1>4, SlotInRange DEF Threads
  <2>3. PICK n \in Window : k = IndexOf(n)
    BY <1>4 DEF SlotInv
  <2>4. Oldest < head
    BY <2>1, <2>2, <2>3 DEF Window
  <2>5. (Oldest + 1)..head-1 = (Oldest..head-1) \ {Oldest}
    BY <2>1, <2>2
  <2> QED
    BY <2>1, <2>2, <2>4, <2>5, <1>1 DEF Window
<1> HIDE DEF k, b
<1>8. TicketInv'
  <2>1. IsFiniteSet(Buffers \ outside) /\ b \in Buffers \ outside
    BY <1>4, ThreadAssumption, FS_Subset
  <2>2. Buffers \ outside' = (Buffers \ outside) \ {b}
    BY <1>6
  <2>3. Cardinality(Buffers \ outside') = Cardinality(Buffers \ outside) - 1
    BY <2>1, <2>2, FS_RemoveElement
  <2> QED
    BY <2>3, <1>1, <1>7 DEF TicketInv
<1>9. PutInv'
  <2>1. ASSUME NEW p \in Producers, Busy(p)
        PROVE  ticket[p] # Oldest /\ SlotOf(p) # k /\ SlotOf(p) \in 0..Size-1
    BY <2>1, <1>3, <1>4, SlotInRange DEF PutInv, SlotOf
  <2> QED
    BY <2>1, <1>1, <1>3, <1>5, <1>7 DEF PutInv
<1>10. SlotInv'
  <2>1. ASSUME NEW i \in 0..Size-1, slots'[i] # NULL
        PROVE  \E n \in Window' : i = IndexOf(n)
    <3>1. i # k /\ slots[i] # NULL
      BY <2>1, <1>5
    <3>2. PICK n \in Window : i = IndexOf(n)
      BY <3>1 DEF SlotInv
    <3> QED
      BY <3>1, <3>2, <1>4, <1>7
  <2> QED
    BY <2>1 DEF SlotInv, IndexOf
<1>11. GetInv'
  BY <1>1, <1>2 DEF GetInv, Busy
<1>12. LifeInv'
  BY <1>1, <1>3, <1>4 DEF LifeInv, Threads
<1>13. NoSharedBuffer'
  <2>1. \A i \in 0..Size-1 : i # k => slots[i] # b
    BY <1>4 DEF NoSharedBuffer
  <2>2. \A t \in Threads : t # c => hand[t] # b
    BY <1>4 DEF NoSharedBuffer, b, Threads
  <2>3. NULL \notin outside'
    BY <1>4, <1>6, ThreadAssumption DEF TypeOK
  <2>4. \A i \in 0..Size-1 : slots'[i] \notin outside'
    BY <2>1, <2>3, <1>5, <1>6 DEF NoSharedBuffer
  <2>5. \A t \in Threads : hand'[t] \notin outside'
    BY <2>2, <2>3, <1>1, <1>3, <1>6 DEF NoSharedBuffer
  <2>6. \A p \in Producers, i \in 0..Size-1 : slots'[i] = hand'[p] => slots'[i] = NULL
    BY <1>3, <1>5 DEF NoSharedBuffer
  <2>7. \A t, u \in Threads : hand'[t] = hand'[u] /\ hand'[t] # NULL => t = u
    BY <1>1, <1>3 DEF NoSharedBuffer
  <2>8. \A i, j \in 0..Size-1 : slots'[i] = slots'[j] /\ slots'[i] # NULL => i = j
    BY <1>5 DEF NoSharedBuffer
  <2>9. outside' \cap (freed' \cup leaked') = {}
    BY <1>1, <1>3, <1>4 DEF LifeInv, Threads
  <2> QED
    BY <2>4, <2>5, <2>6, <2>7, <2>8, <2>9, <1>1, <1>2 DEF NoSharedBuffer
<1>14. NoLostBuffer'
  <2> SUFFICES ASSUME NEW x \in Buffers
               PROVE  \/ x \in outside'
                      \/ \E i \in 0..Size-1 : slots'[i] = x
                      \/ \E p \in Producers : hand'[p] = x
                      \/ ~alive' /\ x \in freed' \cup leaked'
    BY DEF NoLostBuffer
  <2>1. CASE x = b
    BY <2>1, <1>6
  <2>2. CASE x # b /\ \E i \in 0..Size-1 : slots[i] = x
    BY <2>2, <1>4, <1>5
  <2> QED
    BY <2>1, <2>2, <1>1, <1>3, <1>6 DEF NoLostBuffer
<1> QED
  BY <1>8, <1>9, <1>10, <1>11, <1>12, <1>13, <1>14

-----------------------------------------------------------------------------

(* The destructor empties the slots: their buffers are freed or leaked. *)
LEMMA DestroyStep ==
  ASSUME IInv, TypeOK', Destroy
  PROVE  IInv'
<1> USE DEF IInv, RingInv
<1>1. /\ alive /\ ~alive' /\ \A t \in Threads : ~Busy(t) /\ ~Busy(t)'
      /\ \A i \in 0..Size-1 : slots'[i] = NULL
      /\ UNCHANGED <<head, tail, pc, ticket, hand, prev, outside>>
  BY DEF Destroy, Busy
<1>2. Oldest' = Oldest /\ Window' = Window
  BY <1>1 DEF Oldest, Window
<1>3. freed' \cup leaked' = {slots[i] : i \in 0..Size-1} \ {NULL}
  BY <1>1 DEF Destroy, LifeInv, Owned, ReleasedSlots
<1>4. TicketInv'
  BY <1>1, <1>2 DEF TicketInv
<1>5. PutInv'
  BY <1>1 DEF PutInv, Threads
<1>6. SlotInv'
  BY <1>1 DEF SlotInv
<1>7. GetInv'
  BY <1>1 DEF GetInv, Threads, Busy
<1>8. LifeInv'
  BY <1>1 DEF LifeInv
<1>9. NoSharedBuffer'
  <2>1. \A c \in Consumers : pc'[c] # "clear"
    BY <1>1 DEF Threads, Busy
  <2>2. NULL \notin outside
    BY ThreadAssumption DEF TypeOK
  <2> QED
    BY <2>1, <2>2, <1>1, <1>3 DEF NoSharedBuffer
<1>10. NoLostBuffer'
  <2>1. \A b \in Buffers : b # NULL
    BY ThreadAssumption
  <2> QED
    BY <2>1, <1>1, <1>3 DEF NoLostBuffer
<1> QED
  BY <1>4, <1>5, <1>6, <1>7, <1>8, <1>9, <1>10

-----------------------------------------------------------------------------

(* The invariant holds initially: all buffers are with the clients. *)
LEMMA InvariantInit ==
  ASSUME Init
  PROVE  IInv
<1>1. TypeOK
  BY ThreadAssumption DEF Init, TypeOK, Threads
<1>2. TicketInv
  <2>1. Buffers \ outside = {} /\ Oldest = 0 /\ head = 0
    BY DEF Init, Oldest, Threads
  <2> QED
    BY <2>1, FS_EmptySet DEF TicketInv
<1>3. PutInv /\ SlotInv /\ GetInv /\ LifeInv
  BY DEF Init, PutInv, SlotInv, GetInv, LifeInv, Busy, Threads
<1>4. NoSharedBuffer /\ NoLostBuffer
  BY ThreadAssumption DEF Init, NoSharedBuffer, NoLostBuffer, Threads
<1> QED
  BY <1>1, <1>2, <1>3, <1>4 DEF IInv, RingInv

(* Every step keeps the invariant. *)
LEMMA InvariantStep ==
  ASSUME OneConsumer, EnoughPlace
  PROVE  IInv /\ [Next]_vars => IInv'
<1> SUFFICES ASSUME IInv, [Next]_vars
             PROVE  IInv'
  OBVIOUS
<1>1. TypeOK'
  BY TypeStep DEF IInv
<1>2. ASSUME NEW p \in Producers, Producer(p)
      PROVE  IInv'
  BY <1>1, <1>2, PutClaimStep, PutLoadOldStep, PutAssignStep DEF Producer
<1>3. ASSUME NEW c \in Consumers, Consumer(c)
      PROVE  IInv'
  BY <1>1, <1>3, GetClaimStep, GetSeeStep, GetLoadStep, GetClearStep DEF Consumer
<1>4. CASE Destroy
  BY <1>1, <1>4, DestroyStep
<1>5. CASE UNCHANGED vars
  BY <1>5 DEF vars, IInv, TypeOK, RingInv, TicketInv, PutInv, SlotInv, GetInv,
              LifeInv, NoSharedBuffer, NoLostBuffer, Oldest, Window, Busy,
              SlotOf, IndexOf
<1> QED
  BY <1>2, <1>3, <1>4, <1>5 DEF Next

(* With one consumer and no more buffers than slots, the tickets, the      *)
(* slots and the running calls fit together in every reachable state.      *)
THEOREM RingCorrect ==
  ASSUME OneConsumer, EnoughPlace
  PROVE  Spec => []RingInv
<1>1. IInv => RingInv
  BY DEF IInv
<1> QED
  BY <1>1, InvariantInit, InvariantStep, PTL DEF Spec

(* ... a Put never replaces a buffer that nobody has got yet, *)
THEOREM NeverOverwrites ==
  ASSUME OneConsumer, EnoughPlace
  PROVE  Spec => []PutNeverOverwrites
<1>1. RingInv /\ TypeOK => PutNeverOverwrites
  BY DEF RingInv, PutInv, PutNeverOverwrites, Busy
<1> QED
  BY <1>1, RingCorrect, TypeCorrect, PTL

(* ... no buffer is lost, *)
THEOREM NeverLoses ==
  ASSUME OneConsumer, EnoughPlace
  PROVE  Spec => []NoLostBuffer
<1>1. IInv => NoLostBuffer
  BY DEF IInv
<1> QED
  BY <1>1, InvariantInit, InvariantStep, PTL DEF Spec

(* ... no buffer has two owners, *)
THEOREM NeverShares ==
  ASSUME OneConsumer, EnoughPlace
  PROVE  Spec => []NoSharedBuffer
<1>1. IInv => NoSharedBuffer
  BY DEF IInv
<1> QED
  BY <1>1, InvariantInit, InvariantStep, PTL DEF Spec

(* ... and a Get never returns a null pointer. *)
THEOREM NeverNull ==
  ASSUME OneConsumer, EnoughPlace
  PROVE  Spec => []GetNeverNull
<1>1. RingInv => GetNeverNull
  BY DEF RingInv, GetInv, GetNeverNull
<1> QED
  BY <1>1, RingCorrect, PTL

-----------------------------------------------------------------------------
(* GetSize of a pool that nobody is using.                                 *)

(* Every buffer that is not with a client is in a slot of its own.         *)
LEMMA AvailableIs ==
  ASSUME IInv, Quiescent
  PROVE  Available = head - tail /\ head \in Nat /\ tail \in Nat /\ tail <= head
<1> USE DEF IInv, RingInv
<1> DEFINE FullSlots == {i \in 0..Size-1 : slots[i] # NULL}
           Queued == Buffers \ outside
           f == [i \in FullSlots |-> slots[i]]
<1>1. alive /\ \A t \in Threads : ~Busy(t)
  BY DEF Quiescent, Busy
<1>2. freed = {} /\ leaked = {} /\ \A p \in Producers : hand[p] = NULL
  BY <1>1 DEF LifeInv, PutInv, Threads
<1>3. Oldest = tail
  BY <1>1 DEF Oldest, Busy, Threads
<1>4. head \in Nat /\ tail \in Nat /\ tail <= head /\ Cardinality(Queued) = head - tail
  BY <1>3, ThreadAssumption DEF TicketInv, TypeOK
<1>5. \A i \in FullSlots : slots[i] \in Queued
  BY DEF TypeOK, NoSharedBuffer
<1>6. \A b \in Queued : \E i \in FullSlots : slots[i] = b
  <2> TAKE b \in Queued
  <2>1. b # NULL
    BY ThreadAssumption
  <2>2. \E i \in 0..Size-1 : slots[i] = b
    BY <1>1, <1>2, <2>1 DEF NoLostBuffer
  <2> QED
    BY <2>1, <2>2
<1>7. f \in Bijection(FullSlots, Queued)
  <2>1. \A i, j \in FullSlots : f[i] = f[j] => i = j
    BY DEF NoSharedBuffer
  <2>2. f \in [FullSlots -> Queued]
    BY <1>5
  <2>3. \A b \in Queued : \E i \in FullSlots : f[i] = b
    BY <1>6
  <2> QED
    BY <2>1, <2>2, <2>3, Fun_IsBij
<1>8. IsFiniteSet(FullSlots)
  <2>1. IsFiniteSet(0..Size-1)
    BY SizePositive, FS_Interval
  <2> QED
    BY <2>1, FS_Subset
<1>9. Cardinality(Queued) = Cardinality(FullSlots)
  BY <1>7, <1>8, FS_Bijection DEF ExistsBijection
<1> QED
  BY <1>4, <1>9 DEF Available

(* A multiple has no remainder, *)
LEMMA NoRemainder ==
  ASSUME NEW s \in Nat \ {0}, NEW q \in Nat, s * q \in Nat
  PROVE  (s * q) % s = 0
<1>1. PICK p \in Nat, r \in 0..s-1 : s * q = s * p + r /\ r = (s * q) % s
  BY DivMod
<1>2. s * q + 0 = s * p + r /\ 0 \in 0..s-1
  BY <1>1
<1> QED
  BY <1>1, <1>2, RemainderUnique

(* ... and one turn of the ring leads to the same slot.                    *)
LEMMA OneTurn ==
  ASSUME NEW n \in Nat
  PROVE  IndexOf(n + Size) = IndexOf(n)
<1>1. PICK k \in 2..CounterMod : CounterMod = k * Size
  BY CounterAssumption
<1>2. k \in Nat \ {0} /\ k * Size \in Nat \ {0} /\ Size \in Nat \ {0} /\ n + Size \in Nat
  BY <1>1, ThreadAssumption, SizePositive
<1>3. IndexOf(n + Size) = (n + Size) % Size /\ IndexOf(n) = n % Size
  <2>1. \A m \in Nat : (m % (k * Size)) % Size = m % Size
    BY <1>2, ModMod
  <2> QED
    BY <2>1, <1>1, <1>2 DEF IndexOf
<1>4. PICK q \in Nat, r \in 0..Size-1 : n = Size * q + r /\ r = n % Size
  BY <1>2, DivMod
<1>5. PICK p \in Nat, u \in 0..Size-1 : n + Size = Size * p + u /\ u = (n + Size) % Size
  BY <1>2, DivMod
<1>6. Size * (q + 1) + r = Size * p + u
  <2>1. Size * (q + 1) = Size * q + Size
    BY <1>2
  <2> QED
    BY <1>2, <1>4, <1>5, <2>1
<1>7. r = u
  BY <1>2, <1>6, RemainderUnique
<1> QED
  BY <1>3, <1>4, <1>5, <1>7

(* The macro's unparenthesized remainder is less than the ring's size.     *)
LEMMA MisreadRemainder ==
  ASSUME NEW x \in Int
  PROVE  (x % SizeA) * SizeB # Size
<1>1. SizeA \in Nat \ {0} /\ SizeB \in Nat \ {0}
  BY SizeAssumption
<1>2. x % SizeA \in 0..SizeA-1
  BY <1>1
<1>3. \A r \in 0..SizeA-1 : r * SizeB # SizeA * SizeB
  <2> TAKE r \in 0..SizeA-1
  <2>1. SizeA - r >= 1 /\ SizeA - r \in Nat
    BY <1>1
  <2>2. (SizeA - r) * SizeB >= SizeB
    BY <1>1, <2>1
  <2>3. (SizeA - r) * SizeB = SizeA * SizeB - r * SizeB
    BY <1>1
  <2> QED
    BY <1>1, <2>2, <2>3
<1> QED
  BY <1>2, <1>3 DEF Size

LEMMA FullAndEmptyTold ==
  ASSUME EnoughPlace, IInv
  PROVE  FullAndEmptySize
<1> SUFFICES ASSUME Quiescent
             PROVE  /\ GetSize(head, tail) = Size <=> Available = Size
                    /\ Available = 0 => GetSize(head, tail) = 0
  BY DEF FullAndEmptySize
<1> DEFINE h == IndexOf(head)
           t == IndexOf(tail)
<1>1. Available = head - tail /\ head \in Nat /\ tail \in Nat /\ tail <= head
  BY AvailableIs
<1>2. head - tail <= Size
  <2>1. Oldest = tail
    BY DEF Quiescent, Oldest, Threads
  <2> QED
    BY <2>1, WindowFits DEF IInv, RingInv
<1>3. h \in 0..Size-1 /\ t \in 0..Size-1 /\ Size \in Nat \ {0}
      /\ SizeA \in Nat \ {0} /\ SizeB \in Nat \ {0}
      /\ CounterMod \in Nat /\ Size < CounterMod
  <2>1. PICK k \in 2..CounterMod : CounterMod = k * Size
    BY CounterAssumption
  <2>2. k * Size >= 2 * Size /\ 2 * Size > Size
    BY <2>1, SizePositive, ThreadAssumption
  <2> QED
    BY <1>1, <2>1, <2>2, IndexInRange, SizePositive, SizeAssumption, ThreadAssumption
<1>4. GetSize(head, tail) = IF h - t = 0 /\ (head - tail) % CounterMod > 0
                            THEN Size ELSE ((h - t + Size) % SizeA) * SizeB
  BY DEF GetSize, Size
<1> HIDE DEF h, t
<1>5. (head - tail) % CounterMod = head - tail
  <2>1. head - tail \in Nat /\ head - tail < CounterMod
    BY <1>1, <1>2, <1>3
  <2> QED
    BY <1>3, <2>1
<1>6. ((h - t + Size) % SizeA) * SizeB # Size
  <2>1. h - t + Size \in Int
    BY <1>3
  <2> QED
    BY <2>1, MisreadRemainder, Zenon
<1>7. CASE head - tail = Size
  <2>1. head = tail + Size
    BY <1>1, <1>3, <1>7
  <2>2. h = t
    BY <1>1, <2>1, OneTurn DEF h, t
  <2> QED
    BY <1>1, <1>3, <1>4, <1>5, <1>7, <2>2
<1>8. CASE head - tail # Size
  <2>1. h = t => head = tail
    <3>1. head - tail < Size /\ tail - head < Size
      BY <1>1, <1>2, <1>3, <1>8
    <3> QED
      BY <1>1, <3>1, IndexInjective DEF h, t
  <2>2. h - t = 0 => h = t
    BY <1>3
  <2>3. GetSize(head, tail) = ((h - t + Size) % SizeA) * SizeB
    BY <1>1, <1>4, <1>5, <2>1, <2>2
  <2>4. ASSUME Available = 0
        PROVE  GetSize(head, tail) = 0
    <3>1. head = tail
      BY <1>1, <2>4
    <3>2. h - t + Size = SizeA * SizeB
      BY <1>3, <3>1 DEF h, t, Size
    <3>3. (SizeA * SizeB) % SizeA = 0
      BY <1>3, NoRemainder
    <3> QED
      BY <1>3, <2>3, <3>2, <3>3
  <2> QED
    BY <1>1, <1>6, <1>8, <2>3, <2>4
<1> QED
  BY <1>7, <1>8

-----------------------------------------------------------------------------
(* The refinement of BufferQueue.                                          *)

(* The buffer of a ticket is in the hand of the Put that has the ticket,   *)
(* and in the slot when there is none.                                     *)
BufferHolds ==
  \A n \in Nat :
    /\ \A p \in Producers : Busy(p) /\ ticket[p] = n => BufferOf(n) = hand[p]
    /\ (\A p \in Producers : Busy(p) => ticket[p] # n) => BufferOf(n) = slots[IndexOf(n)]

LEMMA BufferOfIs == IInv => BufferHolds
<1> SUFFICES ASSUME IInv, NEW n \in Nat
             PROVE  /\ \A p \in Producers : Busy(p) /\ ticket[p] = n => BufferOf(n) = hand[p]
                    /\ (\A p \in Producers : Busy(p) => ticket[p] # n)
                          => BufferOf(n) = slots[IndexOf(n)]
  BY DEF BufferHolds
<1>1. ASSUME NEW p \in Producers, Busy(p), ticket[p] = n
      PROVE  BufferOf(n) = hand[p]
  <2>1. \A q \in Producers : pc[q] # "idle" /\ ticket[q] = n => q = p
    BY <1>1 DEF IInv, RingInv, PutInv, Busy
  <2>2. (CHOOSE q \in Producers : pc[q] # "idle" /\ ticket[q] = n) = p
    BY <1>1, <2>1 DEF Busy
  <2> QED
    BY <1>1, <2>2 DEF BufferOf, Busy
<1>2. ASSUME \A p \in Producers : Busy(p) => ticket[p] # n
      PROVE  BufferOf(n) = slots[IndexOf(n)]
  BY <1>2 DEF BufferOf, Busy
<1> QED
  BY <1>1, <1>2

QueueHolds ==
  /\ PoolQueue \in Seq(Buffers \cup {NULL})
  /\ Len(PoolQueue) = IF alive THEN head - Oldest ELSE 0
  /\ \A k \in 1..Len(PoolQueue), n \in Nat :
       n = Oldest + k - 1 => PoolQueue[k] = BufferOf(n)

LEMMA QueueContents == IInv => QueueHolds
<1> SUFFICES ASSUME IInv
             PROVE  QueueHolds
  OBVIOUS
<1>1. head - Oldest \in Nat /\ Oldest \in Nat
  BY ThreadAssumption DEF IInv, RingInv, TicketInv, TypeOK
<1>2. ASSUME NEW n \in Nat
      PROVE  BufferOf(n) \in Buffers \cup {NULL}
  <2>1. CASE \E p \in Producers : Busy(p) /\ ticket[p] = n
    BY <2>1, BufferOfIs DEF BufferHolds, IInv, TypeOK, Threads
  <2>2. CASE \A p \in Producers : Busy(p) => ticket[p] # n
    <3>1. IndexOf(n) \in 0..Size-1
      BY IndexInRange
    <3> QED
      BY <2>2, <3>1, BufferOfIs DEF BufferHolds, IInv, TypeOK
  <2> QED
    BY <2>1, <2>2
<1>3. CASE ~alive
  BY <1>3 DEF PoolQueue, QueueHolds
<1>4. CASE alive
  <2>1. \A k \in 1..(head - Oldest) : Oldest + k - 1 \in Nat
    BY <1>1
  <2>2. PoolQueue = [k \in 1..(head - Oldest) |-> BufferOf(Oldest + k - 1)]
    BY <1>4 DEF PoolQueue
  <2> QED
    BY <1>1, <1>2, <1>4, <2>1, <2>2 DEF QueueHolds
<1> QED
  BY <1>3, <1>4

(* A step that keeps the window and its buffers keeps the queue.           *)
LEMMA QueueKept ==
  ASSUME IInv, IInv', Oldest' = Oldest, head' = head, alive' = alive,
         \A n \in Window : BufferOf(n)' = BufferOf(n)
  PROVE  PoolQueue' = PoolQueue
<1>1. QueueHolds /\ QueueHolds'
  BY QueueContents, PTL
<1>2. Len(PoolQueue') = Len(PoolQueue)
  BY <1>1 DEF QueueHolds
<1>3. ASSUME NEW k \in 1..Len(PoolQueue)
      PROVE  PoolQueue'[k] = PoolQueue[k]
  <2>1. Oldest + k - 1 \in Window /\ Oldest + k - 1 \in Nat
    BY <1>1, ThreadAssumption DEF QueueHolds, Window, IInv, RingInv, TicketInv, TypeOK
  <2>2. PICK n \in Nat : n = Oldest + k - 1
    BY <2>1
  <2>3. PoolQueue[k] = BufferOf(n) /\ PoolQueue'[k] = BufferOf(n)'
    BY <1>1, <1>2, <2>2 DEF QueueHolds
  <2> QED
    BY <2>1, <2>2, <2>3
<1> QED
  BY <1>1, <1>2, <1>3, SeqEqual DEF QueueHolds

LEMMA WindowTickets ==
  ASSUME IInv, NEW n \in Window
  PROVE  n \in Nat /\ IndexOf(n) \in 0..Size-1
<1>1. Oldest \in Nat /\ head \in Nat
  BY ThreadAssumption DEF IInv, RingInv, TicketInv, TypeOK
<1>2. n \in Nat
  BY <1>1 DEF Window
<1> QED
  BY <1>2, IndexInRange

(* A ticket keeps its buffer when its Put keeps it, and when it has none   *)
(* and its slot does not change.                                           *)
LEMMA BufferKept ==
  ASSUME IInv, IInv', NEW n \in Nat,
         \A q \in Producers : Busy(q) /\ ticket[q] = n
           => Busy(q)' /\ ticket'[q] = n /\ hand'[q] = hand[q],
         \A q \in Producers : Busy(q)' /\ ticket'[q] = n => Busy(q) /\ ticket[q] = n,
         slots'[IndexOf(n)] = slots[IndexOf(n)]
  PROVE  BufferOf(n)' = BufferOf(n)
<1>1. BufferHolds /\ BufferHolds'
  BY BufferOfIs, PTL
<1>2. IndexOf(n)' = IndexOf(n)
  BY DEF IndexOf
<1>3. CASE \E q \in Producers : Busy(q) /\ ticket[q] = n
  BY <1>1, <1>3 DEF BufferHolds
<1>4. CASE \A q \in Producers : Busy(q) => ticket[q] # n
  BY <1>1, <1>2, <1>4 DEF BufferHolds
<1> QED
  BY <1>3, <1>4

(* A Put takes effect at its fetch_add,                                    *)
LEMMA PutClaimImplements ==
  ASSUME EnoughPlace, IInv, IInv', NEW p \in Producers, NEW b \in Buffers, PutClaim(p, b)
  PROVE  Queue!Put(b)
<1>1. /\ b \in outside /\ alive /\ alive' = alive /\ outside' = outside \ {b}
      /\ head' = head + 1 /\ pc[p] = "idle" /\ pc'[p] = "old"
      /\ ticket'[p] = head /\ hand'[p] = b /\ slots' = slots
  BY DEF PutClaim, Goto, IInv, TypeOK, Threads
<1>2. \A q \in Producers : q # p =>
        Busy(q)' = Busy(q) /\ ticket'[q] = ticket[q] /\ hand'[q] = hand[q]
  BY DEF PutClaim, Goto, Busy, IInv, TypeOK, Threads
<1>3. Oldest' = Oldest /\ head \in Nat /\ Oldest \in Nat /\ Oldest <= head
      /\ head - Oldest < Size
  BY <1>1, OldestKept, WindowFits, ThreadAssumption
     DEF PutClaim, IInv, RingInv, TicketInv, TypeOK
<1>4. BufferHolds' /\ QueueHolds /\ QueueHolds'
  BY BufferOfIs, QueueContents, PTL
<1>5. PICK h \in Nat : h = head
  BY <1>3
<1>6. BufferOf(h)' = b
  BY <1>1, <1>4, <1>5 DEF BufferHolds, Busy
<1>7. ASSUME NEW n \in Nat, n < head
      PROVE  BufferOf(n)' = BufferOf(n)
  BY <1>1, <1>2, <1>3, <1>7, BufferKept DEF Busy
<1>8. /\ Append(PoolQueue, b) \in Seq(Buffers \cup {NULL})
      /\ Len(Append(PoolQueue, b)) = head + 1 - Oldest
      /\ \A k \in 1..head-Oldest : Append(PoolQueue, b)[k] = PoolQueue[k]
      /\ Append(PoolQueue, b)[head + 1 - Oldest] = b
  BY <1>1, <1>3, <1>4, AppendProperties DEF QueueHolds
<1>9. PoolQueue' \in Seq(Buffers \cup {NULL}) /\ Len(PoolQueue') = head + 1 - Oldest
  BY <1>1, <1>3, <1>4 DEF QueueHolds
<1>10. ASSUME NEW k \in 1..head+1-Oldest
       PROVE  PoolQueue'[k] = Append(PoolQueue, b)[k]
  <2>1. PICK n \in Nat : n = Oldest + k - 1
    BY <1>3
  <2>2. PoolQueue'[k] = BufferOf(n)'
    BY <1>3, <1>4, <1>9, <2>1 DEF QueueHolds
  <2>3. CASE k = head + 1 - Oldest
    <3>1. n = h
      BY <1>3, <1>5, <2>1, <2>3
    <3> QED
      BY <1>6, <1>8, <2>2, <2>3, <3>1
  <2>4. CASE k # head + 1 - Oldest
    <3>1. k \in 1..head-Oldest /\ n < head
      BY <1>3, <2>1, <2>4
    <3>2. PoolQueue[k] = BufferOf(n)
      BY <1>1, <1>3, <1>4, <2>1, <3>1 DEF QueueHolds
    <3> QED
      BY <1>7, <1>8, <2>2, <3>1, <3>2
  <2> QED
    BY <2>3, <2>4
<1>11. PoolQueue' = Append(PoolQueue, b)
  BY <1>8, <1>9, <1>10, SeqEqual
<1>12. Len(PoolQueue) < Size
  BY <1>1, <1>3, <1>4 DEF QueueHolds
<1> QED
  BY <1>1, <1>11, <1>12 DEF Queue!Put

(* ... and the rest of its steps do not show.                              *)
LEMMA PutLoadOldStutters ==
  ASSUME IInv, IInv', NEW p \in Producers, PutLoadOld(p)
  PROVE  UNCHANGED <<PoolQueue, outside, alive>>
<1>1. Oldest' = Oldest
  BY OldestKept DEF PutLoadOld, IInv
<1>2. \A q \in Producers : Busy(q)' = Busy(q) /\ ticket'[q] = ticket[q] /\ hand'[q] = hand[q]
  BY DEF PutLoadOld, Goto, Busy, IInv, TypeOK, Threads
<1>3. head' = head /\ slots' = slots /\ outside' = outside /\ alive' = alive
  BY DEF PutLoadOld
<1>4. ASSUME NEW n \in Window
      PROVE  BufferOf(n)' = BufferOf(n)
  BY <1>2, <1>3, BufferKept, WindowTickets
<1> QED
  BY <1>1, <1>3, <1>4, QueueKept

LEMMA PutAssignStutters ==
  ASSUME EnoughPlace, IInv, IInv', NEW p \in Producers, PutAssign(p)
  PROVE  UNCHANGED <<PoolQueue, outside, alive>>
<1>1. Oldest' = Oldest
  BY OldestKept DEF PutAssign, IInv
<1>2. \A q \in Producers : q # p =>
        Busy(q)' = Busy(q) /\ ticket'[q] = ticket[q] /\ hand'[q] = hand[q]
  BY DEF PutAssign, Goto, Busy, IInv, TypeOK, Threads
<1>3. /\ head' = head /\ outside' = outside /\ alive' = alive
      /\ Busy(p) /\ ~Busy(p)' /\ slots' = [slots EXCEPT ![SlotOf(p)] = hand[p]]
  BY DEF PutAssign, Goto, Busy, IInv, TypeOK, Threads
<1>4. ticket[p] \in Window /\ SlotOf(p) \in 0..Size-1 /\ SlotOf(p) = IndexOf(ticket[p])
      /\ \A q \in Producers : Busy(q) /\ ticket[q] = ticket[p] => q = p
  BY <1>3, SlotInRange DEF IInv, RingInv, PutInv, Threads, SlotOf
<1>5. BufferHolds /\ BufferHolds'
  BY BufferOfIs, PTL
<1>6. ASSUME NEW n \in Window
      PROVE  BufferOf(n)' = BufferOf(n)
  <2>1. n \in Nat /\ IndexOf(n) \in 0..Size-1 /\ IndexOf(n)' = IndexOf(n)
    BY WindowTickets DEF IndexOf
  <2>2. CASE n = ticket[p]
    <3>1. BufferOf(n) = hand[p]
      BY <1>3, <1>5, <2>1, <2>2 DEF BufferHolds
    <3>2. \A q \in Producers : Busy(q)' => ticket'[q] # n
      BY <1>2, <1>3, <1>4, <2>2
    <3>3. BufferOf(n)' = slots'[IndexOf(n)]
      BY <1>5, <2>1, <3>2 DEF BufferHolds
    <3> QED
      BY <1>3, <1>4, <2>2, <3>1, <3>3 DEF IInv, TypeOK
  <2>3. CASE n # ticket[p]
    <3>1. IndexOf(n) # SlotOf(p)
      BY <1>4, <2>3, DistinctSlots DEF IInv, RingInv
    <3>2. slots'[IndexOf(n)] = slots[IndexOf(n)]
      BY <1>3, <2>1, <3>1 DEF IInv, TypeOK
    <3> QED
      BY <1>2, <1>3, <2>1, <2>3, <3>2, BufferKept
  <2> QED
    BY <2>2, <2>3
<1> QED
  BY <1>1, <1>3, <1>6, QueueKept

(* The steps of a Get do not show,                                         *)
LEMMA GetStutters ==
  ASSUME OneConsumer, IInv, IInv', NEW c \in Consumers, GetClaim(c) \/ GetSee(c) \/ GetLoad(c)
  PROVE  UNCHANGED <<PoolQueue, outside, alive>>
<1>1. \A d \in Consumers : d = c
  BY DEF OneConsumer
<1>2. \A q \in Producers : q # c /\ q \in Threads
  BY ThreadAssumption DEF Threads
<1>3. \A q \in Producers : Busy(q)' = Busy(q) /\ ticket'[q] = ticket[q] /\ hand'[q] = hand[q]
  BY <1>2 DEF GetClaim, GetSee, GetLoad, Goto, Busy, IInv, TypeOK, Threads
<1>4. head' = head /\ slots' = slots /\ outside' = outside /\ alive' = alive
  BY DEF GetClaim, GetSee, GetLoad
<1>5. Oldest' = Oldest
  <2>1. tail \in Nat
    BY ThreadAssumption DEF IInv, TypeOK
  <2>2. CASE GetClaim(c)
    <3>1. pc[c] = "idle" /\ pc'[c] # "idle" /\ tail' = tail + 1
      BY <2>2 DEF GetClaim, Goto, IInv, TypeOK, Threads
    <3> QED
      BY <1>1, <2>1, <3>1 DEF Oldest
  <2>3. CASE GetSee(c) \/ GetLoad(c)
    <3>1. pc[c] # "idle" /\ pc'[c] # "idle" /\ tail' = tail
      BY <2>3 DEF GetSee, GetLoad, Goto, IInv, TypeOK, Threads
    <3> QED
      BY <1>1, <3>1 DEF Oldest
  <2> QED
    BY <2>2, <2>3
<1>6. ASSUME NEW n \in Window
      PROVE  BufferOf(n)' = BufferOf(n)
  BY <1>3, <1>4, BufferKept, WindowTickets
<1> QED
  BY <1>4, <1>5, <1>6, QueueKept

(* ... except the last, which takes the first buffer of the queue.         *)
LEMMA GetClearImplements ==
  ASSUME OneConsumer, EnoughPlace, IInv, IInv', NEW c \in Consumers, GetClear(c)
  PROVE  Queue!Get
<1> DEFINE k == SlotOf(c)
<1>1. /\ pc[c] = "clear" /\ pc'[c] = "idle" /\ head' = head /\ alive' = alive
      /\ slots' = [slots EXCEPT ![k] = NULL]
      /\ outside' = outside \cup ({hand[c]} \ {NULL}) /\ tail' = tail
  BY DEF GetClear, Goto, IInv, TypeOK, Threads
<1>2. \A d \in Consumers : d = c
  BY DEF OneConsumer
<1>3. \A q \in Producers : Busy(q)' = Busy(q) /\ ticket'[q] = ticket[q] /\ hand'[q] = hand[q]
  <2>1. \A q \in Producers : q # c /\ q \in Threads
    BY ThreadAssumption DEF Threads
  <2> QED
    BY <2>1 DEF GetClear, Goto, Busy, IInv, TypeOK, Threads
<1>4. /\ k = IndexOf(Oldest) /\ k \in 0..Size-1 /\ slots[k] = hand[c] /\ hand[c] # NULL
      /\ alive
  BY <1>1, SlotInRange DEF IInv, RingInv, GetInv, LifeInv, Busy, SlotOf, Threads
<1>5. /\ Oldest \in Nat /\ head \in Nat /\ Oldest < head /\ Oldest' = Oldest + 1
  <2>1. Oldest = tail - 1 /\ Oldest' = tail /\ tail \in Nat
    BY <1>1, <1>2, ThreadAssumption DEF Oldest, IInv, TypeOK
  <2>2. Oldest \in Nat /\ head \in Nat
    BY ThreadAssumption DEF IInv, RingInv, TicketInv, TypeOK
  <2>3. PICK n \in Window : k = IndexOf(n)
    BY <1>4 DEF IInv, RingInv, SlotInv
  <2> QED
    BY <2>1, <2>2, <2>3 DEF Window
<1> HIDE DEF k
<1>6. BufferHolds /\ QueueHolds /\ QueueHolds'
  BY BufferOfIs, QueueContents, PTL
<1>7. PICK o \in Nat : o = Oldest
  BY <1>5
<1>8. BufferOf(o) = hand[c]
  <2>1. \A q \in Producers : Busy(q) => ticket[q] # o
    BY <1>4, <1>7 DEF IInv, RingInv, PutInv, SlotOf
  <2> QED
    BY <1>4, <1>6, <1>7, <2>1 DEF BufferHolds
<1>9. ASSUME NEW n \in Window, n # o
      PROVE  BufferOf(n)' = BufferOf(n)
  <2>1. n \in Nat /\ IndexOf(n) \in 0..Size-1 /\ o \in Window
    BY <1>5, <1>7, IndexInRange DEF Window
  <2>2. IndexOf(n) # k
    BY <1>4, <1>7, <1>9, <2>1, DistinctSlots DEF IInv, RingInv
  <2>3. slots'[IndexOf(n)] = slots[IndexOf(n)]
    BY <1>1, <2>1, <2>2 DEF IInv, TypeOK
  <2> QED
    BY <1>3, <2>1, <2>3, BufferKept
<1>10. /\ Len(PoolQueue) = head - Oldest /\ PoolQueue # <<>>
       /\ Len(PoolQueue') = head - Oldest - 1
  BY <1>1, <1>4, <1>5, <1>6 DEF QueueHolds
<1>11. Head(PoolQueue) = hand[c]
  BY <1>5, <1>6, <1>7, <1>8, <1>10 DEF QueueHolds
<1>12. /\ Tail(PoolQueue) \in Seq(Buffers \cup {NULL})
       /\ Len(Tail(PoolQueue)) = head - Oldest - 1
       /\ \A i \in 1..head-Oldest-1 : Tail(PoolQueue)[i] = PoolQueue[i + 1]
  BY <1>6, <1>10, HeadTailProperties DEF QueueHolds
<1>13. ASSUME NEW i \in 1..head-Oldest-1
       PROVE  PoolQueue'[i] = Tail(PoolQueue)[i]
  <2>1. PICK n \in Nat : n = Oldest + i
    BY <1>5
  <2>2. n \in Window /\ n # o /\ n = Oldest + (i + 1) - 1 /\ n = Oldest' + i - 1
        /\ i + 1 \in 1..head-Oldest
    BY <1>5, <1>7, <2>1 DEF Window
  <2>3. PoolQueue[i + 1] = BufferOf(n)
    BY <1>6, <1>10, <2>2 DEF QueueHolds
  <2>4. PoolQueue'[i] = BufferOf(n)'
    BY <1>6, <1>10, <2>2 DEF QueueHolds
  <2> QED
    BY <1>9, <1>12, <2>2, <2>3, <2>4
<1>14. PoolQueue' = Tail(PoolQueue)
  BY <1>6, <1>10, <1>12, <1>13, SeqEqual DEF QueueHolds
<1>15. outside' = outside \cup {Head(PoolQueue)}
  BY <1>1, <1>4, <1>11
<1> QED
  BY <1>1, <1>4, <1>10, <1>14, <1>15 DEF Queue!Get

LEMMA StepIsQueue ==
  ASSUME OneConsumer, EnoughPlace
  PROVE  IInv /\ IInv' /\ [Next]_vars => [Queue!Next]_(Queue!vars)
<1> SUFFICES ASSUME IInv, IInv', [Next]_vars
             PROVE  Queue!Next \/ UNCHANGED <<PoolQueue, outside, alive>>
  BY DEF Queue!vars
<1>1. ASSUME NEW p \in Producers, Producer(p)
      PROVE  Queue!Next \/ UNCHANGED <<PoolQueue, outside, alive>>
  BY <1>1, PutClaimImplements, PutLoadOldStutters, PutAssignStutters
     DEF Producer, Queue!Next
<1>2. ASSUME NEW c \in Consumers, Consumer(c)
      PROVE  Queue!Next \/ UNCHANGED <<PoolQueue, outside, alive>>
  BY <1>2, GetStutters, GetClearImplements DEF Consumer, Queue!Next
<1>3. CASE Destroy
  BY <1>3 DEF Destroy, PoolQueue, Queue!Next, Queue!Close
<1>4. CASE UNCHANGED vars
  BY <1>4 DEF vars, PoolQueue, BufferOf, Oldest, IndexOf
<1> QED
  BY <1>1, <1>2, <1>3, <1>4 DEF Next

LEMMA InitIsQueue == Init => Queue!Init
<1> SUFFICES ASSUME Init
             PROVE  Queue!Init
  OBVIOUS
<1>1. alive /\ head = 0 /\ Oldest = 0 /\ outside = Buffers
  BY DEF Init, Oldest, Threads
<1>2. PoolQueue = <<>>
  BY <1>1 DEF PoolQueue
<1> QED
  BY <1>1, <1>2 DEF Queue!Init, Init

-----------------------------------------------------------------------------

(* When no call is running, GetSize, misread macro and all, still tells a  *)
(* full pool from every other one, and reports 0 for an empty one.         *)
THEOREM FullAndEmptyAreTold ==
  ASSUME OneConsumer, EnoughPlace
  PROVE  Spec => []FullAndEmptySize
<1>1. IInv => FullAndEmptySize
  BY FullAndEmptyTold
<1> QED
  BY <1>1, InvariantInit, InvariantStep, PTL DEF Spec

(* The lock-free ring is the bounded first-in first-out queue of its       *)
(* comments.                                                               *)
THEOREM ImplementsBufferQueue ==
  ASSUME OneConsumer, EnoughPlace
  PROVE  Spec => IsQueue
<1>1. Spec => Queue!Init /\ [][Queue!Next]_(Queue!vars)
  BY InitIsQueue, StepIsQueue, InvariantInit, InvariantStep, PTL DEF Spec
<1> QED
  BY <1>1 DEF IsQueue, Queue!Spec

=============================================================================
