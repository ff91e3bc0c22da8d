------------------------- MODULE LogBufferPoolProofs -------------------------
(***************************************************************************)
(* Proofs about LogBufferPool: for every number of threads and buffers no  *)
(* buffer is lost or has two owners, and the pool implements BatchQueue;   *)
(* with one producer no Put stores outside the array.                      *)
(***************************************************************************)
EXTENDS LogBufferPool, FiniteSetTheorems, SequenceTheorems, TLAPS

TypeOK ==
  /\ slots \in [0..Capacity-1 -> Buffers \cup {NULL}]
  /\ size \in Nat
  /\ latch \in Threads \cup {NULL}
  /\ pc \in [Threads -> {"idle", "check", "claim", "store", "move"}]
  /\ idx \in [Threads -> Nat]
  /\ hand \in [Producers -> Buffers \cup {NULL}]
  /\ batch \in [Collectors -> Seq(Buffers)]
  /\ result \in [Collectors -> Seq(Buffers)]
  /\ outside \subseteq Buffers
  /\ leaked \subseteq Buffers
  /\ alive \in BOOLEAN

(* The buffers in the pool: Full counts those that have been stored, and   *)
(* First those that a running GetAllBuffers has moved out of the slots.    *)
Full == IF latch \in Producers THEN size - 1 ELSE size
First == IF latch \in Collectors THEN Len(batch[latch]) ELSE 0
Content(i) == IF i < First THEN batch[latch][i + 1] ELSE slots[i]
Pool == IF alive THEN 0..Full-1 ELSE {}

(* The latch is held during the store and during the move. *)
LatchInv ==
  /\ \A p \in Producers : /\ pc[p] \in {"idle", "check", "claim", "store"}
                          /\ pc[p] = "store" <=> latch = p
  /\ \A c \in Collectors : /\ pc[c] \in {"idle", "move"}
                           /\ pc[c] = "move" <=> latch = c

(* What the running calls know of the pool. *)
CallInv ==
  /\ \A p \in Producers : /\ hand[p] = NULL <=> pc[p] = "idle"
                          /\ pc[p] = "store" => size = idx[p] + 1
  /\ \A c \in Collectors : /\ idx[c] = Len(batch[c])
                           /\ pc[c] = "idle" => batch[c] = <<>>
                           /\ pc[c] = "move" => idx[c] <= size
  /\ ~alive => \A t \in Threads : pc[t] = "idle"

(* The slots in use are those that were stored and not moved out. *)
SlotInv ==
  /\ Full <= Capacity
  /\ \A i \in 0..Capacity-1 : slots[i] # NULL <=> i \in Pool /\ First <= i

(* A buffer is with the clients, with the destructor, in the hand of one   *)
(* Put or at one place of the pool.                                        *)
OwnerInv ==
  /\ alive => leaked = {}
  /\ outside \cap leaked = {}
  /\ \A p \in Producers : hand[p] \notin outside
  /\ \A p, q \in Producers : hand[p] = hand[q] /\ hand[p] # NULL => p = q
  /\ \A i \in Pool : /\ Content(i) \in Buffers \ outside
                     /\ \A p \in Producers : Content(i) # hand[p]
                     /\ \A j \in Pool : Content(i) = Content(j) => i = j
  /\ \A b \in Buffers : \/ b \in outside \cup leaked
                        \/ \E p \in Producers : hand[p] = b
                        \/ \E i \in Pool : Content(i) = b

IInv == TypeOK /\ LatchInv /\ CallInv /\ SlotInv /\ OwnerInv

-----------------------------------------------------------------------------

(* A prefix of a sequence that grows by one place.                         *)
LEMMA AppendOne ==
  ASSUME NEW S, NEW s \in Seq(S), NEW e \in S
  PROVE  /\ Append(s, e) \in Seq(S)
         /\ Len(Append(s, e)) = Len(s) + 1
         /\ \A i \in 1..Len(s) : Append(s, e)[i] = s[i]
         /\ Append(s, e)[Len(s) + 1] = e
BY AppendProperties

(* The elements of a sequence of buffers. *)
LEMMA BatchElements ==
  ASSUME TypeOK, NEW c \in Collectors
  PROVE  /\ Len(batch[c]) \in Nat
         /\ \A k \in 1..Len(batch[c]) : batch[c][k] \in Buffers
         /\ DOMAIN batch[c] = 1..Len(batch[c])
<1>1. batch[c] \in Seq(Buffers)
  BY DEF TypeOK
<1> QED
  BY <1>1, LenProperties, ElementOfSeq

(* The invariant holds of a new pool. *)
LEMMA InvariantInit == Init => IInv
<1> SUFFICES ASSUME Init
             PROVE  IInv
  OBVIOUS
<1>1. /\ Full = 0 /\ First = 0 /\ Pool = {}
      /\ latch \notin Threads
  BY PoolAssumption DEF Init, Full, First, Pool, Threads
<1>2. TypeOK
  BY PoolAssumption, EmptySeq DEF Init, TypeOK, Threads
<1>3. LatchInv /\ CallInv
  <2>1. Len(<<>>) = 0
    BY EmptySeq
  <2> QED
    BY <1>1, <2>1 DEF Init, LatchInv, CallInv, Threads
<1>4. SlotInv
  BY <1>1, PoolAssumption DEF Init, SlotInv
<1>5. OwnerInv
  <2>1. /\ outside = Buffers /\ leaked = {}
        /\ \A p \in Producers : hand[p] = NULL
    BY DEF Init
  <2> QED
    BY <1>1, <2>1, PoolAssumption DEF OwnerInv
<1> QED
  BY <1>2, <1>3, <1>4, <1>5 DEF IInv

(* Steps that leave the pool alone. *)
LEMMA PutCallStep ==
  ASSUME IInv, NEW p \in Producers, NEW b \in Buffers, PutCall(p, b)
  PROVE  IInv'
<1> USE DEF IInv, Goto
<1>1. p \in Threads /\ p \notin Collectors /\ b # NULL
  BY PoolAssumption DEF Threads
<1>2. TypeOK'
  BY <1>1 DEF PutCall, TypeOK
<1>3. LatchInv'
  BY <1>1 DEF PutCall, TypeOK, LatchInv, Threads
<1>4. CallInv'
  BY <1>1 DEF PutCall, TypeOK, CallInv, LatchInv, Threads
<1>5. /\ Full' = Full /\ First' = First /\ Pool' = Pool
      /\ \A i : Content(i)' = Content(i)
  BY DEF PutCall, Full, First, Pool, Content
<1>6. SlotInv'
  BY <1>5 DEF PutCall, SlotInv
<1>7. OwnerInv'
  <2>1. /\ outside' = outside \ {b} /\ b \in outside
        /\ UNCHANGED <<leaked, alive>>
        /\ \A q \in Producers : hand'[q] = IF q = p THEN b ELSE hand[q]
    BY DEF PutCall, TypeOK
  <2>2. /\ alive' => leaked' = {}
        /\ outside' \cap leaked' = {}
        /\ \A q \in Producers : hand'[q] \notin outside'
        /\ \A q, r \in Producers : hand'[q] = hand'[r] /\ hand'[q] # NULL => q = r
    BY <2>1 DEF OwnerInv
  <2>3. ASSUME NEW i \in Pool'
        PROVE  /\ Content(i)' \in Buffers \ outside'
               /\ \A q \in Producers : Content(i)' # hand'[q]
               /\ \A j \in Pool' : Content(i)' = Content(j)' => i = j
    <3>1. Content(i)' = Content(i) /\ \A j \in Pool : Content(j)' = Content(j)
      BY <1>5
    <3> QED
      BY <1>5, <2>1, <3>1 DEF OwnerInv
  <2>4. ASSUME NEW d \in Buffers
        PROVE  \/ d \in outside' \cup leaked'
               \/ \E q \in Producers : hand'[q] = d
               \/ \E i \in Pool' : Content(i)' = d
    <3>1. hand[p] = NULL
      BY DEF PutCall, CallInv
    <3> QED
      BY <1>5, <2>1, <3>1, PoolAssumption DEF OwnerInv
  <2> QED
    BY <2>2, <2>3, <2>4 DEF OwnerInv
<1> QED
  BY <1>2, <1>3, <1>4, <1>6, <1>7

LEMMA PutCheckStep ==
  ASSUME IInv, NEW p \in Producers, PutCheck(p)
  PROVE  IInv'
<1> USE DEF IInv, Goto
<1>1. p \in Threads /\ p \notin Collectors
  BY PoolAssumption DEF Threads
<1>2. TypeOK'
  BY <1>1 DEF PutCheck, TypeOK
<1>3. LatchInv'
  BY <1>1 DEF PutCheck, TypeOK, LatchInv, Threads
<1>4. CallInv'
  BY <1>1 DEF PutCheck, TypeOK, CallInv, LatchInv, Threads
<1>5. /\ Full' = Full /\ First' = First /\ Pool' = Pool
      /\ \A i : Content(i)' = Content(i)
  BY DEF PutCheck, Full, First, Pool, Content
<1> QED
  BY <1>2, <1>3, <1>4, <1>5 DEF PutCheck, SlotInv, OwnerInv

LEMMA PutClaimStep ==
  ASSUME IInv, NEW p \in Producers, PutClaim(p)
  PROVE  IInv'
<1> USE DEF IInv, Goto
<1>1. p \in Threads /\ p \notin Collectors /\ NULL \notin Threads
  BY PoolAssumption DEF Threads
<1>2. TypeOK'
  BY <1>1 DEF PutClaim, TypeOK
<1>3. LatchInv'
  BY <1>1 DEF PutClaim, TypeOK, LatchInv, Threads
<1>4. CallInv'
  BY <1>1, PoolAssumption DEF PutClaim, TypeOK, CallInv, LatchInv, Threads
<1>5. /\ Full' = Full /\ First' = First /\ Pool' = Pool
      /\ First = 0
  BY <1>1 DEF PutClaim, TypeOK, Full, First, Pool, Threads
<1>6. \A i \in Nat : Content(i)' = Content(i)
  BY <1>5 DEF PutClaim, Content
<1>7. SlotInv' /\ OwnerInv'
  <2>1. Pool \subseteq Nat
    BY DEF Pool
  <2> QED
    BY <1>5, <1>6, <2>1 DEF PutClaim, SlotInv, OwnerInv
<1> QED
  BY <1>2, <1>3, <1>4, <1>7

(* The buffer of a Put that stores becomes the last one of the pool. *)
LEMMA PutStoreStep ==
  ASSUME IInv, NEW p \in Producers, PutStore(p)
  PROVE  IInv'
<1> USE DEF IInv, Goto
<1>1. p \in Threads /\ p \notin Collectors /\ NULL \notin Threads /\ Capacity \in Nat
  BY PoolAssumption DEF Threads
<1>2. /\ latch = p /\ size = idx[p] + 1 /\ idx[p] \in 0..Capacity-1 /\ alive
      /\ hand[p] \in Buffers /\ hand[p] # NULL
  BY <1>1 DEF PutStore, LatchInv, CallInv, TypeOK
<1>3. TypeOK'
  BY <1>1, <1>2 DEF PutStore, TypeOK
<1>4. LatchInv'
  BY <1>1, <1>2 DEF PutStore, TypeOK, LatchInv, Threads
<1>5. CallInv'
  BY <1>1, <1>2, PoolAssumption DEF PutStore, TypeOK, CallInv, LatchInv, Threads
<1>6. /\ Full = idx[p] /\ Full' = idx[p] + 1 /\ First = 0 /\ First' = 0
      /\ Pool = 0..idx[p]-1 /\ Pool' = 0..idx[p]
  <2>1. Full = idx[p] /\ First = 0
    BY <1>1, <1>2 DEF Full, First
  <2>2. latch' = NULL /\ size' = size /\ alive' = alive
    BY DEF PutStore
  <2>3. Full' = idx[p] + 1 /\ First' = 0
    BY <1>1, <1>2, <2>2 DEF Full, First, Threads
  <2> QED
    BY <1>2, <2>1, <2>2, <2>3 DEF Pool
<1>7. \A i \in 0..idx[p] : Content(i)' = IF i = idx[p] THEN hand[p] ELSE Content(i)
  <2>1. slots' = [slots EXCEPT ![idx[p]] = hand[p]]
    BY DEF PutStore
  <2>2. \A i \in 0..idx[p] : slots'[i] = IF i = idx[p] THEN hand[p] ELSE slots[i]
    BY <1>1, <1>2, <2>1 DEF TypeOK
  <2>3. \A i \in 0..idx[p] : Content(i)' = slots'[i] /\ Content(i) = slots[i]
    BY <1>2, <1>6 DEF Content
  <2> QED
    BY <1>2, <1>6, <2>2, <2>3
<1>8. SlotInv'
  <2>1. slots' = [slots EXCEPT ![idx[p]] = hand[p]]
    BY DEF PutStore
  <2> QED
    BY <1>1, <1>2, <1>6, <2>1 DEF SlotInv, TypeOK
<1>9. OwnerInv'
  <2>1. Pool' = Pool \cup {idx[p]} /\ idx[p] \notin Pool
    BY <1>2, <1>6
  <2>2. hand' = [hand EXCEPT ![p] = NULL] /\ UNCHANGED <<outside, leaked, alive>>
    BY DEF PutStore
  <2>3. \A i \in Pool' : Content(i)' = IF i = idx[p] THEN hand[p] ELSE Content(i)
    BY <1>6, <1>7
  <2>4. \A q \in Producers : hand'[q] = IF q = p THEN NULL ELSE hand[q]
    BY <2>2 DEF TypeOK
  <2>5. NULL \notin Buffers
    BY PoolAssumption
  <2>6. /\ alive' => leaked' = {}
        /\ outside' \cap leaked' = {}
        /\ \A q \in Producers : hand'[q] \notin outside'
        /\ \A q, r \in Producers : hand'[q] = hand'[r] /\ hand'[q] # NULL => q = r
    BY <2>2, <2>4, <2>5 DEF OwnerInv, TypeOK
  <2>7. ASSUME NEW i \in Pool'
        PROVE  /\ Content(i)' \in Buffers \ outside'
               /\ \A q \in Producers : Content(i)' # hand'[q]
               /\ \A j \in Pool' : Content(i)' = Content(j)' => i = j
    BY <1>2, <2>1, <2>2, <2>3, <2>4, <2>5 DEF OwnerInv
  <2>8. ASSUME NEW b \in Buffers
        PROVE  \/ b \in outside' \cup leaked'
               \/ \E q \in Producers : hand'[q] = b
               \/ \E i \in Pool' : Content(i)' = b
    BY <2>1, <2>2, <2>3, <2>4 DEF OwnerInv
  <2> QED
    BY <2>6, <2>7, <2>8 DEF OwnerInv
<1> QED
  BY <1>3, <1>4, <1>5, <1>8, <1>9

LEMMA GetAllLockStep ==
  ASSUME IInv, NEW c \in Collectors, GetAllLock(c)
  PROVE  IInv'
<1> USE DEF IInv, Goto
<1>1. c \in Threads /\ c \notin Producers /\ NULL \notin Threads
  BY PoolAssumption DEF Threads
<1>2. TypeOK'
  BY <1>1 DEF GetAllLock, TypeOK
<1>3. LatchInv'
  BY <1>1 DEF GetAllLock, TypeOK, LatchInv, Threads
<1>4. batch[c] = <<>> /\ Len(batch[c]) = 0
  BY <1>1, EmptySeq DEF GetAllLock, CallInv
<1>5. CallInv'
  BY <1>1, <1>4, PoolAssumption DEF GetAllLock, TypeOK, CallInv, LatchInv, Threads
<1>6. /\ Full' = Full /\ First' = First /\ Pool' = Pool
      /\ First = 0
  BY <1>1, <1>4 DEF GetAllLock, TypeOK, Full, First, Pool, Threads
<1>7. \A i \in Nat : Content(i)' = Content(i)
  BY <1>6 DEF GetAllLock, Content
<1>8. SlotInv' /\ OwnerInv'
  <2>1. Pool \subseteq Nat
    BY DEF Pool
  <2> QED
    BY <1>6, <1>7, <2>1 DEF GetAllLock, SlotInv, OwnerInv
<1> QED
  BY <1>2, <1>3, <1>5, <1>8

(* A move changes the place of a buffer, not what the pool contains.       *)
LEMMA GetAllMoveStep ==
  ASSUME IInv, NEW c \in Collectors, GetAllMove(c)
  PROVE  IInv' /\ Full' = Full /\ Pool' = Pool /\ \A i \in Pool : Content(i)' = Content(i)
<1> USE DEF IInv
<1>1. c \in Threads /\ c \notin Producers /\ NULL \notin Threads /\ Capacity \in Nat
  BY PoolAssumption DEF Threads
<1>2. /\ latch = c /\ idx[c] = Len(batch[c]) /\ idx[c] \in Nat /\ idx[c] < size
      /\ alive /\ size <= Capacity /\ pc[c] = "move" /\ size \in Nat
  BY <1>1 DEF GetAllMove, LatchInv, CallInv, TypeOK, SlotInv, Full
<1>3. /\ Full = size /\ First = idx[c] /\ Pool = 0..size-1
      /\ Full' = size /\ Pool' = 0..size-1
  BY <1>1, <1>2 DEF GetAllMove, Full, First, Pool
<1>4. slots[idx[c]] \in Buffers
  <2>1. idx[c] \in 0..Capacity-1 /\ idx[c] \in Pool
    BY <1>1, <1>2, <1>3
  <2>2. slots[idx[c]] # NULL /\ slots[idx[c]] \in Buffers \cup {NULL}
    BY <1>2, <1>3, <2>1 DEF SlotInv, TypeOK
  <2> QED
    BY <2>2
<1>5. /\ batch'[c] \in Seq(Buffers) /\ Len(batch'[c]) = idx[c] + 1
      /\ \A k \in 1..idx[c] : batch'[c][k] = batch[c][k]
      /\ batch'[c][idx[c] + 1] = slots[idx[c]]
  <2>1. batch[c] \in Seq(Buffers) /\ batch'[c] = Append(batch[c], slots[idx[c]])
    BY DEF GetAllMove, TypeOK
  <2> QED
    BY <1>2, <1>4, <2>1, AppendOne
<1>6. TypeOK'
  BY <1>1, <1>2, <1>5 DEF GetAllMove, TypeOK
<1>7. LatchInv'
  BY DEF GetAllMove, LatchInv
<1>8. CallInv'
  BY <1>1, <1>2, <1>5, PoolAssumption DEF GetAllMove, TypeOK, CallInv, Threads
<1>9. First' = idx[c] + 1
  BY <1>2, <1>5 DEF GetAllMove, First
<1>10. ASSUME NEW i \in Pool
       PROVE  Content(i)' = Content(i)
  <2>1. i \in 0..size-1 /\ latch' = c /\ slots' = [slots EXCEPT ![idx[c]] = NULL]
    BY <1>2, <1>3 DEF GetAllMove
  <2>2. CASE i < idx[c]
    BY <1>2, <1>3, <1>5, <1>9, <2>1, <2>2 DEF Content
  <2>3. CASE i = idx[c]
    BY <1>2, <1>3, <1>5, <1>9, <2>1, <2>3 DEF Content
  <2>4. CASE i > idx[c]
    BY <1>2, <1>3, <1>9, <2>1, <2>4 DEF Content, TypeOK
  <2> QED
    BY <1>2, <2>1, <2>2, <2>3, <2>4
<1>11. SlotInv'
  <2>1. slots' = [slots EXCEPT ![idx[c]] = NULL]
    BY DEF GetAllMove
  <2> QED
    BY <1>1, <1>2, <1>3, <1>9, <2>1 DEF SlotInv, TypeOK
<1>12. OwnerInv'
  BY <1>3, <1>10 DEF GetAllMove, OwnerInv
<1> QED
  BY <1>3, <1>6, <1>7, <1>8, <1>10, <1>11, <1>12

(* When the move ends, the batch has all that the pool contained. *)
LEMMA BatchIsPool ==
  ASSUME IInv, NEW c \in Collectors, GetAllReset(c)
  PROVE  /\ latch = c /\ alive
         /\ Len(batch[c]) = size /\ Full = size /\ First = size /\ Pool = 0..size-1
         /\ DOMAIN batch[c] = 1..size
         /\ \A i \in Pool : Content(i) = batch[c][i + 1]
         /\ {batch[c][k] : k \in DOMAIN batch[c]} = {Content(i) : i \in Pool}
<1> USE DEF IInv
<1>1. c \in Threads /\ c \notin Producers /\ pc[c] = "move"
  BY PoolAssumption DEF Threads, GetAllReset, Goto
<1>2. /\ latch = c /\ alive /\ idx[c] = Len(batch[c]) /\ idx[c] = size
      /\ size \in Nat
  BY <1>1 DEF GetAllReset, LatchInv, CallInv, TypeOK
<1>3. Full = size /\ First = size /\ Pool = 0..size-1 /\ DOMAIN batch[c] = 1..size
  BY <1>1, <1>2, BatchElements DEF Full, First, Pool
<1>4. \A i \in Pool : Content(i) = batch[c][i + 1]
  BY <1>2, <1>3 DEF Content
<1>5. {batch[c][k] : k \in DOMAIN batch[c]} = {Content(i) : i \in Pool}
  <2>1. ASSUME NEW k \in DOMAIN batch[c]
        PROVE  k - 1 \in Pool /\ Content(k - 1) = batch[c][k]
    BY <1>2, <1>3, <1>4
  <2>2. ASSUME NEW i \in Pool
        PROVE  i + 1 \in DOMAIN batch[c]
    BY <1>2, <1>3
  <2> QED
    BY <1>4, <2>1, <2>2
<1> QED
  BY <1>2, <1>3, <1>4, <1>5

LEMMA GetAllResetStep ==
  ASSUME IInv, NEW c \in Collectors, GetAllReset(c)
  PROVE  IInv'
<1> USE DEF IInv, Goto
<1>1. c \in Threads /\ c \notin Producers /\ NULL \notin Threads /\ Capacity \in Nat
  BY PoolAssumption DEF Threads
<1>2. /\ latch = c /\ alive /\ Pool = 0..size-1 /\ First = size /\ size \in Nat
      /\ outside' = outside \cup {Content(i) : i \in Pool}
  BY BatchIsPool DEF GetAllReset, TypeOK
<1>3. \A i \in Pool : Content(i) \in Buffers
  BY DEF OwnerInv
<1>4. TypeOK'
  <2>1. outside' \subseteq Buffers
    BY <1>2, <1>3 DEF TypeOK
  <2>2. <<>> \in Seq(Buffers)
    BY EmptySeq
  <2> QED
    BY <1>1, <2>1, <2>2 DEF GetAllReset, TypeOK
<1>5. LatchInv'
  BY <1>1, <1>2 DEF GetAllReset, TypeOK, LatchInv, Threads
<1>6. CallInv'
  <2>1. Len(<<>>) = 0
    BY EmptySeq
  <2> QED
    BY <1>1, <1>2, <2>1, PoolAssumption DEF GetAllReset, TypeOK, CallInv, LatchInv, Threads
<1>7. Full' = 0 /\ First' = 0 /\ Pool' = {}
  BY <1>1 DEF GetAllReset, Full, First, Pool, Threads
<1>8. SlotInv'
  <2>1. \A i \in 0..Capacity-1 : slots[i] = NULL
    BY <1>2 DEF SlotInv, TypeOK
  <2> QED
    BY <1>1, <1>7, <2>1 DEF GetAllReset, SlotInv
<1>9. OwnerInv'
  <2>1. UNCHANGED <<hand, leaked, alive>> /\ leaked = {}
    BY <1>2 DEF GetAllReset, OwnerInv
  <2> QED
    BY <1>2, <1>3, <1>7, <2>1 DEF OwnerInv
<1> QED
  BY <1>4, <1>5, <1>6, <1>8, <1>9

(* The destructor takes what is in the slots. *)
LEMMA DestroyStep ==
  ASSUME IInv, Destroy
  PROVE  IInv'
<1> USE DEF IInv
<1>1. latch \notin Threads /\ Capacity \in Nat /\ NULL \notin Buffers
  BY PoolAssumption DEF Destroy, LatchInv, Threads
<1>2. /\ Full = size /\ First = 0 /\ Pool = 0..size-1
      /\ Full' = size /\ First' = 0 /\ Pool' = {}
      /\ size \in Nat /\ size <= Capacity
  BY <1>1 DEF Destroy, Full, First, Pool, TypeOK, Threads, SlotInv
<1>3. \A i \in Pool : Content(i) = slots[i]
  BY <1>2 DEF Content
<1>4. leaked' = {Content(i) : i \in Pool}
  BY <1>2, <1>3 DEF Destroy
<1>5. \A i \in Pool : Content(i) \in Buffers \ outside
  BY DEF OwnerInv
<1>6. TypeOK'
  <2>1. leaked' \subseteq Buffers
    BY <1>4, <1>5
  <2>2. slots' \in [0..Capacity-1 -> Buffers \cup {NULL}] /\ alive' \in BOOLEAN
    BY DEF Destroy
  <2> QED
    BY <2>1, <2>2 DEF Destroy, TypeOK
<1>7. LatchInv' /\ CallInv'
  BY DEF Destroy, LatchInv, CallInv
<1>8. SlotInv'
  BY <1>1, <1>2 DEF Destroy, SlotInv
<1>9. OwnerInv'
  <2>1. \A p \in Producers : hand[p] = NULL
    BY DEF Destroy, CallInv, Threads
  <2>2. UNCHANGED <<hand, outside>> /\ ~alive' /\ leaked = {}
    BY DEF Destroy, OwnerInv
  <2> QED
    BY <1>1, <1>2, <1>4, <1>5, <2>1, <2>2 DEF OwnerInv
<1> QED
  BY <1>6, <1>7, <1>8, <1>9

(* Every step keeps the invariant. *)
LEMMA InvariantStep == IInv /\ [Next]_vars => IInv'
<1> SUFFICES ASSUME IInv, [Next]_vars
             PROVE  IInv'
  OBVIOUS
<1>1. ASSUME NEW p \in Producers, Put(p)
      PROVE  IInv'
  BY <1>1, PutCallStep, PutCheckStep, PutClaimStep, PutStoreStep DEF Put
<1>2. ASSUME NEW c \in Collectors, GetAllBuffers(c)
      PROVE  IInv'
  BY <1>2, GetAllLockStep, GetAllMoveStep, GetAllResetStep DEF GetAllBuffers
<1>3. CASE Destroy
  BY <1>3, DestroyStep
<1>4. CASE UNCHANGED vars
  BY <1>4 DEF vars, IInv, TypeOK, LatchInv, CallInv, SlotInv, OwnerInv, Full, First,
              Pool, Content
<1> QED
  BY <1>1, <1>2, <1>3, <1>4 DEF Next

(* In every reachable state the latch, the running calls, the slots and    *)
(* the owners of the buffers fit together, whatever the number of threads. *)
THEOREM PoolInvariant == Spec => []IInv
BY InvariantInit, InvariantStep, PTL DEF Spec

-----------------------------------------------------------------------------

(* The buffer in a slot is one of the pool, *)
LEMMA SlotOwner ==
  ASSUME IInv, NEW b \in Buffers, NEW i \in 0..Capacity-1
  PROVE  slots[i] = b <=> i \in Pool /\ First <= i /\ Content(i) = b
<1>1. b # NULL /\ i \in Int
  BY PoolAssumption
<1>2. First \in Nat
  BY BatchElements DEF IInv, First
<1>3. slots[i] # NULL <=> i \in Pool /\ First <= i
  BY DEF IInv, SlotInv
<1>4. First <= i => Content(i) = slots[i]
  BY <1>1, <1>2 DEF Content
<1> QED
  BY <1>1, <1>3, <1>4

(* ... and so is one in a batch. *)
LEMMA BatchOwner ==
  ASSUME IInv, NEW c \in Collectors, NEW k \in DOMAIN batch[c]
  PROVE  latch = c /\ k - 1 \in Pool /\ k - 1 < First /\ batch[c][k] = Content(k - 1)
<1>1. /\ Len(batch[c]) \in Nat /\ k \in 1..Len(batch[c])
      /\ c \in Threads /\ c \notin Producers /\ size \in Nat
  BY BatchElements, PoolAssumption DEF IInv, TypeOK, Threads
<1>2. pc[c] # "idle"
  <2>1. Len(<<>>) = 0
    BY EmptySeq
  <2> QED
    BY <1>1, <2>1 DEF IInv, CallInv
<1>3. latch = c /\ alive /\ Len(batch[c]) <= size
  BY <1>1, <1>2 DEF IInv, LatchInv, CallInv
<1>4. First = Len(batch[c]) /\ Full = size
  BY <1>1, <1>3 DEF First, Full
<1> QED
  BY <1>1, <1>3, <1>4 DEF Pool, Content

(* The set of a buffer's owners is a singleton. *)
LEMMA OneOwner ==
  ASSUME IInv, NEW b \in Buffers
  PROVE  \E o : Owners(b) = {o}
<1> DEFINE Clients == {<<"clients", o>> : o \in outside \cap {b}}
           Destructor == {<<"destructor", l>> : l \in leaked \cap {b}}
           Slot == {<<"slot", i>> : i \in {j \in 0..Capacity-1 : slots[j] = b}}
           Hand == {<<"put", p>> : p \in {q \in Producers : hand[q] = b}}
           InBatch(c) == {<<"batch", <<c, k>> >> : k \in {l \in DOMAIN batch[c] : batch[c][l] = b}}
           Batch == UNION {InBatch(c) : c \in Collectors}
<1>1. Owners(b) = Clients \cup Destructor \cup Slot \cup Hand \cup Batch
  BY DEF Owners
<1> HIDE DEF Clients, Destructor, Slot, Hand, Batch
<1>2. b # NULL
  BY PoolAssumption
<1>3. \A i \in Pool : i \in 0..Capacity-1
  BY PoolAssumption DEF IInv, SlotInv, Pool, Full, TypeOK
<1>4. ~(\E i \in Pool : Content(i) = b) => Slot = {} /\ Batch = {}
  <2>1. ~(\E i \in Pool : Content(i) = b) => Slot = {}
    BY SlotOwner DEF Slot
  <2>2. ASSUME ~(\E i \in Pool : Content(i) = b), NEW c \in Collectors
        PROVE  InBatch(c) = {}
    BY <2>2, BatchOwner
  <2> QED
    BY <2>1, <2>2 DEF Batch
<1>5. ~(\E p \in Producers : hand[p] = b) => Hand = {}
  BY DEF Hand
<1>6. b \notin outside => Clients = {}
  BY DEF Clients
<1>7. b \notin leaked => Destructor = {}
  BY DEF Destructor
<1>8. leaked # {} => ~alive
  BY DEF IInv, OwnerInv
<1>9. ~alive => Pool = {} /\ \A p \in Producers : hand[p] = NULL
  BY DEF IInv, CallInv, Pool, Threads
<1>10. CASE b \in outside
  <2>1. ~(\E i \in Pool : Content(i) = b) /\ ~(\E p \in Producers : hand[p] = b)
        /\ b \notin leaked
    BY <1>10 DEF IInv, OwnerInv
  <2>2. Clients = {<<"clients", b>>}
    BY <1>10 DEF Clients
  <2> QED
    BY <1>1, <1>4, <1>5, <1>7, <2>1, <2>2
<1>11. CASE b \in leaked
  <2>1. ~(\E i \in Pool : Content(i) = b) /\ ~(\E p \in Producers : hand[p] = b)
        /\ b \notin outside
    BY <1>2, <1>8, <1>9, <1>11 DEF IInv, OwnerInv
  <2>2. Destructor = {<<"destructor", b>>}
    BY <1>11 DEF Destructor
  <2> QED
    BY <1>1, <1>4, <1>5, <1>6, <2>1, <2>2
<1>12. ASSUME NEW p \in Producers, hand[p] = b
       PROVE  \E o : Owners(b) = {o}
  <2>1. ~(\E i \in Pool : Content(i) = b) /\ b \notin outside /\ b \notin leaked
        /\ \A q \in Producers : hand[q] = b => q = p
    BY <1>2, <1>8, <1>9, <1>12 DEF IInv, OwnerInv
  <2>2. Hand = {<<"put", p>>}
    BY <1>12, <2>1 DEF Hand
  <2> QED
    BY <1>1, <1>4, <1>6, <1>7, <2>1, <2>2
<1>13. ASSUME NEW i \in Pool, Content(i) = b
       PROVE  \E o : Owners(b) = {o}
  <2>1. ~(\E p \in Producers : hand[p] = b) /\ b \notin outside /\ b \notin leaked
        /\ \A j \in Pool : Content(j) = b => j = i
    BY <1>8, <1>9, <1>13 DEF IInv, OwnerInv
  <2>2. Owners(b) = Slot \cup Batch
    BY <1>1, <1>5, <1>6, <1>7, <2>1
  <2>3. First \in Nat /\ i \in Nat
    BY BatchElements DEF IInv, First, Pool
  <2>4. CASE First <= i
    <3>1. Slot = {<<"slot", i>>}
      BY <1>3, <1>13, <2>1, <2>4, SlotOwner DEF Slot
    <3>2. ASSUME NEW c \in Collectors
          PROVE  InBatch(c) = {}
      <4>1. ASSUME NEW k \in DOMAIN batch[c], batch[c][k] = b
            PROVE  FALSE
        <5>1. k - 1 = i /\ k - 1 < First
          BY <2>1, <4>1, BatchOwner
        <5> QED
          BY <2>3, <2>4, <5>1
      <4> QED
        BY <4>1
    <3> HIDE DEF InBatch
    <3>3. Batch = {}
      BY <3>2 DEF Batch
    <3> QED
      BY <2>2, <3>1, <3>3
  <2>5. CASE i < First
    <3>1. Slot = {}
      <4>1. ASSUME NEW j \in 0..Capacity-1, slots[j] = b
            PROVE  FALSE
        <5>1. j = i /\ First <= j
          BY <2>1, <4>1, SlotOwner
        <5> QED
          BY <2>3, <2>5, <5>1
      <4> QED
        BY <4>1 DEF Slot
    <3>2. latch \in Collectors /\ First = Len(batch[latch]) /\ i + 1 \in DOMAIN batch[latch]
      BY <2>3, <2>5, BatchElements DEF IInv, First
    <3>3. batch[latch][i + 1] = b
      BY <1>13, <2>5 DEF Content
    <3>4. ASSUME NEW c \in Collectors, NEW k \in DOMAIN batch[c], batch[c][k] = b
          PROVE  c = latch /\ k = i + 1
      <4>1. latch = c /\ k - 1 = i
        BY <2>1, <3>4, BatchOwner
      <4>2. k \in Int
        BY BatchElements DEF IInv
      <4> QED
        BY <4>1, <4>2
    <3>5. InBatch(latch) = {<<"batch", <<latch, i + 1>> >>}
      BY <3>2, <3>3, <3>4
    <3>6. \A c \in Collectors : c # latch => InBatch(c) = {}
      BY <3>4
    <3> HIDE DEF InBatch
    <3>7. Batch = {<<"batch", <<latch, i + 1>> >>}
      BY <3>2, <3>5, <3>6 DEF Batch
    <3> QED
      BY <2>2, <3>1, <3>7
  <2>6. First <= i \/ i < First
    BY <2>3
  <2> QED
    BY <2>4, <2>5, <2>6, Zenon
<1> QED
  BY <1>10, <1>11, <1>12, <1>13 DEF IInv, OwnerInv

(* No buffer is lost and none has two owners, with any number of loggers   *)
(* and flushers.                                                           *)
THEOREM BuffersConserved == Spec => []BufferConserved
<1>1. IInv => BufferConserved
  <2> SUFFICES ASSUME IInv, NEW b \in Buffers
               PROVE  Cardinality(Owners(b)) = 1
    BY DEF BufferConserved
  <2>1. PICK o : Owners(b) = {o}
    BY OneOwner
  <2> QED
    BY <2>1, FS_Singleton
<1> QED
  BY <1>1, PoolInvariant, PTL

(* The only Put under way has checked size_ before, and nobody else has    *)
(* taken a place since.                                                    *)
OneProducer == \A p, q \in Producers : p = q

PlaceLeft == \A p \in Producers : pc[p] = "claim" => size < Capacity

LEMMA PlaceLeftStep ==
  ASSUME OneProducer
  PROVE  IInv /\ PlaceLeft /\ PutInBounds /\ [Next]_vars => PlaceLeft' /\ PutInBounds'
<1> SUFFICES ASSUME IInv, PlaceLeft, PutInBounds, [Next]_vars
             PROVE  PlaceLeft' /\ PutInBounds'
  OBVIOUS
<1> USE DEF PlaceLeft, PutInBounds, Goto
<1>1. /\ Producers \subseteq Threads /\ Producers \cap Collectors = {} /\ Capacity \in Nat
      /\ pc \in [Threads -> {"idle", "check", "claim", "store", "move"}]
      /\ idx \in [Threads -> Nat] /\ size \in Nat
  BY PoolAssumption DEF IInv, TypeOK, Threads
<1>2. ASSUME NEW p \in Producers, NEW b \in Buffers, PutCall(p, b)
      PROVE  PlaceLeft' /\ PutInBounds'
  BY <1>1, <1>2 DEF PutCall
<1>3. ASSUME NEW p \in Producers, PutCheck(p)
      PROVE  PlaceLeft' /\ PutInBounds'
  BY <1>1, <1>3 DEF PutCheck
<1>4. ASSUME NEW p \in Producers, PutClaim(p)
      PROVE  PlaceLeft' /\ PutInBounds'
  BY <1>1, <1>4 DEF PutClaim, OneProducer
<1>5. ASSUME NEW p \in Producers, PutStore(p)
      PROVE  PlaceLeft' /\ PutInBounds'
  BY <1>1, <1>5 DEF PutStore, OneProducer
<1>6. ASSUME NEW c \in Collectors, GetAllBuffers(c)
      PROVE  PlaceLeft' /\ PutInBounds'
  <2>1. c \in Threads /\ c \notin Producers
    BY <1>1 DEF Threads
  <2>2. CASE GetAllLock(c)
    BY <1>1, <2>1, <2>2 DEF GetAllLock
  <2>3. CASE GetAllMove(c)
    BY <1>1, <2>1, <2>3 DEF GetAllMove
  <2>4. CASE GetAllReset(c)
    BY <1>1, <2>1, <2>4, PoolAssumption DEF GetAllReset
  <2> QED
    BY <1>6, <2>2, <2>3, <2>4 DEF GetAllBuffers
<1>7. CASE Destroy
  BY <1>7 DEF Destroy
<1>8. CASE UNCHANGED vars
  BY <1>8 DEF vars
<1> QED
  BY <1>2, <1>3, <1>4, <1>5, <1>6, <1>7, <1>8 DEF Next, Put

(* With one logger, as in the usage comment of the class, no Put stores    *)
(* behind the array, whatever the number of flushers.                      *)
THEOREM StoresInBounds ==
  ASSUME OneProducer
  PROVE  Spec => []PutInBounds
<1>1. Init => PlaceLeft /\ PutInBounds
  BY DEF Init, PlaceLeft, PutInBounds, Threads
<1> QED
  BY <1>1, PlaceLeftStep, PoolInvariant, PTL DEF Spec

-----------------------------------------------------------------------------

(* The queue of the refinement mapping holds the contents of the pool. *)
QueueHolds ==
  /\ PoolQueue \in Seq(Buffers)
  /\ Len(PoolQueue) = IF alive THEN Full ELSE 0
  /\ Full \in Nat
  /\ alive => Pool = 0..Full-1
  /\ \A k \in 1..Len(PoolQueue) : PoolQueue[k] = Content(k - 1)

LEMMA QueueContents == IInv => QueueHolds
<1> SUFFICES ASSUME IInv
             PROVE  QueueHolds
  OBVIOUS
<1> USE DEF IInv
<1>1. Stored = Full /\ Full \in Nat /\ First \in Nat
  <2>1. (\E p \in Producers : pc[p] = "store") <=> latch \in Producers
    BY DEF LatchInv
  <2>2. latch \in Producers => size - 1 \in Nat
    <3>1. ASSUME latch \in Producers
          PROVE  size = idx[latch] + 1 /\ idx[latch] \in Nat
      BY <3>1 DEF LatchInv, CallInv, TypeOK, Threads
    <3> QED
      BY <3>1
  <2> QED
    BY <2>1, <2>2, BatchElements DEF Stored, Full, First, TypeOK
<1>2. Moved \in Seq(Buffers) /\ Len(Moved) = First /\ First <= Full
      /\ \A k \in 1..First : Moved[k] = batch[latch][k]
  <2>1. CASE latch \in Collectors
    <3>1. \A c \in Collectors : pc[c] = "move" <=> c = latch
      BY <2>1 DEF LatchInv
    <3>2. Moved = batch[latch]
      BY <2>1, <3>1 DEF Moved
    <3>3. Len(batch[latch]) <= size /\ latch \notin Producers
      BY <2>1, <3>1, PoolAssumption DEF CallInv
    <3> QED
      BY <2>1, <3>2, <3>3 DEF First, Full, TypeOK
  <2>2. CASE latch \notin Collectors
    <3>1. Moved = <<>> /\ First = 0
      BY <2>2 DEF Moved, First, LatchInv
    <3> QED
      BY <1>1, <3>1, EmptySeq
  <2> QED
    BY <2>1, <2>2
<1>3. CASE ~alive
  <2>1. PoolQueue = <<>>
    BY <1>3 DEF PoolQueue
  <2> QED
    BY <1>1, <1>3, <2>1, EmptySeq DEF QueueHolds
<1>4. CASE alive
  <2> DEFINE InSlots == [k \in 1..(Full - First) |-> slots[First + k - 1]]
  <2>1. Pool = 0..Full-1
    BY <1>4 DEF Pool
  <2>2. \A k \in 1..(Full - First) :
          First + k - 1 \in Pool /\ Content(First + k - 1) = slots[First + k - 1]
    BY <1>1, <1>2, <2>1 DEF Content
  <2>3. \A k \in 1..(Full - First) : slots[First + k - 1] \in Buffers
    BY <2>2 DEF OwnerInv
  <2>4. InSlots \in Seq(Buffers) /\ Len(InSlots) = Full - First
    <3>1. Full - First \in Nat
      BY <1>1, <1>2
    <3>2. InSlots \in [1..(Full - First) -> Buffers]
      BY <2>3
    <3> QED
      BY <3>1, <3>2
  <2>5. PoolQueue = Moved \o InSlots
    BY <1>1, <1>2, <1>4 DEF PoolQueue
  <2> HIDE DEF InSlots
  <2>6. /\ PoolQueue \in Seq(Buffers) /\ Len(PoolQueue) = Full
        /\ \A k \in 1..Full : PoolQueue[k] = IF k <= First THEN Moved[k] ELSE InSlots[k - First]
    <3>1. Len(Moved) + Len(InSlots) = Full
      BY <1>1, <1>2, <2>4
    <3>2. /\ Moved \o InSlots \in Seq(Buffers)
          /\ Len(Moved \o InSlots) = Len(Moved) + Len(InSlots)
          /\ \A k \in 1..Len(Moved) + Len(InSlots) : (Moved \o InSlots)[k] =
               IF k <= Len(Moved) THEN Moved[k] ELSE InSlots[k - Len(Moved)]
      BY <1>2, <2>4, ConcatProperties
    <3>3. Len(Moved) = First
      BY <1>2
    <3> QED
      BY <2>5, <3>1, <3>2, <3>3
  <2>7. ASSUME NEW k \in 1..Full
        PROVE  PoolQueue[k] = Content(k - 1)
    <3>1. CASE k <= First
      BY <1>1, <1>2, <2>6, <3>1 DEF Content
    <3>2. CASE k > First
      <4>1. k - First \in 1..(Full - First) /\ First + (k - First) - 1 = k - 1
        BY <1>1, <1>2, <3>2
      <4>2. InSlots[k - First] = slots[k - 1]
        BY <4>1 DEF InSlots
      <4>3. Content(k - 1) = slots[k - 1]
        BY <1>1, <3>2 DEF Content
      <4> QED
        BY <1>1, <2>6, <3>2, <4>2, <4>3
    <3> QED
      BY <1>1, <3>1, <3>2
  <2> QED
    BY <1>1, <1>4, <2>1, <2>6, <2>7 DEF QueueHolds
<1> QED
  BY <1>3, <1>4

(* A queue with the same contents is the same queue.                       *)
LEMMA SameQueue ==
  ASSUME IInv, IInv', alive' = alive, Full' = Full,
         \A i \in Pool : Content(i)' = Content(i)
  PROVE  PoolQueue' = PoolQueue
<1>1. QueueHolds /\ QueueHolds'
  BY QueueContents, PTL
<1> QED
  BY <1>1, SeqEqual DEF QueueHolds

(* The abstract state changes where a Put stores, where a GetAllBuffers    *)
(* resets size_, and in the destructor.                                    *)
LEMMA PutStoreImplements ==
  ASSUME IInv, IInv', NEW p \in Producers, PutStore(p)
  PROVE  Queue!Put(hand[p])
<1> USE DEF IInv
<1>1. p \in Threads /\ p \notin Collectors /\ NULL \notin Threads /\ Capacity \in Nat
      /\ NULL \notin Buffers
  BY PoolAssumption DEF Threads
<1>2. /\ latch = p /\ size = idx[p] + 1 /\ idx[p] \in 0..Capacity-1 /\ alive
      /\ hand[p] \in Buffers /\ hand[p] # NULL
  BY <1>1 DEF PutStore, LatchInv, CallInv, TypeOK, Goto
<1>3. /\ Full = idx[p] /\ First = 0
      /\ Full' = idx[p] + 1 /\ First' = 0
  <2>1. latch' = NULL /\ size' = size
    BY DEF PutStore
  <2> QED
    BY <1>1, <1>2, <2>1 DEF Full, First, Threads
<1>4. alive' = alive /\ result' = result /\ outside' = outside
  BY DEF PutStore
<1>5. \A i \in 0..idx[p] : Content(i)' = IF i = idx[p] THEN hand[p] ELSE Content(i)
  <2>1. slots' = [slots EXCEPT ![idx[p]] = hand[p]]
    BY DEF PutStore
  <2>2. \A i \in 0..idx[p] : slots'[i] = IF i = idx[p] THEN hand[p] ELSE slots[i]
    BY <1>1, <1>2, <2>1 DEF TypeOK
  <2>3. \A i \in 0..idx[p] : Content(i)' = slots'[i] /\ Content(i) = slots[i]
    BY <1>2, <1>3 DEF Content
  <2> QED
    BY <2>2, <2>3
<1>6. PoolQueue' = Append(PoolQueue, hand[p]) /\ Len(PoolQueue) < Capacity
  <2>1. QueueHolds /\ QueueHolds'
    BY QueueContents, PTL
  <2>2. Len(PoolQueue) = idx[p] /\ PoolQueue \in Seq(Buffers)
    BY <1>2, <1>3, <2>1 DEF QueueHolds
  <2>3. /\ Append(PoolQueue, hand[p]) \in Seq(Buffers)
        /\ Len(Append(PoolQueue, hand[p])) = idx[p] + 1
        /\ \A k \in 1..idx[p] : Append(PoolQueue, hand[p])[k] = PoolQueue[k]
        /\ Append(PoolQueue, hand[p])[idx[p] + 1] = hand[p]
    BY <1>2, <2>2, AppendOne
  <2>4. PoolQueue' \in Seq(Buffers) /\ Len(PoolQueue') = idx[p] + 1
    BY <1>2, <1>3, <1>4, <2>1 DEF QueueHolds
  <2>5. ASSUME NEW k \in 1..(idx[p] + 1)
        PROVE  PoolQueue'[k] = Append(PoolQueue, hand[p])[k]
    <3>1. PoolQueue'[k] = Content(k - 1)'
      BY <2>1, <2>4 DEF QueueHolds
    <3>2. k - 1 \in 0..idx[p]
      BY <1>2
    <3>3. CASE k = idx[p] + 1
      BY <1>2, <1>5, <2>3, <3>1, <3>2, <3>3
    <3>4. CASE k \in 1..idx[p]
      <4>1. PoolQueue[k] = Content(k - 1)
        BY <2>1, <2>2, <3>4 DEF QueueHolds
      <4> QED
        BY <1>2, <1>5, <2>3, <3>1, <3>2, <3>4, <4>1
    <3>5. k = idx[p] + 1 \/ k \in 1..idx[p]
      BY <1>1, <1>2
    <3> QED
      BY <3>3, <3>4, <3>5
  <2>6. PoolQueue' = Append(PoolQueue, hand[p])
    BY <2>3, <2>4, <2>5, SeqEqual
  <2> QED
    BY <1>1, <1>2, <2>2, <2>6
<1>7. hand[p] \in ClientBuffers /\ ClientBuffers' = ClientBuffers \ {hand[p]}
  <2>1. \A q \in Producers : hand'[q] = IF q = p THEN NULL ELSE hand[q]
    BY DEF PutStore, TypeOK
  <2>2. hand[p] \notin outside /\ \A q \in Producers : hand[q] = hand[p] => q = p
    BY <1>2 DEF OwnerInv
  <2> QED
    BY <1>2, <1>4, <2>1, <2>2 DEF ClientBuffers
<1> QED
  BY <1>2, <1>4, <1>6, <1>7 DEF Queue!Put

LEMMA GetAllResetImplements ==
  ASSUME IInv, IInv', NEW c \in Collectors, GetAllReset(c)
  PROVE  Queue!GetAllBuffers(c)
<1> USE DEF IInv
<1>1. /\ alive /\ Full = size /\ Pool = 0..size-1 /\ size \in Nat
      /\ Len(batch[c]) = size /\ DOMAIN batch[c] = 1..size
      /\ \A i \in Pool : Content(i) = batch[c][i + 1]
  BY BatchIsPool DEF TypeOK
<1>2. QueueHolds /\ QueueHolds'
  BY QueueContents, PTL
<1>3. batch[c] = PoolQueue
  <2>1. batch[c] \in Seq(Buffers)
    BY DEF TypeOK
  <2>2. ASSUME NEW k \in 1..size
        PROVE  batch[c][k] = PoolQueue[k]
    BY <1>1, <1>2 DEF QueueHolds
  <2> QED
    BY <1>1, <1>2, <2>1, <2>2, SeqEqual DEF QueueHolds
<1>4. PoolQueue' = <<>>
  <2>1. Full' = 0
    BY PoolAssumption DEF GetAllReset, Full, Threads
  <2> QED
    BY <1>2, <2>1, EmptySeq DEF QueueHolds
<1>5. /\ outside' = outside \cup {batch[c][k] : k \in DOMAIN batch[c]}
      /\ result' = [result EXCEPT ![c] = batch[c]]
      /\ alive' = alive /\ hand' = hand
  BY DEF GetAllReset
<1>6. ClientBuffers' = ClientBuffers \cup {PoolQueue[k] : k \in DOMAIN PoolQueue}
  BY <1>3, <1>5 DEF ClientBuffers
<1> QED
  BY <1>1, <1>3, <1>4, <1>5, <1>6 DEF Queue!GetAllBuffers

LEMMA DestroyImplements ==
  ASSUME IInv, IInv', Destroy
  PROVE  Queue!Close
BY DEF Destroy, PoolQueue, ClientBuffers, Queue!Close

(* The other steps leave the abstract state alone. *)
LEMMA OthersStutter ==
  ASSUME IInv, IInv',
         \/ \E p \in Producers : PutCheck(p) \/ PutClaim(p) \/ \E b \in Buffers : PutCall(p, b)
         \/ \E c \in Collectors : GetAllLock(c) \/ GetAllMove(c)
  PROVE  UNCHANGED Queue!vars
<1> USE DEF IInv
<1>1. ASSUME NEW p \in Producers, NEW b \in Buffers, PutCall(p, b)
      PROVE  UNCHANGED Queue!vars
  <2>1. alive' = alive /\ result' = result /\ Full' = Full /\ \A i : Content(i)' = Content(i)
    BY <1>1 DEF PutCall, Full, First, Content
  <2>2. PoolQueue' = PoolQueue
    BY <2>1, SameQueue
  <2>3. ClientBuffers' = ClientBuffers
    <3>1. \A q \in Producers : hand'[q] = IF q = p THEN b ELSE hand[q]
      BY <1>1 DEF PutCall, TypeOK
    <3>2. hand[p] = NULL /\ outside' = outside \ {b} /\ b \in outside /\ b # NULL
      BY <1>1, PoolAssumption DEF PutCall, CallInv, Goto
    <3> QED
      BY <3>1, <3>2 DEF ClientBuffers
  <2> QED
    BY <2>1, <2>2, <2>3 DEF Queue!vars
<1>2. ASSUME NEW p \in Producers, PutCheck(p)
      PROVE  UNCHANGED Queue!vars
  <2>1. alive' = alive /\ result' = result /\ Full' = Full /\ \A i : Content(i)' = Content(i)
        /\ ClientBuffers' = ClientBuffers
    BY <1>2 DEF PutCheck, Full, First, Content, ClientBuffers
  <2>2. PoolQueue' = PoolQueue
    BY <2>1, SameQueue
  <2> QED
    BY <2>1, <2>2 DEF Queue!vars
<1>3. ASSUME NEW p \in Producers, PutClaim(p)
      PROVE  UNCHANGED Queue!vars
  <2>1. p \notin Collectors /\ NULL \notin Threads
    BY PoolAssumption
  <2>2. alive' = alive /\ result' = result /\ Full' = Full /\ First' = First /\ First = 0
        /\ ClientBuffers' = ClientBuffers
    BY <1>3, <2>1 DEF PutClaim, Full, First, ClientBuffers, Threads, TypeOK
  <2>3. \A i \in Pool : Content(i)' = Content(i)
    BY <1>3, <2>2 DEF PutClaim, Content, Pool
  <2>4. PoolQueue' = PoolQueue
    BY <2>2, <2>3, SameQueue
  <2> QED
    BY <2>2, <2>4 DEF Queue!vars
<1>4. ASSUME NEW c \in Collectors, GetAllLock(c)
      PROVE  UNCHANGED Queue!vars
  <2>1. c \notin Producers /\ NULL \notin Threads
    BY PoolAssumption
  <2>2. Len(batch[c]) = 0
    BY <1>4, EmptySeq DEF GetAllLock, CallInv, Goto
  <2>3. alive' = alive /\ result' = result /\ Full' = Full /\ First' = First /\ First = 0
        /\ ClientBuffers' = ClientBuffers
    BY <1>4, <2>1, <2>2 DEF GetAllLock, Full, First, ClientBuffers, Threads, TypeOK
  <2>4. \A i \in Pool : Content(i)' = Content(i)
    BY <1>4, <2>3 DEF GetAllLock, Content, Pool
  <2>5. PoolQueue' = PoolQueue
    BY <2>3, <2>4, SameQueue
  <2> QED
    BY <2>3, <2>5 DEF Queue!vars
<1>5. ASSUME NEW c \in Collectors, GetAllMove(c)
      PROVE  UNCHANGED Queue!vars
  <2>1. Full' = Full /\ \A i \in Pool : Content(i)' = Content(i)
    BY <1>5, GetAllMoveStep
  <2>2. alive' = alive /\ result' = result /\ ClientBuffers' = ClientBuffers
    BY <1>5 DEF GetAllMove, ClientBuffers
  <2>3. PoolQueue' = PoolQueue
    BY <2>1, <2>2, SameQueue
  <2> QED
    BY <2>2, <2>3 DEF Queue!vars
<1> QED
  BY <1>1, <1>2, <1>3, <1>4, <1>5

(* The pool implements the bounded queue of its comments, with any number  *)
(* of loggers and flushers.                                                *)
THEOREM ImplementsQueue == Spec => IsQueue
<1>1. Init => Queue!Init
  <2> SUFFICES ASSUME Init
               PROVE  Queue!Init
    OBVIOUS
  <2>1. IInv
    BY InvariantInit
  <2>2. QueueHolds
    BY <2>1, QueueContents
  <2>3. Full = 0
    BY PoolAssumption DEF Init, Full, Threads
  <2>4. PoolQueue = <<>>
    BY <2>2, <2>3, EmptySeq DEF QueueHolds
  <2>5. ClientBuffers = Buffers
    BY DEF Init, ClientBuffers
  <2> QED
    BY <2>4, <2>5 DEF Init, Queue!Init
<1>2. IInv /\ IInv' /\ [Next]_vars => [Queue!Next]_Queue!vars
  <2> SUFFICES ASSUME IInv, IInv', [Next]_vars
               PROVE  [Queue!Next]_Queue!vars
    OBVIOUS
  <2>1. ASSUME NEW p \in Producers, PutStore(p)
        PROVE  Queue!Next
    <3>1. hand[p] \in Buffers
      BY <2>1, PoolAssumption DEF IInv, TypeOK, CallInv, PutStore, Goto
    <3> QED
      BY <2>1, <3>1, PutStoreImplements DEF Queue!Next
  <2>2. ASSUME NEW c \in Collectors, GetAllReset(c)
        PROVE  Queue!Next
    BY <2>2, GetAllResetImplements DEF Queue!Next
  <2>3. CASE Destroy
    BY <2>3, DestroyImplements DEF Queue!Next
  <2>4. CASE UNCHANGED vars
    BY <2>4 DEF vars, Queue!vars, PoolQueue, ClientBuffers, Moved, Stored
  <2> QED
    BY <2>1, <2>2, <2>3, <2>4, OthersStutter DEF Next, Put, GetAllBuffers
<1>3. IInv /\ [Next]_vars => IInv'
  BY InvariantStep
<1> QED
  BY <1>1, <1>2, <1>3, PoolInvariant, PTL DEF Spec, IsQueue, Queue!Spec

=============================================================================
