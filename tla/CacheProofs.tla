----------------------------- MODULE CacheProofs -----------------------------
(***************************************************************************)
(* Proofs about Cache: for every number of keys, values and nodes and      *)
(* every capacity the map and the list agree, what find and insert return  *)
(* can be dereferenced, and the cache implements LRUCache.                 *)
(***************************************************************************)
EXTENDS Cache, SequenceTheorems, TLAPS

TypeOK ==
  /\ list \in Seq(Nodes)
  /\ keyOf \in [Nodes -> Keys \cup {END}]
  /\ DOMAIN map \subseteq Keys
  /\ map \in [DOMAIN map -> [value : Values, node : Nodes]]
  /\ capacity \in Nat \ {0}
  /\ result \in Keys \cup {END}

(* The inductive invariant: no more than capacity entries are kept. *)
IInv == TypeOK /\ ListMapAgree /\ ResultValid /\ Len(list) <= capacity

-----------------------------------------------------------------------------

(* A sequence without its i-th element, *)
LEMMA WithoutProperties ==
  ASSUME NEW S, NEW s \in Seq(S), NEW i \in 1..Len(s)
  PROVE  LET r == SubSeq(s, 1, i - 1) \o SubSeq(s, i + 1, Len(s))
         IN  /\ r \in Seq(S)
             /\ Len(r) = Len(s) - 1
             /\ \A j \in 1..Len(s)-1 : r[j] = IF j < i THEN s[j] ELSE s[j + 1]
<1> DEFINE front == SubSeq(s, 1, i - 1)
           back == SubSeq(s, i + 1, Len(s))
<1>1. Len(s) \in Nat /\ \A j \in 1..Len(s) : s[j] \in S
  BY LenProperties, ElementOfSeq
<1>2. /\ front \in Seq(S) /\ Len(front) = i - 1
      /\ \A j \in 1..i-1 : front[j] = s[j]
  BY <1>1, SubSeqProperties
<1>3. /\ back \in Seq(S) /\ Len(back) = Len(s) - i
      /\ \A j \in 1..Len(s)-i : back[j] = s[i + j]
  BY <1>1, SubSeqProperties
<1> HIDE DEF front, back
<1>4. /\ front \o back \in Seq(S)
      /\ Len(front \o back) = Len(front) + Len(back)
      /\ \A j \in 1..Len(front) + Len(back) :
           (front \o back)[j] = IF j <= Len(front) THEN front[j] ELSE back[j - Len(front)]
  BY <1>2, <1>3, ConcatProperties
<1>5. /\ Len(front \o back) = Len(s) - 1
      /\ \A j \in 1..Len(s)-1 :
           (front \o back)[j] = IF j <= i - 1 THEN front[j] ELSE back[j - (i - 1)]
  <2>1. Len(front) + Len(back) = Len(s) - 1
    BY <1>1, <1>2, <1>3
  <2> QED
    BY <1>2, <1>4, <2>1
<1>6. ASSUME NEW j \in 1..Len(s)-1
      PROVE  (front \o back)[j] = IF j < i THEN s[j] ELSE s[j + 1]
  <2>1. CASE j < i
    <3>1. j \in 1..i-1 /\ j <= i - 1
      BY <1>1, <2>1
    <3> QED
      BY <1>2, <1>5, <2>1, <3>1
  <2>2. CASE ~(j < i)
    <3>1. j - (i - 1) \in 1..Len(s)-i /\ i + (j - (i - 1)) = j + 1 /\ ~(j <= i - 1)
      BY <1>1, <2>2
    <3>2. (front \o back)[j] = back[j - (i - 1)]
      BY <1>5, <3>1
    <3> QED
      BY <1>3, <2>2, <3>1, <3>2
  <2> QED
    BY <2>1, <2>2
<1> QED
  BY <1>4, <1>5, <1>6 DEF front, back

(* ... and a sequence with an element in front. *)
LEMMA InFrontProperties ==
  ASSUME NEW S, NEW s \in Seq(S), NEW e \in S
  PROVE  /\ <<e>> \o s \in Seq(S)
         /\ Len(<<e>> \o s) = Len(s) + 1
         /\ (<<e>> \o s)[1] = e
         /\ \A j \in 2..Len(s)+1 : (<<e>> \o s)[j] = s[j - 1]
<1>1. Len(s) \in Nat
  BY LenProperties
<1>2. <<e>> \in Seq(S) /\ Len(<<e>>) = 1 /\ <<e>>[1] = e
  OBVIOUS
<1>3. /\ <<e>> \o s \in Seq(S)
      /\ Len(<<e>> \o s) = Len(<<e>>) + Len(s)
      /\ \A j \in 1..Len(<<e>>) + Len(s) :
           (<<e>> \o s)[j] = IF j <= Len(<<e>>) THEN <<e>>[j] ELSE s[j - Len(<<e>>)]
  BY <1>2, ConcatProperties
<1> QED
  BY <1>1, <1>2, <1>3

(* The node of an entry is in the list, at one place. *)
LEMMA NodeInList ==
  ASSUME IInv, NEW k \in DOMAIN map
  PROVE  /\ map[k].node \in Nodes /\ map[k].value \in Values /\ k \in Keys /\ k # END
         /\ keyOf[map[k].node] = k
         /\ \E i \in 1..Len(list) : list[i] = map[k].node
<1>1. k \in Keys /\ k # END /\ map[k] \in [value : Values, node : Nodes]
  BY CacheAssumption DEF IInv, TypeOK
<1>2. map[k].node \in Allocated
  BY <1>1 DEF IInv, ListMapAgree, Allocated
<1>3. DOMAIN list = 1..Len(list)
  BY LenProperties DEF IInv, TypeOK
<1> QED
  BY <1>1, <1>2, <1>3 DEF IInv, ListMapAgree

(* What erase and splice leave of the list. *)
LEMMA ErasedProperties ==
  ASSUME IInv, NEW i \in 1..Len(list)
  PROVE  /\ Erased(list[i]) \in Seq(Nodes)
         /\ Len(Erased(list[i])) = Len(list) - 1
         /\ \A j \in 1..Len(list)-1 : Erased(list[i])[j] = IF j < i THEN list[j] ELSE list[j + 1]
<1>1. list \in Seq(Nodes) /\ DOMAIN list = 1..Len(list)
  BY LenProperties DEF IInv, TypeOK
<1>2. \A j \in DOMAIN list : list[j] = list[i] => j = i
  BY <1>1 DEF IInv, ListMapAgree
<1>3. (CHOOSE j \in DOMAIN list : list[j] = list[i]) = i
  BY <1>1, <1>2
<1>4. Erased(list[i]) = SubSeq(list, 1, i - 1) \o SubSeq(list, i + 1, Len(list))
  BY <1>3 DEF Erased
<1> DEFINE r == SubSeq(list, 1, i - 1) \o SubSeq(list, i + 1, Len(list))
<1>5. /\ r \in Seq(Nodes)
      /\ Len(r) = Len(list) - 1
      /\ \A j \in 1..Len(list)-1 : r[j] = IF j < i THEN list[j] ELSE list[j + 1]
  BY <1>1, WithoutProperties
<1>6. Erased(list[i]) = r
  BY <1>4
<1> HIDE DEF r
<1> QED
  BY <1>5, <1>6

LEMMA SplicedProperties ==
  ASSUME IInv, NEW i \in 1..Len(list)
  PROVE  /\ Spliced(list[i]) \in Seq(Nodes)
         /\ Len(Spliced(list[i])) = Len(list)
         /\ Head(Spliced(list[i])) = list[i]
         /\ Spliced(list[i])[1] = list[i]
         /\ \A j \in 2..Len(list) : Spliced(list[i])[j] = IF j <= i THEN list[j - 1] ELSE list[j]
<1>1. list \in Seq(Nodes) /\ Len(list) \in Nat /\ list[i] \in Nodes
  BY LenProperties, ElementOfSeq DEF IInv, TypeOK
<1>2. /\ Erased(list[i]) \in Seq(Nodes)
      /\ Len(Erased(list[i])) = Len(list) - 1
      /\ \A j \in 1..Len(list)-1 : Erased(list[i])[j] = IF j < i THEN list[j] ELSE list[j + 1]
  BY ErasedProperties
<1>3. Spliced(list[i]) = <<list[i]>> \o Erased(list[i])
  BY DEF Spliced
<1>4. /\ Spliced(list[i]) \in Seq(Nodes)
      /\ Len(Spliced(list[i])) = Len(list)
      /\ Spliced(list[i])[1] = list[i]
      /\ \A j \in 2..Len(list) : Spliced(list[i])[j] = Erased(list[i])[j - 1]
  BY <1>1, <1>2, <1>3, InFrontProperties
<1>5. Head(Spliced(list[i])) = list[i]
  BY <1>1, <1>4
<1>6. ASSUME NEW j \in 2..Len(list)
      PROVE  Spliced(list[i])[j] = IF j <= i THEN list[j - 1] ELSE list[j]
  <2>1. j - 1 \in 1..Len(list)-1 /\ (j - 1) + 1 = j /\ (j - 1 < i <=> j <= i)
    BY <1>1
  <2> QED
    BY <1>2, <1>4, <2>1
<1> QED
  BY <1>4, <1>5, <1>6

(* s has each of the nodes in N at one place, and no other node.           *)
SameNodes(s, N) ==
  /\ {s[j] : j \in DOMAIN s} = N
  /\ \A j, m \in DOMAIN s : s[j] = s[m] => j = m

(* Splicing moves the nodes of the list, and erasing removes one.          *)
LEMMA SplicedNodes ==
  ASSUME IInv, NEW i \in 1..Len(list)
  PROVE  SameNodes(Spliced(list[i]), Allocated)
<1> DEFINE s == Spliced(list[i])
           Old(j) == IF j = 1 THEN i ELSE IF j <= i THEN j - 1 ELSE j
           New(j) == IF j = i THEN 1 ELSE IF j < i THEN j + 1 ELSE j
<1>1. DOMAIN list = 1..Len(list) /\ Len(list) \in Nat
  BY LenProperties DEF IInv, TypeOK
<1>2. s \in Seq(Nodes) /\ DOMAIN s = 1..Len(list)
  BY SplicedProperties, LenProperties
<1>3. \A j \in 1..Len(list) : Old(j) \in 1..Len(list) /\ New(j) \in 1..Len(list) /\ Old(New(j)) = j
  BY <1>1
<1>4. \A j, m \in 1..Len(list) : Old(j) = Old(m) => j = m
  BY <1>1
<1>5. \A j \in 1..Len(list) : s[j] = list[Old(j)]
  <2> SUFFICES ASSUME NEW j \in 1..Len(list)
               PROVE  s[j] = list[Old(j)]
    OBVIOUS
  <2>1. j = 1 \/ j \in 2..Len(list)
    BY <1>1
  <2> QED
    BY <1>1, <2>1, SplicedProperties
<1>6. \A j, m \in 1..Len(list) : list[j] = list[m] => j = m
  BY <1>1 DEF IInv, ListMapAgree
<1> HIDE DEF Old, New, s
<1>7. \A j \in 1..Len(list) : s[j] \in {list[m] : m \in 1..Len(list)}
  BY <1>3, <1>5
<1>8. \A j \in 1..Len(list) : list[j] \in {s[m] : m \in 1..Len(list)}
  BY <1>3, <1>5
<1>9. {s[j] : j \in 1..Len(list)} = {list[j] : j \in 1..Len(list)}
  BY <1>7, <1>8
<1>10. ASSUME NEW j \in 1..Len(list), NEW m \in 1..Len(list), s[j] = s[m]
       PROVE  j = m
  <2>1. Old(j) \in 1..Len(list) /\ Old(m) \in 1..Len(list)
    BY <1>3
  <2>2. list[Old(j)] = list[Old(m)]
    BY <1>5, <1>10
  <2> QED
    BY <1>4, <1>6, <2>1, <2>2
<1>11. Allocated = {list[j] : j \in 1..Len(list)}
  BY <1>1 DEF IInv, ListMapAgree
<1>12. SameNodes(s, Allocated)
  BY <1>2, <1>9, <1>10, <1>11 DEF SameNodes
<1> QED
  BY <1>12 DEF s

LEMMA ErasedNodes ==
  ASSUME IInv, NEW i \in 1..Len(list)
  PROVE  SameNodes(Erased(list[i]), Allocated \ {list[i]})
<1> DEFINE s == Erased(list[i])
           Old(j) == IF j < i THEN j ELSE j + 1
           New(j) == IF j < i THEN j ELSE j - 1
<1>1. DOMAIN list = 1..Len(list) /\ Len(list) \in Nat
  BY LenProperties DEF IInv, TypeOK
<1>2. s \in Seq(Nodes) /\ DOMAIN s = 1..Len(list)-1
  BY ErasedProperties, LenProperties
<1>3. /\ \A j \in 1..Len(list)-1 : Old(j) \in 1..Len(list) /\ Old(j) # i
      /\ \A j \in 1..Len(list) : j # i => New(j) \in 1..Len(list)-1 /\ Old(New(j)) = j
  BY <1>1
<1>4. \A j, m \in 1..Len(list)-1 : Old(j) = Old(m) => j = m
  BY <1>1
<1>5. \A j \in 1..Len(list)-1 : s[j] = list[Old(j)]
  BY <1>1, ErasedProperties
<1>6. \A j, m \in 1..Len(list) : list[j] = list[m] => j = m
  BY <1>1 DEF IInv, ListMapAgree
<1> HIDE DEF Old, New, s
<1>7. \A j \in 1..Len(list)-1 : s[j] \in {list[m] : m \in 1..Len(list)} /\ s[j] # list[i]
  BY <1>3, <1>5, <1>6
<1>8. \A j \in 1..Len(list) : list[j] # list[i] => list[j] \in {s[m] : m \in 1..Len(list)-1}
  BY <1>3, <1>5
<1>9. {s[j] : j \in 1..Len(list)-1} = {list[j] : j \in 1..Len(list)} \ {list[i]}
  BY <1>7, <1>8
<1>10. \A j, m \in 1..Len(list)-1 : s[j] = s[m] => j = m
  BY <1>3, <1>4, <1>5, <1>6
<1>11. Allocated = {list[j] : j \in 1..Len(list)}
  BY <1>1 DEF IInv, ListMapAgree
<1>12. SameNodes(s, Allocated \ {list[i]})
  BY <1>2, <1>9, <1>10, <1>11 DEF SameNodes
<1> QED
  BY <1>12 DEF s

(* find writes into the node the key it has already, as the node is at the *)
(* front when the front's key is read.                                     *)
LEMMA FindHitEffect ==
  ASSUME IInv, NEW k \in Keys, FindHit(k)
  PROVE  /\ k \in DOMAIN map /\ keyOf' = keyOf /\ map' = map /\ capacity' = capacity
         /\ result' = k
         /\ \E i \in 1..Len(list) : list[i] = map[k].node /\ list' = Spliced(list[i])
<1>1. PICK i \in 1..Len(list) : list[i] = map[k].node
  BY NodeInList DEF FindHit
<1>2. list' = Spliced(list[i]) /\ Head(list') = list[i]
  BY <1>1, SplicedProperties DEF FindHit
<1>3. keyOf' = [keyOf EXCEPT ![list[i]] = keyOf[list[i]]]
  BY <1>1, <1>2 DEF FindHit
<1>4. keyOf' = keyOf
  BY <1>3 DEF IInv, TypeOK
<1> QED
  BY <1>1, <1>2, <1>4 DEF FindHit

LEMMA FindHitStep ==
  ASSUME IInv, NEW k \in Keys, FindHit(k)
  PROVE  IInv'
<1>1. /\ k \in DOMAIN map /\ keyOf' = keyOf /\ map' = map /\ capacity' = capacity
      /\ result' = k
  BY FindHitEffect
<1>2. PICK i \in 1..Len(list) : list' = Spliced(list[i])
  BY FindHitEffect
<1>3. list' \in Seq(Nodes) /\ Len(list') = Len(list)
  BY <1>2, SplicedProperties
<1>4. TypeOK'
  BY <1>1, <1>3 DEF IInv, TypeOK
<1>5. SameNodes(list', Allocated)
  BY <1>2, SplicedNodes
<1>6. ListMapAgree'
  BY <1>1, <1>5 DEF IInv, ListMapAgree, Allocated, SameNodes
<1> QED
  BY <1>1, <1>3, <1>4, <1>6 DEF IInv, ResultValid

LEMMA InsertOldEffect ==
  ASSUME IInv, NEW k \in Keys, NEW v \in Values, InsertOld(k, v)
  PROVE  /\ k \in DOMAIN map /\ keyOf' = keyOf /\ capacity' = capacity /\ result' = k
         /\ map' = [map EXCEPT ![k] = [value |-> v, node |-> map[k].node]]
         /\ \E i \in 1..Len(list) : list[i] = map[k].node /\ list' = Spliced(list[i])
<1>1. PICK i \in 1..Len(list) : list[i] = map[k].node
  BY NodeInList DEF InsertOld
<1>2. list' = Spliced(list[i]) /\ Head(list') = list[i]
  BY <1>1, SplicedProperties DEF InsertOld
<1>3. k \in DOMAIN map /\ map' = Mapped(k, v, map[k].node)
  BY <1>1, <1>2 DEF InsertOld
<1>4. map' = [map EXCEPT ![k] = [value |-> v, node |-> map[k].node]]
  BY <1>3 DEF IInv, TypeOK, Mapped
<1> QED
  BY <1>1, <1>2, <1>4 DEF InsertOld

LEMMA InsertOldStep ==
  ASSUME IInv, NEW k \in Keys, NEW v \in Values, InsertOld(k, v)
  PROVE  IInv'
<1>1. /\ k \in DOMAIN map /\ keyOf' = keyOf /\ capacity' = capacity /\ result' = k
      /\ map' = [map EXCEPT ![k] = [value |-> v, node |-> map[k].node]]
  BY InsertOldEffect
<1>2. PICK i \in 1..Len(list) : list' = Spliced(list[i])
  BY InsertOldEffect
<1>3. list' \in Seq(Nodes) /\ Len(list') = Len(list)
  BY <1>2, SplicedProperties
<1>4. map[k].node \in Nodes
  BY <1>1, NodeInList
<1>5. DOMAIN map' = DOMAIN map /\ map' \in [DOMAIN map' -> [value : Values, node : Nodes]]
      /\ \A j \in DOMAIN map : map'[j].node = map[j].node
  BY <1>1, <1>4 DEF IInv, TypeOK
<1>6. TypeOK'
  BY <1>1, <1>3, <1>5 DEF IInv, TypeOK
<1>7. ListMapAgree'
  <2>1. SameNodes(list', Allocated) /\ Allocated' = Allocated
    BY <1>1, <1>2, SplicedNodes DEF Allocated
  <2>2. /\ \A j \in DOMAIN map' : keyOf'[map'[j].node] = j
        /\ \A n \in Allocated' : keyOf'[n] \in DOMAIN map' /\ map'[keyOf'[n]].node = n
    BY <1>1, <1>5 DEF IInv, ListMapAgree, Allocated
  <2> QED
    BY <2>1, <2>2 DEF ListMapAgree, SameNodes
<1> QED
  BY <1>1, <1>3, <1>5, <1>6, <1>7 DEF IInv, ResultValid

LEMMA DeleteKeyStep ==
  ASSUME IInv, NEW k \in Keys, DeleteKey(k)
  PROVE  IInv'
<1>1. PICK i \in 1..Len(list) : list[i] = map[k].node
  BY NodeInList DEF DeleteKey
<1>2. /\ list' = Erased(list[i])
      /\ keyOf' = [keyOf EXCEPT ![list[i]] = END]
      /\ map' = [j \in DOMAIN map \ {k} |-> map[j]]
      /\ capacity' = capacity /\ result' = END /\ k \in DOMAIN map
  BY <1>1 DEF DeleteKey
<1>3. list' \in Seq(Nodes) /\ Len(list') = Len(list) - 1 /\ Len(list) \in Nat
  BY <1>2, ErasedProperties, LenProperties DEF IInv, TypeOK
<1>4. list[i] \in Nodes /\ keyOf[list[i]] = k /\ k # END
  BY <1>1, <1>2, NodeInList
<1>5. \A n \in Nodes : keyOf'[n] = IF n = list[i] THEN END ELSE keyOf[n]
  BY <1>2 DEF IInv, TypeOK
<1>6. DOMAIN map' = DOMAIN map \ {k} /\ \A j \in DOMAIN map \ {k} : map'[j] = map[j]
  BY <1>2
<1>7. TypeOK'
  <2>1. keyOf' \in [Nodes -> Keys \cup {END}]
    BY <1>2, <1>4 DEF IInv, TypeOK
  <2>2. DOMAIN map' \subseteq Keys /\ map' \in [DOMAIN map' -> [value : Values, node : Nodes]]
    BY <1>2, <1>6 DEF IInv, TypeOK
  <2> QED
    BY <1>2, <1>3, <2>1, <2>2 DEF IInv, TypeOK
<1>8. Allocated' = Allocated \ {list[i]}
  BY <1>5 DEF Allocated
<1>9. ListMapAgree'
  <2>1. SameNodes(list', Allocated')
    BY <1>2, <1>8, ErasedNodes
  <2>2. ASSUME NEW j \in DOMAIN map'
        PROVE  keyOf'[map'[j].node] = j
    <3>1. j \in DOMAIN map /\ j # k /\ map'[j] = map[j]
      BY <1>6
    <3>2. keyOf[map[j].node] = j /\ map[j].node \in Nodes
      BY <3>1, NodeInList
    <3> QED
      BY <1>4, <1>5, <3>1, <3>2
  <2>3. ASSUME NEW n \in Allocated'
        PROVE  keyOf'[n] \in DOMAIN map' /\ map'[keyOf'[n]].node = n
    <3>1. n \in Allocated /\ n # list[i] /\ n \in Nodes
      BY <1>8 DEF Allocated
    <3>2. keyOf'[n] = keyOf[n] /\ keyOf[n] \in DOMAIN map /\ map[keyOf[n]].node = n
      BY <1>5, <3>1 DEF IInv, ListMapAgree
    <3> QED
      BY <1>1, <1>6, <3>1, <3>2
  <2> QED
    BY <2>1, <2>2, <2>3 DEF ListMapAgree, SameNodes
<1> QED
  BY <1>2, <1>3, <1>7, <1>9 DEF IInv, TypeOK, ResultValid

-----------------------------------------------------------------------------
(* A new entry goes to the front, and the last one is evicted when the     *)
(* cache is full.                                                          *)

Kept == IF Len(list) + 1 <= capacity THEN Len(list) + 1 ELSE capacity

Evicted == {list[j] : j \in Kept..Len(list)}

LEMMA KeptRange ==
  ASSUME IInv
  PROVE  /\ Len(list) \in Nat /\ capacity \in Nat
         /\ Kept \in 1..Len(list)+1 /\ Kept <= capacity
         /\ DOMAIN list = 1..Len(list)
         /\ \A j \in 1..Len(list) : list[j] \in Nodes
BY LenProperties, ElementOfSeq DEF IInv, TypeOK, Kept

LEMMA EvictedNodes ==
  ASSUME IInv
  PROVE  /\ Evicted \subseteq Allocated
         /\ Allocated \subseteq Nodes
         /\ \A j \in 1..Len(list) : list[j] \in Evicted <=> j >= Kept
<1>1. \A j, m \in 1..Len(list) : list[j] = list[m] => j = m
  BY KeptRange DEF IInv, ListMapAgree
<1>2. Allocated = {list[j] : j \in 1..Len(list)}
  BY KeptRange DEF IInv, ListMapAgree
<1>3. Kept..Len(list) \subseteq 1..Len(list)
  BY KeptRange
<1>4. ASSUME NEW j \in 1..Len(list)
      PROVE  list[j] \in Evicted <=> j >= Kept
  <2>1. CASE j >= Kept
    <3>1. j \in Kept..Len(list)
      BY <2>1, KeptRange
    <3> QED
      BY <2>1, <3>1 DEF Evicted
  <2>2. CASE ~(j >= Kept)
    <3>1. \A m \in Kept..Len(list) : m # j
      BY <2>2, KeptRange
    <3> QED
      BY <1>1, <1>3, <2>2, <3>1 DEF Evicted
  <2> QED
    BY <2>1, <2>2
<1> QED
  BY <1>2, <1>3, <1>4 DEF Evicted, Allocated

(* The step of InsertNew, with n the node it allocates. *)
NewAtFront(k, v, n) ==
  /\ list' \in Seq(Nodes)
  /\ Len(list') = Kept
  /\ list'[1] = n
  /\ \A j \in 2..Kept : list'[j] = list[j - 1]
  /\ keyOf' \in [Nodes -> Keys \cup {END}]
  /\ \A m \in Nodes :
       keyOf'[m] = IF m = n THEN k ELSE IF m \in Evicted THEN END ELSE keyOf[m]
  /\ DOMAIN map' = (DOMAIN map \cup {k}) \ {keyOf[m] : m \in Evicted}
  /\ map' = [j \in DOMAIN map' |->
               IF j = k THEN [value |-> v, node |-> n] ELSE map[j]]
  /\ capacity' = capacity
  /\ result' = k

LEMMA InsertNewEffect ==
  ASSUME IInv, NEW k \in Keys, NEW v \in Values, InsertNew(k, v)
  PROVE  \E n \in Nodes \ Allocated : NewAtFront(k, v, n)
<1> DEFINE full(n) == <<n>> \o list
           keep(n) == IF Len(full(n)) <= capacity THEN Len(full(n)) ELSE capacity
           ks(n) == [keyOf EXCEPT ![n] = k]
<1>1. PICK n \in Nodes \ Allocated : Keep(full(n), keep(n), ks(n), Mapped(k, v, n))
  BY DEF InsertNew
<1> DEFINE s == full(n)
           gone == {s[i] : i \in keep(n)+1..Len(s)}
<1>2. /\ s \in Seq(Nodes)
      /\ Len(s) = Len(list) + 1
      /\ s[1] = n
      /\ \A j \in 2..Len(list)+1 : s[j] = list[j - 1]
  BY InFrontProperties DEF IInv, TypeOK
<1>3. keep(n) = Kept
  BY <1>2 DEF Kept
<1>4. /\ list' = SubSeq(s, 1, Kept)
      /\ keyOf' = [m \in Nodes |-> IF m \in gone THEN END ELSE ks(n)[m]]
      /\ map' = [j \in DOMAIN Mapped(k, v, n) \ {ks(n)[m] : m \in gone} |-> Mapped(k, v, n)[j]]
  BY <1>1, <1>3 DEF Keep
<1> HIDE DEF full, s
<1>5. gone = Evicted
  <2>1. \A j \in Kept+1..Len(s) : s[j] = list[j - 1] /\ j - 1 \in Kept..Len(list)
    BY <1>2, KeptRange
  <2>2. \A j \in Kept..Len(list) : s[j + 1] = list[j] /\ j + 1 \in Kept+1..Len(s)
    BY <1>2, KeptRange
  <2>3. gone = {s[i] : i \in Kept+1..Len(s)}
    BY <1>3
  <2>4. \A m : m \in gone => m \in Evicted
    BY <2>1, <2>3 DEF Evicted
  <2>5. \A m : m \in Evicted => m \in gone
    BY <2>2, <2>3 DEF Evicted
  <2> QED
    BY <2>4, <2>5
<1>6. n \notin Evicted /\ Evicted \subseteq Nodes /\ k # END
  BY EvictedNodes, CacheAssumption
<1>7. \A m \in Nodes : ks(n)[m] = IF m = n THEN k ELSE keyOf[m]
  BY DEF IInv, TypeOK
<1>8. {ks(n)[m] : m \in gone} = {keyOf[m] : m \in Evicted}
  BY <1>5, <1>6, <1>7
<1> HIDE DEF gone, ks
<1>9. list' \in Seq(Nodes) /\ Len(list') = Kept /\ \A j \in 1..Kept : list'[j] = s[j]
  <2>1. \A j \in 1..Kept : s[j] \in Nodes
    BY <1>2, KeptRange, ElementOfSeq
  <2> QED
    BY <1>2, <1>4, <2>1, KeptRange, SubSeqProperties
<1>10. list'[1] = n /\ \A j \in 2..Kept : list'[j] = list[j - 1]
  BY <1>2, <1>9, KeptRange
<1>11. \A m \in Nodes :
         keyOf'[m] = IF m = n THEN k ELSE IF m \in Evicted THEN END ELSE keyOf[m]
  BY <1>4, <1>5, <1>6, <1>7
<1>12. keyOf' \in [Nodes -> Keys \cup {END}]
  BY <1>4, <1>7 DEF IInv, TypeOK
<1>13. /\ DOMAIN map' = (DOMAIN map \cup {k}) \ {keyOf[m] : m \in Evicted}
       /\ map' = [j \in DOMAIN map' |->
                    IF j = k THEN [value |-> v, node |-> n] ELSE map[j]]
  BY <1>4, <1>8 DEF Mapped
<1>14. capacity' = capacity /\ result' = k
  BY DEF InsertNew
<1> QED
  BY <1>1, <1>9, <1>10, <1>11, <1>12, <1>13, <1>14 DEF NewAtFront

LEMMA InsertNewNodes ==
  ASSUME IInv, NEW k \in Keys, NEW v \in Values,
         NEW n \in Nodes \ Allocated, NewAtFront(k, v, n)
  PROVE  SameNodes(list', (Allocated \ Evicted) \cup {n})
<1>1. /\ DOMAIN list' = 1..Kept /\ list'[1] = n
      /\ \A j \in 2..Kept : list'[j] = list[j - 1]
  BY LenProperties DEF NewAtFront
<1>2. \A j \in 2..Kept : j - 1 \in 1..Len(list) /\ ~(j - 1 >= Kept)
  BY KeptRange
<1>3. \A j \in 1..Len(list) : ~(j >= Kept) => j + 1 \in 2..Kept /\ (j + 1) - 1 = j
  BY KeptRange
<1>4. Allocated = {list[j] : j \in 1..Len(list)}
  BY KeptRange DEF IInv, ListMapAgree
<1>5. \A j \in 2..Kept : list'[j] \in Allocated \ Evicted /\ list'[j] # n
  BY <1>1, <1>2, <1>4, EvictedNodes
<1>6. \A m \in Allocated \ Evicted : \E j \in 2..Kept : list'[j] = m
  <2> TAKE m \in Allocated \ Evicted
  <2>1. PICK j \in 1..Len(list) : list[j] = m
    BY <1>4
  <2>2. ~(j >= Kept)
    BY <2>1, EvictedNodes
  <2>3. j + 1 \in 2..Kept /\ list'[j + 1] = m
    BY <1>1, <1>3, <2>1, <2>2
  <2> QED
    BY <2>3
<1>7. 1 \in 1..Kept /\ \A j \in 1..Kept : j = 1 \/ j \in 2..Kept
  BY KeptRange
<1>8. 2..Kept \subseteq 1..Kept
  BY KeptRange
<1>9. {list'[j] : j \in 1..Kept} = (Allocated \ Evicted) \cup {n}
  <2>1. \A m : m \in {list'[j] : j \in 1..Kept} => m \in (Allocated \ Evicted) \cup {n}
    BY <1>1, <1>5, <1>7
  <2>2. \A m : m \in (Allocated \ Evicted) \cup {n} => m \in {list'[j] : j \in 1..Kept}
    BY <1>1, <1>6, <1>7, <1>8
  <2> QED
    BY <2>1, <2>2
<1>10. ASSUME NEW i \in 1..Kept, NEW j \in 1..Kept, list'[i] = list'[j]
       PROVE  i = j
  <2>1. CASE i = 1 \/ j = 1
    BY <1>1, <1>5, <1>7, <1>10, <2>1
  <2>2. CASE i # 1 /\ j # 1
    <3>1. i \in 2..Kept /\ j \in 2..Kept
      BY <1>7, <2>2
    <3>2. i - 1 \in 1..Len(list) /\ j - 1 \in 1..Len(list) /\ list[i - 1] = list[j - 1]
      BY <1>1, <1>2, <1>10, <3>1
    <3>3. i - 1 = j - 1
      BY <3>2, KeptRange DEF IInv, ListMapAgree
    <3> QED
      BY <3>1, <3>3, KeptRange
  <2> QED
    BY <2>1, <2>2
<1> QED
  BY <1>1, <1>9, <1>10 DEF SameNodes

LEMMA InsertNewStep ==
  ASSUME IInv, NEW k \in Keys, NEW v \in Values, InsertNew(k, v)
  PROVE  IInv'
<1>1. PICK n \in Nodes \ Allocated : NewAtFront(k, v, n)
  BY InsertNewEffect
<1>2. k \notin DOMAIN map /\ k # END
  BY CacheAssumption DEF InsertNew
<1>3. \A m \in Evicted : m \in Allocated /\ m # n /\ keyOf[m] \in DOMAIN map /\ keyOf[m] # k
                         /\ map[keyOf[m]].node = m
  BY <1>1, <1>2, EvictedNodes DEF IInv, ListMapAgree
<1>4. /\ k \in DOMAIN map'
      /\ \A j \in DOMAIN map' : j # k => j \in DOMAIN map /\ map'[j] = map[j]
      /\ map'[k] = [value |-> v, node |-> n]
  BY <1>1, <1>3 DEF NewAtFront
<1>5. TypeOK'
  <2>1. \A j \in DOMAIN map' : j \in Keys /\ map'[j] \in [value : Values, node : Nodes]
    BY <1>1, <1>4 DEF IInv, TypeOK
  <2>2. map' = [j \in DOMAIN map' |-> map'[j]]
    BY <1>1 DEF NewAtFront
  <2> QED
    BY <1>1, <2>1, <2>2 DEF NewAtFront, IInv, TypeOK
<1>6. Allocated' = (Allocated \ Evicted) \cup {n}
  BY <1>1, <1>2, <1>3 DEF NewAtFront, Allocated
<1>7. ListMapAgree'
  <2>1. SameNodes(list', Allocated')
    BY <1>1, <1>6, InsertNewNodes
  <2>2. ASSUME NEW j \in DOMAIN map'
        PROVE  keyOf'[map'[j].node] = j
    <3>1. CASE j = k
      BY <1>1, <1>4, <3>1 DEF NewAtFront
    <3>2. CASE j # k
      <4>1. j \in DOMAIN map /\ map'[j].node = map[j].node /\ keyOf[map[j].node] = j
            /\ map[j].node \in Allocated /\ map[j].node \in Nodes
        BY <1>4, <3>2, NodeInList DEF Allocated
      <4>2. map[j].node \notin Evicted
        BY <1>1, <4>1 DEF NewAtFront
      <4> QED
        BY <1>1, <4>1, <4>2 DEF NewAtFront
    <3> QED
      BY <3>1, <3>2
  <2>3. ASSUME NEW m \in Allocated'
        PROVE  keyOf'[m] \in DOMAIN map' /\ map'[keyOf'[m]].node = m
    <3>1. CASE m = n
      BY <1>1, <1>4, <3>1 DEF NewAtFront
    <3>2. CASE m # n
      <4>1. m \in Allocated /\ m \notin Evicted /\ m \in Nodes
        BY <1>6, <3>2 DEF Allocated
      <4>2. keyOf'[m] = keyOf[m] /\ keyOf[m] \in DOMAIN map /\ map[keyOf[m]].node = m
        BY <1>1, <3>2, <4>1 DEF NewAtFront, IInv, ListMapAgree
      <4>3. keyOf[m] \notin {keyOf[e] : e \in Evicted}
        BY <1>3, <4>1, <4>2
      <4>4. keyOf[m] \in DOMAIN map'
        BY <1>1, <4>2, <4>3 DEF NewAtFront
      <4>5. keyOf[m] # k
        BY <1>2, <4>2
      <4> QED
        BY <1>4, <4>2, <4>4, <4>5
    <3> QED
      BY <3>1, <3>2
  <2> QED
    BY <2>1, <2>2, <2>3 DEF ListMapAgree, SameNodes
<1> QED
  BY <1>1, <1>4, <1>5, <1>7, KeptRange DEF NewAtFront, IInv, ResultValid

LEMMA FindMissStep ==
  ASSUME IInv, NEW k \in Keys, FindMiss(k)
  PROVE  IInv'
BY DEF FindMiss, IInv, TypeOK, ListMapAgree, Allocated, ResultValid

LEMMA ClearStep ==
  ASSUME Clear
  PROVE  IInv'
<1>1. list' = <<>> /\ keyOf' = [n \in Nodes |-> END] /\ DOMAIN map' = {}
      /\ map' = [k \in {} |-> END] /\ capacity' = DefaultCapacity /\ result' = END
  BY DEF Clear
<1>2. list' \in Seq(Nodes) /\ Len(list') = 0 /\ DOMAIN list' = {}
  BY <1>1
<1>3. TypeOK'
  BY <1>1, <1>2, CacheAssumption DEF TypeOK
<1>4. Allocated' = {}
  BY <1>1 DEF Allocated
<1>5. ListMapAgree'
  BY <1>1, <1>2, <1>4 DEF ListMapAgree
<1> QED
  BY <1>1, <1>2, <1>3, <1>5, CacheAssumption DEF IInv, ResultValid

LEMMA InvariantInit == Init => IInv
<1> SUFFICES ASSUME Init
             PROVE  IInv
  OBVIOUS
<1>1. list = <<>> /\ keyOf = [n \in Nodes |-> END] /\ DOMAIN map = {}
      /\ map = [k \in {} |-> END] /\ capacity = Capacity /\ result = END
  BY DEF Init
<1>2. list \in Seq(Nodes) /\ Len(list) = 0 /\ DOMAIN list = {}
  BY <1>1
<1>3. TypeOK
  BY <1>1, <1>2, CacheAssumption DEF TypeOK
<1>4. Allocated = {}
  BY <1>1 DEF Allocated
<1>5. ListMapAgree
  BY <1>1, <1>2, <1>4 DEF ListMapAgree
<1> QED
  BY <1>1, <1>2, <1>3, <1>5, CacheAssumption DEF IInv, ResultValid

LEMMA InvariantStep == IInv /\ [Next]_vars => IInv'
<1> SUFFICES ASSUME IInv, [Next]_vars
             PROVE  IInv'
  OBVIOUS
<1>1. ASSUME NEW k \in Keys, FindHit(k) \/ FindMiss(k) \/ DeleteKey(k)
      PROVE  IInv'
  BY <1>1, FindHitStep, FindMissStep, DeleteKeyStep
<1>2. ASSUME NEW k \in Keys, NEW v \in Values, InsertNew(k, v) \/ InsertOld(k, v)
      PROVE  IInv'
  BY <1>2, InsertNewStep, InsertOldStep
<1>3. CASE Clear
  BY <1>3, ClearStep
<1>4. CASE UNCHANGED vars
  BY <1>4 DEF vars, IInv, TypeOK, ListMapAgree, Allocated, ResultValid
<1> QED
  BY <1>1, <1>2, <1>3, <1>4 DEF Next

-----------------------------------------------------------------------------

(* In every reachable state the list and the map have the invariant.       *)
THEOREM CacheInvariant == Spec => []IInv
BY InvariantInit, InvariantStep, PTL DEF Spec

(* Whatever the sequence of finds, insertions, deletions and clears, every *)
(* iterator in the map is that of the one node with its key, so no splice, *)
(* erase or eviction follows a dangling one.                               *)
THEOREM ListAndMapAgree == Spec => []ListMapAgree
<1>1. IInv => ListMapAgree
  BY DEF IInv
<1> QED
  BY <1>1, CacheInvariant, PTL

(* What insert and find return can be dereferenced: an insertion into a    *)
(* full cache evicts another entry than its own.                           *)
THEOREM ResultsAreValid == Spec => []ResultValid
<1>1. IInv => ResultValid
  BY DEF IInv
<1> QED
  BY <1>1, CacheInvariant, PTL

-----------------------------------------------------------------------------
(* The refinement: the entries of LRUCache are those of the list's nodes.  *)

Entry(n) == <<keyOf[n], map[keyOf[n]].value>>

EntriesHold ==
  /\ Entries \in Seq(Keys \X Values)
  /\ Len(Entries) = Len(list)
  /\ DOMAIN Entries = 1..Len(list)
  /\ \A i \in 1..Len(list) : Entries[i] = Entry(list[i])

LEMMA EntriesProperties == IInv => EntriesHold
<1> SUFFICES ASSUME IInv
             PROVE  EntriesHold
  OBVIOUS
<1>1. Len(list) \in Nat /\ DOMAIN list = 1..Len(list)
  BY LenProperties DEF IInv, TypeOK
<1>2. ASSUME NEW i \in 1..Len(list)
      PROVE  Entry(list[i]) \in Keys \X Values
  <2>1. list[i] \in Allocated
    BY <1>1 DEF IInv, ListMapAgree
  <2>2. keyOf[list[i]] \in DOMAIN map
    BY <2>1 DEF IInv, ListMapAgree
  <2> QED
    BY <2>2, NodeInList DEF Entry
<1>3. Entries = [i \in 1..Len(list) |-> Entry(list[i])]
  BY <1>1 DEF Entries, Entry
<1> QED
  BY <1>1, <1>2, <1>3 DEF EntriesHold

LEMMA OthersOfEntry ==
  ASSUME IInv, NEW k \in DOMAIN map, NEW i \in 1..Len(list), list[i] = map[k].node
  PROVE  /\ LRU!Others(k) \in Seq(Keys \X Values)
         /\ Len(LRU!Others(k)) = Len(list) - 1
         /\ \A j \in 1..Len(list)-1 :
              LRU!Others(k)[j] = IF j < i THEN Entry(list[j]) ELSE Entry(list[j + 1])
<1>1. EntriesHold
  BY EntriesProperties
<1>2. keyOf[list[i]] = k /\ Entries[i][1] = k
  BY <1>1, NodeInList DEF EntriesHold, Entry
<1>3. ASSUME NEW j \in 1..Len(list), Entries[j][1] = k
      PROVE  j = i
  <2>1. keyOf[list[j]] = k
    BY <1>1, <1>3 DEF EntriesHold, Entry
  <2>2. list[j] \in Allocated
    BY LenProperties DEF IInv, TypeOK, ListMapAgree
  <2>3. list[j] = map[k].node
    BY <2>1, <2>2 DEF IInv, ListMapAgree
  <2> QED
    BY <2>3, LenProperties DEF IInv, TypeOK, ListMapAgree
<1>4. LRU!PositionsOf(k) = {i}
  BY <1>1, <1>2, <1>3 DEF LRU!PositionsOf, EntriesHold
<1> DEFINE o == SubSeq(Entries, 1, i - 1) \o SubSeq(Entries, i + 1, Len(Entries))
<1>5. LRU!Others(k) = o
  BY <1>4 DEF LRU!Others, LRU!RemoveAt
<1>6. /\ o \in Seq(Keys \X Values)
      /\ Len(o) = Len(Entries) - 1
      /\ \A j \in 1..Len(Entries)-1 : o[j] = IF j < i THEN Entries[j] ELSE Entries[j + 1]
  BY <1>1, WithoutProperties DEF EntriesHold
<1> HIDE DEF o
<1>7. \A j \in 1..Len(list)-1 : j \in 1..Len(list) /\ j + 1 \in 1..Len(list)
  BY LenProperties DEF IInv, TypeOK
<1> QED
  BY <1>1, <1>5, <1>6, <1>7 DEF EntriesHold

LEMMA OthersOfNoEntry ==
  ASSUME IInv, NEW k \in Keys, k \notin DOMAIN map
  PROVE  /\ LRU!Others(k) = Entries
         /\ \A i \in DOMAIN Entries : Entries[i][1] # k
<1>1. EntriesHold
  BY EntriesProperties
<1>2. \A i \in DOMAIN list : keyOf[list[i]] \in DOMAIN map
  BY DEF IInv, ListMapAgree
<1>3. \A i \in DOMAIN Entries : Entries[i][1] # k
  BY <1>1, <1>2, LenProperties DEF EntriesHold, Entry, IInv, TypeOK
<1>4. LRU!PositionsOf(k) = {}
  BY <1>3 DEF LRU!PositionsOf
<1> QED
  BY <1>3, <1>4 DEF LRU!Others

(* An access puts an entry in front of the others and cuts the rest off.   *)
LEMMA AccessIs ==
  ASSUME NEW k \in Keys, NEW v \in Values, IInv, IInv',
         result' = k, map'[k].value = v, capacity' = capacity,
         NEW o \in Seq(Keys \X Values), LRU!Others(k) = o,
         Len(list') = (IF Len(o) < capacity THEN Len(o) + 1 ELSE capacity),
         Len(list') # 0,
         Entry(list[1])' = <<k, v>>,
         \A j \in 2..Len(list)' : Entry(list[j])' = o[j - 1]
  PROVE  LRU!Access(k, v)
<1>1. EntriesHold'
  BY EntriesProperties, PTL
<1> DEFINE s == <<<<k, v>>>> \o o
           c == Len(list')
<1>2. c \in Nat /\ Len(o) \in Nat /\ c \in 1..Len(o)+1
  BY LenProperties DEF IInv, TypeOK
<1>3. /\ s \in Seq(Keys \X Values)
      /\ Len(s) = Len(o) + 1
      /\ s[1] = <<k, v>>
      /\ \A j \in 2..Len(o)+1 : s[j] = o[j - 1]
  BY InFrontProperties
<1> HIDE DEF s
<1>4. \A j \in 1..c : s[j] \in Keys \X Values
  BY <1>2, <1>3, ElementOfSeq
<1>5. /\ SubSeq(s, 1, c) \in Seq(Keys \X Values) /\ Len(SubSeq(s, 1, c)) = c
      /\ \A j \in 1..c : SubSeq(s, 1, c)[j] = s[j]
  BY <1>2, <1>3, <1>4, SubSeqProperties
<1>6. ASSUME NEW j \in 1..c
      PROVE  Entries'[j] = s[j]
  <2>1. Entries'[j] = <<keyOf'[list'[j]], map'[keyOf'[list'[j]]].value>>
    BY <1>1 DEF EntriesHold, Entry
  <2>2. CASE j = 1
    BY <1>3, <2>1, <2>2 DEF Entry
  <2>3. CASE j # 1
    <3>1. j \in 2..c /\ j \in 2..Len(o)+1
      BY <1>2, <2>3
    <3> QED
      BY <1>3, <2>1, <3>1 DEF Entry
  <2> QED
    BY <2>2, <2>3
<1>7. Entries' = SubSeq(s, 1, c)
  BY <1>1, <1>5, <1>6, SeqEqual DEF EntriesHold
<1>8. Iterator' = <<k, v>>
  BY CacheAssumption DEF Iterator
<1> QED
  BY <1>7, <1>8 DEF LRU!Access, s

(* The old key of a node that find or insert moves is at the front.        *)
LEMMA SplicedAccess ==
  ASSUME IInv, IInv', NEW k \in DOMAIN map, NEW v \in Values,
         NEW i \in 1..Len(list), list[i] = map[k].node, list' = Spliced(list[i]),
         keyOf' = keyOf, capacity' = capacity, result' = k, map'[k].value = v,
         \A j \in DOMAIN map : j # k => map'[j].value = map[j].value
  PROVE  LRU!Access(k, v)
<1>1. /\ LRU!Others(k) \in Seq(Keys \X Values)
      /\ Len(LRU!Others(k)) = Len(list) - 1
      /\ \A j \in 1..Len(list)-1 :
           LRU!Others(k)[j] = IF j < i THEN Entry(list[j]) ELSE Entry(list[j + 1])
  BY OthersOfEntry
<1>2. PICK o \in Seq(Keys \X Values) : LRU!Others(k) = o
  BY <1>1
<1>3. /\ Len(list') = Len(list)
      /\ list'[1] = list[i]
      /\ \A j \in 2..Len(list) : list'[j] = IF j <= i THEN list[j - 1] ELSE list[j]
  BY SplicedProperties
<1>4. Len(list) \in Nat /\ Len(list) <= capacity /\ capacity \in Nat
      /\ DOMAIN list = 1..Len(list)
  BY LenProperties DEF IInv, TypeOK
<1>5. k \in Keys /\ keyOf[list[i]] = k
  BY NodeInList
<1>6. Len(list') = (IF Len(o) < capacity THEN Len(o) + 1 ELSE capacity) /\ Len(list') # 0
  BY <1>1, <1>2, <1>3, <1>4
<1>7. Entry(list[1])' = <<k, v>>
  BY <1>3, <1>5 DEF Entry
<1>8. ASSUME NEW m \in 1..Len(list), m # i
      PROVE  <<keyOf'[list[m]], map'[keyOf'[list[m]]].value>> = Entry(list[m])
  <2>1. list[m] \in Allocated /\ list[m] # list[i]
    BY <1>4, <1>8 DEF IInv, ListMapAgree
  <2>2. keyOf[list[m]] \in DOMAIN map /\ keyOf[list[m]] # k
    BY <2>1 DEF IInv, ListMapAgree
  <2> QED
    BY <2>2 DEF Entry
<1>9. ASSUME NEW j \in 2..Len(list)'
      PROVE  Entry(list[j])' = o[j - 1]
  <2>1. j \in 2..Len(list) /\ j - 1 \in 1..Len(list)-1 /\ (j - 1) + 1 = j
        /\ j \in 1..Len(list) /\ j - 1 \in 1..Len(list)
    BY <1>3, <1>4
  <2>2. CASE j <= i
    <3>1. j - 1 < i /\ j - 1 # i /\ list'[j] = list[j - 1] /\ o[j - 1] = Entry(list[j - 1])
      BY <1>1, <1>2, <1>3, <2>1, <2>2
    <3> QED
      BY <1>8, <2>1, <3>1 DEF Entry
  <2>3. CASE ~(j <= i)
    <3>1. ~(j - 1 < i) /\ j # i /\ list'[j] = list[j] /\ o[j - 1] = Entry(list[j])
      BY <1>1, <1>2, <1>3, <2>1, <2>3
    <3> QED
      BY <1>8, <2>1, <3>1 DEF Entry
  <2> QED
    BY <2>2, <2>3
<1> QED
  BY <1>2, <1>5, <1>6, <1>7, <1>9, AccessIs

(* find of a key that is there is a Hit,                                   *)
LEMMA FindHitHits ==
  ASSUME IInv, IInv', NEW k \in Keys, FindHit(k)
  PROVE  LRU!Hit(k)
<1>1. /\ k \in DOMAIN map /\ keyOf' = keyOf /\ map' = map /\ capacity' = capacity
      /\ result' = k
  BY FindHitEffect
<1>2. PICK i \in 1..Len(list) : list[i] = map[k].node /\ list' = Spliced(list[i])
  BY FindHitEffect
<1>3. PICK v \in Values : v = map[k].value
  BY <1>1, NodeInList
<1>4. LRU!Access(k, v)
  BY <1>1, <1>2, <1>3, SplicedAccess
<1>5. EntriesHold /\ keyOf[list[i]] = k
  BY <1>1, <1>2, EntriesProperties, NodeInList
<1>6. i \in DOMAIN Entries /\ Entries[i][1] = k /\ Entries[i][2] = v
  BY <1>3, <1>5 DEF EntriesHold, Entry
<1> QED
  BY <1>4, <1>6 DEF LRU!Hit

(* ... find of another key is a Miss,                                      *)
LEMMA FindMissMisses ==
  ASSUME IInv, NEW k \in Keys, FindMiss(k)
  PROVE  LRU!Miss(k)
<1>1. \A i \in DOMAIN Entries : Entries[i][1] # k
  BY OthersOfNoEntry DEF FindMiss
<1>2. UNCHANGED <<Entries, capacity>> /\ Iterator' = END
  BY DEF FindMiss, Entries, Iterator
<1> QED
  BY <1>1, <1>2 DEF LRU!Miss

(* ... insert of a key that is there is an Insert that evicts nothing,     *)
LEMMA InsertOldInserts ==
  ASSUME IInv, IInv', NEW k \in Keys, NEW v \in Values, InsertOld(k, v)
  PROVE  LRU!Insert(k, v)
<1>1. /\ k \in DOMAIN map /\ keyOf' = keyOf /\ capacity' = capacity /\ result' = k
      /\ map' = [map EXCEPT ![k] = [value |-> v, node |-> map[k].node]]
  BY InsertOldEffect
<1>2. PICK i \in 1..Len(list) : list[i] = map[k].node /\ list' = Spliced(list[i])
  BY InsertOldEffect
<1>3. map'[k].value = v /\ \A j \in DOMAIN map : j # k => map'[j].value = map[j].value
  BY <1>1
<1> QED
  BY <1>1, <1>2, <1>3, SplicedAccess DEF LRU!Insert

(* ... and so is insert of a new key, which evicts the last entry when the *)
(* cache is full.                                                          *)
LEMMA InsertNewInserts ==
  ASSUME IInv, IInv', NEW k \in Keys, NEW v \in Values, InsertNew(k, v)
  PROVE  LRU!Insert(k, v)
<1>1. PICK n \in Nodes \ Allocated : NewAtFront(k, v, n)
  BY InsertNewEffect
<1>2. k \notin DOMAIN map
  BY DEF InsertNew
<1>3. LRU!Others(k) = Entries /\ EntriesHold
  BY <1>2, OthersOfNoEntry, EntriesProperties
<1>4. PICK o \in Seq(Keys \X Values) : LRU!Others(k) = o
  BY <1>3 DEF EntriesHold
<1>5. Len(o) = Len(list) /\ \A j \in 1..Len(list) : o[j] = Entry(list[j])
  BY <1>3, <1>4 DEF EntriesHold
<1>6. Len(list') = (IF Len(o) < capacity THEN Len(o) + 1 ELSE capacity) /\ Len(list') # 0
  BY <1>1, <1>5, KeptRange DEF NewAtFront, Kept
<1>7. keyOf'[n] = k /\ k \in DOMAIN map' /\ map'[k] = [value |-> v, node |-> n]
  <2>1. \A m \in Evicted : keyOf[m] # k
    BY <1>2, EvictedNodes DEF IInv, ListMapAgree
  <2> QED
    BY <1>1, <2>1 DEF NewAtFront
<1>8. result' = k /\ capacity' = capacity /\ map'[k].value = v
  BY <1>1, <1>7 DEF NewAtFront
<1>9. Entry(list[1])' = <<k, v>>
  BY <1>1, <1>7 DEF NewAtFront, Entry
<1>10. ASSUME NEW j \in 2..Len(list)'
       PROVE  Entry(list[j])' = o[j - 1]
  <2>1. j \in 2..Kept /\ j - 1 \in 1..Len(list) /\ ~(j - 1 >= Kept)
    BY <1>1, KeptRange DEF NewAtFront
  <2>2. list'[j] = list[j - 1] /\ list[j - 1] \in Allocated /\ list[j - 1] \notin Evicted
        /\ list[j - 1] \in Nodes
    BY <1>1, <2>1, KeptRange, EvictedNodes DEF NewAtFront, IInv, ListMapAgree
  <2>3. keyOf'[list[j - 1]] = keyOf[list[j - 1]]
    BY <1>1, <2>2 DEF NewAtFront
  <2>4. keyOf[list[j - 1]] \in DOMAIN map /\ keyOf[list[j - 1]] # k
        /\ map[keyOf[list[j - 1]]].node = list[j - 1]
    BY <1>2, <2>2 DEF IInv, ListMapAgree
  <2>5. keyOf[list[j - 1]] \notin {keyOf[m] : m \in Evicted}
    BY <2>2, <2>4, EvictedNodes DEF IInv, ListMapAgree
  <2>6. keyOf[list[j - 1]] \in DOMAIN map'
        /\ map'[keyOf[list[j - 1]]] = map[keyOf[list[j - 1]]]
    BY <1>1, <2>4, <2>5 DEF NewAtFront
  <2> QED
    BY <1>5, <2>1, <2>2, <2>3, <2>6 DEF Entry
<1> QED
  BY <1>4, <1>6, <1>8, <1>9, <1>10, AccessIs DEF LRU!Insert

LEMMA DeleteKeyDeletes ==
  ASSUME IInv, IInv', NEW k \in Keys, DeleteKey(k)
  PROVE  LRU!Delete(k)
<1>1. PICK i \in 1..Len(list) : list[i] = map[k].node
  BY NodeInList DEF DeleteKey
<1>2. /\ list' = Erased(list[i])
      /\ keyOf' = [keyOf EXCEPT ![list[i]] = END]
      /\ map' = [j \in DOMAIN map \ {k} |-> map[j]]
      /\ capacity' = capacity /\ result' = END /\ k \in DOMAIN map
  BY <1>1 DEF DeleteKey
<1>3. /\ Len(list') = Len(list) - 1
      /\ \A j \in 1..Len(list)-1 : list'[j] = IF j < i THEN list[j] ELSE list[j + 1]
  BY <1>2, ErasedProperties
<1>4. Len(list) \in Nat /\ DOMAIN list = 1..Len(list) /\ keyOf[list[i]] = k
  BY <1>1, <1>2, LenProperties, NodeInList DEF IInv, TypeOK
<1>5. EntriesHold'
  BY EntriesProperties, PTL
<1>6. /\ LRU!Others(k) \in Seq(Keys \X Values)
      /\ Len(LRU!Others(k)) = Len(list) - 1
      /\ \A j \in 1..Len(list)-1 :
           LRU!Others(k)[j] = IF j < i THEN Entry(list[j]) ELSE Entry(list[j + 1])
  BY <1>1, <1>2, OthersOfEntry
<1>7. ASSUME NEW m \in 1..Len(list), m # i
      PROVE  <<keyOf'[list[m]], map'[keyOf'[list[m]]].value>> = Entry(list[m])
  <2>1. list[m] \in Allocated /\ list[m] # list[i] /\ list[m] \in Nodes
    BY <1>4, <1>7 DEF IInv, ListMapAgree, Allocated
  <2>2. keyOf[list[m]] \in DOMAIN map /\ keyOf[list[m]] # k
    BY <1>1, <2>1 DEF IInv, ListMapAgree
  <2>3. keyOf'[list[m]] = keyOf[list[m]]
    BY <1>2, <2>1 DEF IInv, TypeOK
  <2> QED
    BY <1>2, <2>2, <2>3 DEF Entry
<1>8. ASSUME NEW j \in 1..Len(list)-1
      PROVE  Entries'[j] = LRU!Others(k)[j]
  <2>1. j \in 1..Len(list) /\ j + 1 \in 1..Len(list) /\ (j < i => j # i)
        /\ (~(j < i) => j + 1 # i)
    BY <1>4
  <2>2. Entries'[j] = <<keyOf'[list'[j]], map'[keyOf'[list'[j]]].value>>
    BY <1>3, <1>5 DEF EntriesHold, Entry
  <2> QED
    BY <1>3, <1>6, <1>7, <2>1, <2>2
<1>9. Entries' = LRU!Others(k)
  BY <1>3, <1>5, <1>6, <1>8, SeqEqual DEF EntriesHold
<1>10. Iterator' = END
  BY <1>2 DEF Iterator
<1> QED
  BY <1>2, <1>9, <1>10 DEF LRU!Delete

LEMMA ClearClears ==
  ASSUME Clear
  PROVE  LRU!Clear
<1>1. Entries' = <<>>
  BY DEF Clear, Entries
<1>2. Iterator' = END /\ capacity' = DefaultCapacity
  BY DEF Clear, Iterator
<1> QED
  BY <1>1, <1>2 DEF LRU!Clear

LEMMA InitIsLRU == Init => LRU!Init
<1> SUFFICES ASSUME Init
             PROVE  LRU!Init
  OBVIOUS
<1>1. Entries = <<>> /\ Iterator = END /\ capacity = Capacity
  BY DEF Init, Entries, Iterator
<1> QED
  BY <1>1 DEF LRU!Init

LEMMA StepIsLRU == IInv /\ IInv' /\ [Next]_vars => [LRU!Next]_(LRU!vars)
<1> SUFFICES ASSUME IInv, IInv', [Next]_vars
             PROVE  LRU!Next \/ UNCHANGED <<Entries, capacity, Iterator>>
  BY DEF LRU!vars
<1>1. ASSUME NEW k \in Keys, FindHit(k) \/ FindMiss(k) \/ DeleteKey(k)
      PROVE  LRU!Next
  BY <1>1, FindHitHits, FindMissMisses, DeleteKeyDeletes DEF LRU!Next
<1>2. ASSUME NEW k \in Keys, NEW v \in Values, InsertNew(k, v) \/ InsertOld(k, v)
      PROVE  LRU!Next
  BY <1>2, InsertNewInserts, InsertOldInserts DEF LRU!Next
<1>3. CASE Clear
  BY <1>3, ClearClears DEF LRU!Next
<1>4. CASE UNCHANGED vars
  BY <1>4 DEF vars, Entries, Iterator
<1> QED
  BY <1>1, <1>2, <1>3, <1>4 DEF Next

(* The cache is an LRU map: find and insert make an entry the most recent  *)
(* one, and an insertion over the capacity evicts the least recent one.    *)
THEOREM ImplementsLRU == Spec => IsLRU
<1>1. Spec => LRU!Init /\ [][LRU!Next]_(LRU!vars)
  BY InitIsLRU, StepIsLRU, CacheInvariant, PTL DEF Spec
<1> QED
  BY <1>1 DEF IsLRU, LRU!Spec

=============================================================================
