-------------------------------- MODULE Cache --------------------------------
(***************************************************************************)
(* The LRU cache of common/cache.*: a hash map from keys to values and to  *)
(* iterators into a list of keys, the most recent one first.  The nodes of *)
(* the std::list have an identity: splice moves a node, an iterator stays  *)
(* with its node, and an erased node may be allocated again.  One thread   *)
(* uses a cache.  counts_ and insert_threshold_ are never used.            *)
(***************************************************************************)
EXTENDS Naturals, Sequences, FiniteSets

CONSTANTS
  Keys,
  Values,
  Nodes,            \* the nodes of the list
  END,              \* the iterator end(), and the key of no node
  Capacity,         \* the constructor's capacity
  DefaultCapacity   \* DEFAULT_CACHE_SIZE

(* With capacity 0 insert would return an iterator to an erased entry. *)
ASSUME CacheAssumption ==
  /\ Capacity \in Nat \ {0}
  /\ DefaultCapacity \in Nat \ {0}
  /\ END \notin Nodes \cup Keys
  /\ IsFiniteSet(Keys)
  /\ IsFiniteSet(Nodes) /\ Cardinality(Nodes) >= Cardinality(Keys)

VARIABLES
  list,      \* list_, as the sequence of its nodes
  keyOf,     \* the key in each node, END in the nodes that are not allocated
  map,       \* map_: for each key in the cache its value and its iterator
  capacity,  \* capacity_
  result     \* the key of the iterator that find or insert returned, or
             \*   END; deletions and clear forget it

vars == <<list, keyOf, map, capacity, result>>

-----------------------------------------------------------------------------

Init ==
  /\ list = <<>>
  /\ keyOf = [n \in Nodes |-> END]
  /\ map = [k \in {} |-> END]
  /\ capacity = Capacity
  /\ result = END

Allocated == {n \in Nodes : keyOf[n] # END}

(* list_.erase of a node. *)
Erased(n) ==
  LET i == CHOOSE j \in DOMAIN list : list[j] = n
  IN  SubSeq(list, 1, i - 1) \o SubSeq(list, i + 1, Len(list))

(* list_.splice(list_.begin(), list_, iterator of n) *)
Spliced(n) == <<n>> \o Erased(n)

(* Mutant: the node is not moved. *)
FindHit_stay(k) ==
  /\ k \in DOMAIN map
  /\ keyOf' = [keyOf EXCEPT ![map[k].node] = keyOf[Head(list)]]
  /\ result' = k
  /\ UNCHANGED <<list, map, capacity>>

(* find: the node moves to the front, and then the front's key is assigned *)
(* to the node of the iterator.                                            *)
FindHit(k) ==
  /\ k \in DOMAIN map
  /\ list' = Spliced(map[k].node)
  /\ keyOf' = [keyOf EXCEPT ![map[k].node] = keyOf[Head(list')]]
  /\ result' = k
  /\ UNCHANGED <<map, capacity>>

FindMiss(k) ==
  /\ k \notin DOMAIN map
  /\ result' = END
  /\ UNCHANGED <<list, keyOf, map, capacity>>

(* The map with the entry of k replaced or added. *)
Mapped(k, v, n) ==
  [j \in DOMAIN map \cup {k} |->
     IF j = k THEN [value |-> v, node |-> n] ELSE map[j]]

(* The eviction loop: the nodes of s after the first c are erased, and so  *)
(* are the entries of their keys.                                          *)
Keep(s, c, ks, m) ==
  LET evicted == {s[i] : i \in c+1..Len(s)}
  IN  /\ list' = SubSeq(s, 1, c)
      /\ keyOf' = [n \in Nodes |-> IF n \in evicted THEN END ELSE ks[n]]
      /\ map' = [j \in DOMAIN m \ {ks[n] : n \in evicted} |-> m[j]]

(* Mutant: the loop evicts list_.front(). *)
InsertNew_front(k, v) ==
  /\ k \notin DOMAIN map
  /\ \E n \in Nodes \ Allocated :
       LET full == IF Len(list) < capacity THEN <<n>> \o list
                                           ELSE list \o <<n>>
           keep == IF Len(full) <= capacity THEN Len(full) ELSE capacity
       IN  Keep(full, keep, [keyOf EXCEPT ![n] = k], Mapped(k, v, n))
  /\ result' = k
  /\ UNCHANGED capacity

(* insert of a new key: a node at the front, an entry, and evictions from  *)
(* the back while there are more than capacity_ entries.                   *)
InsertNew(k, v) ==
  /\ k \notin DOMAIN map
  /\ \E n \in Nodes \ Allocated :
       LET full == <<n>> \o list
           keep == IF Len(full) <= capacity THEN Len(full) ELSE capacity
       IN  Keep(full, keep, [keyOf EXCEPT ![n] = k], Mapped(k, v, n))
  /\ result' = k
  /\ UNCHANGED capacity

(* Mutant: an update does not count as an access. *)
InsertOld_stay(k, v) ==
  /\ k \in DOMAIN map
  /\ map' = Mapped(k, v, map[k].node)
  /\ result' = k
  /\ UNCHANGED <<list, keyOf, capacity>>

(* insert of a key that is there: its node moves to the front, and its     *)
(* entry is replaced by the value and list_.begin().                       *)
InsertOld(k, v) ==
  /\ k \in DOMAIN map
  /\ list' = Spliced(map[k].node)
  /\ map' = Mapped(k, v, Head(list'))
  /\ result' = k
  /\ UNCHANGED <<keyOf, capacity>>

(* delete_key; of a key that is not there it does nothing. *)
DeleteKey(k) ==
  /\ k \in DOMAIN map
  /\ list' = Erased(map[k].node)
  /\ keyOf' = [keyOf EXCEPT ![map[k].node] = END]
  /\ map' = [j \in DOMAIN map \ {k} |-> map[j]]
  /\ result' = END
  /\ UNCHANGED capacity

(* clear also sets capacity_ to its default. *)
Clear ==
  /\ list' = <<>>
  /\ keyOf' = [n \in Nodes |-> END]
  /\ map' = [k \in {} |-> END]
  /\ capacity' = DefaultCapacity
  /\ result' = END

-----------------------------------------------------------------------------

Next ==
  \/ \E k \in Keys : FindHit(k) \/ FindMiss(k) \/ DeleteKey(k)
  \/ \E k \in Keys, v \in Values : InsertNew(k, v) \/ InsertOld(k, v)
  \/ Clear

Spec == Init /\ [][Next]_vars

-----------------------------------------------------------------------------

(* The map and the list agree: the iterator of every entry is that of the  *)
(* one node with its key, in the list, and there are no other nodes.  So   *)
(* splice and erase are never given a dangling iterator, and the eviction  *)
(* of the back's key removes that node's entry and no other.               *)
ListMapAgree ==
  /\ {list[i] : i \in DOMAIN list} = Allocated
  /\ \A i, j \in DOMAIN list : list[i] = list[j] => i = j
  /\ \A k \in DOMAIN map : keyOf[map[k].node] = k
  /\ \A n \in Allocated : keyOf[n] \in DOMAIN map /\ map[keyOf[n]].node = n

(* What the returned iterator stands for: end(), or the entry that         *)
(* operator* reads.                                                        *)
Iterator == IF result = END THEN END ELSE <<result, map[result].value>>

(* What insert and find return can be dereferenced: a new entry does not   *)
(* evict itself.                                                           *)
ResultValid == result # END => result \in DOMAIN map

Entries == [i \in DOMAIN list |-> <<keyOf[list[i]], map[keyOf[list[i]]].value>>]

(* The cache is an LRU map. *)
LRU == INSTANCE LRUCache WITH entries <- Entries, result <- Iterator

IsLRU == LRU!Spec

=============================================================================
