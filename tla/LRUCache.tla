------------------------------- MODULE LRUCache -------------------------------
(***************************************************************************)
(* What the comments of common/cache.* promise: a map of at most capacity  *)
(* entries in which find and insert make an entry the most recent one, and *)
(* an insertion over the capacity evicts the least recent one.             *)
(***************************************************************************)
EXTENDS Naturals, Sequences, SequencesExt

CONSTANTS Keys, Values, Capacity, DefaultCapacity, END

VARIABLES
  entries,   \* pairs of key and value, most recently accessed first
  capacity,
  result     \* the entry the last find or insert returned, or END

vars == <<entries, capacity, result>>

Init ==
  /\ entries = <<>>
  /\ capacity = Capacity
  /\ result = END

PositionsOf(k) == {i \in DOMAIN entries : entries[i][1] = k}

(* The entries of the other keys; no key has two entries. *)
Others(k) ==
  IF PositionsOf(k) = {} THEN entries
                         ELSE RemoveAt(entries, CHOOSE i \in PositionsOf(k) : TRUE)

Access(k, v) ==
  /\ entries' = SubSeq(<<<<k, v>>>> \o Others(k), 1,
                       IF Len(Others(k)) < capacity THEN Len(Others(k)) + 1
                                                    ELSE capacity)
  /\ result' = <<k, v>>
  /\ UNCHANGED capacity

Insert(k, v) == Access(k, v)

Hit(k) == \E i \in DOMAIN entries : entries[i][1] = k /\ Access(k, entries[i][2])

Miss(k) ==
  /\ \A i \in DOMAIN entries : entries[i][1] # k
  /\ result' = END
  /\ UNCHANGED <<entries, capacity>>

Delete(k) ==
  /\ entries' = Others(k)
  /\ result' = END
  /\ UNCHANGED capacity

(* Clearing also gives up the capacity the cache was made with. *)
Clear ==
  /\ entries' = <<>>
  /\ capacity' = DefaultCapacity
  /\ result' = END

Next ==
  \/ \E k \in Keys : Hit(k) \/ Miss(k) \/ Delete(k)
  \/ \E k \in Keys, v \in Values : Insert(k, v)
  \/ Clear

Spec == Init /\ [][Next]_vars

===============================================================================
