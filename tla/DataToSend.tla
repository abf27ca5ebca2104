----------------------------- MODULE DataToSend -----------------------------
(***************************************************************************)
(* cpp/Storage/DataToSend.h: a map from an ID to a std::list of chunks,    *)
(* bigger cursors first.  Data blocks are numbered as they arrive; nth is  *)
(* the position of the chunk's pair in the request that brought the block. *)
(***************************************************************************)
EXTENDS Storage, SequencesExt

CONSTANTS Cursors, MaxDataForId, MaxBlocks, MaxPairs

ASSUME DataToSendAssumption ==
  Cursors \subseteq Nat /\ MaxDataForId \in Nat /\ MaxBlocks \in Nat /\ MaxPairs \in Nat \ {0}

Item == [cursor : Cursors, rdata : 1 .. MaxBlocks, nth : 1 .. MaxPairs, limit_ids : {{}}]

VARIABLES
  storage,   \* map: IDs with an entry -> list
  rdata, nth \* the block and the pair of the request being read

vars == <<storage, rdata, nth>>

Init == storage = <<>> /\ rdata = 0 /\ nth = 0

Has(id) == id \in DOMAIN storage
get_data_by_id(id) == IF Has(id) THEN storage[id] ELSE <<>>

(* storage[id] = list, which creates the entry if there is none.           *)
Put(id, list) == storage' = [x \in DOMAIN storage \cup {id} |->
                              IF x = id THEN list ELSE storage[x]]

(* Mutant of Merge: the chunk is put behind the chunks of an equal cursor. *)
MergeBehindEquals(list, item) ==
  LET After == {k \in DOMAIN list : list[k].cursor < item.cursor}
  IN IF After = {} THEN Append(list, item) ELSE InsertAt(list, Min(After), item)

(* list.merge of a one-element list: the new chunk goes before the first   *)
(* one the comparator puts after it, e2.cursor <= e1.cursor.               *)
Merge(list, item) ==
  LET NotAfter == {k \in DOMAIN list : list[k].cursor <= item.cursor}
  IN IF NotAfter = {} THEN Append(list, item) ELSE InsertAt(list, Min(NotAfter), item)

add_dataref_to_id(id, cursor, d, n) ==
  Put(id, Merge(get_data_by_id(id),
                [cursor |-> cursor, rdata |-> d, nth |-> n, limit_ids |-> {}]))

(* Mutant of clean_old_data: the overflow is popped from the front.        *)
CleanFromFront(id) ==
  /\ Has(id)
  /\ Len(storage[id]) >= MaxDataForId
  /\ Put(id, SubSeq(storage[id], Len(storage[id]) - MaxDataForId + 1, Len(storage[id])))
  /\ UNCHANGED <<rdata, nth>>

clean_old_data(id) ==
  /\ Has(id)
  /\ Len(storage[id]) >= MaxDataForId
  /\ Put(id, SubSeq(storage[id], 1, MaxDataForId))
  /\ UNCHANGED <<rdata, nth>>

clear_id(id) ==
  /\ storage' = [x \in DOMAIN storage \ {id} |-> storage[x]]
  /\ UNCHANGED <<rdata, nth>>

(* The callers: a request brings a new block, or one more pair for it.     *)
NewBlock(id, cursor) ==
  /\ rdata < MaxBlocks
  /\ rdata' = rdata + 1 /\ nth' = 1
  /\ add_dataref_to_id(id, cursor, rdata + 1, 1)

NextPair(id, cursor) ==
  /\ nth \in 1 .. MaxPairs - 1
  /\ nth' = nth + 1
  /\ add_dataref_to_id(id, cursor, rdata, nth + 1)
  /\ UNCHANGED rdata

Next ==
  \E id \in Ids :
    \/ clean_old_data(id) \/ clear_id(id)
    \/ \E cursor \in Cursors : NewBlock(id, cursor) \/ NextPair(id, cursor)

Spec == Init /\ [][Next]_vars

----------------------------------------------------------------------------
(* The list stands in the order module Storage gives to its set: among     *)
(* equal cursors the chunk merged last comes first and is dropped last.    *)
OrderedAsMerged ==
  \A id \in Ids : LET list == get_data_by_id(id)
                  IN \A i, j \in DOMAIN list : i < j <=> StandsBefore(list[i], list[j])

(* The list operations are the set operations module Realplexor relies on: *)
(* pop_back from the end of the list keeps the newest.                     *)
Queue == INSTANCE Queues WITH
  Items <- Item, queue <- [id \in Ids |-> ToSet(get_data_by_id(id))]

ImplementsQueues == Queue!Spec
=============================================================================
