------------------------------- MODULE Queues -------------------------------
(***************************************************************************)
(* What the server expects of Storage::DataToSend: a set of items per ID,  *)
(* from which the newest max are kept.  This is how module Realplexor uses *)
(* the storage; module DataToSend is the std::list that implements it.     *)
(***************************************************************************)
EXTENDS Storage

CONSTANTS Items, MaxDataForId

VARIABLE queue

Init == queue = [id \in Ids |-> {}]

Add(id, item) == queue' = [queue EXCEPT ![id] = @ \cup {item}]
Clean(id) == queue' = [queue EXCEPT ![id] = clean_old_data_for_id(@, MaxDataForId)]
Clear(id) == queue' = [queue EXCEPT ![id] = {}]

Next ==
  \E id \in Ids : Clean(id) \/ Clear(id) \/ \E item \in Items : Add(id, item)

Spec == Init /\ [][Next]_queue
=============================================================================
