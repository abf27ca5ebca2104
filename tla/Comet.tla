------------------------------- MODULE Comet -------------------------------
(***************************************************************************)
(* The service a client of the server sees, without indexes, timers or     *)
(* sockets: there is a bounded queue per ID, a client waits with a list of *)
(* [cursor, id] pairs, and it is answered at the first moment when some    *)
(* item is due to it, with everything that is due to it at that moment.    *)
(***************************************************************************)
EXTENDS Storage

CONSTANTS Fhs, WaitRequests, InRequests, MaxDataForId

VARIABLES
  queue,      \* ID -> set of items
  waiting,    \* client -> the pairs it waits with, <<>> if it does not
  answer,     \* client -> set of blocks it was answered with
  published   \* number of publications so far

vars == <<queue, waiting, answer, published>>

Init ==
  /\ queue = [id \in Ids |-> {}]
  /\ waiting = [f \in Fhs |-> <<>>]
  /\ answer = [f \in Fhs |-> {}]
  /\ published = 0

(* The item is newer than the cursor of the last pair for id.              *)
NewFor(item, id, pairs) ==
  \E k \in DOMAIN pairs :
    /\ pairs[k].id = id /\ pairs[k].cursor < item.cursor
    /\ \A j \in DOMAIN pairs : pairs[j].id = id => j <= k

(* The blocks due to a client: each data block once, with every ID it was  *)
(* found at and the lowest of its new cursors there.                       *)
Due(queues, pairs) ==
  LET New(id)     == {it \in queues[id] : NewFor(it, id, pairs) /\ VisibleTo(it, IdsOf(pairs))}
      Cursors(d, id) == {it.cursor : it \in {i \in New(id) : i.rdata = d}}
      Sources(d)  == {id \in IdsOf(pairs) : Cursors(d, id) # {}}
  IN {[rdata |-> d,
       ids |-> [id \in Sources(d) |->
                 CHOOSE x \in Cursors(d, id) : \A y \in Cursors(d, id) : x <= y]] :
       d \in {it.rdata : it \in UNION {New(id) : id \in IdsOf(pairs)}}}

(* Answer everybody who has something due.                                 *)
Settle(queues, clients) ==
  /\ queue' = queues
  /\ waiting' = [f \in Fhs |-> IF Due(queues, clients[f]) # {} THEN <<>> ELSE clients[f]]
  /\ answer' = [f \in Fhs |-> IF Due(queues, clients[f]) # {}
                              THEN Due(queues, clients[f]) ELSE answer[f]]

Wait(f, pairs) ==
  /\ waiting[f] = <<>> /\ answer[f] = {}
  /\ Settle(queue, [waiting EXCEPT ![f] = pairs])
  /\ UNCHANGED published

Send(req) ==
  /\ published' = published + 1
  /\ Settle([id \in Ids |-> clean_old_data_for_id(
               queue[id] \cup
                 {[cursor |-> req.pairs[k].cursor, rdata |-> published', nth |-> k,
                   limit_ids |-> req.limit_ids] :
                    k \in {j \in DOMAIN req.pairs :
                             req.pairs[j].id = id /\ id \in req.owned}},
               MaxDataForId)],
            waiting)

Leave(f) ==
  /\ waiting' = [waiting EXCEPT ![f] = <<>>]
  /\ answer' = [answer EXCEPT ![f] = {}]
  /\ UNCHANGED <<queue, published>>

Expire(id) ==
  /\ queue' = [queue EXCEPT ![id] = {}]
  /\ UNCHANGED <<waiting, answer, published>>

Next ==
  \/ \E f \in Fhs : Leave(f) \/ \E pairs \in WaitRequests : Wait(f, pairs)
  \/ \E req \in InRequests : Send(req)
  \/ \E id \in Ids : Expire(id)

Spec == Init /\ [][Next]_vars
============================================================================
