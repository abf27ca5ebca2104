----------------------------- MODULE Realplexor -----------------------------
(***************************************************************************)
(* The core of the Comet server: the WAIT connections that listen IDs, the *)
(* IN connections that publish data, the six storages they share, and the  *)
(* timers.  The server is one libev loop, so every handler is one atomic   *)
(* action; connections, timers and publishers interleave freely.           *)
(***************************************************************************)
EXTENDS Storage

CONSTANTS
  Fhs,            \* addresses of FH objects; reused after a connection ends
  WaitRequests,   \* identifier lines of WAIT: non-empty sequences of pairs
  InRequests,     \* publications: [pairs, limit_ids, owned]
  MaxDataForId,   \* MAX_DATA_FOR_ID of the config
  EventChainLen,  \* EVENT_CHAIN_LEN of the config
  None,           \* "no entry" in connected_fhs
  MaxPublish,     \* bound of the model: publications
  MaxPos          \* bound of the model: event position up to which IDs come online

Cursor == Nat
Pair == [cursor : Cursor, id : Ids]
InitialPos == 10
Item == [cursor : Cursor, rdata : Nat, nth : Nat, limit_ids : SUBSET Ids]
Event == [cursor : Nat, type : {"online", "offline"}, id : Ids]

ASSUME IdsAssumption == IsFiniteSet(Ids)
ASSUME FhsAssumption == IsFiniteSet(Fhs)
ASSUME LimitsAssumption ==
  MaxDataForId \in Nat /\ EventChainLen \in Nat /\ MaxPublish \in Nat /\ MaxPos \in Nat
ASSUME NoneAssumption == None \notin Cursor
ASSUME WaitAssumption == WaitRequests \subseteq Seq(Pair) \ {<<>>}
ASSUME InAssumption ==
  InRequests \subseteq [pairs : Seq(Pair), limit_ids : SUBSET Ids, owned : SUBSET Ids]

VARIABLES
  data_to_send,    \* ID -> set of items, see Storage
  cleanup_timers,  \* ID -> is a cleanup timer assigned (and counting)
  connected_fhs,   \* ID -> FH -> cursor listened from, or None
  pairs_by_fhs,    \* FH -> pairs; <<>> when there is no entry
  online_timers,   \* ID -> "none", "stopped" (assigned) or "running"
  chain, cur_pos,  \* Storage::Events
  conn,            \* FH -> "free", "open" or "shut" (shutdown(2) was called)
  wait_pairs,      \* FH -> member pairs of the Wait object
  sent,            \* FH -> response blocks written to the connection
  published        \* number of publications so far: names the data blocks

vars == <<data_to_send, cleanup_timers, connected_fhs, pairs_by_fhs,
          online_timers, chain, cur_pos, conn, wait_pairs, sent, published>>

Init ==
  /\ data_to_send = [id \in Ids |-> {}]
  /\ cleanup_timers = [id \in Ids |-> FALSE]
  /\ connected_fhs = [id \in Ids |-> [f \in Fhs |-> None]]
  /\ pairs_by_fhs = [f \in Fhs |-> <<>>]
  /\ online_timers = [id \in Ids |-> "none"]
  /\ chain = {} /\ cur_pos = InitialPos
  /\ conn = [f \in Fhs |-> "free"]
  /\ wait_pairs = [f \in Fhs |-> <<>>]
  /\ sent = [f \in Fhs |-> {}]
  /\ published = 0

----------------------------------------------------------------------------
(* send_pendings: the data due to the listeners of ids, a list given as a  *)
(* function from positions to IDs.                                         *)

Listed(ids) == {ids[k] : k \in DOMAIN ids}

(* Mutant of Unseen: an item at the very cursor is taken for a new one.    *)
UnseenAtCursor(queue, listeners, pairs, f) ==
  IF listeners[f] = None THEN {}
  ELSE {it \in queue : it.cursor >= listeners[f] /\ VisibleTo(it, IdsOf(pairs[f]))}

(* Items of queue that f, listening id, has not seen and may see.          *)
Unseen(queue, listeners, pairs, f) ==
  IF listeners[f] = None THEN {}
  ELSE {it \in queue : it.cursor > listeners[f] /\ VisibleTo(it, IdsOf(pairs[f]))}

(* data_by_fh[f]: one block per data reference, with the lowest unseen     *)
(* cursor for each of its IDs and, to sort by, the biggest cursor of the   *)
(* first ID of ids it was found at.                                        *)
Blocks(ids, queues, listened, pairs, f) ==
  LET Found(id, d) == {it.cursor : it \in
        {i \in Unseen(queues[id], listened[id], pairs, f) : i.rdata = d}}
      Data == {it.rdata : it \in
        UNION {Unseen(queues[id], listened[id], pairs, f) : id \in Listed(ids)}}
      At(d) == {k \in DOMAIN ids : Found(ids[k], d) # {}}
      First(d) == CHOOSE k \in At(d) : \A j \in At(d) : k <= j
      Top(S) == CHOOSE c \in S : \A x \in S : x <= c
      Bottom(S) == CHOOSE c \in S : \A x \in S : c <= x
  IN {[rdata |-> d,
       cursor |-> Top(Found(ids[First(d)], d)),
       ids |-> [id \in {ids[k] : k \in At(d)} |-> Bottom(Found(id, d))]] : d \in Data}

(* Mutant of Flushed: only the first ID of the request is looked at.       *)
FlushedAtFirst(ids, queues, listened, pairs) ==
  {f \in Fhs : \E k \in DOMAIN ids \cap {1} :
                 Unseen(queues[ids[k]], listened[ids[k]], pairs, f) # {}}

(* The FHs that are sent something.                                        *)
Flushed(ids, queues, listened, pairs) ==
  {f \in Fhs : \E id \in Listed(ids) : Unseen(queues[id], listened[id], pairs, f) # {}}

(* Mutant of Forget: the connection is forgotten at its first ID only.     *)
ForgetAtFirst(listened, pairs, fs) ==
  [id \in Ids |-> [f \in Fhs |->
     IF f \in fs /\ pairs[f] # <<>> /\ id = pairs[f][1].id THEN None ELSE listened[id][f]]]

(* _shutdown_fh: forget f at all the IDs of its pairs.                     *)
Forget(listened, pairs, fs) ==
  [id \in Ids |-> [f \in Fhs |->
     IF f \in fs /\ id \in IdsOf(pairs[f]) THEN None ELSE listened[id][f]]]

Rotate(ids, queues) ==
  [id \in Ids |-> IF id \in Listed(ids)
                  THEN clean_old_data_for_id(queues[id], MaxDataForId)
                  ELSE queues[id]]

(* The rest of a handler that has brought the storages to queues, listened *)
(* and pairs: rotate, collect, then write and shut down.                   *)
send_pendings(ids, queues, listened, pairs) ==
  LET q  == Rotate(ids, queues)
      fs == Flushed(ids, q, listened, pairs)
  IN /\ data_to_send' = q
     /\ connected_fhs' = Forget(listened, pairs, fs)
     /\ pairs_by_fhs' = [f \in Fhs |-> IF f \in fs THEN <<>> ELSE pairs[f]]
     /\ conn' = [f \in Fhs |-> IF f \in fs THEN "shut" ELSE conn[f]]
     /\ sent' = [f \in Fhs |-> IF f \in fs
                               THEN sent[f] \cup Blocks(ids, q, listened, pairs, f)
                               ELSE sent[f]]

----------------------------------------------------------------------------
(* WAIT connections.                                                       *)

(* Server::handle_connect: a new Connection::Wait with empty pairs.        *)
Connect(f) ==
  /\ conn[f] = "free"
  /\ conn' = [conn EXCEPT ![f] = "open"]
  /\ UNCHANGED <<data_to_send, cleanup_timers, connected_fhs, pairs_by_fhs,
                 online_timers, chain, cur_pos, wait_pairs, sent, published>>

(* connected_fhs.add_to_id for every pair: a repeated ID keeps the last.   *)
Listen(listened, f, pairs) ==
  [id \in Ids |->
    IF id \notin IdsOf(pairs) THEN listened[id]
    ELSE LET At   == {k \in DOMAIN pairs : pairs[k].id = id}
             last == CHOOSE k \in At : \A j \in At : j <= k
         IN [listened[id] EXCEPT ![f] = pairs[last].cursor]]

(* Mutant of Newcomers: every registration is taken for a first one.       *)
NewcomersAlways(pairs) == IdsOf(pairs)

(* IDs of pairs that had no online timer, and their ONLINE events in the   *)
(* order the loop over pairs first meets them.                             *)
Newcomers(pairs) == {id \in IdsOf(pairs) : online_timers[id] = "none"}

OnlineEvents(pairs) ==
  LET At == {k \in DOMAIN pairs : /\ pairs[k].id \in Newcomers(pairs)
                                  /\ \A j \in 1 .. k - 1 : pairs[j].id # pairs[k].id}
  IN {[cursor |-> cur_pos + Cardinality({j \in At : j <= k}),
       type |-> "online", id |-> pairs[k].id] : k \in At}

Orders(S) == {ids \in [1 .. Cardinality(S) -> S] : Listed(ids) = S}

(* Wait::onread when the identifier line is complete.  ids is the order in *)
(* which the unordered set ids_to_process is iterated.                     *)
Register(f, pairs, ids) ==
  /\ conn[f] = "open" /\ wait_pairs[f] = <<>>
  /\ cur_pos + Cardinality(Newcomers(pairs)) <= MaxPos
  /\ wait_pairs' = [wait_pairs EXCEPT ![f] = pairs]
  /\ online_timers' = [id \in Ids |-> IF id \in IdsOf(pairs) THEN "stopped"
                                      ELSE online_timers[id]]
  /\ cur_pos' = cur_pos + Cardinality(Newcomers(pairs))
  /\ chain' = KeepRecent(chain \cup OnlineEvents(pairs), cur_pos', EventChainLen)
  /\ send_pendings(ids, data_to_send, Listen(connected_fhs, f, pairs),
                   [pairs_by_fhs EXCEPT ![f] = pairs])
  /\ UNCHANGED <<cleanup_timers, published>>

(* Wait::onread when the first ID is SCRIPT: static content, shutdown(2).  *)
SendScript(f) ==
  /\ conn[f] = "open" /\ wait_pairs[f] = <<>>
  /\ conn' = [conn EXCEPT ![f] = "shut"]
  /\ UNCHANGED <<data_to_send, cleanup_timers, connected_fhs, pairs_by_fhs,
                 online_timers, chain, cur_pos, wait_pairs, sent, published>>

(* Mutants of Deserted: the last connection is not waited for, or never    *)
(* recognised.                                                             *)
DesertedAtOnce(listened, id) == TRUE
DesertedNever(listened, id) == FALSE

(* get_num_fhs_by_id is 0: nobody listens id any more.                     *)
Deserted(listened, id) == \A g \in Fhs : listened[id][g] = None

(* Wait::onclose, from the destructor: on EOF, timeout, error, overflow or *)
(* an exception of onread, see also CursorThrows.  After a shutdown the    *)
(* EOF is read later: the Wait object outlives its entries in the storages.*)
Close(f) ==
  /\ conn[f] # "free"
  /\ LET listened == Forget(connected_fhs, wait_pairs, {f})
     IN /\ connected_fhs' = listened
        /\ online_timers' = [id \in Ids |->
             IF /\ id \in IdsOf(wait_pairs[f]) /\ Deserted(listened, id)
                /\ online_timers[id] # "none"
             THEN "running" ELSE online_timers[id]]
  /\ pairs_by_fhs' = [pairs_by_fhs EXCEPT ![f] = <<>>]
  /\ conn' = [conn EXCEPT ![f] = "free"]
  /\ wait_pairs' = [wait_pairs EXCEPT ![f] = <<>>]
  /\ sent' = [sent EXCEPT ![f] = {}]
  /\ UNCHANGED <<data_to_send, cleanup_timers, chain, cur_pos, published>>

(* Wait::onread dies of a cursor in extract_pairs: the pairs before it are *)
(* in the Wait object, though never registered, and onclose finds them.    *)
CursorThrows(f, pairs) ==
  /\ conn[f] = "open" /\ wait_pairs[f] = <<>>
  /\ conn' = [conn EXCEPT ![f] = "free"]
  /\ online_timers' = [id \in Ids |->
       IF id \in IdsOf(pairs) /\ Deserted(connected_fhs, id) /\ online_timers[id] # "none"
       THEN "running" ELSE online_timers[id]]
  /\ UNCHANGED <<data_to_send, cleanup_timers, connected_fhs, pairs_by_fhs, chain, cur_pos,
                 wait_pairs, sent, published>>

----------------------------------------------------------------------------
(* IN connections: the end of a request with a body, _try_process_pairs.   *)

(* add_dataref_to_id for every own pair of the request.                    *)
ItemsFor(id, req, d) ==
  {[cursor |-> req.pairs[k].cursor, rdata |-> d, nth |-> k, limit_ids |-> req.limit_ids] :
     k \in {j \in DOMAIN req.pairs : req.pairs[j].id = id /\ id \in req.owned}}

(* ids_to_process: the IDs of the own pairs, by position in the request.   *)
OwnIds(req) ==
  [k \in {j \in DOMAIN req.pairs : req.pairs[j].id \in req.owned} |-> req.pairs[k].id]

Publish(req) ==
  /\ published < MaxPublish
  /\ req.pairs # <<>>
  /\ published' = published + 1
  /\ cleanup_timers' = [id \in Ids |-> cleanup_timers[id] \/ id \in Listed(OwnIds(req))]
  /\ send_pendings(OwnIds(req),
       [id \in Ids |-> data_to_send[id] \cup ItemsFor(id, req, published + 1)],
       connected_fhs, pairs_by_fhs)
  /\ UNCHANGED <<online_timers, chain, cur_pos, wait_pairs>>

----------------------------------------------------------------------------
(* Timers.                                                                 *)

(* OFFLINE_TIMEOUT after the last client of id left.                       *)
OnlineTimerFires(id) ==
  /\ online_timers[id] = "running"
  /\ online_timers' = [online_timers EXCEPT ![id] = "none"]
  /\ cur_pos' = cur_pos + 1
  /\ chain' = KeepRecent(
       chain \cup {[cursor |-> cur_pos + 1, type |-> "offline", id |-> id]},
       cur_pos', EventChainLen)
  /\ UNCHANGED <<data_to_send, cleanup_timers, connected_fhs, pairs_by_fhs,
                 conn, wait_pairs, sent, published>>

(* Mutant of CleanupTimerFires: the timer goes, the queue stays.           *)
CleanupForgetsQueue(id) ==
  /\ cleanup_timers[id]
  /\ cleanup_timers' = [cleanup_timers EXCEPT ![id] = FALSE]
  /\ UNCHANGED <<data_to_send, connected_fhs, pairs_by_fhs, online_timers, chain,
                 cur_pos, conn, wait_pairs, sent, published>>

(* CLEAN_ID_AFTER after the last publication to id.                        *)
CleanupTimerFires(id) ==
  /\ cleanup_timers[id]
  /\ cleanup_timers' = [cleanup_timers EXCEPT ![id] = FALSE]
  /\ data_to_send' = [data_to_send EXCEPT ![id] = {}]
  /\ UNCHANGED <<connected_fhs, pairs_by_fhs, online_timers, chain, cur_pos,
                 conn, wait_pairs, sent, published>>

----------------------------------------------------------------------------
Next ==
  \/ \E f \in Fhs :
       \/ Connect(f) \/ SendScript(f) \/ Close(f)
       \/ \E pairs \in WaitRequests :
            CursorThrows(f, pairs) \/ \E ids \in Orders(IdsOf(pairs)) : Register(f, pairs, ids)
  \/ \E req \in InRequests : Publish(req)
  \/ \E id \in Ids : OnlineTimerFires(id) \/ CleanupTimerFires(id)

Spec == Init /\ [][Next]_vars

----------------------------------------------------------------------------
(* Type invariant.                                                         *)
TypeOK ==
  /\ data_to_send \in [Ids -> SUBSET Item]
  /\ cleanup_timers \in [Ids -> BOOLEAN]
  /\ connected_fhs \in [Ids -> [Fhs -> Cursor \cup {None}]]
  /\ pairs_by_fhs \in [Fhs -> Seq(Pair)]
  /\ online_timers \in [Ids -> {"none", "stopped", "running"}]
  /\ chain \subseteq Event
  /\ cur_pos \in Nat
  /\ conn \in [Fhs -> {"free", "open", "shut"}]
  /\ wait_pairs \in [Fhs -> Seq(Pair)]
  /\ published \in Nat

Listens(f, id) == connected_fhs[id][f] # None

(* The two indexes of listeners, written at different places (register,    *)
(* flush, close), agree: a connection has an entry at exactly the IDs of   *)
(* its pairs, and only an open connection that registered these very pairs *)
(* has any: no entry outlives its FH object, whose address may be reused.  *)
IndexesAgree ==
  \A f \in Fhs :
    /\ \A id \in Ids : Listens(f, id) <=> id \in IdsOf(pairs_by_fhs[f])
    /\ pairs_by_fhs[f] # <<>> => conn[f] = "open" /\ pairs_by_fhs[f] = wait_pairs[f]

(* Between handlers no listener is left waiting for an item that is queued *)
(* at one of its IDs, newer than its cursor and visible to it, although    *)
(* each handler looks only at the IDs of its own request.                  *)
NothingPending ==
  \A f \in Fhs, id \in Ids :
    Unseen(data_to_send[id], connected_fhs[id], pairs_by_fhs, f) = {}

(* While somebody listens an ID its online timer is assigned and stopped,  *)
(* so no OFFLINE can be raised for it.                                     *)
OnlineWhileListened ==
  \A id \in Ids : (\E f \in Fhs : Listens(f, id)) => online_timers[id] = "stopped"

(* A stopped timer never counts down by itself: some connection that is    *)
(* not closed yet must hold the ID to start it, or it is online forever.   *)
StoppedHasCloser ==
  \A id \in Ids : online_timers[id] = "stopped" =>
    \E f \in Fhs : conn[f] # "free" /\ id \in IdsOf(wait_pairs[f])

(* Every queued item is doomed: its ID has a cleanup timer counting.       *)
QueueHasReaper ==
  \A id \in Ids : data_to_send[id] # {} => cleanup_timers[id]

(* The event chain tells the present: the newest event kept for an ID says *)
(* online exactly if the ID has an online timer (what ONLINE lists), and   *)
(* the kinds of an ID's successive events alternate.                       *)
EventsTellPresence ==
  \A e \in chain :
    LET later == {o \in chain : o.id = e.id /\ o.cursor > e.cursor}
    IN IF later = {} THEN (e.type = "online") <=> (online_timers[e.id] # "none")
       ELSE \A o \in later : (\A x \in later : o.cursor <= x.cursor) => o.type # e.type

(* The events and the answer to ONLINE are those of module Presence: an ID *)
(* comes and goes once, in between it is listed, and the events of one     *)
(* registration follow each other.                                         *)
Present == INSTANCE Presence WITH
  online <- {id \in Ids : online_timers[id] # "none"}
ImplementsPresence == Present!Spec

(* The server implements the service of module Comet: a connection waits   *)
(* from its registration until it is answered, and every answer is all the *)
(* client was due, from all its IDs, although the code collects it from    *)
(* the IDs of one request only and from two indexes.                       *)
Service == INSTANCE Comet WITH
  queue <- data_to_send,
  waiting <- [f \in Fhs |-> IF conn[f] = "open" THEN wait_pairs[f] ELSE <<>>],
  answer <- [f \in Fhs |-> {[rdata |-> x.rdata, ids |-> x.ids] : x \in sent[f]}]

ImplementsComet == Service!Spec

----------------------------------------------------------------------------
(* Liveness.  The server runs its due timers and reads the EOF of the      *)
(* sockets it has shut down; clients owe nothing, but they do not start a  *)
(* timer anew for ever: publications and registrations are bounded, and    *)
(* requests with a bad cursor (CursorThrows) come to an end.               *)
Fairness ==
  /\ \A f \in Fhs : WF_vars(conn[f] = "shut" /\ Close(f))
  /\ \A id \in Ids : WF_vars(OnlineTimerFires(id)) /\ WF_vars(CleanupTimerFires(id))

FairSpec == Spec /\ Fairness

Held(id) == \E f \in Fhs : conn[f] = "open" /\ id \in IdsOf(wait_pairs[f])

(* An ID whose clients have all gone is reported offline, unless one comes *)
(* back before that.                                                       *)
GoneIsReported ==
  \A id \in Ids : (online_timers[id] # "none" /\ ~Held(id))
                    ~> (online_timers[id] = "none" \/ Held(id))

(* Data nobody renews is removed from memory.                              *)
QueueIsEmptied == \A id \in Ids : data_to_send[id] # {} ~> data_to_send[id] = {}
=============================================================================
