------------------------------ MODULE JsClient ------------------------------
(***************************************************************************)
(* dklab_realplexor.js: the client that keeps one long request to a WAIT   *)
(* server open, and the delivery of messages end to end.  The server is    *)
(* the one of module Comet with one message per publication and cursor,    *)
(* the cursor being the next value of the clock, so that a message is      *)
(* known by its cursor and a queue is a set of cursors.                    *)
(***************************************************************************)
EXTENDS Integers, FiniteSets, FiniteSetsExt

CONSTANTS
  Ids,
  None,           \* null: no cursor is known, or no request
  MaxDataForId,   \* MAX_DATA_FOR_ID of the server
  MaxPublish,     \* bounds of the model: publications, and calls of
  MaxDisturbances \* execute() and broken requests together

ASSUME JsClientAssumption ==
  /\ IsFiniteSet(Ids) /\ None \notin Nat
  /\ {MaxDataForId, MaxPublish, MaxDisturbances} \subseteq Nat

(* Every call of execute() may add one request to those under way.         *)
Slots == 1 .. MaxDisturbances + 1
Cursors == 1 .. MaxPublish

VARIABLES
  clock,      \* cursor of the last publication
  queue,      \* ID -> cursors of the messages the server still has
  log,        \* ID -> cursors of all messages published (not in the code)
  positioned, \* IDs given a cursor with setCursor before all else
  cursor,     \* _ids[id].cursor
  subscribed, \* IDs with callbacks
  xmlhttp,    \* slot -> request under way, or None
  last,       \* _lastXmlhttp, as a slot, or None
  timers,     \* pending setTimeout calls of _loopFunc
  executes, breaks,
  start,      \* ID -> cursor listened from when the first one was learned (not in the code)
  seen, again \* ID -> cursors processed, and those processed twice (not in the code)

server == <<clock, queue, log>>
history == <<positioned, start, seen, again>>
vars == <<server, cursor, subscribed, xmlhttp, last, timers, executes, breaks, history>>

Init ==
  /\ clock = 0 /\ queue = [id \in Ids |-> {}] /\ log = [id \in Ids |-> {}]
  /\ positioned \in SUBSET Ids
  /\ cursor = [id \in Ids |-> IF id \in positioned THEN 0 ELSE None]
  /\ subscribed = {}
  /\ xmlhttp = [s \in Slots |-> None] /\ last = None /\ timers = 0
  /\ executes = 0 /\ breaks = 0
  /\ start = [id \in Ids |-> 0]
  /\ seen = [id \in Ids |-> {}] /\ again = [id \in Ids |-> {}]

----------------------------------------------------------------------------
(* The server.                                                             *)

Newest(S) == {c \in S : Cardinality({d \in S : d > c}) < MaxDataForId}

(* Mutant of Due: the message at the very cursor is due once more.         *)
DueAtCursor(queues, listen) ==
  [id \in Ids |-> IF listen[id] = None THEN {} ELSE {c \in queues[id] : c >= listen[id]}]

(* The messages due to a request that listens id from listen[id].          *)
Due(queues, listen) ==
  [id \in Ids |-> IF listen[id] = None THEN {} ELSE {c \in queues[id] : c > listen[id]}]
Nothing == [id \in Ids |-> {}]

(* state "sent": on its way; "waiting": registered; "answered": the answer *)
(* is on its way; "lost": the connection broke and the answer is empty.    *)
Answered(r, queues) ==
  IF r.state = "waiting" /\ Due(queues, r.listen) # Nothing
  THEN [r EXCEPT !.state = "answered", !.answer = Due(queues, r.listen)]
  ELSE r

Publish(ids) ==
  /\ clock < MaxPublish
  /\ clock' = clock + 1
  /\ log' = [id \in Ids |-> IF id \in ids THEN log[id] \cup {clock + 1} ELSE log[id]]
  /\ queue' = [id \in Ids |-> IF id \in ids THEN Newest(queue[id] \cup {clock + 1}) ELSE queue[id]]
  /\ xmlhttp' = [s \in Slots |-> IF xmlhttp[s] = None THEN None ELSE Answered(xmlhttp[s], queue')]
  /\ UNCHANGED <<cursor, subscribed, last, timers, executes, breaks, history>>

(* A pair without a cursor gets the time of its arrival.                   *)
Register(s) ==
  /\ xmlhttp[s] # None /\ xmlhttp[s].state = "sent"
  /\ LET r == xmlhttp[s]
         listen == [id \in Ids |-> IF id \notin r.ids THEN None
                                   ELSE IF r.listen[id] = None THEN clock ELSE r.listen[id]]
     IN xmlhttp' = [xmlhttp EXCEPT ![s] =
          Answered([r EXCEPT !.state = "waiting", !.listen = listen], queue)]
  /\ UNCHANGED <<server, cursor, subscribed, last, timers, executes, breaks, history>>

(* Within the bound.                                                       *)
Disturbed == executes + breaks < MaxDisturbances

(* WAIT_TIMEOUT, or the network: the response is empty or incomplete.      *)
Break(s) ==
  /\ Disturbed /\ breaks' = breaks + 1
  /\ xmlhttp[s] # None
  /\ xmlhttp' = [xmlhttp EXCEPT ![s].state = "lost"]
  /\ UNCHANGED <<server, cursor, subscribed, last, timers, executes, history>>

----------------------------------------------------------------------------
(* The client.                                                             *)

(* subscribe and unsubscribe: _map is the very object _loopFunc reads.     *)
Subscribe(id) ==
  /\ subscribed' = subscribed \cup {id} /\ subscribed' # subscribed
  /\ UNCHANGED <<server, cursor, xmlhttp, last, timers, executes, breaks, history>>
Unsubscribe(id) ==
  /\ subscribed' = subscribed \ {id} /\ subscribed' # subscribed
  /\ UNCHANGED <<server, cursor, xmlhttp, last, timers, executes, breaks, history>>

Request(cursors) ==
  [state |-> "sent", ids |-> subscribed, answer |-> Nothing,
   listen |-> [id \in Ids |-> IF id \in subscribed THEN cursors[id] ELSE None]]

(* _loopFunc, with the requests and _lastXmlhttp as the caller left them:  *)
(* a request for all subscribed IDs, if there are any.                     *)
_loopFunc(requests, latest, cursors) ==
  IF subscribed = {} THEN xmlhttp' = requests /\ last' = latest
  ELSE LET s == Min({t \in Slots : requests[t] = None})
       IN xmlhttp' = [requests EXCEPT ![s] = Request(cursors)] /\ last' = s

(* execute() aborts the request of _lastXmlhttp.                           *)
Aborted(requests) ==
  IF last = None THEN requests ELSE [requests EXCEPT ![last] = None]

(* The application calls execute().                                        *)
Execute ==
  /\ Disturbed /\ executes' = executes + 1
  /\ _loopFunc(Aborted(xmlhttp), None, cursor)
  /\ UNCHANGED <<server, cursor, subscribed, timers, breaks, history>>

(* Mutant of LoopTimer: the timer only looks after a request under way.    *)
LoopTimerIdle ==
  /\ timers > 0 /\ timers' = timers - 1
  /\ IF last = None THEN UNCHANGED <<xmlhttp, last>> ELSE _loopFunc(xmlhttp, last, cursor)
  /\ UNCHANGED <<server, cursor, subscribed, executes, breaks, history>>

(* setTimeout of _onresponse.                                              *)
LoopTimer ==
  /\ timers > 0 /\ timers' = timers - 1
  /\ _loopFunc(xmlhttp, last, cursor)
  /\ UNCHANGED <<server, cursor, subscribed, executes, breaks, history>>

(* Mutant of After: one cursor is kept for all IDs.                        *)
AfterAny(answer, upto) ==
  [id \in Ids |-> LET C == {c \in UNION {answer[i] : i \in Ids} : c <= upto[id]}
                  IN IF C = {} THEN cursor[id] ELSE Max(C)]

(* The cursors after the blocks of answer up to upto were processed.       *)
After(answer, upto) ==
  [id \in Ids |-> LET C == {c \in answer[id] : c <= upto[id]}
                  IN IF C = {} THEN cursor[id] ELSE Max(C)]

(* How far _processPart may have come, block by block and, within a block, *)
(* ID by ID in any order, when a callback is run.                          *)
Progress(answer) ==
  {[id \in Ids |-> IF id \in done THEN c ELSE c - 1] :
     c \in UNION {answer[id] : id \in Ids}, done \in SUBSET Ids \ {{}}}

(* _lastXmlhttp while a response is handled, and the timers afterwards:    *)
(* the next query is scheduled if no callback made a request.              *)
Handled == None
Rescheduled == IF last' = None THEN timers + 1 ELSE timers

(* Readystate 4 of an XMLHttpRequest: the blocks of the answer are handed  *)
(* to the callbacks, one of which may call execute() half-way.  When       *)
(* _lastXmlhttp is null, even for another request, nothing happens.        *)
Receive(s) ==
  /\ xmlhttp[s] # None /\ xmlhttp[s].state \in {"answered", "lost"}
  /\ LET answer == IF xmlhttp[s].state = "lost" THEN Nothing ELSE xmlhttp[s].answer
         rest == [xmlhttp EXCEPT ![s] = None]
     IN IF last = None
        THEN /\ xmlhttp' = rest
             /\ UNCHANGED <<cursor, last, timers, executes, start, seen, again>>
        ELSE /\ cursor' = After(answer, [id \in Ids |-> clock])
             /\ start' = [id \in Ids |-> IF cursor[id] = None /\ answer[id] # {}
                                         THEN xmlhttp[s].listen[id] ELSE start[id]]
             /\ again' = [id \in Ids |-> again[id] \cup (seen[id] \cap answer[id])]
             /\ seen' = [id \in Ids |-> seen[id] \cup answer[id]]
             /\ \/ xmlhttp' = rest /\ last' = Handled /\ UNCHANGED executes
                \/ /\ Disturbed /\ executes' = executes + 1
                   /\ \E upto \in Progress(answer) : _loopFunc(rest, Handled, After(answer, upto))
             /\ timers' = Rescheduled
  /\ UNCHANGED <<server, subscribed, breaks, positioned>>

Next ==
  \/ \E ids \in SUBSET Ids \ {{}} : Publish(ids)
  \/ \E id \in Ids : Subscribe(id) \/ Unsubscribe(id)
  \/ Execute \/ LoopTimer
  \/ \E s \in Slots : Register(s) \/ Break(s) \/ Receive(s)

Spec == Init /\ [][Next]_vars

(* Requests arrive, answers come back and browsers run their timers.       *)
FairSpec ==
  /\ Spec /\ WF_vars(LoopTimer)
  /\ \A s \in Slots : WF_vars(Register(s)) /\ WF_vars(Receive(s))

----------------------------------------------------------------------------
Listened == [Ids -> 0 .. MaxPublish \cup {None}]
TypeOK ==
  /\ clock \in 0 .. MaxPublish
  /\ queue \in [Ids -> SUBSET Cursors]
  /\ \A id \in Ids : Cardinality(queue[id]) <= MaxDataForId
  /\ log \in [Ids -> SUBSET Cursors]
  /\ cursor \in Listened /\ subscribed \subseteq Ids
  /\ xmlhttp \in [Slots -> {None} \cup
       [state : {"sent", "waiting", "answered", "lost"}, ids : SUBSET Ids,
        listen : Listened, answer : [Ids -> SUBSET Cursors]]]
  /\ last \in Slots \cup {None} /\ timers \in 0 .. MaxDisturbances

(* The client's cursor never passes a message it was not given, unless the *)
(* server dropped it from a full queue: not by aborted or ignored answers, *)
(* nor by answers of two requests that come back in the wrong order.  An   *)
(* ID whose first cursor comes with an answer has this guarantee only as   *)
(* long as no second request without a cursor can be under way.            *)
NothingSkipped ==
  \A id \in Ids : cursor[id] # None /\ (id \in positioned \/ executes <= 1) =>
    \A c \in log[id] :
      start[id] < c /\ c <= cursor[id] => c \in seen[id] \/ c \notin queue[id]

(* An application that calls execute() only once is given no message twice *)
(* per ID, although answers are lost and asked for again.                  *)
OnceInOneLoop == executes <= 1 => again = Nothing

Asks(id) ==
  timers > 0 \/ (last # None /\ xmlhttp[last] # None /\ id \in xmlhttp[last].ids)

(* A message newer than the cursor of a positioned ID that is asked for    *)
(* comes in the end, unless it is dropped from the queue or the ID is      *)
(* unsubscribed.                                                           *)
Delivered ==
  \A id \in Ids, c \in Cursors :
    (/\ id \in positioned /\ cursor[id] # None /\ cursor[id] < c
     /\ c \in log[id] /\ id \in subscribed /\ Asks(id))
      ~> (c \in seen[id] \/ c \notin queue[id] \/ id \notin subscribed)
=============================================================================
