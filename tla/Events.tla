------------------------------- MODULE Events -------------------------------
(***************************************************************************)
(* cpp/Storage/Events.h: the std::list of online and offline events, the   *)
(* newest first, and the walk over it that answers a WATCH command.        *)
(***************************************************************************)
EXTENDS Storage, SequencesExt

CONSTANTS EventChainLen, MaxPos

ASSUME EventsAssumption == EventChainLen \in Nat /\ MaxPos \in Nat

InitialPos == 10
Types == {"online", "offline"}

VARIABLES
  chain,    \* list of events, newest first
  cur_pos,
  history   \* every event notified so far (not in the code)

eventsVars == <<chain, cur_pos, history>>

EventsInit == chain = <<>> /\ cur_pos = InitialPos /\ history = {}

(* Mutant of notify: the newest event is popped in place of the oldest.    *)
notify_pop_front(type, id) ==
  LET event == [cursor |-> cur_pos + 1, type |-> type, id |-> id]
      kept  == IF Len(chain) > EventChainLen THEN Tail(chain) ELSE chain
  IN /\ cur_pos < MaxPos
     /\ chain' = <<event>> \o kept
     /\ cur_pos' = cur_pos + 1
     /\ history' = history \cup {event}

notify(type, id) ==
  LET event == [cursor |-> cur_pos + 1, type |-> type, id |-> id]
      kept  == IF Len(chain) > EventChainLen THEN Front(chain) ELSE chain
  IN /\ cur_pos < MaxPos
     /\ chain' = <<event>> \o kept
     /\ cur_pos' = cur_pos + 1
     /\ history' = history \cup {event}

(* The watchdog forks a new server, whose storage is constructed afresh.   *)
Restart == chain' = <<>> /\ cur_pos' = InitialPos /\ history' = {}

EventsNext == Restart \/ \E type \in Types, id \in Ids : notify(type, id)

EventsSpec == EventsInit /\ [][EventsNext]_eventsVars

----------------------------------------------------------------------------
(* Mutant of Walk: the event at from itself is sent again.                 *)
WalkFromInclusive(from, matched) ==
  LET Visited == {k \in DOMAIN chain : \A j \in 1 .. k : chain[j].cursor >= from}
      Visit(acc, e) == IF e.id \in matched \ acc.seen
                       THEN [events |-> <<e>> \o acc.events, seen |-> acc.seen \cup {e.id}]
                       ELSE acc
  IN FoldLeft(Visit, [events |-> <<>>, seen |-> {}],
              SubSeq(chain, 1, Cardinality(Visited))).events

(* The loop of get_recent_events: walk from the newest event, break off at *)
(* the first that is not newer than from, and push to the front the first  *)
(* event met of each matched ID.                                           *)
Walk(from, matched) ==
  LET Visited == {k \in DOMAIN chain : \A j \in 1 .. k : chain[j].cursor > from}
      Visit(acc, e) == IF e.id \in matched \ acc.seen
                       THEN [events |-> <<e>> \o acc.events, seen |-> acc.seen \cup {e.id}]
                       ELSE acc
  IN FoldLeft(Visit, [events |-> <<>>, seen |-> {}],
              SubSeq(chain, 1, Cardinality(Visited))).events

recent_events(from, matched) ==
  IF from = 0
  THEN <<[cursor |-> cur_pos, type |-> "FAKE", id |-> "FAKE"]>>
  ELSE Walk(from, matched)

----------------------------------------------------------------------------
(* The list is, newest first, the set module Realplexor keeps: popping one *)
(* event before each push leaves exactly the newest ones of the history.   *)
ChainIsRecent ==
  /\ ToSet(chain) = KeepRecent(history, cur_pos, EventChainLen)
  /\ \A i, j \in DOMAIN chain : i < j => chain[i].cursor > chain[j].cursor

(* A watcher that polls before the chain forgets events newer than its     *)
(* position misses no change: it gets the last event of every matched ID   *)
(* that had any, in the order they happened.                               *)
WatchMissesNothing ==
  \A from \in InitialPos .. cur_pos, matched \in SUBSET Ids :
    cur_pos - from <= EventChainLen + 1 =>
      LET events == recent_events(from, matched)
      IN /\ ToSet(events) = get_recent_events(history, cur_pos, from, matched, "FAKE")
         /\ \A i, j \in DOMAIN events : i < j => events[i].cursor < events[j].cursor
=============================================================================
