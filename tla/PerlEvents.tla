----------------------------- MODULE PerlEvents -----------------------------
(***************************************************************************)
(* perl/Storage/Events.pm: the prototype keeps its events in up to three   *)
(* chains, where the C++ server (module Events) has one list.  Both are    *)
(* notified of the same events here, so that a watcher's answers can be    *)
(* compared.                                                               *)
(***************************************************************************)
EXTENDS Events

VARIABLE chains   \* the newest chain last, the newest event last in each

chainsVars == <<eventsVars, chains>>

ChainsInit == EventsInit /\ chains = <<<<>>>>

(* Mutant of Opened: a chain is opened when the last one is one short.     *)
OpenedEarly ==
  LET all == IF Len(Last(chains)) < EventChainLen THEN chains ELSE Append(chains, <<>>)
  IN IF Len(all) > 3 THEN Tail(all) ELSE all

(* The chains once a full one has been followed by a new one, and the      *)
(* oldest dropped when there are too many.                                 *)
Opened ==
  LET all == IF Len(Last(chains)) > EventChainLen THEN Append(chains, <<>>) ELSE chains
  IN IF Len(all) > 3 THEN Tail(all) ELSE all

perl_notify(type, id) ==
  chains' = [Opened EXCEPT ![Len(Opened)] =
               Append(@, [cursor |-> cur_pos + 1, type |-> type, id |-> id])]

ChainsNext ==
  \/ Restart /\ chains' = <<<<>>>>
  \/ \E type \in Types, id \in Ids : notify(type, id) /\ perl_notify(type, id)

ChainsSpec == ChainsInit /\ [][ChainsNext]_chainsVars

----------------------------------------------------------------------------
(* The events of all chains in the order the loops of get_recent_events    *)
(* come to them.                                                           *)
NewestFirst == FlattenSeq(Reverse([k \in DOMAIN chains |-> Reverse(chains[k])]))

(* Mutant of perl_recent_events: the walk ends with the last chain.        *)
perl_recent_events_of_last(from, matched) ==
  LET walked == SelectSeq(Last(chains), LAMBDA e : e.cursor > from)
      Newest(e) == \A o \in ToSet(walked) : o.id = e.id => o.cursor <= e.cursor
  IN SelectSeq(walked, LAMBDA e : e.id \in matched /\ Newest(e))

(* get_recent_events for a position: from the newest event back to the     *)
(* first that is not newer, of each matched ID the one met first, returned *)
(* the other way round.                                                    *)
perl_recent_events(from, matched) ==
  LET newest == NewestFirst
      older  == SelectInSeq(newest, LAMBDA e : e.cursor <= from)
      walked == IF older = 0 THEN newest ELSE SubSeq(newest, 1, older - 1)
      Visit(acc, e) == IF e.id \in matched \ acc.seen
                       THEN [events |-> Append(acc.events, e), seen |-> acc.seen \cup {e.id}]
                       ELSE acc
  IN Reverse(FoldLeft(Visit, [events |-> <<>>, seen |-> {}], walked).events)

----------------------------------------------------------------------------
(* Just after a chain was opened two full ones and one event are left: a   *)
(* watcher of the prototype that is no further behind misses no change.    *)
PerlMissesNothing ==
  \A from \in InitialPos .. cur_pos, matched \in SUBSET Ids :
    cur_pos - from <= 2 * (EventChainLen + 1) + 1 =>
      ToSet(perl_recent_events(from, matched))
        = get_recent_events(history, cur_pos, from, matched, "FAKE")

(* A watcher that does not fall behind the list of the C++ server cannot   *)
(* tell the two servers apart.                                             *)
AnswersAsCpp ==
  \A from \in InitialPos .. cur_pos, matched \in SUBSET Ids :
    cur_pos - from <= EventChainLen + 1 =>
      perl_recent_events(from, matched) = recent_events(from, matched)
=============================================================================
