------------------------------ MODULE Storage ------------------------------
(***************************************************************************)
(* What the storages of cpp/Storage promise to their callers, as operators *)
(* on values.  The lists of the code are modelled as sets whose order is   *)
(* carried by the elements themselves: a queue by cursor and arrival, the  *)
(* event chain by the event's cursor.  The modules DataToSend and Events   *)
(* show that the std::list code computes exactly these sets.               *)
(***************************************************************************)
EXTENDS Integers, FiniteSets, Sequences

CONSTANT Ids   \* channel identifiers, by which all storages are kept

(* A pair [cursor, id] of an identifier line; IdsOf lists the IDs named.   *)
IdsOf(pairs) == {pairs[k].id : k \in DOMAIN pairs}

----------------------------------------------------------------------------
(* DataToSend.  An item carries its cursor, the data block it refers to    *)
(* (rdata, numbered in order of arrival), the position nth of its pair in  *)
(* the request that brought it, and the IDs its visibility is limited to.  *)

(* Item a stands to the left of item b: bigger cursor first and, for equal *)
(* cursors, the one merged in later.                                       *)
StandsBefore(a, b) ==
  \/ a.cursor > b.cursor
  \/ a.cursor = b.cursor /\ a.rdata > b.rdata
  \/ a.cursor = b.cursor /\ a.rdata = b.rdata /\ a.nth > b.nth

(* The queue after the items to the right of the first max are dropped.    *)
clean_old_data_for_id(queue, max) ==
  {it \in queue : Cardinality({o \in queue : StandsBefore(o, it)}) < max}

(* An item limited to some IDs is shown to those who listen one of them.   *)
VisibleTo(item, listened) ==
  item.limit_ids = {} \/ item.limit_ids \cap listened # {}

----------------------------------------------------------------------------
(* Events.  An event is [cursor, type, id]; cursors are consecutive.       *)

(* What is left of the chain when the newest cursor is pos: notify drops   *)
(* one event when there are MORE than len, so len + 1 of them stay.        *)
KeepRecent(chain, pos, len) == {e \in chain : e.cursor > pos - (len + 1)}

(* Events newer than from of the matched IDs, only the most recent of each *)
(* ID; the initial request (from = 0) gets the current position instead.   *)
get_recent_events(chain, pos, from, matched, fake) ==
  IF from = 0
  THEN {[cursor |-> pos, type |-> fake, id |-> fake]}
  ELSE {e \in chain :
          /\ e.cursor > from /\ e.id \in matched
          /\ \A o \in chain : o.id = e.id => o.cursor <= e.cursor}
============================================================================
