------------------------------ MODULE Presence ------------------------------
(***************************************************************************)
(* What a watcher can see of the server: who is online and the chain of    *)
(* events.  Abstract specification of the presence part of Realplexor, and *)
(* the server that module Watch composes with a watcher.                   *)
(***************************************************************************)
EXTENDS Storage

CONSTANT EventChainLen   \* EVENT_CHAIN_LEN of the config

ASSUME PresenceAssumption == IsFiniteSet(Ids) /\ EventChainLen \in Nat

VARIABLES
  online,         \* IDs in online_timers
  chain, cur_pos  \* Storage::Events

Init == online = {} /\ chain = {} /\ cur_pos = 10

(* The events of one handler, in the order of ids.                         *)
Noted(type, ids) ==
  {[cursor |-> cur_pos + k, type |-> type, id |-> ids[k]] : k \in DOMAIN ids}

notify(type, ids) ==
  /\ cur_pos' = cur_pos + Len(ids)
  /\ chain' = KeepRecent(chain \cup Noted(type, ids), cur_pos', EventChainLen)

(* IDs that may come online together, in any order.                        *)
Newcomers ==
  UNION {{ids \in [1 .. Cardinality(S) -> S] : {ids[k] : k \in DOMAIN ids} = S} :
           S \in (SUBSET (Ids \ online)) \ {{}}}

Arrive(ids) ==
  notify("online", ids) /\ online' = online \cup {ids[k] : k \in DOMAIN ids}

Depart(id) ==
  /\ id \in online
  /\ notify("offline", <<id>>) /\ online' = online \ {id}

Next ==
  \/ \E ids \in Newcomers : Arrive(ids)
  \/ \E id \in Ids : Depart(id)

Spec == Init /\ [][Next]_<<online, chain, cur_pos>>
=============================================================================
