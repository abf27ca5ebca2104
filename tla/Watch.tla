------------------------------- MODULE Watch --------------------------------
(***************************************************************************)
(* A watcher of the server's events, as t/demo/cron_online_updater.php     *)
(* with the PHP API: it fetches who is online with the ONLINE command and  *)
(* then polls the changes with WATCH.  The server is that of module        *)
(* Presence; it may be restarted, which empties its storages.              *)
(***************************************************************************)
EXTENDS Presence, FiniteSetsExt

CONSTANTS
  None,                             \* no answer is under way
  MaxPos, MaxRestarts, MaxFailures  \* bounds of the model

ASSUME WatchAssumption == {MaxPos, MaxRestarts, MaxFailures} \subseteq Nat

VARIABLES
  state,     \* of the watcher: "begin" or "watching"
  picture,   \* $online
  pos,       \* $pos
  answer,    \* answer under way: the IDs of ONLINE, the events of WATCH
  log,       \* all events since the server's start (not in the code)
  fetched,   \* position of the server when it answered ONLINE (not in the code)
  skipped,   \* positions of events the watcher was never offered (not in the code)
  missing,   \* IDs of the answer to ONLINE if it was lost (not in the code)
  before,    \* the server was restarted since the list was fetched (not in the code)
  restarts, failures

server == <<online, chain, cur_pos, log>>
watcher == <<state, picture, pos, answer, fetched, skipped, missing>>
vars == <<server, watcher, before, restarts, failures>>

WatchInit ==
  /\ Init
  /\ state = "begin" /\ picture = {} /\ pos = 0 /\ answer = None
  /\ log = {} /\ fetched = 0 /\ skipped = {} /\ missing = {} /\ before = FALSE
  /\ restarts = 0 /\ failures = 0

----------------------------------------------------------------------------
(* The server.                                                             *)

(* IDs come online and go offline.                                         *)
Change ==
  /\ \/ \E ids \in Newcomers : Arrive(ids) /\ log' = log \cup Noted("online", ids)
     \/ \E id \in Ids : Depart(id) /\ log' = log \cup Noted("offline", <<id>>)
  /\ cur_pos' <= MaxPos
  /\ UNCHANGED <<watcher, before, restarts, failures>>

(* The watchdog starts a new process with empty storages.  An answer that  *)
(* is under way may still arrive or, as in Lose, end as an empty list.     *)
Restart ==
  /\ restarts < MaxRestarts /\ restarts' = restarts + 1
  /\ online' = {} /\ chain' = {} /\ cur_pos' = 10 /\ log' = {}
  /\ before' = TRUE
  /\ answer' \in {answer, IF answer = None THEN None ELSE {}}
  /\ UNCHANGED <<state, picture, pos, fetched, skipped, missing, failures>>

----------------------------------------------------------------------------
(* The watcher.  A command is handled by the server in one step, and its   *)
(* answer read in another.                                                 *)

(* The positions the answer to WATCH leaves out for good: for the first    *)
(* request those since the list was fetched, later those that have left    *)
(* the chain.                                                              *)
LeftOut(from) ==
  IF from = 0 THEN {e.cursor : e \in {l \in log : l.cursor > fetched}}
  ELSE {e.cursor : e \in {l \in log : l.cursor > from /\ l \notin chain}}

cmdOnline ==
  /\ state = "begin" /\ answer = None
  /\ answer' = online
  /\ fetched' = cur_pos /\ skipped' = {} /\ missing' = {} /\ before' = FALSE
  /\ UNCHANGED <<server, state, picture, pos, restarts, failures>>

(* Mutant of Fetched: watching goes on from the position reached before.   *)
FetchedKeepsPos ==
  /\ state = "begin" /\ answer # None
  /\ state' = "watching" /\ picture' = answer /\ answer' = None
  /\ UNCHANGED <<server, pos, fetched, skipped, missing, before, restarts, failures>>

(* array_flip: the list replaces what was known, and watching starts at 0. *)
Fetched ==
  /\ state = "begin" /\ answer # None
  /\ state' = "watching" /\ picture' = answer /\ pos' = 0 /\ answer' = None
  /\ UNCHANGED <<server, fetched, skipped, missing, before, restarts, failures>>

cmdWatch ==
  /\ state = "watching" /\ answer = None
  /\ answer' = get_recent_events(chain, cur_pos, pos, Ids, "fake")
  /\ skipped' = skipped \cup LeftOut(pos)
  /\ UNCHANGED <<server, state, picture, pos, fetched, missing, before, restarts, failures>>

(* Mutant of NextPos: watching goes on from the present.                   *)
NextPosNow(events) == cur_pos

NextPos(events) == Max({e.cursor : e \in events})

(* The loop over the events, oldest first.                                 *)
Watched ==
  /\ state = "watching" /\ answer # None
  /\ picture' = (picture \cup {e.id : e \in {x \in answer : x.type = "online"}})
                  \ {e.id : e \in {x \in answer : x.type = "offline"}}
  /\ pos' = IF answer = {} THEN pos ELSE NextPos(answer)
  /\ answer' = None
  /\ UNCHANGED <<server, state, fetched, skipped, missing, before, restarts, failures>>

(* Any of the exceptions of internalSend: no connection, a broken or an    *)
(* incomplete response.  The outer loop begins anew.                       *)
Fail ==
  /\ failures < MaxFailures /\ failures' = failures + 1
  /\ state' = "begin" /\ answer' = None
  /\ UNCHANGED <<server, picture, pos, fetched, skipped, missing, before, restarts>>

(* The answer does not arrive, be it that the server closes the connection *)
(* on its timeout or a reset, or that the read times out in the API: that  *)
(* is no error for internalSend, which returns an empty string.            *)
Lose ==
  /\ answer # None
  /\ failures < MaxFailures /\ failures' = failures + 1
  /\ answer' = {}
  /\ missing' = IF state = "begin" THEN missing \cup answer ELSE missing
  /\ UNCHANGED <<server, state, picture, pos, fetched, skipped, before, restarts>>

Watching == cmdOnline \/ Fetched \/ cmdWatch \/ Watched

WatchNext == Change \/ Restart \/ Watching \/ Fail \/ Lose

WatchSpec == WatchInit /\ [][WatchNext]_vars

(* The watcher runs in an endless loop.                                    *)
FairWatchSpec == WatchSpec /\ WF_vars(Watching)

----------------------------------------------------------------------------
(* The last change of id up to position p, or {} when there was none.      *)
LastChange(id, p) ==
  LET changes == {e \in log : e.id = id /\ e.cursor <= p}
  IN {e \in changes : \A o \in changes : o.cursor <= e.cursor}

(* The picture shows id as it was at position p, unless the last change    *)
(* was one the watcher was never offered: between its ONLINE and its first *)
(* WATCH, or more than a chain ago; or unless id was online in a list that *)
(* was lost, and has not changed since.                                    *)
ShownAsOf(id, p) ==
  \/ \E e \in LastChange(id, p) : e.cursor \in skipped
  \/ id \in missing /\ \A e \in LastChange(id, p) : e.cursor <= fetched
  \/ id \in picture <=> \E e \in LastChange(id, p) : e.type = "online"

(* A watcher that has come to a position knows who was online there, and   *)
(* forgets no change for good except those ShownAsOf names, through failed *)
(* calls, lost answers and the restarts of the server it notices.          *)
PictureIsTrue ==
  state = "watching" /\ pos > 0 /\ ~ before => \A id \in Ids : ShownAsOf(id, pos)

(* When changes stop, the picture becomes what ONLINE would answer, with   *)
(* the same exceptions.                                                    *)
CatchesUp == <>[](before \/ \A id \in Ids : ShownAsOf(id, MaxPos))
=============================================================================
