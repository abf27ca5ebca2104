---------------------------- MODULE Watch_proofs ----------------------------
(***************************************************************************)
(* Proof that the watcher of module Watch shows what was so, for any IDs,  *)
(* any length of the event chain and any number of changes, failures and   *)
(* restarts of the server.                                                 *)
(***************************************************************************)
EXTENDS Watch, FiniteSetTheorems, WellFoundedInduction, TLAPS

----------------------------------------------------------------------------
(* Sets of events.                                                         *)

Event == [cursor : Nat, type : {"online", "offline"}, id : Ids]

(* LastChange for any set of events, and what it says of a set of IDs.     *)
LastIn(events, id, p) ==
  {e \in events : /\ e.id = id /\ e.cursor <= p
                  /\ \A o \in events : o.id = id /\ o.cursor <= p => o.cursor <= e.cursor}

Tells(events, shown, id, p) ==
  id \in shown <=> \E e \in LastIn(events, id, p) : e.type = "online"

LEMMA LastChangeIsLastIn == \A id, p : LastChange(id, p) = LastIn(log, id, p)
BY DEF LastChange, LastIn

(* Lemma: a set of numbers that has a bound has a greatest one.            *)
LessThan == {p \in Nat \X Nat : p[1] < p[2]}

LEMMA Greatest ==
  ASSUME NEW n \in Nat, NEW S, S \subseteq 0 .. n, S # {}
  PROVE  \E k \in S : \A j \in S : j <= k
<1>1. IsWellFoundedOn(LessThan, Nat)
  BY NatLessThanWellFounded, Zenon DEF LessThan, OpToRel
<1> DEFINE T == {n - k : k \in S}
<1>2. T \subseteq Nat /\ T # {}
  <2>1. \A k \in S : k \in 0 .. n
    OBVIOUS
  <2>2. \A k \in 0 .. n : n - k \in Nat
    OBVIOUS
  <2> QED BY <2>1, <2>2
<1>3. PICK x \in T : \A y \in T : <<y, x>> \notin LessThan
  <2> HIDE DEF T
  <2> QED BY <1>1, <1>2, WFMin, Zenon
<1>4. \A y \in T : x <= y
  <2> HIDE DEF T
  <2>1. ASSUME NEW y \in T PROVE x <= y
    <3>1. x \in Nat /\ y \in Nat
      BY <1>2
    <3>2. ~ (y < x)
      BY <1>3, <3>1 DEF LessThan
    <3> QED BY <3>1, <3>2
  <2> QED BY <2>1
<1>5. PICK k \in S : x = n - k
  BY <1>3
<1>6. \A j \in S : n - k <= n - j
  BY <1>4, <1>5
<1>7. \A j \in S : j \in 0 .. n
  OBVIOUS
<1> QED BY <1>5, <1>6, <1>7

(* Lemma: an ID with an event up to p has a last one, no older than it.    *)
LEMMA SomeIsLast ==
  ASSUME NEW events, events \subseteq Event, NEW p \in Nat, NEW e \in events, e.cursor <= p
  PROVE  \E a \in LastIn(events, e.id, p) : a.cursor >= e.cursor
<1> DEFINE same == {o \in events : o.id = e.id /\ o.cursor <= p}
           S == {o.cursor : o \in same}
<1>1. \A o \in events : o.cursor \in Nat
  BY DEF Event
<1>2. S \subseteq 0 .. p /\ e.cursor \in S
  BY <1>1
<1>3. PICK k \in S : \A j \in S : j <= k
  <2> HIDE DEF S
  <2> QED BY <1>2, Greatest
<1>4. PICK a \in same : a.cursor = k
  BY <1>3
<1>5. \A o \in same : o.cursor <= a.cursor
  BY <1>3, <1>4
<1>6. e \in same
  OBVIOUS
<1> QED BY <1>1, <1>4, <1>5, <1>6 DEF LastIn

----------------------------------------------------------------------------
(* The server.                                                             *)

(* Every event was noted, once at a position, the chain has the newest of  *)
(* them, and they tell who is online.                                      *)
ServerOK ==
  /\ cur_pos \in Nat \ {0}
  /\ log \subseteq Event /\ \A e \in log : e.cursor <= cur_pos
  /\ \A e, o \in log : e.cursor = o.cursor => e = o
  /\ chain = KeepRecent(log, cur_pos, EventChainLen)
  /\ \A id \in Ids : Tells(log, online, id, cur_pos)

(* Lemma: what the events of one handler are.                              *)
LEMMA NotedAreNewer ==
  ASSUME cur_pos \in Nat, NEW type \in {"online", "offline"}, NEW ids \in Seq(Ids)
  PROVE  /\ Noted(type, ids) \subseteq Event
         /\ \A e \in Noted(type, ids) : /\ e.type = type /\ e.cursor > cur_pos
                                        /\ e.cursor <= cur_pos + Len(ids)
         /\ \A e, o \in Noted(type, ids) : e.cursor = o.cursor => e = o
         /\ {e.id : e \in Noted(type, ids)} = {ids[k] : k \in DOMAIN ids}
<1>1. DOMAIN ids = 1 .. Len(ids) /\ Len(ids) \in Nat
  OBVIOUS
<1>2. ASSUME NEW e \in Noted(type, ids)
      PROVE  \E k \in 1 .. Len(ids) : e = [cursor |-> cur_pos + k, type |-> type, id |-> ids[k]]
  BY <1>1 DEF Noted
<1>3. ASSUME NEW k \in 1 .. Len(ids)
      PROVE  [cursor |-> cur_pos + k, type |-> type, id |-> ids[k]] \in Noted(type, ids)
  BY <1>1 DEF Noted
<1>4. \A k \in 1 .. Len(ids) : ids[k] \in Ids
  OBVIOUS
<1>5. Noted(type, ids) \subseteq Event
  <2> SUFFICES ASSUME NEW e \in Noted(type, ids) PROVE e \in Event
    OBVIOUS
  <2>1. PICK k \in 1 .. Len(ids) : e = [cursor |-> cur_pos + k, type |-> type, id |-> ids[k]]
    BY <1>2
  <2>2. cur_pos + k \in Nat /\ ids[k] \in Ids
    BY <1>1, <1>4
  <2> QED BY <2>1, <2>2 DEF Event
<1>6. \A e \in Noted(type, ids) : /\ e.type = type /\ e.cursor > cur_pos
                                  /\ e.cursor <= cur_pos + Len(ids)
  BY <1>1, <1>2
<1>7. ASSUME NEW e \in Noted(type, ids), NEW o \in Noted(type, ids), e.cursor = o.cursor
      PROVE  e = o
  <2>1. PICK k \in 1 .. Len(ids) : e = [cursor |-> cur_pos + k, type |-> type, id |-> ids[k]]
    BY <1>2
  <2>2. PICK j \in 1 .. Len(ids) : o = [cursor |-> cur_pos + j, type |-> type, id |-> ids[j]]
    BY <1>2
  <2>3. k = j
    BY <1>1, <1>7, <2>1, <2>2
  <2> QED BY <2>1, <2>2, <2>3
<1>8. {e.id : e \in Noted(type, ids)} = {ids[k] : k \in DOMAIN ids}
  <2>1. ASSUME NEW e \in Noted(type, ids) PROVE e.id \in {ids[k] : k \in DOMAIN ids}
    BY <1>1, <1>2
  <2>2. ASSUME NEW k \in DOMAIN ids PROVE ids[k] \in {e.id : e \in Noted(type, ids)}
    <3>1. [cursor |-> cur_pos + k, type |-> type, id |-> ids[k]].id = ids[k]
      OBVIOUS
    <3> QED BY <1>1, <1>3, <3>1
  <2> QED BY <2>1, <2>2
<1> QED BY <1>5, <1>6, <1>7, <1>8

(* Lemma: the lists of newcomers.                                          *)
LEMMA NewcomersAreIds ==
  ASSUME NEW ids \in Newcomers
  PROVE  ids \in Seq(Ids)
<1>1. PICK S \in (SUBSET (Ids \ online)) \ {{}} : ids \in [1 .. Cardinality(S) -> S]
  BY DEF Newcomers
<1>2. Cardinality(S) \in Nat
  BY PresenceAssumption, FS_Subset, FS_CardinalityType
<1> QED BY <1>1, <1>2

(* What the server does to its state in one handler.                       *)
Notified(type, ids) ==
  /\ notify(type, ids) /\ log' = log \cup Noted(type, ids)
  /\ online' = IF type = "online" THEN online \cup {ids[k] : k \in DOMAIN ids}
               ELSE online \ {ids[k] : k \in DOMAIN ids}

LEMMA ChangeNotifies ==
  ASSUME Change
  PROVE  \E type \in {"online", "offline"}, ids \in Seq(Ids) : Notified(type, ids)
<1>1. ASSUME NEW ids \in Newcomers, Arrive(ids), log' = log \cup Noted("online", ids)
      PROVE  ids \in Seq(Ids) /\ Notified("online", ids)
  BY <1>1, NewcomersAreIds DEF Arrive, Notified
<1>2. ASSUME NEW id \in Ids, Depart(id), log' = log \cup Noted("offline", <<id>>)
      PROVE  <<id>> \in Seq(Ids) /\ Notified("offline", <<id>>)
  <2>1. {<<id>>[k] : k \in DOMAIN <<id>>} = {id}
    OBVIOUS
  <2> QED BY <1>2, <2>1 DEF Depart, Notified
<1> QED BY <1>1, <1>2 DEF Change

LEMMA NotifiedKeepsServer ==
  ASSUME ServerOK, NEW type \in {"online", "offline"}, NEW ids \in Seq(Ids), Notified(type, ids)
  PROVE  ServerOK' /\ cur_pos' >= cur_pos
<1> DEFINE new == Noted(type, ids)
<1>1. /\ new \subseteq Event
      /\ \A e \in new : e.type = type /\ e.cursor > cur_pos /\ e.cursor <= cur_pos + Len(ids)
      /\ \A e, o \in new : e.cursor = o.cursor => e = o
      /\ {e.id : e \in new} = {ids[k] : k \in DOMAIN ids}
  BY NotedAreNewer DEF ServerOK
<1>2. /\ cur_pos \in Nat \ {0} /\ Len(ids) \in Nat
      /\ cur_pos' = cur_pos + Len(ids) /\ log' = log \cup new
      /\ chain' = KeepRecent(chain \cup new, cur_pos', EventChainLen)
  BY DEF ServerOK, Notified, notify
<1>3. /\ \A e \in new : e.cursor \in Nat
      /\ \A e \in log : e.cursor \in Nat /\ e.cursor <= cur_pos
  BY <1>1 DEF ServerOK, Event
<1> HIDE DEF new
<1>4. cur_pos' \in Nat \ {0} /\ cur_pos' >= cur_pos
  BY <1>2
<1>5. log' \subseteq Event /\ \A e \in log' : e.cursor <= cur_pos'
  BY <1>1, <1>2, <1>3 DEF ServerOK
<1>6. \A e, o \in log' : e.cursor = o.cursor => e = o
  BY <1>1, <1>2, <1>3 DEF ServerOK
<1>7. chain' = KeepRecent(log', cur_pos', EventChainLen)
  <2>1. chain = {e \in log : e.cursor > cur_pos - (EventChainLen + 1)}
    BY DEF ServerOK, KeepRecent
  <2>2. EventChainLen \in Nat
    BY PresenceAssumption
  <2>3. \A e \in log : e.cursor > cur_pos' - (EventChainLen + 1) =>
                         e.cursor > cur_pos - (EventChainLen + 1)
    BY <1>2, <1>3, <1>4, <2>2
  <2> QED BY <1>2, <2>1, <2>3 DEF KeepRecent
<1>8. ASSUME NEW id \in Ids PROVE Tells(log', online', id, cur_pos')
  <2>1. CASE id \in {ids[k] : k \in DOMAIN ids}
    <3>1. PICK e \in new : e.id = id
      BY <1>1, <2>1
    <3>2. e \in log' /\ e.cursor <= cur_pos'
      BY <1>2, <1>5
    <3>3. PICK a \in LastIn(log', id, cur_pos') : a.cursor >= e.cursor
      BY <1>4, <1>5, <3>1, <3>2, SomeIsLast
    <3>4. \A b \in LastIn(log', id, cur_pos') : b.cursor >= e.cursor /\ b \in log'
      BY <3>1, <3>2 DEF LastIn
    <3>5. ASSUME NEW b \in LastIn(log', id, cur_pos') PROVE b.type = type
      <4>1. b \in log' /\ b.cursor >= e.cursor
        BY <3>4
      <4>2. e.cursor > cur_pos /\ e.cursor \in Nat
        BY <1>1, <1>3
      <4>3. b \notin log
        BY <1>2, <1>3, <4>1, <4>2
      <4> QED BY <1>1, <1>2, <4>1, <4>3
    <3>6. id \in online' <=> type = "online"
      BY <2>1 DEF Notified
    <3> QED BY <3>3, <3>5, <3>6 DEF Tells
  <2>2. CASE id \notin {ids[k] : k \in DOMAIN ids}
    <3>1. \A e \in new : e.id # id
      BY <1>1, <2>2
    <3>2. LastIn(log', id, cur_pos') = LastIn(log, id, cur_pos)
      <4>1. \A e \in log : e.cursor <= cur_pos'
        BY <1>2, <1>5
      <4> QED BY <1>2, <1>3, <3>1, <4>1 DEF LastIn
    <3>3. id \in online' <=> id \in online
      BY <2>2 DEF Notified
    <3> QED BY <3>2, <3>3 DEF Tells, ServerOK
  <2> QED BY <2>1, <2>2
<1> QED BY <1>4, <1>5, <1>6, <1>7, <1>8 DEF ServerOK

----------------------------------------------------------------------------
(* The watcher.                                                            *)

(* The list is who was online at fetched, or those IDs are missing.        *)
Start(shown) ==
  /\ fetched \in 1 .. cur_pos
  /\ \A id \in Ids : id \in missing \/ Tells(log, shown, id, fetched)

(* The answer to the first WATCH was given at c.                           *)
First(c) ==
  /\ answer = {[cursor |-> c, type |-> "fake", id |-> "fake"]}
  /\ \A e \in log : e.cursor > fetched /\ e.cursor <= c => e.cursor \in skipped

(* The answer under way was given at q: it has the last events up to there *)
(* and each of the others after pos is followed by one of them or skipped. *)
Offered(q) ==
  /\ \A a \in answer : a \in LastIn(log, a.id, q) /\ a.cursor > pos
  /\ \A e \in log : e.cursor > pos /\ e.cursor <= q =>
        e.cursor \in skipped \/ \E a \in answer : a.id = e.id /\ a.cursor >= e.cursor

(* ShownAsOf for any set of events.                                        *)
Right(events, shown, missed, id, p) ==
  \/ \E e \in LastIn(events, id, p) : e.cursor \in missed
  \/ id \in missing /\ \A e \in LastIn(events, id, p) : e.cursor <= fetched
  \/ Tells(events, shown, id, p)

(* An answer with something in it is under way.                            *)
Telling == answer # None /\ answer # {}

BeginOK == state = "begin" /\ answer # None => Start(answer)

FirstOK ==
  state = "watching" /\ pos = 0 =>
    /\ Start(picture)
    /\ Telling => \E c \in fetched .. cur_pos : First(c)

LaterOK ==
  state = "watching" /\ pos # 0 =>
    /\ pos \in 1 .. cur_pos
    /\ \A id \in Ids : Right(log, picture, skipped, id, pos)
    /\ Telling => \E q \in pos .. cur_pos : Offered(q)

(* As long as the server has not been restarted since the list was fetched *)
(* the watcher knows what was so at its position, and the answer under way *)
(* takes it to a later one.                                                *)
WatcherOK == state \in {"begin", "watching"} /\ (~ before => BeginOK /\ FirstOK /\ LaterOK)

IInv == ServerOK /\ WatcherOK

(* Lemma: changes of the server leave it all as it is.                     *)
LEMMA ChangeKeeps ==
  ASSUME IInv, Change
  PROVE  IInv'
<1>1. PICK type \in {"online", "offline"}, ids \in Seq(Ids) : Notified(type, ids)
  BY ChangeNotifies
<1>2. ServerOK' /\ cur_pos' >= cur_pos
  BY <1>1, NotifiedKeepsServer DEF IInv
<1> DEFINE new == Noted(type, ids)
<1>3. new \subseteq Event /\ \A e \in new : e.cursor > cur_pos
  BY NotedAreNewer DEF IInv, ServerOK
<1>4. log' = log \cup new
  BY <1>1 DEF Notified
<1>5. UNCHANGED <<state, picture, pos, answer, fetched, skipped, missing, before>>
  BY DEF Change, watcher
<1> HIDE DEF new
<1>6. log \subseteq Event /\ cur_pos \in Nat /\ cur_pos' \in Nat
  BY <1>2 DEF IInv, ServerOK
<1>7. \A p \in 1 .. cur_pos : \A e \in log' : e.cursor <= p => e \in log
  <2>1. \A e \in new : e.cursor \in Nat /\ e.cursor > cur_pos
    BY <1>3 DEF Event
  <2> QED BY <1>4, <1>6, <2>1
<1>8. ASSUME NEW p \in 1 .. cur_pos, NEW id PROVE LastIn(log', id, p) = LastIn(log, id, p)
  <2>1. \A e \in log' : e.cursor <= p <=> e \in log /\ e.cursor <= p
    BY <1>7
  <2> QED BY <1>4, <2>1 DEF LastIn
<1>9. \A p \in 1 .. cur_pos : p \in 1 .. cur_pos'
  BY <1>2, <1>6
<1>10. ASSUME NEW shown, Start(shown)
       PROVE  /\ fetched' \in 1 .. cur_pos'
              /\ \A id \in Ids : id \in missing' \/ Tells(log', shown, id, fetched')
  BY <1>5, <1>8, <1>9, <1>10 DEF Start, Tells
<1>11. ASSUME ~ before PROVE BeginOK'
  BY <1>5, <1>10, <1>11 DEF IInv, WatcherOK, BeginOK, Start
<1>12. ASSUME ~ before PROVE FirstOK'
  <2> SUFFICES ASSUME state = "watching", pos = 0
        PROVE /\ Start(picture)'
              /\ Telling => \E c \in fetched .. cur_pos' : First(c)'
    BY <1>5 DEF FirstOK, Telling
  <2>1. Start(picture) /\ (Telling => \E c \in fetched .. cur_pos : First(c))
    BY <1>12 DEF IInv, WatcherOK, FirstOK
  <2>2. Start(picture)'
    BY <1>5, <1>10, <2>1 DEF Start
  <2>3. ASSUME NEW c \in fetched .. cur_pos, First(c) PROVE c \in fetched .. cur_pos' /\ First(c)'
    <3>1. fetched \in 1 .. cur_pos /\ c \in 1 .. cur_pos
      BY <1>6, <2>1 DEF Start
    <3>2. c \in fetched .. cur_pos'
      BY <1>2, <1>6, <3>1
    <3>3. \A e \in log' : e.cursor > fetched /\ e.cursor <= c => e.cursor \in skipped
      BY <1>7, <2>3, <3>1 DEF First
    <3> QED BY <1>5, <2>3, <3>2, <3>3 DEF First
  <2> QED BY <2>1, <2>2, <2>3
<1>13. ASSUME ~ before PROVE LaterOK'
  <2> SUFFICES ASSUME state = "watching", pos # 0
        PROVE /\ pos \in 1 .. cur_pos'
              /\ \A id \in Ids : Right(log', picture, skipped, id, pos)
              /\ Telling => \E q \in pos .. cur_pos' : Offered(q)'
    BY <1>5 DEF LaterOK, Telling, Right
  <2>1. /\ pos \in 1 .. cur_pos /\ \A id \in Ids : Right(log, picture, skipped, id, pos)
        /\ Telling => \E q \in pos .. cur_pos : Offered(q)
    BY <1>13 DEF IInv, WatcherOK, LaterOK
  <2>2. ASSUME NEW q \in pos .. cur_pos, Offered(q) PROVE q \in pos .. cur_pos' /\ Offered(q)'
    <3>1. q \in 1 .. cur_pos
      BY <1>6, <2>1
    <3>2. q \in pos .. cur_pos'
      BY <1>2, <1>6, <2>1, <3>1
    <3>3. \A a \in answer : a \in LastIn(log', a.id, q) /\ a.cursor > pos
      BY <1>8, <2>2, <3>1 DEF Offered
    <3>4. \A e \in log' : e.cursor > pos /\ e.cursor <= q =>
            e.cursor \in skipped \/ \E a \in answer : a.id = e.id /\ a.cursor >= e.cursor
      BY <1>7, <2>2, <3>1 DEF Offered
    <3> QED BY <1>5, <3>2, <3>3, <3>4 DEF Offered
  <2>3. \A id \in Ids : Right(log', picture, skipped, id, pos)
    BY <1>8, <2>1 DEF Right, Tells
  <2> QED BY <1>9, <2>1, <2>2, <2>3
<1> QED BY <1>2, <1>5, <1>11, <1>12, <1>13 DEF IInv, WatcherOK
(* Lemma: a restart empties the server, and is remembered by before.       *)
LEMMA RestartKeeps ==
  ASSUME IInv, Restart
  PROVE  IInv'
<1>1. /\ online' = {} /\ chain' = {} /\ cur_pos' = 10 /\ log' = {} /\ before'
      /\ state' = state
  BY DEF Restart
<1>2. \A id \in Ids : Tells({}, {}, id, 10)
  BY DEF Tells, LastIn
<1>3. KeepRecent({}, 10, EventChainLen) = {}
  BY DEF KeepRecent
<1>4. ServerOK'
  BY <1>1, <1>2, <1>3 DEF ServerOK
<1> QED BY <1>1, <1>4 DEF IInv, WatcherOK

LEMMA FailKeeps ==
  ASSUME IInv, Fail
  PROVE  IInv'
<1>1. UNCHANGED server /\ state' = "begin" /\ answer' = None /\ before' = before
  BY DEF Fail
<1>2. ServerOK'
  BY <1>1 DEF IInv, ServerOK, server
<1> QED BY <1>1, <1>2 DEF IInv, WatcherOK, BeginOK, FirstOK, LaterOK, Telling

(* Lemma: an answer that is lost leaves nothing wrong but the IDs it had.  *)
LEMMA LoseKeeps ==
  ASSUME IInv, Lose
  PROVE  IInv'
<1>1. /\ UNCHANGED <<online, chain, cur_pos, log, fetched, before, state, picture, pos, skipped>>
      /\ answer # None /\ answer' = {}
      /\ missing' = IF state = "begin" THEN missing \cup answer ELSE missing
  BY DEF Lose, server
<1>2. ServerOK'
  BY <1>1 DEF IInv, ServerOK
<1>3. ASSUME ~ before, state = "begin" PROVE Start({})'
  <2>1. Start(answer)
    BY <1>1, <1>3 DEF IInv, WatcherOK, BeginOK
  <2>2. ASSUME NEW id \in Ids, id \notin missing' PROVE Tells(log, {}, id, fetched)
    <3>1. id \notin missing /\ id \notin answer
      BY <1>1, <1>3, <2>2
    <3> QED BY <2>1, <3>1 DEF Start, Tells
  <2> QED BY <1>1, <2>1, <2>2 DEF Start
<1>4. ASSUME ~ before, state = "watching", pos = 0 PROVE FirstOK'
  <2>1. Start(picture)
    BY <1>4 DEF IInv, WatcherOK, FirstOK
  <2> QED BY <1>1, <1>4, <2>1 DEF FirstOK, Start, Telling
<1>5. ASSUME ~ before, state = "watching", pos # 0 PROVE LaterOK'
  <2>1. pos \in 1 .. cur_pos /\ \A id \in Ids : Right(log, picture, skipped, id, pos)
    BY <1>5 DEF IInv, WatcherOK, LaterOK
  <2>2. \A id \in Ids : Right(log, picture, skipped, id, pos)'
    BY <1>1, <1>5, <2>1 DEF Right, Tells
  <2> QED BY <1>1, <2>1, <2>2 DEF LaterOK, Telling
<1> QED BY <1>1, <1>2, <1>3, <1>4, <1>5 DEF IInv, WatcherOK, BeginOK, FirstOK, LaterOK

(* Lemma: the answer to ONLINE is right when it is given.                  *)
LEMMA CmdOnlineKeeps ==
  ASSUME IInv, cmdOnline
  PROVE  IInv'
<1>1. /\ UNCHANGED <<online, chain, cur_pos, log>> /\ state = "begin" /\ state' = "begin"
      /\ answer' = online /\ fetched' = cur_pos
  BY DEF cmdOnline, server
<1>2. ServerOK'
  BY <1>1 DEF IInv, ServerOK
<1>3. fetched' \in 1 .. cur_pos' /\ \A id \in Ids : Tells(log', answer', id, fetched')
  BY <1>1 DEF IInv, ServerOK
<1>4. Start(answer)'
  BY <1>3 DEF Start
<1> QED BY <1>1, <1>2, <1>4 DEF IInv, WatcherOK, BeginOK, FirstOK, LaterOK, Telling

LEMMA FetchedKeeps ==
  ASSUME IInv, Fetched
  PROVE  IInv'
<1>1. /\ UNCHANGED <<online, chain, cur_pos, log, fetched, missing, before>>
      /\ state = "begin" /\ answer # None
      /\ state' = "watching" /\ picture' = answer /\ pos' = 0 /\ answer' = None
  BY DEF Fetched, server
<1>2. ServerOK'
  BY <1>1 DEF IInv, ServerOK
<1>3. ASSUME ~ before PROVE Start(picture)'
  <2>1. Start(answer)
    BY <1>1, <1>3 DEF IInv, WatcherOK, BeginOK
  <2> QED BY <1>1, <2>1 DEF Start
<1> QED BY <1>1, <1>2, <1>3 DEF IInv, WatcherOK, BeginOK, FirstOK, LaterOK, Telling

(* Lemma: of the events after the position, the chain has the last of each *)
(* ID, or they have left it and are skipped.                               *)
LEMMA CmdWatchKeeps ==
  ASSUME IInv, cmdWatch
  PROVE  IInv'
<1>1. /\ UNCHANGED <<online, chain, cur_pos, log, fetched, missing, before, state, picture, pos>>
      /\ state = "watching" /\ answer = None
      /\ answer' = get_recent_events(chain, cur_pos, pos, Ids, "fake")
      /\ skipped' = skipped \cup LeftOut(pos)
  BY DEF cmdWatch, server
<1>2. ServerOK /\ ServerOK'
  BY <1>1 DEF IInv, ServerOK
<1>3. ASSUME ~ before, pos = 0 PROVE FirstOK'
  <2>1. Start(picture) /\ Start(picture)'
    BY <1>1, <1>3 DEF IInv, WatcherOK, FirstOK, Start
  <2>2. answer' = {[cursor |-> cur_pos, type |-> "fake", id |-> "fake"]}
    BY <1>1, <1>3 DEF get_recent_events
  <2>3. \A e \in log : e.cursor > fetched => e.cursor \in skipped'
    BY <1>1, <1>3 DEF LeftOut
  <2>4. First(cur_pos)'
    BY <1>1, <2>2, <2>3 DEF First
  <2>5. cur_pos \in fetched .. cur_pos
    BY <1>2, <2>1 DEF Start, ServerOK
  <2> QED BY <1>1, <2>1, <2>4, <2>5 DEF FirstOK
<1>4. ASSUME ~ before, pos # 0 PROVE LaterOK'
  <2>1. pos \in 1 .. cur_pos /\ \A id \in Ids : Right(log, picture, skipped, id, pos)
    BY <1>1, <1>4 DEF IInv, WatcherOK, LaterOK
  <2>2. answer' = {e \in chain : /\ e.cursor > pos /\ e.id \in Ids
                                 /\ \A o \in chain : o.id = e.id => o.cursor <= e.cursor}
    BY <1>1, <1>4 DEF get_recent_events
  <2>3. \A e \in log : e.cursor > pos /\ e \notin chain => e.cursor \in skipped'
    BY <1>1, <1>4 DEF LeftOut
  <2>4. /\ cur_pos \in Nat /\ log \subseteq Event /\ EventChainLen \in Nat
        /\ chain = {e \in log : e.cursor > cur_pos - (EventChainLen + 1)}
        /\ \A e \in log : e.cursor <= cur_pos /\ e.cursor \in Nat /\ e.id \in Ids
    BY <1>2, PresenceAssumption DEF ServerOK, KeepRecent, Event
  <2>5. ASSUME NEW e \in chain
        PROVE  \A o \in log : o.cursor >= e.cursor => o \in chain
    BY <2>4
  <2>6. ASSUME NEW a \in answer' PROVE a \in LastIn(log, a.id, cur_pos) /\ a.cursor > pos
    BY <2>2, <2>4, <2>5 DEF LastIn
  <2>7. ASSUME NEW e \in log, e.cursor > pos, e.cursor \notin skipped'
        PROVE  \E a \in answer' : a.id = e.id /\ a.cursor >= e.cursor
    <3>1. e \in chain
      BY <2>3, <2>7
    <3>2. PICK a \in LastIn(log, e.id, cur_pos) : a.cursor >= e.cursor
      BY <2>4, SomeIsLast
    <3>3. a \in log /\ a.id = e.id /\ \A o \in log : o.id = e.id => o.cursor <= a.cursor
      BY <2>4, <3>2 DEF LastIn
    <3>4. a \in chain /\ a.cursor > pos
      BY <2>1, <2>4, <2>5, <2>7, <3>1, <3>2, <3>3
    <3>5. a \in answer'
      BY <2>2, <2>4, <3>3, <3>4
    <3> QED BY <3>2, <3>3, <3>5
  <2>8. Offered(cur_pos)'
    BY <1>1, <2>6, <2>7 DEF Offered
  <2>9. \A id \in Ids : Right(log, picture, skipped, id, pos)'
    BY <1>1, <2>1 DEF Right
  <2>10. cur_pos \in pos .. cur_pos
    BY <2>1, <2>4
  <2> QED BY <1>1, <2>1, <2>8, <2>9, <2>10 DEF LaterOK
<1>5. pos = 0 => LaterOK'
  BY <1>1 DEF LaterOK
<1>6. pos # 0 => FirstOK'
  BY <1>1 DEF FirstOK
<1>7. BeginOK'
  BY <1>1 DEF BeginOK
<1> QED BY <1>1, <1>2, <1>3, <1>4, <1>5, <1>6, <1>7 DEF IInv, WatcherOK
(* Lemma: the position reached is that of an event of the answer, none of  *)
(* which is newer.                                                         *)
LEMMA NextPosIsLast ==
  ASSUME NEW events, events # {}, NEW n \in Nat, \A e \in events : e.cursor \in 0 .. n
  PROVE  \E a \in events : NextPos(events) = a.cursor /\ \A e \in events : e.cursor <= a.cursor
<1> DEFINE S == {e.cursor : e \in events}
<1>1. S \subseteq 0 .. n /\ S # {}
  OBVIOUS
<1>2. \E k \in S : \A j \in S : k >= j
  <2> HIDE DEF S
  <2>1. \A j \in S : j \in Nat
    BY <1>1
  <2> QED BY <1>1, <2>1, Greatest
<1>3. Max(S) \in S /\ \A j \in S : Max(S) >= j
  <2> HIDE DEF S
  <2> QED BY <1>2 DEF Max
<1>4. PICK a \in events : Max(S) = a.cursor
  BY <1>3
<1>5. \A e \in events : a.cursor >= e.cursor
  BY <1>3, <1>4
<1> QED BY <1>4, <1>5 DEF NextPos

(* Lemma: the answer takes the picture from pos to the last of its events. *)
LEMMA AnswerIsRight ==
  ASSUME ServerOK, pos \in 1 .. cur_pos, NEW q \in pos .. cur_pos, Offered(q), answer # {},
         NEW id \in Ids, Right(log, picture, skipped, id, pos),
         NEW p \in Nat, NEW a \in answer, p = a.cursor, \A e \in answer : e.cursor <= p,
         NEW shown,
         shown = (picture \cup {e.id : e \in {x \in answer : x.type = "online"}})
                   \ {e.id : e \in {x \in answer : x.type = "offline"}}
  PROVE  p \in 1 .. cur_pos /\ Right(log, shown, skipped, id, p)
<1>1. /\ cur_pos \in Nat /\ log \subseteq Event
      /\ \A e \in log : e.cursor \in Nat /\ e.type \in {"online", "offline"}
      /\ \A e, o \in log : e.cursor = o.cursor => e = o
  BY DEF ServerOK, Event
<1>2. \A e \in answer : /\ e \in log /\ e.cursor > pos /\ e.cursor <= q
                        /\ \A o \in log : o.id = e.id /\ o.cursor <= q => o.cursor <= e.cursor
  BY DEF Offered, LastIn
<1>3. pos \in Nat /\ q \in Nat /\ p > pos /\ p <= q /\ p \in 1 .. cur_pos
  BY <1>1, <1>2
<1>4. CASE \E e \in LastIn(log, id, p) : e.cursor > pos
  <2>1. PICK e \in LastIn(log, id, p) : e.cursor > pos
    BY <1>4
  <2>2. /\ e \in log /\ e.id = id /\ e.cursor <= p
        /\ \A o \in log : o.id = id /\ o.cursor <= p => o.cursor <= e.cursor
    BY DEF LastIn
  <2>3. CASE e.cursor \in skipped
    BY <1>3, <2>3 DEF Right
  <2>4. CASE e.cursor \notin skipped
    <3>1. PICK b \in answer : b.id = id /\ b.cursor >= e.cursor
      BY <1>1, <1>3, <2>1, <2>2, <2>4 DEF Offered
    <3>2. b.cursor = e.cursor
      BY <1>1, <1>2, <2>2, <3>1
    <3>3. b = e
      BY <1>1, <1>2, <2>2, <3>2
    <3>4. ASSUME NEW x \in answer, x.id = id PROVE x = e
      <4>1. x.cursor = e.cursor
        BY <1>1, <1>2, <1>3, <2>2, <3>1, <3>3, <3>4
      <4> QED BY <1>1, <1>2, <2>2, <4>1
    <3>5. \A o \in LastIn(log, id, p) : o = e
      <4> SUFFICES ASSUME NEW o \in LastIn(log, id, p) PROVE o = e
        OBVIOUS
      <4>1. /\ o \in log /\ o.id = id /\ o.cursor <= p
            /\ \A x \in log : x.id = id /\ x.cursor <= p => x.cursor <= o.cursor
        BY DEF LastIn
      <4>2. o.cursor = e.cursor
        BY <1>1, <2>2, <4>1
      <4> QED BY <1>1, <2>2, <4>1, <4>2
    <3>6. id \in shown <=> e.type = "online"
      <4>1. e \in answer /\ e.type \in {"online", "offline"}
        BY <1>1, <2>2, <3>1, <3>3
      <4>2. e.type = "online" => id \in shown
        BY <2>2, <3>4, <4>1
      <4>3. e.type = "offline" => id \notin shown
        BY <2>2, <4>1
      <4> QED BY <4>1, <4>2, <4>3
    <3> QED BY <1>3, <2>1, <3>5, <3>6 DEF Right, Tells
  <2> QED BY <2>3, <2>4
<1>5. CASE \A e \in LastIn(log, id, p) : ~ (e.cursor > pos)
  <2>1. ASSUME NEW o \in log, o.id = id, o.cursor <= p PROVE o.cursor <= pos
    <3>1. PICK e \in LastIn(log, o.id, p) : e.cursor >= o.cursor
      BY <1>1, <2>1, SomeIsLast
    <3>2. e \in log /\ ~ (e.cursor > pos)
      BY <1>5, <2>1, <3>1 DEF LastIn
    <3> QED BY <1>1, <1>3, <3>1, <3>2
  <2>2. LastIn(log, id, p) = LastIn(log, id, pos)
    BY <1>1, <1>3, <2>1 DEF LastIn
  <2>3. \A x \in answer : x.id # id
    BY <1>1, <1>2, <1>3, <2>1
  <2>4. id \in shown <=> id \in picture
    BY <2>3
  <2> QED BY <1>3, <2>2, <2>4 DEF Right, Tells
<1> QED BY <1>4, <1>5

LEMMA WatchedKeeps ==
  ASSUME IInv, Watched
  PROVE  IInv'
<1>1. /\ UNCHANGED <<online, chain, cur_pos, log, fetched, before, state, skipped, missing>>
      /\ state = "watching" /\ answer # None /\ answer' = None
      /\ picture' = (picture \cup {e.id : e \in {x \in answer : x.type = "online"}})
                      \ {e.id : e \in {x \in answer : x.type = "offline"}}
      /\ pos' = IF answer = {} THEN pos ELSE NextPos(answer)
  BY DEF Watched, server
<1>2. ServerOK /\ ServerOK'
  BY <1>1 DEF IInv, ServerOK
<1>3. cur_pos \in Nat /\ log \subseteq Event /\ \A e \in log : e.cursor \in Nat
  BY <1>2 DEF ServerOK, Event
<1>4. BeginOK'
  BY <1>1 DEF BeginOK
<1>5. ASSUME ~ before, answer # {}, pos = 0 PROVE FirstOK' /\ LaterOK'
  <2>1. PICK c \in fetched .. cur_pos : First(c)
    BY <1>1, <1>5 DEF IInv, WatcherOK, FirstOK, Telling
  <2>2. /\ fetched \in 1 .. cur_pos
        /\ \A id \in Ids : id \in missing \/ Tells(log, picture, id, fetched)
    BY <1>1, <1>5 DEF IInv, WatcherOK, FirstOK, Start
  <2>3. c \in 1 .. cur_pos /\ c \in Nat /\ fetched \in Nat /\ fetched <= c
    BY <1>3, <2>1, <2>2
  <2>4. answer = {[cursor |-> c, type |-> "fake", id |-> "fake"]}
    BY <2>1 DEF First
  <2>5. picture' = picture
    BY <1>1, <2>4
  <2>6. pos' = c
    <3>1. \A e \in answer : e.cursor \in 0 .. c /\ e.cursor = c
      BY <2>3, <2>4
    <3>2. answer # {}
      BY <2>4
    <3>3. NextPos(answer) = c
      BY <2>3, <3>1, <3>2, NextPosIsLast
    <3> QED BY <1>1, <3>2, <3>3
  <2>7. ASSUME NEW id \in Ids PROVE Right(log, picture, skipped, id, c)
    <3>1. CASE \E e \in LastIn(log, id, c) : e.cursor > fetched
      <4>1. PICK e \in LastIn(log, id, c) : e.cursor > fetched
        BY <3>1
      <4>2. e \in log /\ e.cursor <= c
        BY DEF LastIn
      <4>3. e.cursor \in skipped
        BY <2>1, <4>1, <4>2 DEF First
      <4> QED BY <4>3 DEF Right
    <3>2. CASE \A e \in LastIn(log, id, c) : ~ (e.cursor > fetched)
      <4>1. ASSUME NEW o \in log, o.id = id, o.cursor <= c PROVE o.cursor <= fetched
        <5>1. PICK e \in LastIn(log, o.id, c) : e.cursor >= o.cursor
          BY <1>3, <2>3, <4>1, SomeIsLast
        <5>2. e \in log /\ ~ (e.cursor > fetched)
          BY <3>2, <4>1, <5>1 DEF LastIn
        <5> QED BY <1>3, <2>3, <5>1, <5>2
      <4>2. LastIn(log, id, c) = LastIn(log, id, fetched)
        BY <1>3, <2>3, <4>1 DEF LastIn
      <4>3. \A e \in LastIn(log, id, c) : e.cursor <= fetched
        BY <4>1 DEF LastIn
      <4> QED BY <2>2, <4>2, <4>3 DEF Right, Tells
    <3> QED BY <3>1, <3>2
  <2>8. pos' # 0
    BY <2>3, <2>6
  <2>9. \A id \in Ids : Right(log, picture, skipped, id, pos)'
    BY <1>1, <2>5, <2>6, <2>7 DEF Right
  <2> QED BY <1>1, <2>3, <2>6, <2>8, <2>9 DEF FirstOK, LaterOK, Telling
<1>6. ASSUME ~ before, answer # {}, pos # 0 PROVE FirstOK' /\ LaterOK'
  <2>1. pos \in 1 .. cur_pos /\ \A id \in Ids : Right(log, picture, skipped, id, pos)
    BY <1>1, <1>6 DEF IInv, WatcherOK, LaterOK
  <2>2. PICK q \in pos .. cur_pos : Offered(q)
    BY <1>1, <1>6 DEF IInv, WatcherOK, LaterOK, Telling
  <2>3. \A e \in answer : e.cursor \in 0 .. cur_pos
    BY <1>2, <1>3, <2>2 DEF Offered, LastIn, ServerOK
  <2>4. PICK a \in answer : NextPos(answer) = a.cursor /\ \A e \in answer : e.cursor <= a.cursor
    BY <1>3, <1>6, <2>3, NextPosIsLast
  <2>5. pos' = a.cursor /\ a.cursor \in Nat
    BY <1>1, <1>3, <1>6, <2>3, <2>4
  <2>6. ASSUME NEW id \in Ids
        PROVE  a.cursor \in 1 .. cur_pos /\ Right(log, picture', skipped, id, a.cursor)
    BY <1>1, <1>2, <1>6, <2>1, <2>2, <2>4, <2>5, AnswerIsRight
  <2>7. a.cursor \in 1 .. cur_pos
    BY <1>3, <2>1, <2>2, <2>3 DEF Offered
  <2>8. \A id \in Ids : Right(log, picture, skipped, id, pos)'
    BY <1>1, <2>5, <2>6 DEF Right
  <2> QED BY <1>1, <2>5, <2>7, <2>8 DEF FirstOK, LaterOK, Telling
<1>7. ASSUME ~ before, answer = {} PROVE FirstOK' /\ LaterOK'
  <2>1. UNCHANGED <<picture, pos>>
    BY <1>1, <1>7
  <2> QED BY <1>1, <1>7, <2>1 DEF IInv, WatcherOK, FirstOK, LaterOK, Start, Right, Telling
<1> QED BY <1>1, <1>2, <1>4, <1>5, <1>6, <1>7 DEF IInv, WatcherOK

----------------------------------------------------------------------------
(* Lemma: the invariant holds.                                             *)
LEMMA Invariance == WatchSpec => []IInv
<1>1. WatchInit => IInv
  <2> SUFFICES ASSUME WatchInit PROVE IInv
    OBVIOUS
  <2>1. \A id \in Ids : Tells({}, {}, id, 10)
    BY DEF Tells, LastIn
  <2>2. KeepRecent({}, 10, EventChainLen) = {}
    BY DEF KeepRecent
  <2>3. ServerOK
    BY <2>1, <2>2 DEF WatchInit, Init, ServerOK
  <2> QED BY <2>3 DEF WatchInit, IInv, WatcherOK, BeginOK, FirstOK, LaterOK, Telling
<1>2. IInv /\ [WatchNext]_vars => IInv'
  <2> SUFFICES ASSUME IInv, [WatchNext]_vars PROVE IInv'
    OBVIOUS
  <2>1. CASE UNCHANGED vars
    BY <2>1 DEF vars, server, watcher, IInv, ServerOK, WatcherOK, BeginOK, FirstOK, LaterOK,
                Start, First, Offered, Telling, Right
  <2> QED BY <2>1, ChangeKeeps, RestartKeeps, FailKeeps, LoseKeeps, CmdOnlineKeeps, FetchedKeeps,
             CmdWatchKeeps, WatchedKeeps DEF WatchNext, Watching
<1> QED BY <1>1, <1>2, PTL DEF WatchSpec

(* Theorem: what cron_online_updater.php:13-31 shows is what was so at the *)
(* position it has reached, but for events it was never offered and the    *)
(* IDs of a list of ONLINE that was lost on its way (internalSend returns  *)
(* that as an empty one); whatever calls fail and answers are lost, until  *)
(* a restart it has not noticed.                                           *)
THEOREM WatcherSeesTruth == WatchSpec => []PictureIsTrue
<1>1. IInv => PictureIsTrue
  <2> SUFFICES ASSUME IInv, state = "watching", pos > 0, ~ before, NEW id \in Ids
        PROVE  ShownAsOf(id, pos)
    BY DEF PictureIsTrue
  <2>1. pos # 0
    OBVIOUS
  <2>2. Right(log, picture, skipped, id, pos)
    BY <2>1 DEF IInv, WatcherOK, LaterOK
  <2> QED BY <2>2, LastChangeIsLastIn DEF Right, Tells, ShownAsOf
<1> QED BY <1>1, Invariance, PTL
=============================================================================
