--------------------------- MODULE JsClient_proofs ---------------------------
(***************************************************************************)
(* Theorems about JsClient, for any number of IDs, publications, calls of  *)
(* execute() and broken requests: the client skips no message and, in one  *)
(* loop, reads none twice.                                                 *)
(***************************************************************************)
EXTENDS JsClient, WellFoundedInduction, TLAPS

Position(n) == (0 .. n) \cup {None}

Types ==
  /\ clock \in Nat /\ executes \in Nat /\ timers \in Nat
  /\ queue \in [Ids -> SUBSET (1 .. clock)] /\ log \in [Ids -> SUBSET (1 .. clock)]
  /\ positioned \subseteq Ids /\ subscribed \subseteq Ids
  /\ cursor \in [Ids -> Position(clock)]
  /\ start \in [Ids -> Nat] /\ seen \in [Ids -> SUBSET Nat]

(* A request under way: its cursors and those of its answer have been.     *)
RequestTypes(n) ==
  [state : {"sent", "waiting", "answered", "lost"}, ids : SUBSET Ids,
   listen : [Ids -> Position(n)], answer : [Ids -> SUBSET (1 .. n)]]
RequestsTyped == xmlhttp \in [Slots -> {None} \cup RequestTypes(clock)]

(* An ID given a cursor keeps one.                                         *)
PositionedKnows == \A id \in positioned : cursor[id] # None

(* An application that called execute() once has one request or one timer. *)
OneLoop ==
  executes <= 1 =>
    /\ timers \in {0, 1}
    /\ \A s \in Slots : xmlhttp[s] # None => executes = 1 /\ s = last /\ timers = 0
    /\ executes = 0 => timers = 0

(* The IDs NothingSkipped speaks of, once they have a cursor.              *)
Guarded(id) == cursor[id] # None /\ (id \in positioned \/ executes <= 1)

(* Whoever goes on from p skips nothing.                                   *)
Safe(id, p) ==
  \A c \in log[id] : start[id] < c /\ c <= p => c \in seen[id] \/ c \notin queue[id]

(* A request asks for a known ID from its cursor on, and never from beyond *)
(* what has been seen.                                                     *)
AsksRight(r, id) ==
  Guarded(id) => /\ id \in r.ids => r.listen[id] # None
                 /\ r.listen[id] # None => Safe(id, r.listen[id])

(* An answer has all there was between its cursor and any of its messages, *)
(* except what has left the queue.                                         *)
AnswerIsWhole(r, id) ==
  r.state = "answered" =>
    \A a \in r.answer[id] :
      /\ r.listen[id] # None
      /\ \A c \in log[id] :
           r.listen[id] < c /\ c <= a => c \in r.answer[id] \/ c \notin queue[id]

RequestsRight ==
  \A s \in Slots, id \in Ids :
    xmlhttp[s] # None => AsksRight(xmlhttp[s], id) /\ AnswerIsWhole(xmlhttp[s], id)

CursorsSafe == \A id \in Ids : Guarded(id) => Safe(id, cursor[id])

IInv ==
  Types /\ RequestsTyped /\ PositionedKnows /\ OneLoop /\ RequestsRight /\ CursorsSafe

-----------------------------------------------------------------------------
LEMMA InitInv == Init => IInv
<1> SUFFICES ASSUME Init PROVE IInv
  OBVIOUS
<1>1. None \notin Nat
  BY JsClientAssumption
<1>2. cursor \in [Ids -> Position(0)]
  BY DEF Init, Position
<1>3. Types
  BY <1>2 DEF Init, Types
<1>4. PositionedKnows
  BY <1>1 DEF Init, PositionedKnows
<1> QED
  BY <1>3, <1>4 DEF Init, IInv, RequestsTyped, OneLoop, RequestsRight, CursorsSafe, Safe

LessThan == {p \in Nat \X Nat : p[1] < p[2]}

(* A finite set of numbers has a greatest one.                             *)
LEMMA MaxIsMember ==
  ASSUME NEW n \in Nat, NEW S, S \subseteq 1 .. n, S # {}
  PROVE  Max(S) \in S /\ \A k \in S : k <= Max(S)
<1>1. IsWellFoundedOn(LessThan, Nat)
  BY NatLessThanWellFounded, Zenon DEF LessThan, OpToRel
<1> DEFINE T == {n - k : k \in S}
<1>2. T \subseteq Nat /\ T # {}
  <2>1. \A k \in 1 .. n : n - k \in Nat
    OBVIOUS
  <2> QED
    BY <2>1
<1>3. PICK x \in T : \A y \in T : <<y, x>> \notin LessThan
  <2> HIDE DEF T
  <2> QED
    BY <1>1, <1>2, WFMin, Zenon
<1>4. ASSUME NEW y \in T PROVE x <= y
  <2>1. x \in Nat /\ y \in Nat
    BY <1>2
  <2> HIDE DEF T
  <2>2. ~ (y < x)
    BY <1>3, <2>1 DEF LessThan
  <2> QED
    BY <2>1, <2>2
<1>5. PICK k \in S : x = n - k
  BY <1>3
<1>6. \A j \in S : k >= j
  <2> SUFFICES ASSUME NEW j \in S PROVE k >= j
    OBVIOUS
  <2>1. n - k <= n - j
    BY <1>4, <1>5
  <2> QED
    BY <2>1
<1> QED
  BY <1>5, <1>6 DEF Max

(* The cursor after an answer is the old one or that of a message in it.   *)
LEMMA AfterIsAnswered ==
  ASSUME Types, NEW answer \in [Ids -> SUBSET (1 .. clock)], NEW upto, NEW id \in Ids
  PROVE  After(answer, upto)[id] \in {cursor[id]} \cup answer[id]
<1> DEFINE C == {c \in answer[id] : c <= upto[id]}
<1>1. C \subseteq 1 .. clock /\ C \subseteq answer[id] /\ clock \in Nat
  BY DEF Types
<1>2. C # {} => Max(C) \in C
  <2> HIDE DEF C
  <2> QED
    BY <1>1, MaxIsMember
<1>3. After(answer, upto)[id] = IF C = {} THEN cursor[id] ELSE Max(C)
  BY DEF After
<1> QED
  BY <1>1, <1>2, <1>3

LEMMA AfterTypes ==
  ASSUME Types, NEW answer \in [Ids -> SUBSET (1 .. clock)], NEW upto
  PROVE  After(answer, upto) \in [Ids -> Position(clock)]
<1>1. \A id \in Ids : After(answer, upto)[id] \in Position(clock)
  <2> SUFFICES ASSUME NEW id \in Ids PROVE After(answer, upto)[id] \in Position(clock)
    OBVIOUS
  <2>1. cursor[id] \in Position(clock) /\ answer[id] \subseteq Position(clock)
    BY DEF Types, Position
  <2> QED
    BY <2>1, AfterIsAnswered
<1>2. After(answer, upto) = [id \in Ids |-> After(answer, upto)[id]]
  BY DEF After
<1> QED
  BY <1>1, <1>2
-----------------------------------------------------------------------------
(* Requests.                                                               *)

LEMMA RequestIs ==
  ASSUME Types, NEW cursors \in [Ids -> Position(clock)]
  PROVE  /\ Request(cursors) \in RequestTypes(clock)
         /\ Request(cursors).state = "sent"
         /\ \A id \in Ids :
              Request(cursors).listen[id] =
                IF id \in Request(cursors).ids THEN cursors[id] ELSE None
BY DEF Types, Request, RequestTypes, Position, Nothing

(* _loopFunc adds at most one request to those there are.                  *)
LEMMA LoopAdds ==
  ASSUME Types, NEW requests \in [Slots -> {None} \cup RequestTypes(clock)], NEW latest,
         NEW cursors \in [Ids -> Position(clock)], _loopFunc(requests, latest, cursors)
  PROVE  /\ xmlhttp' \in [Slots -> {None} \cup RequestTypes(clock)]
         /\ \A t \in Slots : \/ xmlhttp'[t] = requests[t]
                             \/ xmlhttp'[t] = Request(cursors) /\ last' = t
BY RequestIs DEF _loopFunc

(* A step of the client that learns no cursor keeps what is safe, and the  *)
(* requests it leaves are right if they were or are made of the cursors.   *)
LEMMA ClientStep ==
  ASSUME IInv, UNCHANGED <<server, cursor, history>>, executes' \in {executes, executes + 1},
         subscribed' \subseteq Ids, timers' \in Nat, RequestsTyped', OneLoop',
         \A s \in Slots : \/ xmlhttp'[s] \in {None, xmlhttp[s]}
                          \/ xmlhttp'[s] = Request(cursor)
                          \/ /\ xmlhttp[s] # None
                             /\ xmlhttp'[s] = [xmlhttp[s] EXCEPT !.state = "lost"]
  PROVE  IInv'
<1> USE DEF server, history
<1>1. Types'
  BY DEF IInv, Types
<1>2. PositionedKnows'
  BY DEF IInv, PositionedKnows
<1>3. executes \in Nat
  BY DEF IInv, Types
<1>4. ASSUME NEW id \in Ids, Guarded(id)' PROVE Guarded(id)
  BY <1>3, <1>4 DEF Guarded
<1>5. ASSUME NEW id \in Ids, NEW p, Safe(id, p) PROVE Safe(id, p)'
  BY <1>5 DEF Safe
<1>6. CursorsSafe'
  BY <1>4, <1>5 DEF IInv, CursorsSafe
<1>7. ASSUME NEW s \in Slots, NEW id \in Ids, xmlhttp'[s] # None
      PROVE  AsksRight(xmlhttp[s], id)' /\ AnswerIsWhole(xmlhttp[s], id)'
  <2>1. CASE xmlhttp'[s] = xmlhttp[s]
    <3>1. AsksRight(xmlhttp[s], id) /\ AnswerIsWhole(xmlhttp[s], id)
      BY <1>7, <2>1 DEF IInv, RequestsRight
    <3>2. AsksRight(xmlhttp[s], id)'
      BY <2>1, <3>1, <1>4, <1>5 DEF AsksRight
    <3>3. AnswerIsWhole(xmlhttp[s], id)'
      BY <2>1, <3>1 DEF AnswerIsWhole
    <3> QED
      BY <3>2, <3>3
  <2>2. CASE xmlhttp'[s] = Request(cursor)
    <3>1. /\ Request(cursor).state = "sent"
          /\ Request(cursor).listen[id] = IF id \in Request(cursor).ids THEN cursor[id] ELSE None
      BY RequestIs DEF IInv, Types
    <3>2. Guarded(id) => cursor[id] # None /\ Safe(id, cursor[id])
      BY DEF IInv, CursorsSafe, Guarded
    <3>3. AsksRight(xmlhttp[s], id)'
      BY <2>2, <3>1, <3>2, <1>4, <1>5 DEF AsksRight
    <3>4. AnswerIsWhole(xmlhttp[s], id)'
      BY <2>2, <3>1 DEF AnswerIsWhole
    <3> QED
      BY <3>3, <3>4
  <2>3. CASE xmlhttp[s] # None /\ xmlhttp'[s] = [xmlhttp[s] EXCEPT !.state = "lost"]
    <3>1. AsksRight(xmlhttp[s], id) /\ xmlhttp[s] \in RequestTypes(clock)
      BY <2>3 DEF IInv, RequestsRight, RequestsTyped
    <3>2. /\ xmlhttp'[s].ids = xmlhttp[s].ids /\ xmlhttp'[s].listen = xmlhttp[s].listen
          /\ xmlhttp'[s].state = "lost"
      BY <2>3, <3>1 DEF RequestTypes
    <3>3. AsksRight(xmlhttp[s], id)'
      BY <3>1, <3>2, <1>4, <1>5 DEF AsksRight
    <3>4. AnswerIsWhole(xmlhttp[s], id)'
      BY <3>2 DEF AnswerIsWhole
    <3> QED
      BY <3>3, <3>4
  <2> QED
    BY <1>7, <2>1, <2>2, <2>3
<1>8. RequestsRight'
  BY <1>7 DEF RequestsRight
<1> QED
  BY <1>1, <1>2, <1>6, <1>8 DEF IInv
-----------------------------------------------------------------------------
(* The actions of the client.                                              *)

LEMMA SubscribeStep ==
  ASSUME IInv, NEW id \in Ids, Subscribe(id) \/ Unsubscribe(id) PROVE IInv'
<1> USE DEF Subscribe, Unsubscribe, server, history
<1>1. subscribed' \subseteq Ids /\ timers' \in Nat /\ RequestsTyped' /\ OneLoop'
  BY DEF IInv, Types, RequestsTyped, OneLoop
<1> QED
  BY <1>1, ClientStep

LEMMA ExecuteStep == ASSUME IInv, Execute PROVE IInv'
<1> USE DEF Execute
<1>1. Types /\ RequestsTyped /\ OneLoop /\ executes' = executes + 1 /\ timers' = timers
  BY DEF IInv
<1>2. cursor \in [Ids -> Position(clock)] /\ clock' = clock /\ executes \in Nat /\ timers \in Nat
  BY <1>1 DEF Types, server
<1>3. Aborted(xmlhttp) \in [Slots -> {None} \cup RequestTypes(clock)]
  BY <1>1 DEF RequestsTyped, Aborted
<1>4. \A s \in Slots : Aborted(xmlhttp)[s] \in {None, xmlhttp[s]}
  BY <1>1 DEF RequestsTyped, Aborted
<1>5. /\ xmlhttp' \in [Slots -> {None} \cup RequestTypes(clock)]
      /\ \A s \in Slots : \/ xmlhttp'[s] = Aborted(xmlhttp)[s]
                          \/ xmlhttp'[s] = Request(cursor) /\ last' = s
  BY <1>1, <1>2, <1>3, LoopAdds
<1>6. OneLoop'
  <2>1. CASE executes = 0
    BY <1>1, <1>2, <1>4, <1>5, <2>1 DEF OneLoop
  <2> QED
    BY <1>1, <1>2, <2>1 DEF OneLoop
<1>7. RequestsTyped' /\ subscribed' \subseteq Ids
  BY <1>1, <1>2, <1>5 DEF RequestsTyped, Types
<1> QED
  BY <1>1, <1>2, <1>4, <1>5, <1>6, <1>7, ClientStep

LEMMA LoopTimerStep == ASSUME IInv, LoopTimer PROVE IInv'
<1> USE DEF LoopTimer
<1>1. Types /\ RequestsTyped /\ OneLoop /\ executes' = executes /\ timers' = timers - 1
  BY DEF IInv
<1>2. cursor \in [Ids -> Position(clock)] /\ clock' = clock /\ timers' \in Nat
  BY <1>1 DEF Types, server
<1>3. /\ xmlhttp' \in [Slots -> {None} \cup RequestTypes(clock)]
      /\ \A s \in Slots : \/ xmlhttp'[s] = xmlhttp[s]
                          \/ xmlhttp'[s] = Request(cursor) /\ last' = s
  BY <1>1, <1>2, LoopAdds DEF RequestsTyped
<1>4. OneLoop'
  BY <1>1, <1>3 DEF OneLoop, Types
<1>5. RequestsTyped' /\ subscribed' \subseteq Ids
  BY <1>1, <1>2, <1>3 DEF RequestsTyped, Types
<1> QED
  BY <1>1, <1>2, <1>3, <1>4, <1>5, ClientStep

LEMMA BreakStep == ASSUME IInv, NEW s \in Slots, Break(s) PROVE IInv'
<1> USE DEF Break
<1>1. xmlhttp[s] \in RequestTypes(clock) /\ clock' = clock
  BY DEF IInv, RequestsTyped, server
<1>2. [xmlhttp[s] EXCEPT !.state = "lost"] \in RequestTypes(clock)
  BY <1>1 DEF RequestTypes
<1>3. /\ xmlhttp'[s] = [xmlhttp[s] EXCEPT !.state = "lost"]
      /\ \A t \in Slots \ {s} : xmlhttp'[t] = xmlhttp[t]
  BY DEF IInv, RequestsTyped
<1>4. RequestsTyped'
  BY <1>1, <1>2, <1>3 DEF IInv, RequestsTyped
<1>5. OneLoop'
  BY <1>3 DEF IInv, OneLoop
<1>6. timers' \in Nat /\ subscribed' \subseteq Ids
  BY DEF IInv, Types
<1> QED
  BY <1>3, <1>4, <1>5, <1>6, ClientStep
-----------------------------------------------------------------------------
(* The actions of the server.                                              *)

(* A request that is answered gets all that is in the queues after its     *)
(* cursors, and asks for the same.                                         *)
LEMMA AnsweredIs ==
  ASSUME NEW n \in Nat, NEW r \in RequestTypes(n), NEW queues \in [Ids -> SUBSET (1 .. n)]
  PROVE  /\ Answered(r, queues) \in RequestTypes(n)
         /\ Answered(r, queues).ids = r.ids /\ Answered(r, queues).listen = r.listen
         /\ \/ Answered(r, queues) = r
            \/ Answered(r, queues).answer = Due(queues, r.listen)
<1>1. Due(queues, r.listen) \in [Ids -> SUBSET (1 .. n)]
  BY DEF Due
<1> QED
  BY <1>1 DEF Answered, RequestTypes

(* What is due is whole.                                                   *)
LEMMA DueIsWhole ==
  ASSUME NEW listen \in [Ids -> Nat \cup {None}], NEW queues, NEW id \in Ids,
         NEW a \in Due(queues, listen)[id]
  PROVE  /\ listen[id] # None
         /\ \A c \in queues[id] : listen[id] < c => c \in Due(queues, listen)[id]
BY DEF Due

LEMMA RegisterStep == ASSUME IInv, NEW s \in Slots, Register(s) PROVE IInv'
<1> DEFINE r == xmlhttp[s]
           listen == [id \in Ids |-> IF id \notin r.ids THEN None
                                     ELSE IF r.listen[id] = None THEN clock ELSE r.listen[id]]
           w == [r EXCEPT !.state = "waiting", !.listen = listen]
           new == Answered(w, queue)
<1>1. /\ r # None /\ r \in RequestTypes(clock) /\ r.state = "sent"
      /\ clock \in Nat /\ queue \in [Ids -> SUBSET (1 .. clock)]
  BY DEF Register, IInv, RequestsTyped, Types
<1>2. /\ w \in RequestTypes(clock) /\ w.ids = r.ids /\ w.listen = listen /\ w.state = "waiting"
      /\ listen \in [Ids -> Position(clock)]
  <2>1. listen \in [Ids -> Position(clock)]
    BY <1>1 DEF RequestTypes, Position
  <2> HIDE DEF listen
  <2> QED
    BY <1>1, <2>1 DEF RequestTypes
<1>3. /\ new \in RequestTypes(clock) /\ new.ids = r.ids /\ new.listen = listen
      /\ \/ new.state = "waiting" \/ new.answer = Due(queue, listen)
  <2> HIDE DEF w
  <2> QED
    BY <1>1, <1>2, AnsweredIs
<1>4. xmlhttp' = [xmlhttp EXCEPT ![s] = new]
  BY DEF Register
<1>5. xmlhttp'[s] = new /\ \A t \in Slots \ {s} : xmlhttp'[t] = xmlhttp[t]
  BY <1>4 DEF IInv, RequestsTyped
<1>6. UNCHANGED <<server, cursor, subscribed, last, timers, executes, breaks, history>>
  BY DEF Register
<1> USE DEF server, history
<1>7. Types' /\ PositionedKnows'
  BY <1>6 DEF IInv, Types, PositionedKnows
<1>8. RequestsTyped'
  <2> HIDE DEF new
  <2> QED
    BY <1>3, <1>4, <1>6 DEF IInv, RequestsTyped
<1>9. OneLoop'
  BY <1>1, <1>5, <1>6 DEF IInv, OneLoop
<1>10. \A id \in Ids : Guarded(id)' <=> Guarded(id)
  BY <1>6 DEF Guarded
<1>11. ASSUME NEW id \in Ids, NEW p PROVE Safe(id, p)' <=> Safe(id, p)
  BY <1>6 DEF Safe
<1>12. CursorsSafe'
  BY <1>6, <1>10, <1>11 DEF IInv, CursorsSafe
<1>13. ASSUME NEW t \in Slots, NEW id \in Ids, xmlhttp'[t] # None
       PROVE  AsksRight(xmlhttp[t], id)' /\ AnswerIsWhole(xmlhttp[t], id)'
  <2>1. CASE t # s
    BY <1>5, <1>6, <1>10, <1>11, <1>13, <2>1
       DEF IInv, RequestsRight, AsksRight, AnswerIsWhole
  <2>2. CASE t = s
    <3>1. AsksRight(r, id)
      BY <1>1 DEF IInv, RequestsRight
    <3>2. Guarded(id) => /\ id \in r.ids => listen[id] = r.listen[id]
                         /\ id \notin r.ids => listen[id] = None
      BY <3>1 DEF AsksRight
    <3>3. AsksRight(new, id)
      <4> HIDE DEF listen, new, r
      <4> QED
        BY <1>3, <3>1, <3>2 DEF AsksRight
    <3>4. AnswerIsWhole(new, id)
      <4>1. listen \in [Ids -> Nat \cup {None}]
        <5> HIDE DEF listen, r, w
        <5> QED
          BY <1>1, <1>2 DEF Position
      <4> HIDE DEF listen, new, r, w
      <4>2. CASE new.state = "waiting"
        BY <4>2 DEF AnswerIsWhole
      <4>3. CASE new.answer = Due(queue, listen)
        BY <1>3, <4>1, <4>3, DueIsWhole DEF AnswerIsWhole
      <4> QED
        BY <1>3, <4>2, <4>3
    <3> HIDE DEF new, r, w
    <3>5. AsksRight(xmlhttp[s], id)'
      BY <1>5, <3>3, <1>10, <1>11 DEF AsksRight
    <3>6. AnswerIsWhole(xmlhttp[s], id)'
      BY <1>5, <1>6, <3>4 DEF AnswerIsWhole
    <3> QED
      BY <2>2, <3>5, <3>6
  <2> QED
    BY <2>1, <2>2
<1>14. RequestsRight'
  BY <1>13 DEF RequestsRight
<1> QED
  BY <1>7, <1>8, <1>9, <1>12, <1>14 DEF IInv
LEMMA PublishStep == ASSUME IInv, NEW ids, Publish(ids) PROVE IInv'
<1> USE DEF history
<1>1. /\ clock \in Nat /\ clock' = clock + 1 /\ executes \in Nat /\ timers \in Nat
      /\ queue \in [Ids -> SUBSET (1 .. clock)] /\ log \in [Ids -> SUBSET (1 .. clock)]
      /\ UNCHANGED <<cursor, subscribed, last, timers, executes, breaks, history>>
  BY DEF IInv, Types, Publish
<1>2. /\ log' \in [Ids -> SUBSET (1 .. clock')]
      /\ \A id \in Ids : log'[id] \subseteq log[id] \cup {clock + 1}
  BY <1>1 DEF Publish
<1>3. /\ queue' \in [Ids -> SUBSET (1 .. clock')]
      /\ \A id \in Ids : queue'[id] \subseteq queue[id] \cup {clock + 1}
  <2>1. \A S : Newest(S) \subseteq S
    BY DEF Newest
  <2>2. \A id \in Ids : queue'[id] = IF id \in ids THEN Newest(queue[id] \cup {clock + 1})
                                                    ELSE queue[id]
    BY DEF Publish
  <2>3. \A id \in Ids : queue'[id] \subseteq queue[id] \cup {clock + 1}
    BY <2>1, <2>2
  <2>4. queue' = [id \in Ids |-> queue'[id]]
    BY DEF Publish
  <2>5. \A id \in Ids : queue'[id] \subseteq 1 .. clock'
    BY <1>1, <2>3
  <2> QED
    BY <2>3, <2>4, <2>5
<1>4. ASSUME NEW n \in Position(clock) PROVE n \in Position(clock')
  BY <1>1 DEF Position
<1>5. \A s \in Slots :
        xmlhttp'[s] = IF xmlhttp[s] = None THEN None ELSE Answered(xmlhttp[s], queue')
  BY DEF Publish
<1>6. Types'
  <2>1. cursor' \in [Ids -> Position(clock')]
    BY <1>1, <1>4 DEF IInv, Types
  <2> QED
    BY <1>1, <1>2, <1>3, <2>1 DEF IInv, Types
<1>7. ASSUME NEW r \in RequestTypes(clock) PROVE r \in RequestTypes(clock')
  <2>1. r.listen \in [Ids -> Position(clock')]
    BY <1>4 DEF RequestTypes
  <2>2. r.answer \in [Ids -> SUBSET (1 .. clock')]
    BY <1>1 DEF RequestTypes
  <2>3. r = [state |-> r.state, ids |-> r.ids, listen |-> r.listen, answer |-> r.answer]
    BY DEF RequestTypes
  <2> QED
    BY <2>1, <2>2, <2>3 DEF RequestTypes
<1>8. ASSUME NEW s \in Slots, xmlhttp[s] # None
      PROVE  /\ xmlhttp'[s] \in RequestTypes(clock') /\ xmlhttp[s] \in RequestTypes(clock)
             /\ xmlhttp'[s].ids = xmlhttp[s].ids /\ xmlhttp'[s].listen = xmlhttp[s].listen
             /\ \/ xmlhttp'[s] = xmlhttp[s]
                \/ xmlhttp'[s].answer = Due(queue', xmlhttp[s].listen)
  <2>1. xmlhttp[s] \in RequestTypes(clock) /\ xmlhttp[s] \in RequestTypes(clock')
    BY <1>7, <1>8 DEF IInv, RequestsTyped
  <2> QED
    BY <1>1, <1>3, <1>5, <1>8, <2>1, AnsweredIs
<1>9. RequestsTyped'
  <2>1. \A s \in Slots : xmlhttp'[s] \in {None} \cup RequestTypes(clock')
    BY <1>5, <1>8
  <2>2. xmlhttp' = [s \in Slots |-> xmlhttp'[s]]
    BY DEF Publish
  <2> QED
    BY <2>1, <2>2 DEF RequestsTyped
<1>10. PositionedKnows' /\ OneLoop' /\ \A id \in Ids : Guarded(id)' <=> Guarded(id)
  BY <1>1, <1>5 DEF IInv, PositionedKnows, OneLoop, Guarded
<1>11. ASSUME NEW id \in Ids, NEW p \in 0 .. clock, Safe(id, p) PROVE Safe(id, p)'
  <2> SUFFICES ASSUME NEW c \in log'[id], start[id] < c, c <= p
               PROVE  c \in seen[id] \/ c \notin queue'[id]
    BY <1>1 DEF Safe
  <2>1. c \in Nat /\ c # clock + 1
    BY <1>1, <1>2
  <2> QED
    BY <1>2, <1>3, <1>11, <2>1 DEF Safe
<1>12. CursorsSafe'
  <2> SUFFICES ASSUME NEW id \in Ids, Guarded(id) PROVE Safe(id, cursor[id])'
    BY <1>10 DEF CursorsSafe
  <2>1. cursor[id] \in 0 .. clock /\ Safe(id, cursor[id])
    BY DEF IInv, CursorsSafe, Guarded, Types, Position
  <2>2. cursor'[id] = cursor[id]
    BY <1>1
  <2> QED
    BY <1>11, <2>1, <2>2 DEF Safe
<1>13. ASSUME NEW s \in Slots, NEW id \in Ids, xmlhttp'[s] # None
       PROVE  AsksRight(xmlhttp[s], id)' /\ AnswerIsWhole(xmlhttp[s], id)'
  <2> DEFINE r == xmlhttp[s]
  <2>1. r # None /\ AsksRight(r, id) /\ AnswerIsWhole(r, id)
    BY <1>5, <1>13 DEF IInv, RequestsRight
  <2>2. /\ r \in RequestTypes(clock)
        /\ xmlhttp'[s].ids = r.ids /\ xmlhttp'[s].listen = r.listen
        /\ xmlhttp'[s] = r \/ xmlhttp'[s].answer = Due(queue', r.listen)
    BY <1>8, <2>1
  <2>3. r.listen \in [Ids -> Nat \cup {None}] /\ r.listen[id] \in Position(clock)
    BY <1>1, <2>2 DEF RequestTypes, Position
  <2>4. AsksRight(xmlhttp[s], id)'
    <3>1. r.listen[id] # None => r.listen[id] \in 0 .. clock
      BY <2>3 DEF Position
    <3> HIDE DEF r
    <3> QED
      BY <1>10, <1>11, <2>1, <2>2, <3>1 DEF AsksRight
  <2>5. ASSUME xmlhttp'[s] = r PROVE AnswerIsWhole(xmlhttp[s], id)'
    <3> SUFFICES ASSUME r.state = "answered", NEW a \in r.answer[id]
                 PROVE  /\ r.listen[id] # None
                        /\ \A c \in log'[id] : r.listen[id] < c /\ c <= a
                                                 => c \in r.answer[id] \/ c \notin queue'[id]
      BY <2>5 DEF AnswerIsWhole
    <3>1. a \in 1 .. clock
      BY <2>2 DEF RequestTypes
    <3>2. \A c \in log'[id] : c <= a => c \in log[id] /\ c \in Nat /\ c # clock + 1
      BY <1>1, <1>2, <3>1
    <3> QED
      BY <1>3, <2>1, <3>2 DEF AnswerIsWhole
  <2>6. ASSUME xmlhttp'[s].answer = Due(queue', r.listen) PROVE AnswerIsWhole(xmlhttp[s], id)'
    <3> HIDE DEF r
    <3> QED
      BY <2>2, <2>3, <2>6, DueIsWhole DEF AnswerIsWhole
  <2> QED
    BY <2>2, <2>4, <2>5, <2>6 DEF AnswerIsWhole
<1>14. RequestsRight'
  BY <1>13 DEF RequestsRight
<1> QED
  BY <1>6, <1>9, <1>10, <1>12, <1>14 DEF IInv
-----------------------------------------------------------------------------
(* A response.                                                             *)

(* A response that comes when no request is known changes nothing.         *)
LEMMA IgnoreStep ==
  ASSUME IInv, NEW s \in Slots, Receive(s), last = None PROVE IInv'
<1>1. /\ xmlhttp' = [xmlhttp EXCEPT ![s] = None]
      /\ UNCHANGED <<server, cursor, history, subscribed, last, timers, executes>>
  BY DEF Receive, history
<1>2. RequestsTyped' /\ OneLoop'
  BY <1>1 DEF IInv, RequestsTyped, OneLoop, server
<1>3. timers' \in Nat /\ subscribed' \subseteq Ids
  BY <1>1 DEF IInv, Types
<1>4. \A t \in Slots : xmlhttp'[t] \in {None, xmlhttp[t]}
  BY <1>1 DEF IInv, RequestsTyped
<1> QED
  BY <1>1, <1>2, <1>3, <1>4, ClientStep

AnswerOf(r) == IF r.state = "lost" THEN Nothing ELSE r.answer

(* The blocks of a response are handled, and the request is forgotten.     *)
LEMMA Handles ==
  ASSUME IInv, NEW s \in Slots, Receive(s), last # None
  PROVE  /\ xmlhttp[s] # None /\ xmlhttp[s] \in RequestTypes(clock)
         /\ AnswerOf(xmlhttp[s]) \in [Ids -> SUBSET (1 .. clock)]
         /\ \A id \in Ids : AnswerOf(xmlhttp[s])[id] # {} =>
              xmlhttp[s].state = "answered" /\ AnswerOf(xmlhttp[s]) = xmlhttp[s].answer
<1>1. /\ xmlhttp[s] # None /\ xmlhttp[s] \in RequestTypes(clock)
      /\ xmlhttp[s].state \in {"answered", "lost"}
  BY DEF Receive, IInv, RequestsTyped
<1> QED
  BY <1>1 DEF AnswerOf, RequestTypes, Nothing

(* Every cursor an answer may lead to is safe, and so is the one kept.     *)
LEMMA AnswerIsSafe ==
  ASSUME IInv, NEW s \in Slots, Receive(s), last # None, NEW id \in Ids, Guarded(id)',
         NEW p \in {cursor[id]} \cup AnswerOf(xmlhttp[s])[id], p # None
  PROVE  Safe(id, p)'
<1> DEFINE r == xmlhttp[s]
           answer == AnswerOf(r)
<1>1. /\ r # None /\ answer \in [Ids -> SUBSET (1 .. clock)]
      /\ answer[id] # {} => r.state = "answered" /\ answer = r.answer
  BY Handles
<1>2. /\ log' = log /\ queue' = queue /\ positioned' = positioned
      /\ start'[id] = IF cursor[id] = None /\ answer[id] # {} THEN r.listen[id] ELSE start[id]
      /\ seen'[id] = seen[id] \cup answer[id]
      /\ executes' \in {executes, executes + 1} /\ executes \in Nat
  BY DEF Receive, AnswerOf, server, IInv, Types
<1>3. AnswerIsWhole(r, id) /\ AsksRight(r, id)
  BY <1>1 DEF IInv, RequestsRight
<1>4. cursor[id] # None => Guarded(id)
  BY <1>2 DEF Guarded
<1>5. cursor[id] # None => start'[id] = start[id]
  BY <1>2
<1> HIDE DEF answer, r
<1>6. CASE p \in answer[id]
  <2>1. /\ r.listen[id] # None
        /\ \A c \in log[id] : r.listen[id] < c /\ c <= p => c \in answer[id] \/ c \notin queue[id]
    BY <1>1, <1>3, <1>6 DEF AnswerIsWhole
  <2>2. CASE cursor[id] = None
    BY <1>2, <1>6, <2>1, <2>2 DEF Safe
  <2>3. CASE cursor[id] # None
    <3>1. Safe(id, r.listen[id])
      BY <1>3, <1>4, <2>1, <2>3 DEF AsksRight
    <3>2. r.listen[id] \in Nat /\ \A c \in log[id] : c \in Nat
      BY <2>1, Handles DEF RequestTypes, Position, IInv, Types, r
    <3>3. \A c \in log[id] : c <= r.listen[id] \/ r.listen[id] < c
      BY <3>2
    <3> QED
      BY <1>2, <1>5, <2>1, <2>3, <3>1, <3>3 DEF Safe
  <2> QED
    BY <2>2, <2>3
<1>7. CASE p = cursor[id]
  <2>1. Safe(id, p)
    BY <1>4, <1>7 DEF IInv, CursorsSafe
  <2> QED
    BY <1>2, <1>5, <1>7, <2>1 DEF Safe
<1> QED
  BY <1>6, <1>7 DEF answer, r
LEMMA HandleStep ==
  ASSUME IInv, NEW s \in Slots, Receive(s), last # None PROVE IInv'
<1> DEFINE answer == AnswerOf(xmlhttp[s])
           rest == [xmlhttp EXCEPT ![s] = None]
<1>1. /\ xmlhttp[s] # None /\ answer \in [Ids -> SUBSET (1 .. clock)]
      /\ Types /\ RequestsTyped /\ OneLoop /\ PositionedKnows /\ None \notin Nat
  BY Handles, JsClientAssumption DEF IInv
<1>2. /\ UNCHANGED <<clock, queue, log, subscribed, positioned>>
      /\ cursor' = After(answer, [id \in Ids |-> clock])
      /\ start' = [id \in Ids |-> IF cursor[id] = None /\ answer[id] # {}
                                  THEN xmlhttp[s].listen[id] ELSE start[id]]
      /\ seen' = [id \in Ids |-> seen[id] \cup answer[id]]
      /\ timers' = IF last' = None THEN timers + 1 ELSE timers
  BY DEF Receive, AnswerOf, server, Rescheduled
<1>3. \/ xmlhttp' = rest /\ executes' = executes /\ last' = None
      \/ /\ executes' = executes + 1
         /\ \E upto \in Progress(answer) : _loopFunc(rest, None, After(answer, upto))
  BY DEF Receive, AnswerOf, Handled
<1>4. /\ rest \in [Slots -> {None} \cup RequestTypes(clock)] /\ rest[s] = None
      /\ \A t \in Slots \ {s} : rest[t] = xmlhttp[t]
  BY <1>1 DEF RequestsTyped
<1>5. ASSUME NEW t \in Slots, xmlhttp'[t] # rest[t]
      PROVE  /\ executes' = executes + 1
             /\ \E upto : xmlhttp'[t] = Request(After(answer, upto))
  <2> HIDE DEF answer, rest
  <2>1. PICK upto : executes' = executes + 1 /\ _loopFunc(rest, None, After(answer, upto))
    BY <1>3, <1>5
  <2>2. After(answer, upto) \in [Ids -> Position(clock)]
    BY <1>1, AfterTypes
  <2> QED
    BY <1>1, <1>4, <1>5, <2>1, <2>2, LoopAdds
<1>6. executes \in Nat /\ timers \in Nat /\ clock \in Nat /\ executes' \in {executes, executes + 1}
  BY <1>1, <1>3 DEF Types
<1>7. executes = 1 \/ executes > 1
  BY <1>1, <1>6 DEF OneLoop
<1> HIDE DEF answer, rest
<1>8. Types'
  <2>1. start' \in [Ids -> Nat]
    <3>1. \A id \in Ids : answer[id] # {} => xmlhttp[s].listen[id] \in Nat
      <4> SUFFICES ASSUME NEW id \in Ids, NEW a \in answer[id]
                   PROVE  xmlhttp[s].listen[id] \in Nat
        OBVIOUS
      <4>1. xmlhttp[s].state = "answered" /\ answer = xmlhttp[s].answer
        BY Handles DEF answer
      <4>2. xmlhttp[s].listen[id] # None
        BY <1>1, <4>1 DEF IInv, RequestsRight, AnswerIsWhole
      <4>3. xmlhttp[s].listen[id] \in Position(clock)
        BY Handles DEF RequestTypes
      <4> QED
        BY <1>6, <4>2, <4>3 DEF Position
    <3> QED
      BY <1>1, <1>2, <3>1 DEF Types
  <2>2. seen' \in [Ids -> SUBSET Nat]
    <3>1. \A id \in Ids : seen[id] \cup answer[id] \subseteq Nat
      BY <1>1, <1>6 DEF Types
    <3> QED
      BY <1>2, <3>1
  <2>3. cursor' \in [Ids -> Position(clock')]
    BY <1>1, <1>2, AfterTypes
  <2>4. executes' \in Nat /\ timers' \in Nat
    BY <1>2, <1>6
  <2> QED
    BY <1>1, <1>2, <2>1, <2>2, <2>3, <2>4 DEF Types
<1>9. RequestsTyped'
  <2>1. CASE xmlhttp' = rest
    BY <1>2, <1>4, <2>1 DEF RequestsTyped
  <2>2. ASSUME NEW upto, _loopFunc(rest, None, After(answer, upto))
        PROVE  RequestsTyped'
    <3>1. After(answer, upto) \in [Ids -> Position(clock)]
      BY <1>1, AfterTypes
    <3>2. xmlhttp' \in [Slots -> {None} \cup RequestTypes(clock)]
      BY <1>1, <1>4, <2>2, <3>1, LoopAdds
    <3> QED
      BY <1>2, <3>2 DEF RequestsTyped
  <2> QED
    BY <1>3, <2>1, <2>2
<1>10. OneLoop'
  <2> SUFFICES ASSUME executes' <= 1 PROVE OneLoop'
    BY DEF OneLoop
  <2>1. executes = 1 /\ executes' = 1 /\ xmlhttp' = rest /\ last' = None
    BY <1>3, <1>6, <1>7
  <2>2. \A t \in Slots : rest[t] = None
    BY <1>1, <1>4, <2>1 DEF OneLoop
  <2> QED
    BY <1>1, <1>2, <2>1, <2>2 DEF OneLoop
<1>11. \A id \in Ids : cursor'[id] \in {cursor[id]} \cup answer[id]
  BY <1>1, <1>2, AfterIsAnswered
<1>12. PositionedKnows'
  <2> SUFFICES ASSUME NEW id \in positioned PROVE cursor'[id] # None
    BY <1>2 DEF PositionedKnows
  <2>1. id \in Ids /\ cursor[id] # None /\ answer[id] \subseteq Nat
    BY <1>1, <1>6 DEF Types, PositionedKnows
  <2> QED
    BY <1>1, <1>11, <2>1
<1>13. ASSUME NEW id \in Ids, Guarded(id)', NEW p \in {cursor[id]} \cup answer[id], p # None
       PROVE  Safe(id, p)'
  BY <1>13, AnswerIsSafe DEF answer
<1>14. CursorsSafe'
  <2> SUFFICES ASSUME NEW id \in Ids, Guarded(id)' PROVE Safe(id, cursor[id])'
    BY DEF CursorsSafe
  <2>1. PICK p : p = cursor'[id]
    OBVIOUS
  <2>2. Safe(id, p)'
    BY <1>11, <1>13, <2>1 DEF Guarded
  <2> QED
    BY <2>1, <2>2 DEF Safe
<1>15. ASSUME NEW t \in Slots, NEW id \in Ids, xmlhttp'[t] # None
       PROVE  AsksRight(xmlhttp[t], id)' /\ AnswerIsWhole(xmlhttp[t], id)'
  <2>1. CASE xmlhttp'[t] = rest[t]
    <3>1. t # s /\ xmlhttp'[t] = xmlhttp[t]
      BY <1>4, <1>15, <2>1
    <3>2. AsksRight(xmlhttp[t], id) /\ AnswerIsWhole(xmlhttp[t], id)
      BY <1>15, <3>1 DEF IInv, RequestsRight
    <3>3. AnswerIsWhole(xmlhttp[t], id)'
      BY <1>2, <3>1, <3>2 DEF AnswerIsWhole
    <3>4. ASSUME Guarded(id)' PROVE Guarded(id)
      <4>1. executes > 1
        BY <1>1, <1>7, <1>15, <3>1 DEF OneLoop
      <4> QED
        BY <1>1, <1>2, <1>6, <3>4, <4>1 DEF Guarded, PositionedKnows
    <3>5. ASSUME Guarded(id), NEW p, Safe(id, p) PROVE Safe(id, p)'
      BY <1>2, <3>5 DEF Guarded, Safe
    <3>6. AsksRight(xmlhttp[t], id)'
      BY <3>1, <3>2, <3>4, <3>5 DEF AsksRight
    <3> QED
      BY <3>3, <3>6
  <2>2. CASE xmlhttp'[t] # rest[t]
    <3>1. PICK upto : executes' = executes + 1 /\ xmlhttp'[t] = Request(After(answer, upto))
      BY <1>5, <2>2
    <3>2. /\ After(answer, upto) \in [Ids -> Position(clock)]
          /\ After(answer, upto)[id] \in {cursor[id]} \cup answer[id]
      BY <1>1, AfterTypes, AfterIsAnswered
    <3>3. PICK p : p = After(answer, upto)[id]
      OBVIOUS
    <3>4. /\ xmlhttp'[t].state = "sent"
          /\ xmlhttp'[t].listen[id] = IF id \in xmlhttp'[t].ids THEN p ELSE None
      BY <1>1, <3>1, <3>2, <3>3, RequestIs
    <3>5. ASSUME Guarded(id)' PROVE p # None /\ Safe(id, p)'
      <4>1. id \in positioned
        BY <1>2, <1>6, <1>7, <3>1, <3>5 DEF Guarded
      <4>2. cursor[id] # None /\ answer[id] \subseteq Nat
        BY <1>1, <1>6, <4>1 DEF PositionedKnows
      <4>3. p # None
        BY <1>1, <3>2, <3>3, <4>2
      <4> QED
        BY <1>13, <3>2, <3>5, <3>3, <4>3
    <3>6. AsksRight(xmlhttp[t], id)'
      BY <3>4, <3>5 DEF AsksRight, Safe
    <3>7. AnswerIsWhole(xmlhttp[t], id)'
      BY <3>4 DEF AnswerIsWhole
    <3> QED
      BY <3>6, <3>7
  <2> QED
    BY <2>1, <2>2
<1>16. RequestsRight'
  BY <1>15 DEF RequestsRight
<1> QED
  BY <1>8, <1>9, <1>10, <1>12, <1>14, <1>16 DEF IInv

-----------------------------------------------------------------------------
LEMMA StepInv == IInv /\ [Next]_vars => IInv'
<1> SUFFICES ASSUME IInv, [Next]_vars PROVE IInv'
  OBVIOUS
<1>1. ASSUME NEW ids, Publish(ids) PROVE IInv'
  BY <1>1, PublishStep
<1>2. ASSUME NEW id \in Ids, Subscribe(id) \/ Unsubscribe(id) PROVE IInv'
  BY <1>2, SubscribeStep
<1>3. CASE Execute
  BY <1>3, ExecuteStep
<1>4. CASE LoopTimer
  BY <1>4, LoopTimerStep
<1>5. ASSUME NEW s \in Slots, Register(s) \/ Break(s) \/ Receive(s) PROVE IInv'
  BY <1>5, RegisterStep, BreakStep, IgnoreStep, HandleStep
<1>6. CASE UNCHANGED vars
  BY <1>6 DEF vars, server, history, IInv, Types, RequestsTyped, PositionedKnows, OneLoop,
              RequestsRight, AsksRight, AnswerIsWhole, CursorsSafe, Guarded, Safe
<1> QED
  BY <1>1, <1>2, <1>3, <1>4, <1>5, <1>6 DEF Next

(* The cursor the client goes on from (item.cursor,                        *)
(* dklab_realplexor.js:178) never passes a message it was not given and    *)
(* could still get, whatever breaks, is aborted or comes back in another   *)
(* order.                                                                  *)
THEOREM ClientSkipsNothing == Spec => []NothingSkipped
<1>1. IInv => NothingSkipped
  BY DEF IInv, CursorsSafe, Guarded, Safe, NothingSkipped
<1> QED
  BY <1>1, InitInv, StepInv, PTL DEF Spec
-----------------------------------------------------------------------------
(* One loop.                                                               *)

(* What a request may bring is newer than all that was seen.               *)
AsksNew(r, id) ==
  /\ r.listen[id] # None => \A c \in seen[id] : c <= r.listen[id]
  /\ r.state = "answered" => \A a \in r.answer[id] : r.listen[id] # None /\ r.listen[id] < a

OnlyOnce ==
  executes <= 1 =>
    /\ again = Nothing
    /\ \A id \in Ids : \A c \in seen[id] : cursor[id] # None /\ c <= cursor[id]
    /\ \A s \in Slots, id \in Ids : xmlhttp[s] # None => AsksNew(xmlhttp[s], id)

(* A step that reads no answer keeps that, if it does for its requests.    *)
LEMMA NoAnswer ==
  ASSUME IInv, OnlyOnce, executes' \in {executes, executes + 1}, UNCHANGED <<cursor, history>>,
         executes' <= 1 =>
           \A s \in Slots : \/ xmlhttp'[s] \in {None, xmlhttp[s]}
                            \/ xmlhttp'[s] = Request(cursor)
                            \/ \A id \in Ids : AsksNew(xmlhttp[s], id)'
  PROVE  OnlyOnce'
<1> SUFFICES ASSUME executes' <= 1 PROVE OnlyOnce'
  BY DEF OnlyOnce
<1>1. executes <= 1
  BY DEF IInv, Types
<1>2. seen' = seen /\ again' = again /\ cursor' = cursor
  BY DEF history
<1>3. ASSUME NEW s \in Slots, NEW id \in Ids, xmlhttp'[s] # None
      PROVE  AsksNew(xmlhttp[s], id)'
  <2>1. CASE xmlhttp'[s] = xmlhttp[s]
    BY <1>1, <1>2, <1>3, <2>1 DEF OnlyOnce, AsksNew
  <2>2. CASE xmlhttp'[s] = Request(cursor)
    <3>1. /\ Request(cursor).state = "sent"
          /\ Request(cursor).listen[id] = IF id \in Request(cursor).ids THEN cursor[id] ELSE None
      BY RequestIs DEF IInv, Types
    <3> QED
      BY <1>1, <1>2, <2>2, <3>1 DEF OnlyOnce, AsksNew
  <2> QED
    BY <1>3, <2>1, <2>2
<1> QED
  BY <1>1, <1>2, <1>3 DEF OnlyOnce

LEMMA OnceRegister == ASSUME IInv, OnlyOnce, NEW s \in Slots, Register(s) PROVE OnlyOnce'
<1> DEFINE r == xmlhttp[s]
           listen == [id \in Ids |-> IF id \notin r.ids THEN None
                                     ELSE IF r.listen[id] = None THEN clock ELSE r.listen[id]]
           w == [r EXCEPT !.state = "waiting", !.listen = listen]
           new == Answered(w, queue)
<1>1. /\ r # None /\ r \in RequestTypes(clock)
      /\ clock \in Nat /\ queue \in [Ids -> SUBSET (1 .. clock)]
  BY DEF Register, IInv, RequestsTyped, Types
<1>2. /\ w \in RequestTypes(clock) /\ w.listen = listen /\ w.state = "waiting"
  <2>1. listen \in [Ids -> Position(clock)]
    BY <1>1 DEF RequestTypes, Position
  <2> HIDE DEF listen
  <2> QED
    BY <1>1, <2>1 DEF RequestTypes
<1>3. new.listen = listen /\ (new.state = "waiting" \/ new.answer = Due(queue, listen))
  <2> HIDE DEF w
  <2> QED
    BY <1>1, <1>2, AnsweredIs
<1>4. xmlhttp'[s] = new /\ \A t \in Slots \ {s} : xmlhttp'[t] = xmlhttp[t]
  BY DEF Register, IInv, RequestsTyped
<1>5. UNCHANGED <<cursor, executes, history>> /\ seen' = seen
  BY DEF Register, history
<1>6. ASSUME executes <= 1, NEW id \in Ids PROVE AsksNew(new, id)
  <2>1. \A c \in seen[id] : c <= clock
    <3>1. \A c \in seen[id] : c \in Nat /\ cursor[id] # None /\ c <= cursor[id]
      BY <1>6 DEF OnlyOnce, IInv, Types
    <3>2. cursor[id] \in Position(clock)
      BY DEF IInv, Types
    <3> QED
      BY <1>1, <3>1, <3>2 DEF Position
  <2>2. listen[id] # None => \A c \in seen[id] : c <= listen[id]
    BY <1>1, <1>6, <2>1 DEF OnlyOnce, AsksNew
  <2>3. \A a \in Due(queue, listen)[id] : listen[id] # None /\ listen[id] < a
    BY DEF Due
  <2> HIDE DEF listen, new
  <2> QED
    BY <1>3, <2>2, <2>3 DEF AsksNew
<1> HIDE DEF new, r, w, listen
<1>7. executes <= 1 => \A id \in Ids : AsksNew(xmlhttp[s], id)'
  BY <1>4, <1>5, <1>6 DEF AsksNew
<1> QED
  BY <1>4, <1>5, <1>7, NoAnswer

LEMMA OncePublish == ASSUME IInv, OnlyOnce, NEW ids, Publish(ids) PROVE OnlyOnce'
<1>1. /\ clock \in Nat /\ clock' = clock + 1 /\ UNCHANGED <<cursor, executes, history>>
      /\ seen' = seen
      /\ \A s \in Slots :
           xmlhttp'[s] = IF xmlhttp[s] = None THEN None ELSE Answered(xmlhttp[s], queue')
  BY DEF Publish, IInv, Types, history
<1>2. ASSUME executes <= 1, NEW s \in Slots, xmlhttp[s] # None, NEW id \in Ids
      PROVE  AsksNew(xmlhttp[s], id)'
  <2> DEFINE r == xmlhttp[s]
  <2>1. AsksNew(r, id)
    BY <1>2 DEF OnlyOnce
  <2>2. r \in RequestTypes(clock)
    BY <1>2 DEF IInv, RequestsTyped
  <2>3. xmlhttp'[s] = Answered(r, queue')
    BY <1>1, <1>2
  <2>4. \/ Answered(r, queue') = r
        \/ /\ Answered(r, queue').listen = r.listen
           /\ Answered(r, queue').answer = Due(queue', r.listen)
    BY <2>2 DEF Answered, RequestTypes
  <2>5. \A a \in Due(queue', r.listen)[id] : r.listen[id] # None /\ r.listen[id] < a
    BY DEF Due
  <2> HIDE DEF r
  <2> QED
    BY <1>1, <2>1, <2>3, <2>4, <2>5 DEF AsksNew
<1> QED
  BY <1>1, <1>2, NoAnswer

LEMMA OnceBreak == ASSUME IInv, OnlyOnce, NEW s \in Slots, Break(s) PROVE OnlyOnce'
<1>1. xmlhttp[s] # None /\ xmlhttp[s] \in RequestTypes(clock)
  BY DEF Break, IInv, RequestsTyped
<1>2. /\ xmlhttp'[s].state = "lost" /\ xmlhttp'[s].listen = xmlhttp[s].listen
      /\ \A t \in Slots \ {s} : xmlhttp'[t] = xmlhttp[t]
  BY <1>1 DEF Break, IInv, RequestsTyped, RequestTypes
<1>3. UNCHANGED <<cursor, executes, history>> /\ seen' = seen
  BY DEF Break, history
<1>4. executes <= 1 => \A id \in Ids : AsksNew(xmlhttp[s], id)'
  BY <1>1, <1>2, <1>3 DEF OnlyOnce, AsksNew
<1> QED
  BY <1>2, <1>3, <1>4, NoAnswer
LEMMA OnceRead ==
  ASSUME IInv, OnlyOnce, NEW s \in Slots, Receive(s), executes' <= 1 PROVE OnlyOnce'
<1> DEFINE answer == AnswerOf(xmlhttp[s])
<1>1. /\ xmlhttp[s] # None /\ executes \in Nat /\ clock \in Nat
      /\ executes' \in {executes, executes + 1}
  BY DEF Receive, IInv, Types
<1>2. executes = 1 /\ executes' = 1 /\ \A t \in Slots : xmlhttp[t] # None => t = s
  BY <1>1 DEF IInv, OneLoop
<1>3. xmlhttp' = [xmlhttp EXCEPT ![s] = None]
  BY <1>2 DEF Receive
<1>4. \A t \in Slots : xmlhttp'[t] = None
  BY <1>2, <1>3 DEF IInv, RequestsTyped
<1>5. CASE last = None
  <2>1. UNCHANGED <<cursor, seen, again>>
    BY <1>5 DEF Receive
  <2> QED
    BY <1>2, <1>4, <2>1 DEF OnlyOnce
<1>6. CASE last # None
  <2>1. /\ answer \in [Ids -> SUBSET (1 .. clock)]
        /\ \A id \in Ids : answer[id] # {} =>
             xmlhttp[s].state = "answered" /\ answer = xmlhttp[s].answer
    BY <1>6, Handles
  <2>2. /\ cursor' = After(answer, [id \in Ids |-> clock])
        /\ again' = [id \in Ids |-> again[id] \cup (seen[id] \cap answer[id])]
        /\ seen' = [id \in Ids |-> seen[id] \cup answer[id]]
    BY <1>6 DEF Receive, AnswerOf
  <2> HIDE DEF answer
  <2>3. ASSUME NEW id \in Ids, NEW a \in answer[id], NEW c \in seen[id] PROVE c < a
    <3>1. AsksNew(xmlhttp[s], id)
      BY <1>1, <1>2 DEF OnlyOnce
    <3>2. /\ xmlhttp[s].listen[id] # None /\ xmlhttp[s].listen[id] < a
          /\ c <= xmlhttp[s].listen[id]
      BY <2>1, <2>3, <3>1 DEF AsksNew
    <3>3. xmlhttp[s].listen[id] \in Nat /\ c \in Nat /\ a \in Nat
      <4>1. xmlhttp[s].listen[id] \in Position(clock)
        BY <1>1 DEF IInv, RequestsTyped, RequestTypes
      <4>2. c \in Nat
        BY DEF IInv, Types
      <4>3. a \in 1 .. clock
        BY <2>1
      <4> QED
        BY <1>1, <3>2, <4>1, <4>2, <4>3 DEF Position
    <3> QED
      BY <3>2, <3>3
  <2>4. again' = Nothing
    <3>1. \A id \in Ids : seen[id] \cap answer[id] = {}
      <4>1. ASSUME NEW id \in Ids, NEW c \in seen[id] \cap answer[id] PROVE FALSE
        <5>1. c < c /\ c \in 1 .. clock
          BY <2>1, <2>3
        <5> QED
          BY <1>1, <5>1
      <4> QED
        BY <4>1
    <3>2. again = Nothing
      BY <1>2 DEF OnlyOnce
    <3>3. \A id \in Ids : again[id] = {}
      BY <3>2 DEF Nothing
    <3> QED
      BY <2>2, <3>1, <3>3 DEF Nothing
  <2>5. ASSUME NEW id \in Ids, NEW c \in seen'[id] PROVE cursor'[id] # None /\ c <= cursor'[id]
    <3> DEFINE C == {d \in answer[id] : d <= clock}
    <3>1. C = answer[id] /\ answer[id] \subseteq 1 .. clock
      BY <1>1, <2>1
    <3>2. cursor'[id] = IF C = {} THEN cursor[id] ELSE Max(C)
      BY <2>2 DEF After
    <3>3. c \in seen[id] \cup answer[id]
      BY <2>2
    <3> HIDE DEF C
    <3>4. CASE C = {}
      BY <1>2, <3>1, <3>2, <3>3, <3>4 DEF OnlyOnce
    <3>5. CASE C # {}
      <4>1. Max(C) \in C /\ \A d \in C : d <= Max(C)
        BY <1>1, <3>1, <3>5, MaxIsMember
      <4>2. Max(C) \in Nat /\ Max(C) # None
        BY <1>1, <3>1, <4>1, JsClientAssumption
      <4>3. c \in seen[id] => c < Max(C) /\ c \in Nat
        BY <2>3, <3>1, <4>1 DEF IInv, Types
      <4> QED
        BY <3>1, <3>2, <3>3, <3>5, <4>1, <4>2, <4>3
    <3> QED
      BY <3>4, <3>5
  <2> QED
    BY <1>4, <2>4, <2>5 DEF OnlyOnce
<1> QED
  BY <1>5, <1>6

LEMMA OnceInit == Init => OnlyOnce
BY DEF Init, OnlyOnce, Nothing

LEMMA OnceStep == IInv /\ OnlyOnce /\ [Next]_vars => OnlyOnce'
<1> SUFFICES ASSUME IInv, OnlyOnce, [Next]_vars PROVE OnlyOnce'
  OBVIOUS
<1>1. ASSUME NEW ids, Publish(ids) PROVE OnlyOnce'
  BY <1>1, OncePublish
<1>2. ASSUME NEW id \in Ids, Subscribe(id) \/ Unsubscribe(id) PROVE OnlyOnce'
  BY <1>2, NoAnswer DEF Subscribe, Unsubscribe
<1>3. CASE Execute
  <2>1. \A s \in Slots : xmlhttp'[s] \in {None, xmlhttp[s]} \/ xmlhttp'[s] = Request(cursor)
    <3>1. Aborted(xmlhttp) \in [Slots -> {None} \cup RequestTypes(clock)]
      BY DEF IInv, RequestsTyped, Aborted
    <3>2. \A s \in Slots : Aborted(xmlhttp)[s] \in {None, xmlhttp[s]}
      BY DEF IInv, RequestsTyped, Aborted
    <3> QED
      BY <1>3, <3>1, <3>2, LoopAdds DEF Execute, IInv, Types
  <2> QED
    BY <1>3, <2>1, NoAnswer DEF Execute
<1>4. CASE LoopTimer
  <2>1. \A s \in Slots : xmlhttp'[s] = xmlhttp[s] \/ xmlhttp'[s] = Request(cursor)
    BY <1>4, LoopAdds DEF LoopTimer, IInv, Types, RequestsTyped
  <2> QED
    BY <1>4, <2>1, NoAnswer DEF LoopTimer
<1>5. ASSUME NEW s \in Slots, Register(s) \/ Break(s) \/ Receive(s) PROVE OnlyOnce'
  <2>1. CASE Receive(s)
    <3>1. CASE executes' <= 1
      BY <2>1, <3>1, OnceRead
    <3> QED
      BY <3>1 DEF OnlyOnce
  <2> QED
    BY <1>5, <2>1, OnceRegister, OnceBreak
<1>6. CASE UNCHANGED vars
  BY <1>6 DEF vars, history, OnlyOnce, AsksNew
<1> QED
  BY <1>1, <1>2, <1>3, <1>4, <1>5, <1>6 DEF Next

(* With one call of execute(), the loop (_loopFunc of dklab_realplexor.js) *)
(* never hands a message of an ID to its callbacks twice, whatever breaks. *)
THEOREM OneLoopReadsOnce == Spec => []OnceInOneLoop
<1>1. OnlyOnce => OnceInOneLoop
  BY DEF OnlyOnce, OnceInOneLoop
<1> QED
  BY <1>1, InitInv, StepInv, OnceInit, OnceStep, PTL DEF Spec
=============================================================================
