--------------------------- MODULE ApiSend_proofs ---------------------------
(***************************************************************************)
(* Theorems about ApiSend, for requests and answers of any length.         *)
(***************************************************************************)
EXTENDS ApiSend, TLAPS

(* What the two sides know of each other.  The end of the request is       *)
(* announced behind what was written of it, which is then received or on   *)
(* the wire.                                                               *)
Sides ==
  /\ eof => api \notin {"connecting", "writing", "shutting"}
  /\ api = "connecting" => written = 0 /\ server \in {"up", "down"}
  /\ writes_all /\ api \in {"shutting", "reading", "analyzing", "returned"}
       => written = RequestLength
  /\ published # Nothing => /\ published = rdata
                            /\ full \/ rdata > in_maxlen \/ (eof /\ wire = 0)

(* Where the answer is: nowhere before there is one, then to be written,   *)
(* in the buffer or read.  An answer of status 200 follows a publication.  *)
(* Unless the API gives up, it waits for the end of the connection, and    *)
(* does not find it while some of the answer is in the buffer.             *)
Answering ==
  /\ status = 200 <=> published # Nothing
  /\ result > 0 => api \notin {"connecting", "writing", "shutting"}
  /\ result + buffer + left <= AnswerLength
  /\ server \in {"up", "open"} => result + buffer + left = 0 /\ published = Nothing
  /\ server = "sending" => left > 0
  /\ published # Nothing => result + buffer + left = AnswerLength
  /\ Gone => late \/ server \in {"closed", "down"}
  /\ published # Nothing /\ server = "closed" /\ ~ late =>
       /\ AnswerLength <= room => left = 0
       /\ ~ IsReset => /\ api # "thrown" \/ left > 0
                       /\ api \in {"analyzing", "returned"} => buffer = 0

IInv == TypeOK /\ Sides /\ Answering /\ CursorsArePublished

LEMMA InitInv == Init => IInv
<1> SUFFICES ASSUME Init PROVE IInv
  OBVIOUS
<1>1. TypeOK
  <2>1. eof \in BOOLEAN /\ authorised \in BOOLEAN /\ writes_all \in BOOLEAN
        /\ late \in BOOLEAN /\ full \in BOOLEAN
    BY Zenon DEF Init
  <2>2. result \in 0 .. AnswerLength /\ written \in 0 .. RequestLength
    BY ApiSendAssumption DEF Init
  <2>3. rdata \in 0 .. written /\ published \in Nothing .. RequestLength
    BY ApiSendAssumption DEF Init, Nothing
  <2>4. left \in 0 .. AnswerLength /\ room \in Rooms /\ buffer \in 0 .. room
    BY ApiSendAssumption DEF Init
  <2>5. stalls \in 0 .. MaxStalls
    BY ApiSendAssumption DEF Init
  <2> QED
    BY <2>1, <2>2, <2>3, <2>4, <2>5 DEF Init, TypeOK
<1>2. Sides /\ Answering /\ CursorsArePublished
  BY ApiSendAssumption DEF Init, Sides, Answering, CursorsArePublished, Nothing, Gone
<1> QED
  BY <1>1, <1>2 DEF IInv

LEMMA StepInv == IInv /\ [Next]_vars => IInv'
<1> SUFFICES ASSUME IInv, [Next]_vars PROVE IInv'
  OBVIOUS
<1> USE ApiSendAssumption
        DEF IInv, TypeOK, Sides, Answering, CursorsArePublished, Nothing,
            Connected, Gone, IsReset, wire, givenVars
<1>1. CASE Connect
  BY <1>1 DEF Connect, answerVars
<1>2. CASE Write
  BY <1>2 DEF Write, serverVars, answerVars
<1>3. CASE ShutdownWrite
  <2>1. UNCHANGED <<givenVars, result, late, written, serverVars, answerVars, stalls>>
    BY <1>3 DEF ShutdownWrite
  <2>2. api = "shutting" /\ ~ eof
    BY <1>3 DEF ShutdownWrite
  <2>3. \/ api' = "reading"
        \/ api' = "thrown" /\ IsReset /\ UNCHANGED eof
    BY <1>3 DEF ShutdownWrite
  <2>4. eof' \in BOOLEAN
    BY Zenon, <1>3 DEF ShutdownWrite
  <2> QED
    BY <1>3, <2>1, <2>2, <2>3, <2>4 DEF serverVars, answerVars, ShutdownWrite
<1>4. CASE ReadSome
  BY <1>4 DEF ReadSome, serverVars
<1>5. CASE ReadEnd
  BY <1>5 DEF ReadEnd, Drained, serverVars, answerVars
<1>6. CASE Analyze
  BY <1>6 DEF Analyze, Accepted, serverVars, answerVars
<1>7. CASE GiveUp
  <2>1. UNCHANGED <<givenVars, result, written, serverVars, answerVars, stalls>>
    BY <1>7 DEF GiveUp
  <2>2. \/ api = "connecting" /\ api' = "thrown" /\ UNCHANGED eof
        \/ api = "writing" /\ api' = "thrown"
        \/ api = "reading" /\ api' \in {"thrown", "analyzing"} /\ UNCHANGED eof
    BY <1>7 DEF GiveUp
  <2>3. late' /\ late' \in BOOLEAN /\ eof' \in BOOLEAN
    BY Zenon, <1>7 DEF GiveUp
  <2>4. TypeOK'
    BY <2>1, <2>2, <2>3 DEF serverVars, answerVars
  <2>5. Sides'
    BY <1>7, <2>1, <2>2 DEF GiveUp, serverVars, answerVars
  <2>6. Answering' /\ CursorsArePublished'
    BY <2>1, <2>2, <2>3 DEF serverVars, answerVars
  <2> QED
    BY <2>4, <2>5, <2>6
<1>8. CASE Refuse
  BY <1>8 DEF Refuse, Chunk, Respond, apiVars
<1>9. CASE Receive
  BY <1>9 DEF Receive, Chunk, apiVars, answerVars
<1>10. CASE Overflow
  BY <1>10 DEF Overflow, Chunk, Close, Respond, apiVars, answerVars
<1>11. CASE FullRead
  BY <1>11 DEF FullRead, Chunk, Close, Respond, apiVars, answerVars
<1>12. CASE Finish
  BY <1>12 DEF Finish, Complete, Chunk, Close, Respond, apiVars, answerVars
<1>13. CASE Send
  <2>1. PICK n \in {AtMost(left, room - buffer)} \cup (IF Gone THEN {0} ELSE {}) :
             /\ buffer' = buffer + n
             /\ left' = IF n = 0 THEN left ELSE left - n
             /\ server' = IF n = 0 \/ left' = 0 THEN "closed" ELSE "sending"
    BY <1>13 DEF Send, Rest
  <2>2. /\ server = "sending"
        /\ UNCHANGED <<givenVars, apiVars, rdata, full, published, status, stalls>>
    BY <1>13 DEF Send
  <2>3. /\ n \in Nat /\ n <= left /\ n <= room - buffer
        /\ AnswerLength <= room => n = left \/ Gone
    BY <2>1, <2>2 DEF AtMost, apiVars
  <2>4. left' = left - n
    BY <2>1, <2>2, <2>3
  <2>5. TypeOK'
    BY <2>1, <2>2, <2>3, <2>4 DEF apiVars
  <2>6. Answering'
    BY <2>1, <2>2, <2>3, <2>4 DEF apiVars
  <2>7. Sides'
    BY <2>2 DEF apiVars
  <2>8. CursorsArePublished'
    BY <2>2 DEF apiVars
  <2> QED
    BY <2>5, <2>6, <2>7, <2>8
<1>14. CASE TimeOut
  BY <1>14 DEF TimeOut, apiVars, answerVars
<1>15. CASE Kill
  BY <1>15 DEF Kill, apiVars, answerVars
<1>16. CASE UNCHANGED vars
  BY <1>16 DEF vars, apiVars, serverVars, answerVars
<1> QED
  BY <1>1, <1>2, <1>3, <1>4, <1>5, <1>6, <1>7, <1>8, <1>9, <1>10, <1>11, <1>12, <1>13,
     <1>14, <1>15, <1>16
  DEF Next, API, Server

(* Every state of a call, of the connection and of the server is one of    *)
(* those declared, whatever ends the connection.                           *)
THEOREM TypeCorrect == Spec => []TypeOK
<1>1. IInv => TypeOK
  BY DEF IInv
<1> QED
  BY <1>1, InitInv, StepInv, PTL DEF Spec

(* What internalSend (Realplexor.php:231) returns are the cursors of data  *)
(* that was published, all of them; an empty result promises nothing.      *)
THEOREM ReturnedIsPublished == Spec => []CursorsArePublished
<1>1. IInv => CursorsArePublished
  BY DEF IInv
<1> QED
  BY <1>1, InitInv, StepInv, PTL DEF Spec

(* The server publishes the whole of a request that was written whole, and *)
(* of any that a returned call of the Python API wrote, if it fits         *)
(* IN_MAXLEN (In.h:91) and no read filled its buffer exactly               *)
(* (Socket.h:111); otherwise it publishes what it has.                     *)
THEOREM WrittenIsPublished == Spec => []PublishesWhole
<1>1. IInv => PublishesWhole
  BY ApiSendAssumption DEF IInv, TypeOK, Sides, PublishesWhole, wire
<1> QED
  BY <1>1, InitInv, StepInv, PTL DEF Spec

(* Of a published request, an answer that fits the socket buffer arrives   *)
(* whole, and so does any that Socket::send (Socket.h:125) wrote to its    *)
(* end, at an API that has not given up (realplexor.py:210), over a        *)
(* connection that is not reset.                                           *)
THEOREM WrittenIsRead == Spec => []WhatFitsArrives
<1>1. IInv => WhatFitsArrives
  BY ApiSendAssumption DEF IInv, TypeOK, Answering, WhatFitsArrives
<1> QED
  BY <1>1, InitInv, StepInv, PTL DEF Spec
=============================================================================
