------------------------------ MODULE ApiSend -------------------------------
(***************************************************************************)
(* One publication by the PHP or Python API: internalSend (_send) opens a  *)
(* connection to the IN line, writes the request, shuts its side down and  *)
(* reads the answer to its end, while the server handles the connection    *)
(* (module InConnection) and may be killed at any time.  The API gives up  *)
(* at a timeout of its own, too.                                           *)
(***************************************************************************)
EXTENDS Integers

CONSTANTS
  RequestLength,  \* units of the model; the first are the headers
  AnswerLength,   \* the same
  MaxLens,        \* values of IN_MAXLEN
  Rooms,          \* sizes of the server's socket buffer
  MaxStalls       \* bound of the model

ASSUME ApiSendAssumption ==
  /\ RequestLength \in Nat \ {0} /\ AnswerLength \in Nat \ {0}
  /\ MaxLens \subseteq Nat /\ Rooms \subseteq Nat \ {0} /\ MaxStalls \in Nat

VARIABLES
  api,        \* "connecting", "writing", "shutting", "reading", "analyzing",
              \* "returned" or "thrown"
  result,     \* what has been read: units of the answer
  late,       \* a timeout of the API has expired
  written,    \* units of the request the API has written
  eof,        \* its end is announced to the server
  server,     \* the process and the connection: "up", "open", "sending", "closed"
              \* or "down"
  writes_all, \* Python's sendall does; PHP's fwrite may write less
  authorised, \* are the credentials right
  in_maxlen,  \* IN_MAXLEN
  rdata,      \* units of the request the server has received
  full,       \* a read of the last of them filled the buffer exactly
  published,  \* units of them it has published, or Nothing
  status,     \* of the answer: 0 as long as there is none, 200 or 403
  left,       \* units of it that Socket::send has still to write
  room,       \* size of the socket buffer
  buffer,     \* units in it, or on their way
  stalls

givenVars == <<writes_all, authorised, in_maxlen, room>>
apiVars == <<api, result, late, written, eof>>
serverVars == <<server, rdata, full, published, status>>
answerVars == <<left, buffer>>
vars == <<givenVars, apiVars, serverVars, answerVars, stalls>>

Nothing == -1

Init ==
  /\ writes_all \in BOOLEAN /\ authorised \in BOOLEAN
  /\ in_maxlen \in MaxLens /\ room \in Rooms
  /\ api = "connecting" /\ result = 0 /\ late = FALSE /\ written = 0 /\ eof = FALSE
  /\ server \in {"up", "down"} /\ rdata = 0 /\ full = FALSE
  /\ published = Nothing /\ status = 0
  /\ left = 0 /\ buffer = 0 /\ stalls = 0

----------------------------------------------------------------------------
(* The API.                                                                *)

(* The server has the connection and waits for more of the request.        *)
Connected == server = "open"

(* What of the request is on its way.                                      *)
wire == written - rdata

(* The connection of a server that went away, or had not read all of the   *)
(* request, is reset: what is still in the buffer may be lost.             *)
IsReset == server = "down" \/ (server = "closed" /\ wire > 0)

Connect ==
  /\ api = "connecting"
  /\ IF server = "up" THEN api' = "writing" /\ server' = "open"
                      ELSE api' = "thrown" /\ UNCHANGED server
  /\ UNCHANGED <<givenVars, result, late, written, eof, rdata, full, published, status,
                 answerVars, stalls>>

(* fwrite and sendall write on, fwrite also less than all, which is no     *)
(* error.  What has been written may never be read.                        *)
Write ==
  /\ api = "writing"
  /\ \/ \E n \in 1 .. RequestLength - written :
          /\ written' = written + n
          /\ api' = IF written' = RequestLength THEN "shutting" ELSE "writing"
     \/ ~ writes_all /\ api' = "shutting" /\ UNCHANGED written
     \/ IsReset /\ api' = "thrown" /\ UNCHANGED written
  /\ UNCHANGED <<givenVars, result, late, eof, serverVars, answerVars, stalls>>

(* Mutant of ShutdownWrite: the writing side stays open.                   *)
ShutdownNothing ==
  /\ api = "shutting" /\ api' = "reading"
  /\ UNCHANGED <<givenVars, result, late, written, eof, serverVars, answerVars, stalls>>

ShutdownWrite ==
  /\ api = "shutting"
  /\ \/ api' = "reading" /\ eof' = TRUE
     \/ IsReset /\ api' = "thrown" /\ UNCHANGED eof
  /\ UNCHANGED <<givenVars, result, late, written, serverVars, answerVars, stalls>>

(* stream_get_contents and the loop over recv: a part of what there is.    *)
ReadSome ==
  /\ api = "reading" /\ buffer > 0
  /\ \E n \in 1 .. buffer : buffer' = buffer - n /\ result' = result + n
  /\ UNCHANGED <<givenVars, api, late, written, eof, serverVars, left, stalls>>

(* shutdown(2) ends the connection behind what is in the buffer.           *)
Drained == server = "closed" /\ buffer = 0

(* The end of the answer.  PHP takes a reset for one, Python throws.       *)
ReadEnd ==
  /\ api = "reading"
  /\ \/ (Drained \/ IsReset) /\ api' = "analyzing"
     \/ IsReset /\ api' = "thrown"
  /\ UNCHANGED <<givenVars, result, late, written, eof, serverVars, answerVars, stalls>>

(* The timeout of a call on the socket, whatever the server is doing.  It  *)
(* is an error, and the socket is closed with part of the request written, *)
(* except where PHP reads: stream_get_contents returns what there was.     *)
GiveUp ==
  /\ late' = TRUE
  /\ \/ api = "connecting" /\ api' = "thrown" /\ UNCHANGED eof
     \/ api = "writing" /\ (writes_all \/ written = 0) /\ api' = "thrown" /\ eof' = TRUE
     \/ /\ api = "reading" /\ UNCHANGED eof
        /\ api' = IF writes_all THEN "thrown" ELSE "analyzing"
  /\ UNCHANGED <<givenVars, result, written, serverVars, answerVars, stalls>>

(* Mutant of Accepted: the status of the answer is not looked at.          *)
AcceptedOfAnyStatus == result = 0 \/ result = AnswerLength

(* An empty result is returned as it is, any other checked.                *)
Accepted == result = 0 \/ (status = 200 /\ result = AnswerLength)

Analyze ==
  /\ api = "analyzing"
  /\ api' = IF Accepted THEN "returned" ELSE "thrown"
  /\ UNCHANGED <<givenVars, result, late, written, eof, serverVars, answerVars, stalls>>

API == Connect \/ Write \/ ShutdownWrite \/ ReadSome \/ ReadEnd \/ Analyze

----------------------------------------------------------------------------
(* The IN connection.                                                      *)

(* _send_response: Socket::send is given the answer.                       *)
Respond(code) ==
  /\ server' = "sending" /\ status' = code
  /\ left' = AnswerLength /\ UNCHANGED buffer

(* The next n units are read.                                              *)
Chunk(n) ==
  /\ Connected /\ rdata' = rdata + n
  /\ UNCHANGED <<givenVars, apiVars, stalls>>

(* onread refuses the credentials, which part of the headers may hold.     *)
Refuse ==
  /\ ~ authorised
  /\ \E n \in 0 .. wire : Chunk(n)
  /\ Respond(403)
  /\ UNCHANGED <<full, published>>

(* onread keeps the chunk.                                                 *)
Receive ==
  /\ authorised
  /\ \E n \in 1 .. wire : Chunk(n) /\ rdata + n <= in_maxlen
  /\ UNCHANGED <<server, full, published, status, answerVars>>

(* onclose: if the pairs are known and the headers complete, the data is   *)
(* published and then answered, whatever ended the connection.             *)
Close(known) ==
  IF known /\ rdata' > 0
  THEN published' = rdata' /\ Respond(200)
  ELSE server' = "closed" /\ UNCHANGED <<published, status, answerVars>>

(* onread dies: more than IN_MAXLEN has been received.                     *)
Overflow ==
  /\ authorised
  /\ \E n \in 1 .. wire : Chunk(n) /\ rdata + n > in_maxlen
  /\ Close(TRUE)
  /\ UNCHANGED full

(* A read of exactly 32768 bytes: the next one dies before onread could    *)
(* look at them, so the pairs are known only from what came earlier.       *)
FullRead ==
  /\ \E n \in 1 .. wire : Chunk(n)
  /\ full' = TRUE
  /\ \E known \in {authorised, rdata > 0} : Close(known)

(* Mutant of Complete: the end of the headers is taken for the end.        *)
CompleteAtHeaders == rdata > 0

(* EOF, not the Content-Length of the request, is the end of the body.     *)
Complete == wire = 0 /\ eof

Finish ==
  /\ Complete /\ Chunk(0)
  /\ Close(authorised)
  /\ UNCHANGED full

AtMost(n, space) == IF n <= space THEN n ELSE space

(* Mutant of Rest: a short write is taken for the whole, as by the send of *)
(* the prototype.                                                          *)
RestForgotten(n) == 0

(* len -= n: the loop goes on with what write has not taken.               *)
Rest(n) == left - n

(* The API has closed its socket.                                          *)
Gone == api \in {"analyzing", "returned", "thrown"}

(* One write of Socket::send to the non-blocking socket: it takes what     *)
(* fits, or fails with EAGAIN, or because the API is gone, which ends the  *)
(* loop with the rest unsent.  Then the connection is shut down.           *)
Send ==
  /\ server = "sending"
  /\ \E n \in {AtMost(left, room - buffer)} \cup (IF Gone THEN {0} ELSE {}) :
        /\ buffer' = buffer + n
        /\ left' = IF n = 0 THEN left ELSE Rest(n)
        /\ server' = IF n = 0 \/ left' = 0 THEN "closed" ELSE "sending"
  /\ UNCHANGED <<givenVars, apiVars, rdata, full, published, status, stalls>>

(* IN_TIMEOUT without any data: ontimeout drops what there is.             *)
TimeOut ==
  /\ Connected /\ stalls < MaxStalls /\ stalls' = stalls + 1
  /\ server' = "closed"
  /\ UNCHANGED <<givenVars, apiVars, rdata, full, published, status, answerVars>>

(* The process ends, as for a reload of a low-level option.                *)
Kill ==
  /\ server \in {"up", "open", "sending"} /\ stalls < MaxStalls /\ stalls' = stalls + 1
  /\ server' = "down"
  /\ UNCHANGED <<givenVars, apiVars, rdata, full, published, status, answerVars>>

Server == Refuse \/ Receive \/ Overflow \/ FullRead \/ Finish \/ Send

Next == API \/ GiveUp \/ Server \/ TimeOut \/ Kill

Spec == Init /\ [][Next]_vars

(* Both sides go on; the server handles what it can.  That the API gives   *)
(* up is not needed for a call to end.                                     *)
FairSpec == Spec /\ WF_vars(API) /\ WF_vars(Server)

----------------------------------------------------------------------------
TypeOK ==
  /\ writes_all \in BOOLEAN /\ authorised \in BOOLEAN
  /\ in_maxlen \in MaxLens /\ room \in Rooms
  /\ api \in {"connecting", "writing", "shutting", "reading", "analyzing", "returned", "thrown"}
  /\ result \in 0 .. AnswerLength /\ late \in BOOLEAN
  /\ written \in 0 .. RequestLength /\ eof \in BOOLEAN
  /\ server \in {"up", "open", "sending", "closed", "down"}
  /\ rdata \in 0 .. written /\ full \in BOOLEAN
  /\ published \in Nothing .. RequestLength /\ status \in {0, 200, 403}
  /\ left \in 0 .. AnswerLength /\ buffer \in 0 .. room
  /\ stalls \in 0 .. MaxStalls

(* A call that returns cursors has published, and it has all of them: not  *)
(* those of a request that was refused, nor the first few of an answer     *)
(* that was cut off (Realplexor.php:274-293).                              *)
CursorsArePublished ==
  api = "returned" /\ result > 0 => published # Nothing /\ result = AnswerLength

(* Whatever the server publishes of a request that fits IN_MAXLEN, unless  *)
(* a read filled its buffer exactly (Socket.h:111), is the whole of it if  *)
(* the whole was written, and always where a call of the Python API does   *)
(* return (sendall, realplexor.py:208), with cursors or without.           *)
PublishesWhole ==
  published # Nothing /\ RequestLength <= in_maxlen /\ ~ full =>
    /\ written = RequestLength => published = RequestLength
    /\ writes_all /\ api = "returned" => published = RequestLength

(* An answer of which all was written, and one that fits the socket buffer *)
(* always is (Socket.h:125), arrives whole, however slowly the API reads,  *)
(* and the call of a request that was published does not fail then; unless *)
(* the API has given up before, or the server left part of the request     *)
(* unread, which resets the connection.                                    *)
WhatFitsArrives ==
  (/\ server = "closed" /\ published # Nothing
   /\ left = 0 \/ AnswerLength <= room
   /\ ~ late /\ ~ IsReset)
    => /\ api # "thrown"
       /\ api \in {"analyzing", "returned"} => result = AnswerLength

(* The call ends, also when the server is killed or refuses to answer:     *)
(* each side waits for the other's end of the connection                   *)
(* (Realplexor.php:262-265, Server.h:120-125).                             *)
CallEnds == <>(api \in {"returned", "thrown"})
=============================================================================
