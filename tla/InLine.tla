------------------------------- MODULE InLine -------------------------------
(***************************************************************************)
(* cpp/Realplexor/Event/Server.h around a connection of the IN line: it is *)
(* accepted into a closure with an I/O watcher and a timer, both of whose  *)
(* handlers may delete the closure they belong to.  The event loop (libev) *)
(* collects events and calls their handlers later, in any order.  What a   *)
(* handler does to the connection is an action of InConnection.            *)
(***************************************************************************)
EXTENDS InConnection

CONSTANT MaxFiles   \* RLIMIT_NOFILE, less what is open anyway

ASSUME MaxFilesAssumption == MaxFiles \in Nat \ {0}

VARIABLES
  running,  \* the process is there
  place,    \* the connection is "new", "queued" in the backlog of the
            \* listening socket, "accepted", and its closure is there, or "over"
  written,  \* number of tokens the client has sent
  end,      \* the client's end: "none" yet, "eof" or "reset"
  stopped,  \* shutdown(0) was called, so that reading comes to an end
  pending,  \* watchers of the closure with an event to handle: "io", "timer"
  counting, \* is the timer active
  others    \* other connections, of both lines, that are open

loopVars == <<running, place, written, end, stopped, pending, counting, others>>
lineVars == <<vars, loopVars>>

LineInit ==
  /\ Init
  /\ running = TRUE /\ place = "new" /\ written = 0 /\ end = "none" /\ stopped = FALSE
  /\ pending = {} /\ counting = FALSE /\ others \in 0 .. MaxFiles

----------------------------------------------------------------------------
(* Clients.                                                                *)

Connect ==
  /\ running /\ place = "new" /\ place' = "queued"
  /\ UNCHANGED <<vars, running, written, end, stopped, pending, counting, others>>

Send ==
  /\ place \in {"queued", "accepted"} /\ end = "none"
  /\ \/ written < Len(stream) /\ written' = written + 1 /\ UNCHANGED end
     \/ end' \in {"eof", "reset"} /\ UNCHANGED written
  /\ UNCHANGED <<vars, running, place, stopped, pending, counting, others>>

----------------------------------------------------------------------------
(* The listening socket.                                                   *)

Room == others + (IF place = "accepted" THEN 1 ELSE 0) < MaxFiles

OthersComeAndGo ==
  /\ running
  /\ \/ Room /\ others' = others + 1
     \/ others > 0 /\ others' = others - 1
  /\ UNCHANGED <<vars, running, place, written, end, stopped, pending, counting>>

(* The connection gets its closure, and both watchers are started.         *)
handle_connect ==
  /\ running /\ place = "queued" /\ Room
  /\ place' = "accepted" /\ counting' = TRUE
  /\ UNCHANGED <<vars, running, written, end, stopped, pending, others>>

(* No closure is deleted when the process ends, and no onclose is run.     *)
Ends ==
  /\ conn' = "closed" /\ ended' = "killed"
  /\ UNCHANGED <<rdata, pairs, login, answers, published>>

(* Nobody catches what die() throws when accept() fails, for this client   *)
(* or another one: the process ends, as it does on exit() or a signal.     *)
ProcessEnds ==
  /\ running /\ place \in {"queued", "accepted"}
  /\ Ends
  /\ running' = FALSE /\ place' = "over" /\ pending' = {} /\ counting' = FALSE /\ others' = 0
  /\ UNCHANGED <<stream, config, taken, written, end, stopped>>

AcceptFails == ~ Room /\ ProcessEnds

----------------------------------------------------------------------------
(* Events.                                                                 *)

Ended == end # "none" \/ stopped

(* The loop polls the descriptor; the event may also be an error.          *)
Readable ==
  /\ place = "accepted" /\ (written > taken \/ Ended)
  /\ pending' = pending \cup {"io"}
  /\ UNCHANGED <<vars, running, place, written, end, stopped, counting, others>>

(* IN_TIMEOUT after the start or the last read.                            *)
Expire ==
  /\ place = "accepted" /\ counting
  /\ pending' = pending \cup {"timer"}
  /\ UNCHANGED <<vars, running, place, written, end, stopped, counting, others>>

(* Mutant of Repeats: the timer is set to expire once.                     *)
RepeatsNever == FALSE

(* The timer is set with a repeat, so that again() starts it anew.         *)
Repeats == TRUE

(* Mutant of Released: only the event that is handled is removed.          *)
ReleasedOnly(w) == pending \ {w}

(* The destructors of both watchers stop them, which clears their events.  *)
Released(w) == {}

(* After handle_read: again() clears an event of the timer, too; otherwise *)
(* the closure is deleted, and the connection with it.  A handler that has *)
(* taken all data and goes on has answered a command and stopped reading.  *)
Rearm(w) ==
  /\ IF conn' = "open"
     THEN pending' = {} /\ counting' = Repeats /\ UNCHANGED place
     ELSE pending' = Released(w) /\ counting' = FALSE /\ place' = "over"
  /\ stopped' = (stopped \/ (conn' = "open" /\ rdata' = <<>>))
  /\ UNCHANGED <<running, written, end, others>>

(* read_available_data takes all there is.                                 *)
HandleRead ==
  /\ "io" \in pending
  /\ \/ /\ written > taken
        /\ LET n == written - taken
           IN Refuse(n) \/ CastFails(n) \/ Command(n) \/ Keep(n) \/ FullRead(n)
     \/ written = taken /\ Ended /\ NoMoreData("eof")
     \/ end = "reset" /\ NoMoreData("reset")
  /\ Rearm("io")

HandleError == "io" \in pending /\ Drop("error") /\ Rearm("io")

HandleTimeout == "timer" \in pending /\ Drop("timeout") /\ Rearm("timer")

Loop == handle_connect \/ AcceptFails \/ Readable \/ HandleRead \/ HandleError \/ HandleTimeout

LineNext == Connect \/ Send \/ OthersComeAndGo \/ ProcessEnds \/ Expire \/ Loop

LineSpec == LineInit /\ [][LineNext]_lineVars

(* The loop runs and time passes; nothing is asked of clients.             *)
FairLine ==
  /\ LineSpec
  /\ WF_lineVars(handle_connect \/ AcceptFails) /\ WF_lineVars(Expire)
  /\ WF_lineVars(HandleRead) /\ WF_lineVars(HandleTimeout)

----------------------------------------------------------------------------
(* No handler is called for a closure that another handler has deleted,    *)
(* however many events the loop had collected for its watchers before.     *)
NoEventOfTheDeleted == pending # {} => place = "accepted" /\ conn = "open"

(* A connection comes to its end, whatever its client sends and however it *)
(* falls silent: each read starts the timer anew, and the reads end.       *)
ConnectionEnds == (place = "queued") ~> (place = "over")
=============================================================================
