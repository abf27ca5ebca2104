------------------------------ MODULE Watchdog ------------------------------
(***************************************************************************)
(* The two processes of the daemon.  The parent (main) forks a child that  *)
(* serves (mainloop), waits for its end, kills it when it takes too much   *)
(* memory and forks another; the administrator and the init scripts send   *)
(* SIGHUP, SIGINT and SIGTERM to the parent, whose PID is in the PID file. *)
(* The parent's variable pid is what kill() is given, whatever it holds.   *)
(***************************************************************************)
EXTENDS Integers, FiniteSets

CONSTANTS MaxForks, MaxFailures, MaxSignals, MaxCrashes   \* bounds of the model

ASSUME WatchdogAssumption ==
  {MaxForks, MaxFailures, MaxSignals, MaxCrashes} \subseteq Nat

Children == 1 .. MaxForks

VARIABLES
  pc,        \* of the parent: where the loop, or the exit, is
  handlers,  \* "default" or "set": disposition of HUP, INT and TERM
  pid,       \* the parent's variable pid: 0, a child or -1
  child,     \* child -> "none", "starting", "serving", "closing" or "dead"
  pid_file,  \* does the PID file exist
  everybody, \* a signal was sent to PID -1, that is to all processes
  hangup,    \* a SIGHUP waits for the event loop of the child
  forks, failures, signals, crashes

parent == <<pc, handlers, pid, pid_file>>
children == <<child, everybody, hangup>>
counters == <<forks, failures, signals, crashes>>
vars == <<parent, children, counters>>

Init ==
  /\ pc = "top" /\ handlers = "default" /\ pid = 0
  /\ child = [c \in Children |-> "none"]
  /\ pid_file = TRUE /\ everybody = FALSE /\ hangup = FALSE
  /\ forks = 0 /\ failures = 0 /\ signals = 0 /\ crashes = 0

Alive(states) == {c \in Children : states[c] \in {"starting", "serving", "closing"}}

----------------------------------------------------------------------------
(* kill(pid, signal): -1 stands for every process there is, and the PID of *)
(* a dead child for none.                                                  *)
Kill(effect) ==
  /\ UNCHANGED hangup
  /\ everybody' = (everybody \/ pid = -1)
  /\ child' = IF pid \in Alive(child) THEN [child EXCEPT ![pid] = effect] ELSE child

(* A child leaves SIGINT to its event loop once that has been set up.      *)
Interrupted == IF pid \in Alive(child) /\ child[pid] = "starting" THEN "dead" ELSE "closing"

----------------------------------------------------------------------------
(* The parent.                                                             *)

At(here, there) == pc = here /\ pc' = there

(* The handlers are reset, so that the child inherits the default ones.    *)
ResetHandlers ==
  /\ At("top", "fork") /\ handlers' = "default"
  /\ UNCHANGED <<pid, pid_file, children, counters>>

Fork ==
  /\ At("fork", "forked")
  /\ \/ /\ forks < MaxForks /\ forks' = forks + 1
        /\ pid' = forks + 1 /\ child' = [child EXCEPT ![forks + 1] = "starting"]
        /\ hangup' = FALSE /\ UNCHANGED failures
     \/ /\ failures < MaxFailures /\ failures' = failures + 1
        /\ pid' = -1 /\ UNCHANGED <<child, hangup, forks>>
  /\ UNCHANGED <<handlers, pid_file, everybody, signals, crashes>>

SetHandlers ==
  /\ At("forked", "wait") /\ handlers' = "set"
  /\ UNCHANGED <<pid, pid_file, children, counters>>

(* Mutants of Ended: the wait for a child ends at once, or never.          *)
EndedAtOnce == TRUE
EndedNever == FALSE

(* waitpid() returns -1: SIGCHLD is ignored, so a dead child leaves none   *)
(* to wait for.                                                            *)
Ended == IF pid = -1 THEN Alive(child) = {} ELSE pid \notin Alive(child)

Wait ==
  /\ pc = "wait" /\ pc' = IF Ended THEN "pause" ELSE "check"
  /\ UNCHANGED <<handlers, pid, pid_file, children, counters>>

(* get_memory_usage: a child within MAX_MEM_MB is waited for again, one    *)
(* above is interrupted.                                                   *)
CheckMemory ==
  /\ \/ At("check", "wait") /\ UNCHANGED children
     \/ /\ At("check", "kill") /\ pid \in Alive(child)
        /\ Kill(Interrupted)
  /\ UNCHANGED <<handlers, pid, pid_file, counters>>

(* Mutant of GracefulKill: a child that is busy is left alone.             *)
GracefulKillGentle == UNCHANGED children

(* graceful_kill a second after SIGINT: whoever is still there, SIGKILL.   *)
GracefulKill ==
  IF pid = -1 \/ pid \in Alive(child) THEN Kill("dead") ELSE UNCHANGED children

KillChild ==
  /\ At("kill", "pause") /\ GracefulKill
  /\ UNCHANGED <<handlers, pid, pid_file, counters>>

Pause ==
  /\ At("pause", "top")
  /\ UNCHANGED <<handlers, pid, pid_file, children, counters>>

(* The end of the atexit handler and of the process.                       *)
Exit ==
  /\ At("exit", "dead") /\ GracefulKill
  /\ pid_file' = FALSE
  /\ UNCHANGED <<handlers, pid, counters>>

Parent == ResetHandlers \/ Fork \/ SetHandlers \/ Wait \/ CheckMemory \/ KillChild \/ Pause \/ Exit

----------------------------------------------------------------------------
(* Signals to the parent.                                                  *)

Signal == pc # "dead" /\ signals < MaxSignals /\ signals' = signals + 1

(* SIGHUP, SIGINT or SIGTERM while the default dispositions are in place.  *)
DieOfSignal ==
  /\ Signal /\ handlers = "default"
  /\ pc' = "dead"
  /\ UNCHANGED <<handlers, pid, pid_file, children, forks, failures, crashes>>

(* Mutant of PassHangup: a child that has no handler yet is left alone.    *)
PassHangupLate ==
  /\ Signal /\ handlers = "set"
  /\ everybody' = (everybody \/ pid = -1) /\ UNCHANGED child
  /\ hangup' = (hangup \/ (pid \in Alive(child) /\ child[pid] # "starting"))
  /\ UNCHANGED <<parent, forks, failures, crashes>>

(* SIGHUP is passed on: it waits for the event loop of the child, which    *)
(* dies if it has no handler yet.                                          *)
PassHangup ==
  /\ Signal /\ handlers = "set"
  /\ IF pid \in Alive(child) /\ child[pid] # "starting"
     THEN hangup' = TRUE /\ UNCHANGED <<child, everybody>>
     ELSE Kill("dead")
  /\ UNCHANGED <<parent, forks, failures, crashes>>

(* SIGINT or SIGTERM: exit(1) runs the atexit handler, which interrupts    *)
(* the child and sleeps a second.                                          *)
ExitOnSignal ==
  /\ Signal /\ handlers = "set" /\ pc # "exit"
  /\ pc' = "exit" /\ Kill(Interrupted)
  /\ UNCHANGED <<handlers, pid, pid_file, forks, failures, crashes>>

(* exit() within exit() is undefined; here the C library goes on with the  *)
(* handlers that are left, of which there are none.                        *)
ExitTwice ==
  /\ Signal /\ pc = "exit"
  /\ pc' = "dead"
  /\ UNCHANGED <<handlers, pid, pid_file, children, forks, failures, crashes>>

----------------------------------------------------------------------------
(* Children.                                                               *)

(* mainloop has opened its sockets and catches SIGHUP and SIGINT.          *)
Serve(c) ==
  /\ child[c] = "starting" /\ child' = [child EXCEPT ![c] = "serving"]
  /\ UNCHANGED <<parent, everybody, hangup, counters>>

(* mainloop throws, for example because the config cannot be loaded.       *)
FailToStart(c) ==
  /\ child[c] = "starting" /\ child' = [child EXCEPT ![c] = "dead"]
  /\ UNCHANGED <<parent, everybody, hangup, counters>>

(* The event loop gets round to SIGHUP: the child reloads its config, or   *)
(* ends for the sake of a low-level option.                                *)
HandleHangup(c) ==
  /\ hangup /\ child[c] \in {"serving", "closing"}
  /\ hangup' = FALSE
  /\ \/ UNCHANGED child
     \/ child' = [child EXCEPT ![c] = "dead"]
  /\ UNCHANGED <<parent, everybody, counters>>

(* The event loop gets round to SIGINT.                                    *)
Close(c) ==
  /\ child[c] = "closing" /\ child' = [child EXCEPT ![c] = "dead"]
  /\ UNCHANGED <<parent, everybody, hangup, counters>>

(* Any other end: an exception, a signal sent to the child itself.         *)
Crash(c) ==
  /\ crashes < MaxCrashes /\ crashes' = crashes + 1
  /\ c \in Alive(child) /\ child' = [child EXCEPT ![c] = "dead"]
  /\ UNCHANGED <<parent, everybody, hangup, forks, failures, signals>>

Child(c) == FailToStart(c) \/ Serve(c) \/ HandleHangup(c) \/ Close(c) \/ Crash(c)

Next ==
  \/ Parent \/ DieOfSignal \/ PassHangup \/ ExitOnSignal \/ ExitTwice
  \/ \E c \in Children : Child(c)

Spec == Init /\ [][Next]_vars

----------------------------------------------------------------------------
(* Types, and no child is forked with the handlers of its parent.          *)
TypeOK ==
  /\ pc \in {"top", "fork", "forked", "wait", "check", "kill", "pause", "exit", "dead"}
  /\ handlers \in {"default", "set"} /\ pid \in Children \cup {0, -1}
  /\ child \in [Children -> {"none", "starting", "serving", "closing", "dead"}]
  /\ pc \in {"fork", "forked"} => handlers = "default"
  /\ pid_file \in BOOLEAN /\ everybody \in BOOLEAN /\ hangup \in BOOLEAN
  /\ forks \in 0 .. MaxForks /\ failures \in 0 .. MaxFailures
  /\ signals \in 0 .. MaxSignals /\ crashes \in 0 .. MaxCrashes

(* There is never more than one child, however one before it ended: two    *)
(* servers could not both listen on the ports.                             *)
OneChild == Cardinality(Alive(child)) <= 1

(* A child without a parent can still be found out: the PID file that      *)
(* names its dead parent is removed only when the child is gone.           *)
PidFileOutlivesChild == ~ pid_file => Alive(child) = {}
=============================================================================
