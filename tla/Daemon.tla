------------------------------- MODULE Daemon -------------------------------
(***************************************************************************)
(* The daemon: the processes of module Watchdog, whose children load the   *)
(* files of module ConfigReload when they start and when the watchdog      *)
(* passes them a SIGHUP.  A signal is handled only when the child's event  *)
(* loop gets round to it, and files are edited at any time.                *)
(***************************************************************************)
EXTENDS Watchdog, ConfigOptions

VARIABLES
  custom, users_file, script_file,          \* see ConfigReload
  running, config, members, users, opened,
  edits, hangups,
  asked   \* history: a SIGHUP was passed on, and no file edited since

C == INSTANCE ConfigReload

configVars == <<custom, users_file, script_file, config, members, users, opened, edits, hangups>>
daemonVars == <<vars, configVars, running, asked>>

DaemonInit == Init /\ C!Init /\ asked = FALSE

Edit == C!Edit /\ asked' = FALSE /\ UNCHANGED vars

(* Whatever ends the child ends what it had loaded.                        *)
Keep == running' = (running /\ Alive(child') # {}) /\ UNCHANGED configVars

Processes ==
  /\ Parent \/ DieOfSignal \/ ExitOnSignal \/ ExitTwice \/ \E c \in Children : Close(c) \/ Crash(c)
  /\ Keep /\ UNCHANGED asked

Hangup == PassHangup /\ Keep /\ asked' = TRUE

(* Mutant of Load: a child that cannot load the files goes on with what it *)
(* has inherited.                                                          *)
LoadAnyway(c) ==
  /\ child[c] = "starting"
  /\ \/ C!Start
     \/ ~ running /\ ~ C!Loads /\ running' = TRUE /\ UNCHANGED configVars
  /\ UNCHANGED <<vars, asked>>

(* The beginning of mainloop, which throws if the config does not load.    *)
Load(c) ==
  /\ child[c] = "starting" /\ C!Start
  /\ UNCHANGED <<vars, asked>>

CannotLoad(c) ==
  /\ ~ running /\ ~ C!Loads /\ FailToStart(c)
  /\ Keep /\ UNCHANGED asked

CatchSignals(c) == running /\ Serve(c) /\ Keep /\ UNCHANGED asked

HandleReload(c) ==
  /\ HandleHangup(c) /\ (C!Reload \/ C!ReloadFails)
  /\ running' = (child'[c] # "dead")
  /\ UNCHANGED asked

Server(c) == Load(c) \/ CannotLoad(c) \/ CatchSignals(c) \/ HandleReload(c)

DaemonNext == Edit \/ Processes \/ Hangup \/ \E c \in Children : Server(c)

DaemonSpec == DaemonInit /\ [][DaemonNext]_daemonVars

(* The parent runs, and its child.                                         *)
FairDaemon ==
  DaemonSpec /\ WF_daemonVars(Parent /\ Keep /\ UNCHANGED asked)
             /\ \A c \in Children : WF_daemonVars(Server(c))

----------------------------------------------------------------------------
(* The daemon is a watchdog of servers, and a server that loads and        *)
(* reloads its config, when signals and ends come from the watchdog.       *)
ImplementsConfigReload == C!Spec

(* The parsed members a server works with are those of one config, also    *)
(* after a reload that failed half-way (Config.h:109).                     *)
MembersFollowConfig == C!MembersFollowConfig

(* No SIGHUP is lost between the watchdog and its children: once none is   *)
(* waiting, the config in use is that of the files as they were when the   *)
(* last one was sent, whether the child was serving, starting or dead.     *)
HangupIsNotLost ==
  asked /\ running /\ ~ hangup /\ C!Loads => config = C!Read /\ users = C!ReadUsers

(* The options that the expression of reload names (Config.h:103), of      *)
(* which IN_ADDR and IN_TIMEOUT are none, can only change with the child:  *)
(* once no SIGHUP is waiting, the one that runs was started with what the  *)
(* files say of them, however many children and reloads were before.       *)
NamedOptionsInForce ==
  asked /\ running /\ ~ hangup /\ C!Loads => \A o \in LowLevel : opened[o] = C!Read[o]

(* A parent that lives has a child serving again and again, with the files *)
(* it was asked to reload, whatever ends the children, however often       *)
(* fork() fails and whatever was wrong with the files before.              *)
ServesAgain ==
  []<>(\/ pc = "dead" \/ forks = MaxForks \/ ~ C!Loads
       \/ /\ \E c \in Children : child[c] = "serving"
          /\ asked => config = C!Read)
=============================================================================
