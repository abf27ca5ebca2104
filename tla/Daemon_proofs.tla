---------------------------- MODULE Daemon_proofs ----------------------------
(***************************************************************************)
(* Theorems about Watchdog, about ConfigReload, and about Daemon: it       *)
(* implements the two, so that their theorems hold of it, and no SIGHUP is *)
(* lost between them.                                                      *)
(***************************************************************************)
EXTENDS Daemon, FiniteSetTheorems, TLAPS

-----------------------------------------------------------------------------
(* The processes, for any number of forks, failures, signals and crashes.  *)

(* Whoever is alive is the child the parent knows of, and nobody is when   *)
(* the parent comes to fork.                                               *)
OnlyPid ==
  /\ Alive(child) \subseteq {pid}
  /\ pc \in {"pause", "top", "fork"} => Alive(child) = {}

(* The PID file is removed last, by a parent that has killed its child.    *)
FileGoesLast == ~ pid_file => pc = "dead" /\ Alive(child) = {}

IInv == TypeOK /\ OnlyPid /\ FileGoesLast

CountersOK ==
  /\ forks \in 0 .. MaxForks /\ failures \in 0 .. MaxFailures
  /\ signals \in 0 .. MaxSignals /\ crashes \in 0 .. MaxCrashes

States == {"none", "starting", "serving", "closing", "dead"}

LEMMA InitInv == Init => IInv
<1> SUFFICES ASSUME Init PROVE IInv
  OBVIOUS
<1>1. Alive(child) = {}
  BY DEF Init, Alive
<1>2. pid_file = TRUE /\ everybody \in BOOLEAN /\ hangup \in BOOLEAN
  BY Zenon DEF Init
<1>3. child \in [Children -> {"none", "starting", "serving", "closing", "dead"}]
  BY DEF Init
<1>4. TypeOK
  BY <1>2, <1>3, WatchdogAssumption DEF Init, TypeOK
<1> QED
  BY <1>1, <1>2, <1>4 DEF IInv, OnlyPid, FileGoesLast

(* A child that is killed, or whose state changes among those of a living  *)
(* process, leaves nobody new alive.                                       *)
LEMMA KillTypes ==
  ASSUME TypeOK, NEW effect \in States, Kill(effect)
  PROVE  /\ child' \in [Children -> States] /\ everybody' \in BOOLEAN /\ hangup' \in BOOLEAN
         /\ Alive(child') \subseteq Alive(child)
<1>1. everybody' \in BOOLEAN /\ hangup' \in BOOLEAN
  BY Zenon DEF Kill, TypeOK
<1> QED
  BY <1>1 DEF Kill, TypeOK, Alive, States

LEMMA KillEnds ==
  ASSUME TypeOK, OnlyPid, GracefulKill
  PROVE  /\ child' \in [Children -> States] /\ everybody' \in BOOLEAN /\ hangup' \in BOOLEAN
         /\ Alive(child') = {}
<1>1. CASE pid = -1 \/ pid \in Alive(child)
  <2>1. Kill("dead")
    BY <1>1 DEF GracefulKill
  <2>2. child' \in [Children -> States] /\ everybody' \in BOOLEAN /\ hangup' \in BOOLEAN
    BY <2>1, KillTypes DEF States
  <2>3. CASE pid \in Alive(child)
    BY <2>1, <2>2, <2>3 DEF Kill, Alive, OnlyPid, TypeOK
  <2>4. CASE pid \notin Alive(child)
    BY <2>1, <2>2, <2>4 DEF Kill, Alive, OnlyPid
  <2> QED
    BY <2>2, <2>3, <2>4
<1>2. CASE ~ (pid = -1 \/ pid \in Alive(child))
  <2>1. UNCHANGED children
    BY <1>2 DEF GracefulKill
  <2>2. Alive(child') = {}
    BY <1>2, <2>1 DEF children, OnlyPid, Alive
  <2> QED
    BY <2>1, <2>2 DEF children, TypeOK, States
<1> QED
  BY <1>1, <1>2

LEMMA InterruptedIsState == Interrupted \in States
BY DEF Interrupted, States

LEMMA StepInv == IInv /\ [Next]_vars => IInv'
<1> SUFFICES ASSUME IInv, [Next]_vars PROVE IInv'
  OBVIOUS
<1> USE DEF IInv
<1>1. CASE ResetHandlers
  BY <1>1 DEF ResetHandlers, At, children, counters, TypeOK, OnlyPid, FileGoesLast
<1>2. CASE Fork
  <2>0. /\ pc = "fork" /\ pc' = "forked"
        /\ UNCHANGED <<handlers, pid_file, everybody, signals, crashes>>
        /\ hangup' \in BOOLEAN
    BY <1>2 DEF Fork, At, TypeOK
  <2>1. CASE forks < MaxForks /\ forks' = forks + 1 /\ pid' = forks + 1
             /\ child' = [child EXCEPT ![forks + 1] = "starting"] /\ UNCHANGED failures
    <3>1. forks + 1 \in Children /\ forks + 1 \in 0 .. MaxForks
      BY <2>1, WatchdogAssumption DEF TypeOK, Children
    <3>2. TypeOK'
      BY <2>0, <2>1, <3>1 DEF TypeOK
    <3>3. Alive(child') \subseteq {pid'}
      BY <2>0, <2>1, <3>1 DEF TypeOK, OnlyPid, Alive
    <3> QED
      BY <2>0, <3>2, <3>3 DEF OnlyPid, FileGoesLast
  <2>2. CASE failures < MaxFailures /\ failures' = failures + 1 /\ pid' = -1
             /\ UNCHANGED <<child, forks>>
    <3>1. TypeOK'
      BY <2>0, <2>2, WatchdogAssumption DEF TypeOK
    <3> QED
      BY <2>0, <2>2, <3>1 DEF OnlyPid, FileGoesLast, Alive
  <2> QED
    BY <1>2, <2>1, <2>2 DEF Fork
<1>3. CASE SetHandlers
  BY <1>3 DEF SetHandlers, At, children, counters, TypeOK, OnlyPid, FileGoesLast
<1>4. CASE Wait
  <2>1. Ended => Alive(child) = {}
    BY DEF Ended, OnlyPid
  <2> QED
    BY <1>4, <2>1 DEF Wait, children, counters, TypeOK, OnlyPid, FileGoesLast
<1>5. CASE CheckMemory
  <2>1. UNCHANGED <<handlers, pid, pid_file, counters>> /\ pc = "check" /\ pc' \in {"wait", "kill"}
    BY <1>5 DEF CheckMemory, At
  <2>2. /\ child' \in [Children -> States] /\ everybody' \in BOOLEAN /\ hangup' \in BOOLEAN
        /\ Alive(child') \subseteq Alive(child)
    <3>1. CASE UNCHANGED children
      BY <3>1 DEF children, TypeOK, States
    <3>2. CASE Kill(Interrupted)
      BY <3>2, KillTypes, InterruptedIsState
    <3> QED
      BY <1>5, <3>1, <3>2 DEF CheckMemory
  <2> QED
    BY <2>1, <2>2 DEF counters, TypeOK, OnlyPid, FileGoesLast, States
<1>6. CASE KillChild
  BY <1>6, KillEnds DEF KillChild, At, counters, TypeOK, OnlyPid, FileGoesLast, States
<1>7. CASE Pause
  BY <1>7 DEF Pause, At, children, counters, TypeOK, OnlyPid, FileGoesLast
<1>8. CASE Exit
  <2>1. TypeOK'
    BY <1>8, KillEnds DEF Exit, At, counters, TypeOK, States
  <2> QED
    BY <1>8, <2>1, KillEnds DEF Exit, At, OnlyPid, FileGoesLast
<1>9. CASE DieOfSignal
  BY <1>9, WatchdogAssumption DEF DieOfSignal, Signal, children, TypeOK, OnlyPid, FileGoesLast
<1>10. CASE PassHangup
  <2>1. UNCHANGED <<parent, forks, failures, crashes>> /\ pc # "dead"
        /\ signals' \in 0 .. MaxSignals
    BY <1>10, WatchdogAssumption DEF PassHangup, Signal, TypeOK
  <2>2. CASE Kill("dead")
    <3>1. /\ child' \in [Children -> States] /\ everybody' \in BOOLEAN /\ hangup' \in BOOLEAN
          /\ Alive(child') \subseteq Alive(child)
      BY <2>2, KillTypes DEF States
    <3> QED
      BY <2>1, <3>1 DEF parent, TypeOK, OnlyPid, FileGoesLast, States
  <2>3. CASE hangup' = TRUE /\ UNCHANGED <<child, everybody>>
    BY <2>1, <2>3 DEF parent, TypeOK, OnlyPid, FileGoesLast, Alive
  <2> QED
    BY <1>10, <2>2, <2>3 DEF PassHangup
<1>11. CASE ExitOnSignal
  <2>1. UNCHANGED <<handlers, pid, pid_file, forks, failures, crashes>> /\ pc' = "exit"
        /\ pc # "dead" /\ signals' \in 0 .. MaxSignals
    BY <1>11, WatchdogAssumption DEF ExitOnSignal, Signal, TypeOK
  <2>2. /\ child' \in [Children -> States] /\ everybody' \in BOOLEAN /\ hangup' \in BOOLEAN
        /\ Alive(child') \subseteq Alive(child)
    BY <1>11, KillTypes, InterruptedIsState DEF ExitOnSignal
  <2> QED
    BY <2>1, <2>2 DEF TypeOK, OnlyPid, FileGoesLast, States
<1>12. CASE ExitTwice
  BY <1>12, WatchdogAssumption DEF ExitTwice, Signal, children, TypeOK, OnlyPid, FileGoesLast
<1>13. ASSUME NEW c \in Children, Child(c) PROVE IInv'
  <2>1. UNCHANGED <<parent, everybody, forks, failures, signals>> /\ crashes' \in 0 .. MaxCrashes
    BY <1>13, WatchdogAssumption
       DEF Child, FailToStart, Serve, HandleHangup, Close, Crash, counters, TypeOK
  <2>2. child' \in [Children -> States] /\ Alive(child') \subseteq Alive(child)
    BY <1>13 DEF Child, FailToStart, Serve, HandleHangup, Close, Crash, Alive, TypeOK, States
  <2>3. hangup' \in BOOLEAN
    BY <1>13 DEF Child, FailToStart, Serve, HandleHangup, Close, Crash, TypeOK
  <2> QED
    BY <2>1, <2>2, <2>3 DEF parent, TypeOK, OnlyPid, FileGoesLast, States
<1>14. CASE UNCHANGED vars
  BY <1>14 DEF vars, parent, children, counters, TypeOK, OnlyPid, FileGoesLast
<1> QED
  BY <1>1, <1>2, <1>3, <1>4, <1>5, <1>6, <1>7, <1>8, <1>9, <1>10, <1>11, <1>12, <1>13, <1>14
     DEF Next, Parent

LEMMA OnlyPidIsOne == OnlyPid => OneChild
<1> SUFFICES ASSUME OnlyPid PROVE Cardinality(Alive(child)) <= 1
  BY DEF OneChild
<1>1. IsFiniteSet({pid}) /\ Cardinality({pid}) = 1
  BY FS_Singleton
<1>2. Cardinality(Alive(child)) <= Cardinality({pid})
  BY <1>1, FS_Subset DEF OnlyPid
<1> QED
  BY <1>1, <1>2

(* The parent's states are those of its loop, and no child is forked with  *)
(* the handlers of its parent.                                             *)
THEOREM TypeCorrect == Spec => []TypeOK
<1>1. IInv => TypeOK
  BY DEF IInv
<1> QED
  BY <1>1, InitInv, StepInv, PTL DEF Spec

(* The watchdog (dklab_realplexor.cpp:204) never has two servers running,  *)
(* whatever ended the last one.                                            *)
THEOREM NeverTwoServers == Spec => []OneChild
<1>1. IInv => OneChild
  BY OnlyPidIsOne DEF IInv
<1> QED
  BY <1>1, InitInv, StepInv, PTL DEF Spec

(* As long as a server runs there is a PID file (Tools.h), also when the   *)
(* parent that wrote it is dead.                                           *)
THEOREM ServerHasPidFile == Spec => []PidFileOutlivesChild
<1>1. IInv => PidFileOutlivesChild
  BY DEF IInv, FileGoesLast, PidFileOutlivesChild
<1> QED
  BY <1>1, InitInv, StepInv, PTL DEF Spec

-----------------------------------------------------------------------------
(* The config of a server, for any options and any contents of the files.  *)

(* A config whose numbers are numbers: the parsed part of TypeOK.          *)
Config == {c \in [Options -> Values \cup {Bad}] : \A o \in C!Numeric : c[o] \in Values}

FilesOK ==
  /\ custom \in {Broken} \cup C!Customs /\ users_file \in {Missing} \cup SUBSET Users
  /\ script_file \in BOOLEAN

ProcessOK ==
  /\ running \in BOOLEAN /\ users \subseteq Users
  /\ config \in Config /\ members \in Config /\ opened \in Config

EditsOK == edits \in 0 .. MaxEdits /\ hangups \in 0 .. MaxHangups

(* The process was started with what its config says of the options that   *)
(* the expression of reload names.                                         *)
NamedAreAsStarted == running => \A o \in C!LowLevel : opened[o] = config[o]

ConfigInv ==
  /\ FilesOK /\ ProcessOK /\ EditsOK
  /\ C!MembersFollowConfig /\ NamedAreAsStarted

LEMMA DefaultIsValue == \A o \in Options : C!Default[o] \in Values
BY ConfigAssumption DEF C!Default

LEMMA NumericAreOptions == C!Numeric \subseteq Options
BY DEF C!Numeric

(* What is read from the files has an entry for every option.              *)
LEMMA ReadHasOptions ==
  ASSUME FilesOK PROVE C!Read \in [Options -> Values \cup {Bad}]
<1>1. CASE custom = Broken
  BY <1>1, DefaultIsValue DEF C!Read, C!Default
<1>2. CASE custom # Broken
  <2>1. custom \in [Options -> Values \cup {Bad, Unset}]
    BY <1>2 DEF FilesOK, C!Customs
  <2>2. \A o \in Options :
          (IF custom[o] = Unset THEN C!Default[o] ELSE custom[o]) \in Values \cup {Bad}
    BY <2>1, DefaultIsValue
  <2> QED
    BY <1>2, <2>2 DEF C!Read
<1> QED
  BY <1>1, <1>2

(* _parse lets only numbers through.                                       *)
LEMMA LoadedIsConfig == ASSUME FilesOK, C!Loads PROVE C!Read \in Config
BY ReadHasOptions, NumericAreOptions DEF C!Loads, C!Parses, Config

LEMMA UsersAreRead == ASSUME FilesOK PROVE C!ReadUsers \subseteq Users
BY DEF FilesOK, C!ReadUsers

LEMMA ConfigInitInv == C!Init => ConfigInv
<1> SUFFICES ASSUME C!Init PROVE ConfigInv
  OBVIOUS
<1>1. FilesOK
  <2>1. custom \in C!Customs
    BY DefaultIsValue, ConfigAssumption DEF C!Init, C!Customs
  <2> QED
    BY <2>1 DEF C!Init, FilesOK
<1>2. C!Read \in Config
  <2>1. \A o \in Options : C!Read[o] \in Values
    BY <1>1, DefaultIsValue DEF C!Init, C!Read, C!Default
  <2> QED
    BY <1>1, <2>1, ReadHasOptions, NumericAreOptions DEF Config
<1>3. ProcessOK
  BY <1>1, <1>2 DEF C!Init, ProcessOK
<1>4. EditsOK
  BY ConfigAssumption DEF C!Init, EditsOK
<1>5. C!MembersFollowConfig /\ NamedAreAsStarted
  BY DEF C!Init, C!MembersFollowConfig, NamedAreAsStarted
<1> QED
  BY <1>1, <1>3, <1>4, <1>5 DEF ConfigInv

LEMMA ConfigStepInv == ConfigInv /\ [C!Next]_(C!vars) => ConfigInv'
<1> SUFFICES ASSUME ConfigInv, [C!Next]_(C!vars) PROVE ConfigInv'
  OBVIOUS
<1>1. CASE C!Edit
  <2>1. FilesOK' /\ EditsOK'
    BY <1>1, ConfigAssumption DEF ConfigInv, C!Edit, FilesOK, EditsOK, C!process
  <2>2. (ProcessOK /\ C!MembersFollowConfig /\ NamedAreAsStarted)'
    BY <1>1 DEF ConfigInv, C!Edit, C!process, ProcessOK, C!MembersFollowConfig,
                NamedAreAsStarted
  <2> QED
    BY <2>1, <2>2 DEF ConfigInv
<1>2. CASE C!Start
  <2>1. C!Read \in Config /\ C!ReadUsers \subseteq Users
    BY <1>2, LoadedIsConfig, UsersAreRead DEF ConfigInv, C!Start
  <2>2. ProcessOK'
    BY <1>2, <2>1 DEF C!Start, C!Loaded, ProcessOK
  <2>3. (C!MembersFollowConfig /\ NamedAreAsStarted)'
    BY <1>2 DEF C!Start, C!Loaded, C!MembersFollowConfig, NamedAreAsStarted
  <2> QED
    BY <1>2, <2>2, <2>3 DEF ConfigInv, C!Start, C!files, FilesOK, EditsOK
<1>6. CASE C!Stop
  BY <1>6 DEF ConfigInv, C!Stop, C!files, FilesOK, ProcessOK, EditsOK, C!MembersFollowConfig,
              NamedAreAsStarted
<1>3. CASE C!Reload
  <2>1. C!Read \in Config /\ C!ReadUsers \subseteq Users
    BY <1>3, LoadedIsConfig, UsersAreRead DEF ConfigInv, C!Reload
  <2>2. ProcessOK'
    BY <1>3, <2>1 DEF ConfigInv, C!Reload, C!Loaded, ProcessOK
  <2>3. C!MembersFollowConfig'
    BY <1>3 DEF C!Reload, C!Loaded, C!MembersFollowConfig
  <2>4. NamedAreAsStarted'
    BY <1>3 DEF ConfigInv, C!Reload, C!Hangup, C!Loaded, C!Restarts, NamedAreAsStarted
  <2>5. EditsOK'
    BY <1>3, ConfigAssumption DEF ConfigInv, C!Reload, C!Hangup, EditsOK
  <2> QED
    BY <1>3, <2>2, <2>3, <2>4, <2>5 DEF ConfigInv, C!Reload, C!files, FilesOK
<1>4. CASE C!ReloadFails
  <2>1. C!ReadUsers \subseteq Users
    BY UsersAreRead DEF ConfigInv
  <2>2. ProcessOK'
    BY <1>4, <2>1 DEF ConfigInv, C!ReloadFails, C!RolledBack, C!Parses, ProcessOK
  <2>3. C!MembersFollowConfig'
    BY <1>4 DEF C!ReloadFails, C!RolledBack, C!MembersFollowConfig
  <2>4. NamedAreAsStarted'
    BY <1>4 DEF ConfigInv, C!ReloadFails, C!Hangup, NamedAreAsStarted
  <2>5. EditsOK'
    BY <1>4, ConfigAssumption DEF ConfigInv, C!ReloadFails, C!Hangup, EditsOK
  <2> QED
    BY <1>4, <2>2, <2>3, <2>4, <2>5 DEF ConfigInv, C!ReloadFails, C!files, FilesOK
<1>5. CASE UNCHANGED C!vars
  BY <1>5 DEF ConfigInv, C!vars, C!files, C!process, FilesOK, ProcessOK, EditsOK,
              C!MembersFollowConfig, NamedAreAsStarted
<1> QED
  BY <1>1, <1>2, <1>3, <1>4, <1>5, <1>6 DEF C!Next

LEMMA ConfigInvTypes == ConfigInv => C!TypeOK
BY ConfigAssumption DEF ConfigInv, FilesOK, ProcessOK, EditsOK, Config, C!TypeOK

(* Whatever the files hold and however often they are reloaded, every      *)
(* config in use is complete and its numbers are numbers.                  *)
THEOREM ConfigTypeCorrect == C!Spec => []C!TypeOK
BY ConfigInitInv, ConfigStepInv, ConfigInvTypes, PTL DEF C!Spec

(* A server that runs works with the members of its config: a failed       *)
(* reload puts back both (Config.h:109).                                   *)
THEOREM RollbackIsWhole == C!Spec => []C!MembersFollowConfig
<1>1. ConfigInv => C!MembersFollowConfig
  BY DEF ConfigInv
<1> QED
  BY <1>1, ConfigInitInv, ConfigStepInv, PTL DEF C!Spec

-----------------------------------------------------------------------------
(* The daemon.                                                             *)

(* What has been loaded belongs to a child that is alive.                  *)
LoadedIsAlive == running \in BOOLEAN /\ (running => Alive(child) # {})

DaemonInv == IInv /\ LoadedIsAlive /\ HangupIsNotLost

LEMMA DaemonInitInv == DaemonInit => DaemonInv
<1> SUFFICES ASSUME DaemonInit PROVE DaemonInv
  OBVIOUS
<1>1. IInv
  BY InitInv DEF DaemonInit
<1>2. running = FALSE
  BY DEF DaemonInit, C!Init
<1> QED
  BY <1>1, <1>2 DEF DaemonInv, LoadedIsAlive, HangupIsNotLost

(* A step of the daemon is one of the watchdog, or none.                   *)
LEMMA StepOfWatchdog == [DaemonNext]_daemonVars => [Next]_vars
<1> SUFFICES ASSUME [DaemonNext]_daemonVars PROVE [Next]_vars
  OBVIOUS
<1>1. CASE Edit
  BY <1>1 DEF Edit
<1>2. CASE Processes
  <2>1. CASE \E c \in Children : Close(c) \/ Crash(c)
    BY <2>1 DEF Next, Child
  <2> QED
    BY <1>2, <2>1 DEF Processes, Next
<1>3. CASE Hangup
  BY <1>3 DEF Hangup, Next
<1>4. ASSUME NEW c \in Children, Server(c) PROVE [Next]_vars
  BY <1>4 DEF Server, Load, CannotLoad, CatchSignals, HandleReload, Next, Child
<1>5. CASE UNCHANGED daemonVars
  BY <1>5 DEF daemonVars
<1> QED
  BY <1>1, <1>2, <1>3, <1>4, <1>5 DEF DaemonNext

(* A step that leaves the config alone goes on with it or ends the child.  *)
LEMMA KeepStops == running \in BOOLEAN /\ Keep => C!Stop \/ UNCHANGED C!vars
BY DEF Keep, configVars, C!Stop, C!vars, C!files, C!process

LEMMA StepOfConfig == LoadedIsAlive /\ [DaemonNext]_daemonVars => [C!Next]_(C!vars)
<1> SUFFICES ASSUME LoadedIsAlive, [DaemonNext]_daemonVars PROVE [C!Next]_(C!vars)
  OBVIOUS
<1>1. CASE Edit
  BY <1>1 DEF Edit, C!Next
<1>2. CASE Keep
  BY <1>2, KeepStops DEF LoadedIsAlive, C!Next
<1>3. CASE Processes \/ Hangup
  BY <1>2, <1>3 DEF Processes, Hangup
<1>4. ASSUME NEW c \in Children, Server(c) PROVE [C!Next]_(C!vars)
  BY <1>2, <1>4 DEF Server, Load, CannotLoad, CatchSignals, HandleReload, C!Next
<1>5. CASE UNCHANGED daemonVars
  BY <1>5 DEF daemonVars, configVars, C!vars, C!files, C!process
<1> QED
  BY <1>1, <1>3, <1>4, <1>5 DEF DaemonNext

LEMMA KeepIsAlive == running \in BOOLEAN /\ Keep => LoadedIsAlive'
BY DEF Keep, LoadedIsAlive

(* Files and config stay as they are, and whatever runs has been running.  *)
LEMMA KeepLosesNone ==
  ASSUME LoadedIsAlive, HangupIsNotLost, Keep, asked' => asked, hangup' = hangup
  PROVE  HangupIsNotLost'
<1>1. C!Loads' = C!Loads /\ C!Read' = C!Read /\ C!ReadUsers' = C!ReadUsers
  BY DEF Keep, configVars, C!Loads, C!Parses, C!Read, C!ReadUsers
<1> QED
  BY <1>1 DEF Keep, configVars, LoadedIsAlive, HangupIsNotLost

LEMMA DaemonStepInv == DaemonInv /\ [DaemonNext]_daemonVars => DaemonInv'
<1> SUFFICES ASSUME DaemonInv, [DaemonNext]_daemonVars PROVE DaemonInv'
  OBVIOUS
<1>1. IInv'
  BY StepInv, StepOfWatchdog DEF DaemonInv
<1> USE DEF DaemonInv
<1>2. CASE Edit
  BY <1>1, <1>2 DEF Edit, C!Edit, C!process, vars, children, Alive, LoadedIsAlive, HangupIsNotLost
<1>3. CASE Processes
  <2>1. Keep /\ UNCHANGED asked
    BY <1>3 DEF Processes
  <2>2. CASE UNCHANGED hangup
    BY <1>1, <2>1, <2>2, KeepIsAlive, KeepLosesNone DEF LoadedIsAlive
  <2>3. CASE Fork
    <3>1. running = FALSE
      BY <2>3 DEF Fork, At, IInv, OnlyPid, LoadedIsAlive
    <3> QED
      BY <1>1, <2>1, <3>1, KeepIsAlive DEF Keep, LoadedIsAlive, HangupIsNotLost
  <2>4. CASE Parent /\ ~ Fork
    BY <2>2, <2>4 DEF Parent, ResetHandlers, SetHandlers, Wait, CheckMemory, KillChild, Pause, Exit,
                      GracefulKill, Kill, children
  <2>5. CASE DieOfSignal \/ ExitOnSignal \/ ExitTwice \/ \E c \in Children : Close(c) \/ Crash(c)
    BY <2>2, <2>5 DEF DieOfSignal, ExitOnSignal, ExitTwice, Close, Crash, Kill, children
  <2> QED
    BY <1>3, <2>3, <2>4, <2>5 DEF Processes
<1>4. CASE Hangup
  <2>1. hangup' = TRUE \/ Alive(child') = {}
    <3>1. CASE pid \in Alive(child) /\ child[pid] # "starting"
      BY <1>4, <3>1 DEF Hangup, PassHangup
    <3>2. CASE ~ (pid \in Alive(child) /\ child[pid] # "starting")
      BY <1>4, <3>2 DEF Hangup, PassHangup, Kill, IInv, OnlyPid, TypeOK, Alive
    <3> QED
      BY <3>1, <3>2
  <2>2. Keep
    BY <1>4 DEF Hangup
  <2> QED
    BY <1>1, <2>1, <2>2, KeepIsAlive DEF Keep, LoadedIsAlive, HangupIsNotLost
<1>5. ASSUME NEW c \in Children, Server(c) PROVE DaemonInv'
  <2>1. CASE Load(c)
    <3>1. running' = TRUE /\ Alive(child') # {}
      BY <2>1 DEF Load, C!Start, vars, children, Alive
    <3>2. C!Read' = C!Read /\ C!ReadUsers' = C!ReadUsers
      BY <2>1 DEF Load, C!Start, C!files, C!Read, C!ReadUsers
    <3>3. config' = C!Read /\ users' = C!ReadUsers
      BY <2>1 DEF Load, C!Start, C!Loaded
    <3> QED
      BY <1>1, <3>1, <3>2, <3>3 DEF LoadedIsAlive, HangupIsNotLost
  <2>2. CASE CannotLoad(c) \/ CatchSignals(c)
    <3>1. Keep /\ UNCHANGED <<asked, hangup>>
      BY <2>2 DEF CannotLoad, CatchSignals, FailToStart, Serve, children
    <3> QED
      BY <1>1, <3>1, KeepIsAlive, KeepLosesNone DEF LoadedIsAlive
  <2>3. CASE HandleReload(c)
    <3>1. LoadedIsAlive'
      <4>1. running' = (child'[c] # "dead")
        BY <2>3 DEF HandleReload
      <4>2. child'[c] # "dead" => c \in Alive(child')
        BY <2>3 DEF HandleReload, HandleHangup, Alive, IInv, TypeOK
      <4> QED
        BY <4>1, <4>2 DEF LoadedIsAlive
    <3>2. /\ C!Loads' = C!Loads /\ C!Read' = C!Read /\ C!ReadUsers' = C!ReadUsers
      BY <2>3 DEF HandleReload, C!Reload, C!ReloadFails, C!files, C!Loads, C!Parses, C!Read,
                  C!ReadUsers
    <3>3. C!Loads => config' = C!Read /\ users' = C!ReadUsers
      BY <2>3 DEF HandleReload, C!Reload, C!ReloadFails, C!Loaded
    <3> QED
      BY <1>1, <3>1, <3>2, <3>3 DEF HangupIsNotLost
  <2> QED
    BY <1>5, <2>1, <2>2, <2>3 DEF Server
<1>6. CASE UNCHANGED daemonVars
  BY <1>1, <1>6 DEF daemonVars, configVars, vars, children, Alive, LoadedIsAlive, HangupIsNotLost,
                    C!Loads, C!Parses, C!Read, C!ReadUsers
<1> QED
  BY <1>2, <1>3, <1>4, <1>5, <1>6 DEF DaemonNext

(* Children that load files and handle signals (dklab_realplexor.cpp:96)   *)
(* are, to the loop of main, children like any.                            *)
THEOREM DaemonIsWatchdog == DaemonSpec => Spec
BY StepOfWatchdog, PTL DEF DaemonSpec, DaemonInit, Spec

(* There is one server at most, and a PID file as long as there is one     *)
(* (Tools.h:53), with children that load files and handle SIGHUP.          *)
THEOREM DaemonIsOne == DaemonSpec => [](OneChild /\ PidFileOutlivesChild)
BY DaemonIsWatchdog, NeverTwoServers, ServerHasPidFile, PTL

(* However the watchdog starts, signals and ends its children              *)
(* (dklab_realplexor.cpp), what they load and reload is what a server of   *)
(* ConfigReload does.                                                      *)
THEOREM DaemonIsServer == DaemonSpec => ImplementsConfigReload
<1>1. DaemonInit => C!Init
  BY DEF DaemonInit
<1>2. DaemonInv => LoadedIsAlive
  BY DEF DaemonInv
<1> QED
  BY <1>1, <1>2, DaemonInitInv, DaemonStepInv, StepOfConfig, PTL
     DEF DaemonSpec, ImplementsConfigReload, C!Spec

(* What is proved of a server that reloads its config holds of the daemon: *)
(* the parsed members follow the config (Config.h:109).                    *)
THEOREM DaemonParsesConfig == DaemonSpec => []MembersFollowConfig
BY DaemonIsServer, RollbackIsWhole, PTL DEF ImplementsConfigReload, MembersFollowConfig

(* A SIGHUP reaches the server (dklab_realplexor.cpp:219), however the     *)
(* child is replaced meanwhile: its config is that of the files then.      *)
THEOREM NoHangupIsLost == DaemonSpec => []HangupIsNotLost
<1>1. DaemonInv => HangupIsNotLost
  BY DEF DaemonInv
<1> QED
  BY <1>1, DaemonInitInv, DaemonStepInv, PTL DEF DaemonSpec

(* The same of the options that reload cannot change but names as such     *)
(* (Config.h:103, so neither IN_ADDR nor IN_TIMEOUT): the child that runs  *)
(* was started with what the files say of them.                            *)
THEOREM NamedOptionsAreInForce == DaemonSpec => []NamedOptionsInForce
<1>1. C!Spec => []NamedAreAsStarted
  <2>1. ConfigInv => NamedAreAsStarted
    BY DEF ConfigInv
  <2> QED
    BY <2>1, ConfigInitInv, ConfigStepInv, PTL DEF C!Spec
<1>2. NamedAreAsStarted /\ HangupIsNotLost => NamedOptionsInForce
  BY DEF NamedAreAsStarted, HangupIsNotLost, NamedOptionsInForce, LowLevel, C!LowLevel
<1> QED
  BY <1>1, <1>2, DaemonIsServer, NoHangupIsLost, PTL DEF ImplementsConfigReload
=============================================================================
