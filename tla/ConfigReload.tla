---------------------------- MODULE ConfigReload ----------------------------
(***************************************************************************)
(* Realplexor::Config: the files an administrator edits, the child process *)
(* that loads them at its start and again on SIGHUP.                       *)
(***************************************************************************)
EXTENDS ConfigOptions

VARIABLES
  custom, users_file, script_file,  \* the files; script_file: can it be read
  running,          \* there is a child that has loaded its config
  config, members,  \* map config, and the members _parse sets
  users,            \* map users
  opened,           \* options the Server objects were created with
  edits, hangups

files == <<custom, users_file, script_file>>
process == <<running, config, members, users, opened>>
vars == <<files, process, edits, hangups>>

----------------------------------------------------------------------------
(* load(): the two files, the users, _parse.                               *)

(* What backtick() prints of a file Perl rejects is nothing.               *)
Read ==
  IF custom = Broken THEN Default
  ELSE [o \in Options |-> IF custom[o] = Unset THEN Default[o] ELSE custom[o]]

(* _load_users clears the users before it opens the file.                  *)
ReadUsers == IF users_file = Missing THEN {} ELSE users_file

(* _parse casts the numbers and reads the static file.                     *)
Parses(c) == (\A o \in Numeric : c[o] # Bad) /\ script_file

Loads == users_file # Missing /\ Parses(Read)

Loaded == config' = Read /\ members' = Read /\ users' = ReadUsers

(* The watchdog has loaded the config, and its children are copies of it.  *)
Init ==
  /\ custom = [o \in Options |-> Unset] /\ users_file \in SUBSET Users /\ script_file = TRUE
  /\ running = FALSE /\ config = Read /\ members = Read /\ users = users_file /\ opened = Read
  /\ edits = 0 /\ hangups = 0

----------------------------------------------------------------------------
(* The administrator changes one file at a time.                           *)
Edit ==
  /\ edits < MaxEdits /\ edits' = edits + 1
  /\ \/ custom' \in {Broken} \cup Customs /\ UNCHANGED <<users_file, script_file>>
     \/ users_file' \in {Missing} \cup SUBSET Users /\ UNCHANGED <<custom, script_file>>
     \/ script_file' \in BOOLEAN /\ UNCHANGED <<custom, users_file>>
  /\ UNCHANGED <<process, hangups>>

(* Mutant of Restarts: no option needs a restart.                          *)
RestartsNever(old, new) == FALSE

Restarts(old, new) == \E o \in LowLevel : old[o] # new[o]

(* The main loop of a new child loads the config and opens its sockets.    *)
Start ==
  /\ ~ running /\ Loads
  /\ running' = TRUE /\ opened' = Read /\ Loaded
  /\ UNCHANGED <<files, edits, hangups>>

(* The child ends for any reason that has nothing to do with its config.   *)
Stop ==
  /\ running /\ running' = FALSE
  /\ UNCHANGED <<files, config, members, users, opened, edits, hangups>>

Hangup == running /\ hangups < MaxHangups /\ hangups' = hangups + 1

(* reload(): the new settings are in place, or the process exits for the   *)
(* sake of an option that cannot be changed while it runs.                 *)
Reload ==
  /\ Hangup /\ Loads /\ Loaded
  /\ running' = ~ Restarts(config, Read)
  /\ UNCHANGED <<files, opened, edits>>

(* Mutant of RolledBack: members keep what _parse had set before it threw. *)
RolledBackConfigOnly ==
  [o \in Options |-> IF Read[o] = Bad THEN members[o] ELSE Read[o]]

RolledBack == config

(* reload() when load() throws: config is put back and parsed again, which *)
(* throws out of the event loop if the static file cannot be read.         *)
ReloadFails ==
  /\ Hangup /\ ~ Loads
  /\ users' = ReadUsers
  /\ running' = Parses(config)
  /\ members' = RolledBack
  /\ UNCHANGED <<files, config, opened, edits>>

Next == Edit \/ Start \/ Stop \/ Reload \/ ReloadFails

Spec == Init /\ [][Next]_vars

----------------------------------------------------------------------------
TypeOK ==
  /\ custom \in {Broken} \cup Customs /\ users_file \in {Missing} \cup SUBSET Users
  /\ script_file \in BOOLEAN /\ running \in BOOLEAN
  /\ \A c \in {config, members, opened} :
       /\ DOMAIN c = Options
       /\ \A o \in Options : c[o] \in (IF o \in Numeric THEN Values ELSE Values \cup {Bad})
  /\ users \subseteq Users
  /\ edits \in 0 .. MaxEdits /\ hangups \in 0 .. MaxHangups

(* The parsed members the server works with are those of one config, also  *)
(* after a reload that failed half-way.  Its users need not be: they are   *)
(* the new ones then.                                                      *)
MembersFollowConfig == running => members = config

(* What reload() promises (Config.h:99): an option that could not be       *)
(* reloaded is named, so that the process restarts.                        *)
WhatCannotBeReloadedRestarts == running => \A o \in Opening : opened[o] = config[o]
=============================================================================
