\* Crashes, failures of fork(), signals, edits and reloads of the daemon.
SPECIFICATION FairDaemon
CONSTANTS
  MaxForks = 3
  MaxFailures = 1
  MaxSignals = 2
  MaxCrashes = 1
  MaxHangups = 2
  MaxEdits = 2
  Options = {"WAIT_ADDR", "IN_MAXLEN"}
  Values = {1, 2}
  Bad = Bad
  Unset = Unset
  Broken = Broken
  Missing = Missing
  Users = {"guest"}
INVARIANTS
  OneChild
  PidFileOutlivesChild
  MembersFollowConfig
  HangupIsNotLost
  NamedOptionsInForce
PROPERTIES
  ServesAgain
  ImplementsConfigReload
\* A dead parent does nothing more.
CHECK_DEADLOCK FALSE
