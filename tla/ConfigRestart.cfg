\* Reloads that change an option the sockets of a line were opened with.
SPECIFICATION Spec
CONSTANTS
  Options = {"WAIT_ADDR", "IN_ADDR"}
  Values = {1, 2}
  Bad = Bad
  Unset = Unset
  Broken = Broken
  Missing = Missing
  Users = {"guest"}
  MaxEdits = 1
  MaxHangups = 1
INVARIANT WhatCannotBeReloadedRestarts
\* A process whose files are broken cannot start.
CHECK_DEADLOCK FALSE
