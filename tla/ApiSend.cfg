\* The PHP and the Python API, and a server that may end at any time.
SPECIFICATION FairSpec
CONSTANTS
  RequestLength = 4
  AnswerLength = 4
  MaxLens = {2, 4}
  Rooms = {2, 4}
  MaxStalls = 1
INVARIANTS
  CursorsArePublished
  PublishesWhole
  WhatFitsArrives
PROPERTY
  CallEnds
\* The call ends.
CHECK_DEADLOCK FALSE
