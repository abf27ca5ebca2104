\* Connections, online timers and the event chain; publications only flush.
SPECIFICATION FairSpec
CONSTANTS
  a = a
  b = b
  c = c
  f1 = f1
  f2 = f2
  f3 = f3
  None = None
  Ids = {a, b}
  Fhs <- ThreeFhs
  WaitRequests <- PresenceWaits
  InRequests <- PresenceIns
  MaxDataForId = 1
  EventChainLen = 3
  MaxPublish = 2
  MaxPos = 14
INVARIANTS
  OnlineWhileListened
  StoppedHasCloser
  EventsTellPresence
PROPERTIES
  ImplementsPresence
  GoneIsReported
  QueueIsEmptied
