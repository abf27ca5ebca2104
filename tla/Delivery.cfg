\* What the handlers of one loop do to queues, indexes and connections.
SPECIFICATION Spec
CONSTANTS
  a = a
  b = b
  c = c
  f1 = f1
  f2 = f2
  f3 = f3
  None = None
  Ids = {a, b}
  Fhs <- TwoFhs
  WaitRequests <- DeliveryWaits
  InRequests <- DeliveryIns
  MaxDataForId = 2
  EventChainLen = 1
  MaxPublish = 3
  MaxPos = 12
SYMMETRY FhSymmetry
INVARIANTS
  IndexesAgree
  NothingPending
  QueueHasReaper
PROPERTY
  ImplementsComet
