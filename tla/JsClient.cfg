\* Delivery end to end.
SPECIFICATION FairSpec
CONSTANTS
  Ids = {"x", "y"}
  None = None
  MaxDataForId = 1
  MaxPublish = 2
  MaxDisturbances = 2
INVARIANTS
  NothingSkipped
  OnceInOneLoop
PROPERTY
  Delivered
\* A client that asks for nothing, or waits for messages, may wait forever.
CHECK_DEADLOCK FALSE
