\* A watcher through changes, lost answers and a restart of the server.
SPECIFICATION FairWatchSpec
CONSTANTS
  Ids = {"x", "y"}
  EventChainLen = 1
  None = None
  MaxPos = 14
  MaxRestarts = 1
  MaxFailures = 2
INVARIANT
  PictureIsTrue
PROPERTY
  CatchesUp
