\* A chunk that ends within the identifier line of a request with a login.
SPECIFICATION LineSpec
CONSTANTS
  Streams <- LoginStreams
  Configs <- AllConfigs
  MaxLen = 7
  MaxFiles = 2
INVARIANT
  OnlyAChunkMayFinish
\* A closed connection does nothing more.
CHECK_DEADLOCK FALSE
