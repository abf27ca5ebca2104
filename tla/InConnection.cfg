\* Every kind of request, in chunks as they arrive, with all ends, in a
\* process that may run out of descriptors.
SPECIFICATION FairLine
CONSTANTS
  Streams <- AllStreams
  Configs <- AllConfigs
  MaxLen = 6
  MaxFiles = 2
INVARIANTS
  DroppedIsNotPublished
  ChunksDoNotMatter
  NoEventOfTheDeleted
PROPERTIES
  OnlyAuthorised
  ConnectionEnds
\* A closed connection does nothing more.
CHECK_DEADLOCK FALSE
