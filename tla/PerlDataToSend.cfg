\* The lists of chunks, the sets of module Queues and the arrays of the prototype.
SPECIFICATION PerlSpec
CONSTANTS
  Ids = {"a", "b"}
  Cursors = {1, 2, 3}
  MaxDataForId = 2
  MaxBlocks = 3
  MaxPairs = 2
INVARIANTS
  OrderedAsMerged
  KeepsAsMany
PROPERTY
  ImplementsQueues
