\* The event list, the set of the newest events, and the chains of the prototype.
SPECIFICATION ChainsSpec
CONSTANTS
  Ids = {"a", "b"}
  EventChainLen = 1
  MaxPos = 18
INVARIANTS
  ChainIsRecent
  WatchMissesNothing
  PerlMissesNothing
  AnswersAsCpp
