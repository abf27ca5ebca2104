\* The cursor clock over several wraps of its counter.
SPECIFICATION Spec
CONSTANTS
  Cycle = 3
  Scale = 10
  MaxTick = 4
  MaxCalls = 10
INVARIANTS
  LaterTickIsGreater
  DistinctWithinCycle
\* The model's clock and calls end at their bounds.
CHECK_DEADLOCK FALSE
