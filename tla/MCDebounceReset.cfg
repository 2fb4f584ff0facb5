\* A store while the callback increments a counter on another processor.
CONSTANTS
  Writer = {w1}
  Times <- MCTimes
  Default = 1
  Invert = FALSE
  Smp = TRUE
  Freeing = FALSE
  Polling = FALSE
  MaxEdges = 3
  MaxStores = 1
  MaxStable = 1
SPECIFICATION Spec
INVARIANTS ResetClears
CHECK_DEADLOCK FALSE
