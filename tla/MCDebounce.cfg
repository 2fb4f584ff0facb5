\* Two processors, one store racing the interrupt and the callback, a poller,
\* and the driver unbound at any moment.
CONSTANTS
  Writer = {w1}
  Times <- MCTimes
  Default = 1
  Invert = FALSE
  Smp = TRUE
  Freeing = TRUE
  Polling = TRUE
  MaxEdges = 2
  MaxStores = 1
  MaxStable = 1
SPECIFICATION FairSpec
INVARIANTS TypeOK NoLostEdge PollerInformed QuietAfterFree CountsAlternate
PROPERTIES MinStable Settles
CHECK_DEADLOCK FALSE
