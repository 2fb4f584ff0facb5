\* Two processes whose calls overlap freely, requests that fail, and the driver
\* unbound at any moment.
CONSTANTS
  dt1 = dt1
  dt2 = dt2
  dt3 = dt3
  dt4 = dt4
  w1 = w1
  w2 = w2
  p1 = p1
  p2 = p2
  Line = {dt1, dt2}
  Bean = {w1}
  D0 <- OneD0
  D1 <- OneD1
  Process = {p1, p2}
  MayFail = {"get", "irq"}
SYMMETRY MCSymmetry
SPECIFICATION Spec
INVARIANTS TypeOK LinesAccounted EnabledHolds UnboundFree
PROPERTY OwnersSpec
CHECK_DEADLOCK FALSE
