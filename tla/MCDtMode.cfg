\* One process, whose stores follow one another, and nothing that fails.
CONSTANTS
  dt1 = dt1
  dt2 = dt2
  dt3 = dt3
  dt4 = dt4
  w1 = w1
  w2 = w2
  p1 = p1
  p2 = p2
  Line = {dt1, dt2, dt3, dt4}
  Bean = {w1, w2}
  D0 <- BothD0
  D1 <- BothD1
  Process = {p1}
  MayFail = {}
SPECIFICATION Spec
INVARIANT ModeShown
CHECK_DEADLOCK FALSE
