SPECIFICATION Spec
CONSTANTS
  Ids = {i1, i2}
  Requests = {r1, r2}
  Employees = {e1, e2}
  Locations = {l1}
  Distances = {0, 3}
  Radii = {2}
  Horizon = 3
  PerMinute = 2
  Nil = Nil
SYMMETRY Symmetry
INVARIANTS
  OneRunningEntry
  PaidAsMeasured
PROPERTIES
  KeepsTheClock
CHECK_DEADLOCK FALSE
