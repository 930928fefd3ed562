SPECIFICATION Spec
CONSTANTS
  Ids = {i1, i2}
  Requests = {r1, r2}
  Customers = {c1}
  e1 = e1
  e2 = e2
  e3 = e3
  Employees = {e1, e2, e3}
  l1 = l1
  l2 = l2
  Locations = {l1, l2}
  Services = {s1}
  Prices = {1}
  Durations = {1}
  RosterShifts <- TwoSites
  Horizon = 2
  MaxAhead = 1
  Ops = {"book", "cancel", "set_status", "reassign"}
  OneAtATime = FALSE
  Nil = Nil
SYMMETRY Symmetry
INVARIANTS
  BookedHoldsItsSlot
  WorkIsRostered
  CompletedIsStamped
CHECK_DEADLOCK FALSE
