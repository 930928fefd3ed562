SPECIFICATION Spec
CONSTANTS
  Ids = {i1, i2}
  Requests = {r1}
  Customers = {c1}
  e1 = e1
  e2 = e2
  e3 = e3
  Employees = {e1, e2}
  l1 = l1
  l2 = l2
  Locations = {l1}
  Services = {s1}
  Prices = {1}
  Durations = {1, 2}
  RosterShifts <- OneSite
  Horizon = 3
  MaxAhead = 2
  Ops = {"book", "walk_in", "cancel", "set_status", "reassign", "edit"}
  OneAtATime = FALSE
  Nil = Nil
SYMMETRY Symmetry
PROPERTIES
  CheckedWorkIsApart
CHECK_DEADLOCK FALSE
