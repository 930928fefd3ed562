SPECIFICATION Spec
CONSTANTS
  Ids = {i1}
  Requests = {r1}
  Customers = {c1}
  e1 = e1
  e2 = e2
  e3 = e3
  Employees = {e1}
  l1 = l1
  l2 = l2
  Locations = {l1}
  Services = {s1}
  Prices = {1, 2}
  Durations = {1, 2}
  RosterShifts <- OneSite
  Horizon = 2
  MaxAhead = 1
  Ops = {"book", "set_status", "edit", "roster", "staff", "catalogue"}
  OneAtATime = TRUE
  Nil = Nil
SYMMETRY Symmetry
PROPERTIES
  TermsMoveOnlyByService
CHECK_DEADLOCK FALSE
