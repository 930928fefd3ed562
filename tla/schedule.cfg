SPECIFICATION Spec
CONSTANTS
  Ids = {i1, i2}
  Requests = {r1, r2}
  e1 = e1
  Employees = {e1}
  Locations = {l1, l2}
  Hours <- HourInputs
  MaxShift = 4
  JobInputs <- Bookings
  Durations = {1, 2}
  SlotStep = 1
  MaxSlots = 3
  DayLength = 4
  Days = {0, 1}
  Horizon = 1
  OneAddAtATime = TRUE
  Nil = Nil
SYMMETRY Symmetry
INVARIANTS
  RostersApart
  SlotsInTheDay
  OffersAreBookable
CHECK_DEADLOCK FALSE
