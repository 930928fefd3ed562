SPECIFICATION Spec
CONSTANTS
  LastInstant = 5
  Shifts <- Ranges
  Busies <- BusyInputs
  Durations = {0, 1, 2, 3}
  Steps = {0, 1, 2}
  NotBefores = {0, 2}
  MaxSlots = 2
INVARIANTS
  ReturnsFreeSlots
PROPERTIES
  Returns
CHECK_DEADLOCK FALSE
