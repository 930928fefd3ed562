SPECIFICATION Spec
CONSTANTS
  Rows = {r1, r2}
  First = t1
  NewTenant = t2
  Tenants = {t1, t2}
  OldSlot = s1
  NewSlot = s2
  Slots = {s1, s2}
  Owner <- SlotOwner
  Nil = Nil
PROPERTY OthersAreLeftAlone
SYMMETRY Symmetry
CHECK_DEADLOCK FALSE
