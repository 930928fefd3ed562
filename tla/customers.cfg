SPECIFICATION Spec
CONSTANTS
  UserIds = {u1, u2}
  CarIds = {c1, c2}
  JobIds = {j1, j2}
  Requests = {r1, r2}
  Phones = {p1}
  Plates = {n1, n2}
  Emails = {m1, m2}
  Gone = Gone
  Nil = Nil
SYMMETRY Symmetry
INVARIANTS
  OneHistoryPerPhone
  CarGoesWithCustomer
PROPERTIES
  KeepsThePromise
CHECK_DEADLOCK FALSE
