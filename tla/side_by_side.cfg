SPECIFICATION Spec
CONSTANTS
  Requests = {r1, r2}
  Pictures = {b1, b2}
  PictureRoles = {"hero", "gallery"}
  Locales = {c1, c2}
  Limits = {Nil, 1}
  Accounts = {b1, b2}
  Addresses = {c1, c2}
  Processes = {1, 2}
  Services = {b1, b2}
  Sites = {d1}
  Amounts = {0, 1, 2}
  Minutes = {0, 30, 481}
  Radii = {0, 24, 25, 1001}
  Employees = {1, 2}
  Washes <- MCWashes
  Entries <- MCEntries
  Midnights = {0, 3, 7}
  LastInstant = 6
  Rate = 1
  Cost = 2
  Burst = 2
  IdleTime = 5
  Stall = 1
  Horizon = 9
  MaxGrants = 3
  Rows = {a1, a2, a3}
  Businesses = {d1}
  Slots = {b1, b2}
  Owner <- MCOwner
  First = d1
  Users = {a1, a2, a3}
  Tenants = {b1, b2}
  Emails = {d1}
  Phones = {e1}
  Nil = Nil
INVARIANTS
  TypeOK
  RowsHaveFiles
  FilesAreAccountedFor
  OneHolderUnlessPending
  Described
  OneLoginPerEmail
  ReportsTheDay
  WithinRate
  FinishedMeansProtected
  FinishedMeansGuests
PROPERTIES
  LockedOutOnlyByCrossing
  StaysLockedOut
  LossComesByOneAmount
  AbsentKeyStaysAbsent
SYMMETRY Symmetry
CHECK_DEADLOCK FALSE
