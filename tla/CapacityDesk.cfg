SPECIFICATION Spec
CONSTANTS
  u1 = u1
  u2 = u2
  m1 = m1
  e1 = e1
  d1 = d1
  d2 = d2
  NoOne = NoOne
  Desks = {u1, u2}
  Mailers = {m1}
  MailBookings = {e1}
  DeskBookings = {d1, d2}
  Pax = {1}
  Seats = {1, 2}
  Exceptions <- SomeExceptions
  MaxWrites = 2
CHECK_DEADLOCK FALSE
SYMMETRY Symmetry
INVARIANT TypeOK
PROPERTIES
  InternalFits
  OverbookingIsFlagged
