SPECIFICATION Spec
CONSTANTS
  Emails <- MCEmails
  Bookings <- MCBookings
  Data <- MCData
  LastVersion = 3
  MaxRequests = 2
  Reading <- MCReading
  Operator = Operator
  None = None
INVARIANTS
  TypeOK
  MissingIsListed
  IgnoredIsQuiet
PROPERTIES
  OthersBookingsStay
