SPECIFICATION Spec
CONSTANTS
  b1 = b1
  Bookings = {b1}
  NoBooking = NoBooking
  MaxDate = 2
  Week = 2
  Times = {1, 2}
  Ranges <- FewRanges
  DayChoices <- FewDays
  Parsed <- FewParsed
  SeedRange <- OpenEnded
  SeedTimes = {1}
  SeedOthers <- OneSeason
  MaxEdits = 2
CHECK_DEADLOCK FALSE
INVARIANTS
  TypeOK
  ReferencesLive
  
  OnlyCopiesDouble
  SeedIdempotent
PROPERTIES
  OffScheduleIsQueued
