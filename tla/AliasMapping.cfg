SPECIFICATION Spec
CONSTANTS
  Names <- MCNames
  Options <- MCOptions
  Codes <- MCCodes
  Norm <- MCNorm
  Activities <- MCActivities
  Emails <- MCEmails
  Bookings <- MCBookings
  Parsed <- MCParsed
  Catalogue <- MCCatalogue
  Entries <- MCEntries
  None = None
  MaxEdits = 3
INVARIANTS
  SeededIsDeterminate
  LatestMatchRules
PROPERTIES
  MapTakesHold
