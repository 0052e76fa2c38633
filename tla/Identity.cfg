SPECIFICATION Spec
CONSTANTS
  Orders <- MCOrders
  PartyOf <- MCPartyOf
  Emails <- MCEmails
  Parsed <- MCParsed
  Notes <- MCNotes
  m1 = m1
  m2 = m2
  Mailers = {m1, m2}
  None = None
  MaxRuns = 1
SYMMETRY MailerSymmetry
INVARIANTS
  TypeOK
  NeverTwoParties
  CancellationReachesOrder
PROPERTIES
  NoDoubleInSight
