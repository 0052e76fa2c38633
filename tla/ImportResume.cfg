SPECIFICATION FairSpec
CONSTANTS
  n1 = n1
  n2 = n2
  Numbers = {n1, n2}
  None = None
  Torn = Torn
  DateFrom = 1
  Width = 2
  PageSize = 1
  FirstTo = 2
  MaxTo = 3
  Payloads <- ThreePayloads
  MaxChanges <- OftenAndOnce
INVARIANTS
  CheckpointNeverAhead
  NoDuplicateEvents
  UnmappedIsQueued
PROPERTIES
  ManualValuesSurvive
  CommandEnds
