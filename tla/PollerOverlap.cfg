SPECIFICATION FairSpec
CONSTANTS
  m1 = m1
  m2 = m2
  p1 = p1
  p2 = p2
  Messages = {m1, m2}
  Pollers = {p1, p2}
  NoOne = NoOne
  Limit = 2
  Modes <- HistoryOnly
  SlowCycles = TRUE
  Relabels = FALSE
  Drains = FALSE
  MaxHistory = 2
  MaxFaults = 1
INVARIANTS
  NothingLostBehindCursor
PROPERTIES
  EveryMessageSettled
