SPECIFICATION FairSpec
CONSTANTS
  m1 = m1
  m2 = m2
  p1 = p1
  p2 = p2
  Messages = {m1, m2}
  Pollers = {p1, p2}
  NoOne = NoOne
  Limit = 2
  Modes <- SplitModes
  SlowCycles = FALSE
  Relabels = FALSE
  Drains = TRUE
  MaxHistory = 3
  MaxFaults = 2
PROPERTIES
  PollingGoesOn
  ImplementsFairMirror
