SPECIFICATION Spec
CONSTANTS
  m1 = m1
  m2 = m2
  m3 = m3
  p1 = p1
  p2 = p2
  Messages = {m1, m2, m3}
  Pollers = {p1, p2}
  NoOne = NoOne
  Limit = 3
  Modes <- InlineModes
  SlowCycles = FALSE
  Relabels = TRUE
  Drains = FALSE
  MaxHistory = 4
  MaxFaults = 1
SYMMETRY Symmetry
INVARIANTS
  TypeOK
  CycleHoldsLock
  AppliedAtMostOnce
  AppliedNeverFailed
PROPERTIES
  ImplementsMirror
