SPECIFICATION Spec

CONSTANTS
  e1 = e1
  e2 = e2
  d1 = d1
  d2 = d2
  s1 = s1
  s2 = s2
  Event = {e1, e2}
  MaxAttempts = 2
  Daemon = {d1, d2}
  Slot = {s1, s2}
  Caller = {c1}
  Checks = {e2}
  Misconfigured = {d1}
  MaxExits = 1
  NoDaemon = NoDaemon
  NoEvent = NoEvent
SYMMETRY MCSymmetry
INVARIANTS
  SingleOwner
  NothingStranded
  RetryBudget
  DoneWasApplied
PROPERTIES
  KeepsAcceptedWork
CHECK_DEADLOCK FALSE
