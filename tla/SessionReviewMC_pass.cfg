CONSTANTS
  c1 = c1  c2 = c2  e1 = e1  t1 = t1  t2 = t2
  Event = {c1, c2, e1}
  Checks = {c1, c2}
  Own = {c1, e1}
  Thread = {t1, t2}
  MaxAttempts = 1
  Endpoints = 2
  MaxErrors = 2
  NoEvent = NoEvent
SPECIFICATION Spec
SYMMETRY Symmetry
INVARIANT RefusedIsForgotten
PROPERTIES NothingOpensAfterPass StampIsRecent
