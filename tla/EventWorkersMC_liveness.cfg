SPECIFICATION FairSpec

CONSTANTS
  e1 = e1
  e2 = e2
  d1 = d1
  d2 = d2
  s1 = s1
  s2 = s2
  Event = {e1, e2}
  MaxAttempts = 2
  Daemon = {d1, d2}
  Slot = {s1, s2}
  Caller = {}
  Checks = {e2}
  Misconfigured = {}
  MaxExits = 1
  NoDaemon = NoDaemon
  NoEvent = NoEvent
PROPERTIES
  EveryEventSettles
