SPECIFICATION FairSpec

CONSTANTS
  c1 = c1
  d1 = d1
  d2 = d2
  s1 = s1
  s2 = s2
  Command = {c1}
  Daemon = {d1, d2}
  Slot = {s1, s2}
  MaxExits = 1
  NoDaemon = NoDaemon
  NoAttempt = NoAttempt
PROPERTIES
  RunsAtMostOnce
  EveryRequestSettles
