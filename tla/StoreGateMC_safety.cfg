SPECIFICATION FairGateSpec

CONSTANTS
  r1 = r1
  r2 = r2
  r3 = r3
  b1 = b1
  b2 = b2
  Request = {r1, r2, r3}
  Background = {b1}
  Direct = {c1}
  LLM_CONCURRENCY = 2
  MaxBacklog = 2
INVARIANTS
  WipeIsAlone
  NoLostWakeup
PROPERTIES
  DrainEnds
CHECK_DEADLOCK FALSE
