SPECIFICATION Spec

CONSTANTS
  NoMemory = NoMemory
  m1 = m1
  m2 = m2
  m3 = m3
  m4 = m4
  p1 = p1
  p2 = p2
  Memory = {m1, m2, m3, m4}
  Process = {p1, p2}
  Writer = {p1}
  Deleter = {p1, p2}
  Dismissed = {m1}
  MAX_CHAIN_DEPTH = 2
SYMMETRY MCSymmetry
INVARIANTS
  
  
  HeadsAreComplete
CHECK_DEADLOCK FALSE
