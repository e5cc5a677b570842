CONSTANTS
  m1 = m1  t1 = t1  t2 = t2  a1 = a1  a2 = a2
  Memory = {m1}
  Text = {t1, t2}
  Actor = {a1, a2}
  Chained = {m1}
  Limit = 1
  MaxDeadlines = 3
  MaxFailures = 1
  NoMemory = NoMemory  NoPair = NoPair  NoText = NoText
SPECIFICATION FairSpec
\* Every command is done and no deadline has passed.
CHECK_DEADLOCK FALSE
INVARIANTS FlagIsCurrent NothingExpiresUnseen AskedOnce
 
