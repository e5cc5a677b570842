\* Commands end and daemons may: a state in which none is left is no error.
SPECIFICATION FairSpec
CONSTANTS
  d1 = d1
  d2 = d2
  start = start
  auto = auto
  stop = stop
  Nobody = Nobody
  Daemon = {d1, d2}
  Starter = {start, auto}
  Stopper = {stop}
  InNeed = {auto}
  Busy = {d1}
  Where <- MCWhere
INVARIANTS
  ReadyIsReachable
  
  NobodyLoiters
  
PROPERTY CallsEnd
CHECK_DEADLOCK FALSE
