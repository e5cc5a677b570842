\* Everything that is bounded may be used up.
CHECK_DEADLOCK FALSE
SPECIFICATION Spec
CONSTANTS
  Article = {"plain", "full"}
  Ref = {"r1", "r2"}
  Claim = {"c1"}
  Cites <- MCCites
  Packets <- MCPackets
  Spelled = {"full"}
  Sensitive = {"r2"}
  t1 = t1
  t2 = t2
  Topic = {t1, t2}
  None = None
  Coverage = {{}, {"c1"}}
  Remark = "remark"
  MaxRank = 1
  MaxPasses = 2
  MaxFindings = 1
  MaxCalls = 3
  MaxDrafts = 1
  MaxEdits = 1
SYMMETRY Symmetry
INVARIANTS
  TypeOK
  GateMeansReviewed
  

  
