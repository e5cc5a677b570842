\* Two reviewers and an editor at two memories that a stale check judges.
CONSTANTS
  Memory = {a, b}
  Text = {x, y}
  Kind = {"displacement", "necessity"}
  Checker = {k}
  Reviewer = {r1, r2}
  Editor = {e}
  NoPair = NoPair
  NoMemory = NoMemory
  NoText = NoText
SPECIFICATION Spec
SYMMETRY Symmetry
CONSTRAINT Bounded
\* Every task has come to an end.
CHECK_DEADLOCK FALSE
INVARIANTS ClosedForReason NothingHalfDone
PROPERTY KeepsSuspicions
