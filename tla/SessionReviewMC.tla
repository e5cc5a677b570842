--------------------------- MODULE SessionReviewMC ----------------------------
(* A check and an add of one session, a check of another, two workers *)
EXTENDS SessionReview, TLC

CONSTANTS c1, c2, e1, t1, t2

Symmetry == Permutations({t1, t2})
===============================================================================
