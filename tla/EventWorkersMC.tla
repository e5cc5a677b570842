---------------------------- MODULE EventWorkersMC ----------------------------
(***************************************************************************)
(* EventWorkers on small instances.                                        *)
(***************************************************************************)
EXTENDS EventWorkers, TLC

CONSTANTS e1, e2, d1, d2, s1, s2

MCSymmetry == Permutations({s1, s2})
===============================================================================
