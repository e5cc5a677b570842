---------------------------- MODULE SupersessionMC ----------------------------
(***************************************************************************)
(* Supersession on small instances.                                        *)
(***************************************************************************)
EXTENDS Supersession, TLC

CONSTANTS m1, m2, m3, m4, p1, p2

MCSymmetry == Permutations(Memory \ Dismissed)
===============================================================================
