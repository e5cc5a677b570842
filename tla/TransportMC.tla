----------------------------- MODULE TransportMC ------------------------------
(***************************************************************************)
(* Transport on small instances.                                           *)
(***************************************************************************)
EXTENDS Transport

CONSTANTS c1, d1, d2, s1, s2
===============================================================================
