------------------------------ MODULE StoreGateMC -----------------------------
(***************************************************************************)
(* StoreGate on small instances.                                           *)
(***************************************************************************)
EXTENDS StoreGate

CONSTANTS r1, r2, r3, b1, b2
===============================================================================
