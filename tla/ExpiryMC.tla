-------------------------------- MODULE ExpiryMC ------------------------------
(* One memory, which takes part in a supersession, and two commands *)
EXTENDS Expiry

CONSTANTS m1, t1, t2, a1, a2
===============================================================================
