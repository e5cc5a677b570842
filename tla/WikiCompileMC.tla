----------------------------- MODULE WikiCompileMC -----------------------------
(* Two memories of one session around one of another in the store's order; *)
(* the first of them is not written yet, so that its insertion moves rows. *)
EXTENDS WikiCompile

CONSTANTS a, b, none

MCSessionOf == <<a, b, a, none>>

================================================================================
