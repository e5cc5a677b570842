---------------------------- MODULE WikiReviewMC ----------------------------
EXTENDS WikiReview, TLC

CONSTANTS t1, t2

(* "plain" cites one ref, "full" both, and spells the value out.           *)
MCCites == "plain" :> {"r1"} @@ "full" :> {"r1", "r2"}
MCPackets == "plain" :> {"c1"} @@ "full" :> {"c1"}

(* Nothing tells two versions of the topic apart but that they differ.     *)
Symmetry == Permutations({t1, t2})
=============================================================================
