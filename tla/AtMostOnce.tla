------------------------------ MODULE AtMostOnce ------------------------------
(***************************************************************************)
(* What the sender of a request may rely on, whatever carries it: its      *)
(* effect takes place at most once; what is said about it is said once,    *)
(* and nothing happens afterwards; it is called successful only when its   *)
(* effect took place, and withdrawn only when it never will.               *)
(***************************************************************************)
EXTENDS Naturals

CONSTANT Attempt

VARIABLES runs,    \* how often the effect of each attempt took place
          verdict  \* what has been recorded about each of them

Init ==
  /\ runs = [r \in Attempt |-> 0]
  /\ verdict = [r \in Attempt |-> "none"]

Run(r) ==
  /\ verdict[r] = "none"
  /\ runs[r] = 0
  /\ runs' = [runs EXCEPT ![r] = 1]
  /\ UNCHANGED verdict

Record(r, v) ==
  /\ verdict[r] = "none"
  /\ v = "ok" => runs[r] = 1
  /\ v = "withdrawn" => runs[r] = 0
  /\ verdict' = [verdict EXCEPT ![r] = v]
  /\ UNCHANGED runs

\* A restart may record the same about several interrupted requests at once.
Abandon(R) ==
  /\ \A r \in R : verdict[r] = "none"
  /\ verdict' = [r \in Attempt |-> IF r \in R THEN "error" ELSE verdict[r]]
  /\ UNCHANGED runs

Next ==
  \/ \E r \in Attempt :
       \/ Run(r)
       \/ \E v \in {"ok", "error", "withdrawn"} : Record(r, v)
  \/ \E R \in SUBSET Attempt : Abandon(R)

Spec == Init /\ [][Next]_<<runs, verdict>>
===============================================================================
