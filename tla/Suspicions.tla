------------------------------ MODULE Suspicions ------------------------------
(***************************************************************************)
(* What reviewers may rely on: a suspicion is judged once; while it is     *)
(* open it may be decided or become moot, once; nothing is done about one  *)
(* that was never opened.  What a decision asks for is done only while the *)
(* suspicion is closed, and once it is done the suspicion does not come    *)
(* back, unless two reviewers had it in hand at once or the one who had it *)
(* did not learn what became of it.                                        *)
(***************************************************************************)
CONSTANT Pair

VARIABLES disposition,  \* what is on record about each suspicion
          carried,      \* those whose decision has been carried out
          doubtful      \* those that two reviewers had in hand, or without an answer

\* Decisions that are followed by a change of the store.
Acted == {"confirmed", "merged", "ttl"}

\* What stands for good.
Final == {"cached", "dismissed", "obsoleted", "expired"}

Init ==
  /\ disposition = [p \in Pair |-> "none"]
  /\ carried = {}
  /\ doubtful = {}

Judge(p) ==
  /\ disposition[p] = "none"
  /\ \E d \in {"open", "cached"} : disposition' = [disposition EXCEPT ![p] = d]
  /\ UNCHANGED <<carried, doubtful>>

Decide(p) ==
  /\ disposition[p] = "open"
  /\ \E d \in Acted \cup {"dismissed"} : disposition' = [disposition EXCEPT ![p] = d]
  /\ UNCHANGED <<carried, doubtful>>

\* Memories have changed.
Moot ==
  /\ DOMAIN disposition' = Pair
  /\ \A p \in Pair : \/ disposition'[p] = disposition[p]
                     \/ disposition[p] = "open" /\ disposition'[p] \in {"obsoleted", "expired"}
  /\ UNCHANGED <<carried, doubtful>>

CarryOut(p) ==
  /\ disposition[p] \notin {"none", "cached"}
  /\ disposition[p] = "open" => p \in doubtful
  /\ carried' = carried \cup {p}
  /\ UNCHANGED <<disposition, doubtful>>

Doubt(p) ==
  /\ disposition[p] \notin {"none", "cached"}
  /\ doubtful' = doubtful \cup {p}
  /\ UNCHANGED <<disposition, carried>>

GiveUp(p) ==
  /\ disposition[p] \in Acted
  /\ p \in carried => p \in doubtful
  /\ disposition' = [disposition EXCEPT ![p] = "open"]
  /\ UNCHANGED <<carried, doubtful>>

Next ==
  \/ \E p \in Pair : Judge(p) \/ Decide(p) \/ CarryOut(p) \/ Doubt(p) \/ GiveUp(p)
  \/ Moot

Spec == Init /\ [][Next]_<<disposition, carried, doubtful>>
===============================================================================
