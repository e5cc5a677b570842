----------------------------- MODULE AcceptedWork -----------------------------
(***************************************************************************)
(* What the asynchronous queue promises to whoever handed it an event: an  *)
(* accepted event stays pending until it is finished or given up, only a   *)
(* person may take it back out of "failed", and the queue forgets only     *)
(* what is finished or acknowledged.  No attempt counter, no worker, no    *)
(* daemon and no crash appears here; EventWorkers implements this.         *)
(***************************************************************************)

CONSTANT Event            \* the events that may ever be submitted

VARIABLE phase            \* phase[e]: where event e is in its life

Phases == {"new", "pending", "done", "failed", "acked", "gone"}

TypeOK == phase \in [Event -> Phases]

Init == phase = [e \in Event |-> "new"]

Become(S, p) == phase' = [e \in Event |-> IF e \in S THEN p ELSE phase[e]]

Accept(e) == phase[e] = "new" /\ Become({e}, "pending")

Finish(e) == phase[e] = "pending" /\ Become({e}, "done")

GiveUp(e) == phase[e] = "pending" /\ Become({e}, "failed")

TakeBack(e) == phase[e] \in {"failed", "acked"} /\ Become({e}, "pending")

Acknowledge(S) ==
  /\ \A e \in S : phase[e] \in {"failed", "acked"}
  /\ Become(S, "acked")

Forget(S) ==
  /\ \A e \in S : phase[e] \in {"done", "acked"}
  /\ Become(S, "gone")

Next ==
  \/ \E e \in Event : Accept(e) \/ Finish(e) \/ GiveUp(e) \/ TakeBack(e)
  \/ \E S \in SUBSET Event : Acknowledge(S) \/ Forget(S)

Spec == Init /\ [][Next]_phase
===============================================================================
