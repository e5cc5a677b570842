----------------------------- MODULE SessionReview ----------------------------
(***************************************************************************)
(* The handoff review: may this session say that it is done?  A session    *)
(* adds memories, at once or through the queue; each add at once leaves a  *)
(* stale check in the queue; the daemon's workers judge, with one model    *)
(* object for all of them, and record what they suspect; meanwhile the     *)
(* command review reads the queue, the pairs, the expiry flags and the     *)
(* failed adds, one after the other, and gives a verdict.                  *)
(*                                                                         *)
(* EventQueue is the queue and Fallback the model.  A check stands for one *)
(* of its judgments: one call, one pair.  The queue has fewer rows than    *)
(* the 500 that review lists.  Bound: the daemon ends, credentials are     *)
(* replaced and calls fail MaxErrors times in all.                         *)
(***************************************************************************)
EXTENDS EventQueue, Fallback

CONSTANTS
  Checks,         \* the events that are stale checks; the others are adds
  Own,            \* the events of the session under review
  NoEvent

ASSUME ReviewAssumption ==
  /\ Checks \subseteq Event /\ Own \subseteq Event
  /\ NoEvent \notin Event

VARIABLES
  job,            \* the event each worker has claimed, and its attempts
  pairs,          \* what a check recorded
  review,         \* the command review
  retried         \* history: checks that were put back into the queue

jobVars == <<job, pairs>>
vars == <<queueVars, fallbackVars, jobVars, review, retried>>

Phase == {"idle", "pairs", "adds", "pass", "blocked"}

TypeOK ==
  /\ QueueTypeOK /\ FallbackTypeOK
  /\ job \in [Thread -> [event : Event \cup {NoEvent}, attempts : Nat, recorded : BOOLEAN]]
  /\ pairs \in [Checks -> {"none", "cached", "open", "closed"}]
  /\ review \in [pc : Phase, blocking : BOOLEAN, asked : SUBSET Checks]
  /\ retried \subseteq Checks

NoJob == [event |-> NoEvent, attempts |-> 0, recorded |-> FALSE]

Init ==
  /\ QueueInit /\ FallbackInit
  /\ job = [t \in Thread |-> NoJob]
  /\ pairs = [c \in Checks |-> "none"]
  /\ review = [pc |-> "idle", blocking |-> FALSE, asked |-> {}]
  /\ retried = {}

--------------------------------------------------------------------------------
(* Sessions *)

\* An add through the queue; or the stale check that an add at once leaves
\* behind, if it comes to that: an error is swallowed, a command may be killed.
Enqueue(e) ==
  /\ enqueue(e)
  /\ UNCHANGED <<fallbackVars, jobVars, review, retried>>

\* event retry and event ack
Retry(e) ==
  /\ retry(e)
  /\ retried' = retried \cup ({e} \cap Checks)
  /\ UNCHANGED <<fallbackVars, jobVars, review>>

Ack(e) ==
  /\ e \notin Checks  \* for a check it changes nothing here
  /\ ack({e})
  /\ UNCHANGED <<fallbackVars, jobVars, review, retried>>

\* A decision about a pair, see Dispositions.
Dispose(c) ==
  /\ pairs[c] = "open"
  /\ pairs' = [pairs EXCEPT ![c] = "closed"]
  /\ UNCHANGED <<queueVars, fallbackVars, job, review, retried>>

--------------------------------------------------------------------------------
(* The workers of the daemon *)

Checking(t) == job[t].event \in Checks

\* A text is judged once (has_judgment), and not when its memory has gone.
Claim(t) ==
  /\ job[t].event = NoEvent
  /\ \E e \in Event, skipped \in BOOLEAN :
       LET judged == e \in Checks /\ (pairs[e] # "none" \/ skipped)
       IN /\ claim_next(e)
          /\ job' = [job EXCEPT ![t] = [event |-> e, attempts |-> rows[e].attempts + 1,
                                        recorded |-> judged]]
          /\ IF e \in Checks /\ ~judged THEN generate_response(t) ELSE UNCHANGED fallbackVars
  /\ UNCHANGED <<pairs, review, retried>>

Calling(t) ==
  /\ Calls(t)
  /\ UNCHANGED <<queueVars, jobVars, review, retried>>

\* Who judged is read from the model object when the pair is recorded.
Record(t) ==
  /\ call[t].pc = "answered"
  /\ \E d \in {"open", "cached"} :
       pairs' = [pairs EXCEPT ![job[t].event] = IF @ = "none" THEN d ELSE @]
  /\ job' = [job EXCEPT ![t].recorded = TRUE]
  /\ Return(t)
  /\ since' = [since EXCEPT ![t] = {}]
  /\ UNCHANGED <<queueVars, key, client, active_model, errors, refused,
                 review, retried>>

\* An add, and a check that has been judged, is completed.
Complete(t) ==
  /\ job[t].event # NoEvent
  /\ Checking(t) => job[t].recorded
  /\ complete(job[t].event)
  /\ job' = [job EXCEPT ![t] = NoJob]
  /\ UNCHANGED <<fallbackVars, pairs, review, retried>>

\* The store fails an add, or all endpoints fail a check.
Fails(t) ==
  /\ job[t].event # NoEvent
  /\ Checking(t) => call[t].pc = "failed"
  /\ fail(job[t].event, job[t].attempts)
  /\ job' = [job EXCEPT ![t] = NoJob]
  /\ Return(t)
  /\ UNCHANGED <<key, client, active_model, errors, refused, since,
                 pairs, review, retried>>

\* The daemon ends, and the next one recovers what was being worked on.
Restart ==
  /\ FallbackRestart
  /\ job' = [t \in Thread |-> NoJob]
  /\ recover_stale
  /\ UNCHANGED <<pairs, review, retried>>

--------------------------------------------------------------------------------
(* session_review *)

\* Mutant: a check that a worker has claimed is no longer pending.
Pending_Queued == With("queued") \cap Checks \cap Own

Pending == (With("queued") \cup With("processing")) \cap Checks \cap Own

\* What the session has asked for so far.
Asked == {c \in Checks \cap Own : rows[c].status # "absent"}

Reads(pc, blocking) ==
  /\ review' = [review EXCEPT !.pc = pc, !.blocking = @ \/ blocking]
  /\ UNCHANGED <<queueVars, fallbackVars, jobVars, retried>>

\* With --wait the queue is read again while there are checks and time left.
ReadPending ==
  /\ \/ review.pc \in {"idle", "pass", "blocked"}
     \/ review.pc = "pairs" /\ review.blocking
  /\ review' = [pc |-> "pairs", blocking |-> Pending # {}, asked |-> Asked]
  /\ UNCHANGED <<queueVars, fallbackVars, jobVars, retried>>

ReadPairs ==
  /\ review.pc = "pairs"
  /\ Reads("adds", \E c \in Checks \cap Own : pairs[c] = "open")

\* Whether an expiry of anybody's is open, which is read before, is up to Expiry.
ReadFailedAdds ==
  /\ review.pc = "adds"
  /\ \E expired \in BOOLEAN :
       LET blocked == expired \/ review.blocking \/ (Unacked \cap Own) \ Checks # {}
       IN Reads(IF blocked THEN "blocked" ELSE "pass", blocked)

--------------------------------------------------------------------------------

Next ==
  \/ \E e \in Event : Enqueue(e) \/ Retry(e) \/ Ack(e)
  \/ \E c \in Checks : Dispose(c)
  \/ \E e \in Endpoint : Rotate(e) /\ UNCHANGED <<queueVars, jobVars, review, retried>>
  \/ \E t \in Thread : \/ Claim(t) \/ Calling(t) \/ Record(t)
                       \/ Complete(t) \/ Fails(t)
  \/ Restart
  \/ ReadPending \/ ReadPairs \/ ReadFailedAdds

Spec == Init /\ [][Next]_vars

--------------------------------------------------------------------------------
(* Properties *)

\* After a pass no suspicion comes up about what the session had asked to be
\* checked before the review, unless the check had failed and is put back: what
\* was pending is read before the pairs, and workers record before they complete
\* (review.py:229-243, staleness.py:669-686).
NothingOpensAfterPass ==
  [][\A c \in review.asked : review.pc = "pass" /\ pairs[c] = "none" /\ c \notin retried =>
       pairs'[c] # "open"]_vars

\* A pair is stamped, with active_model, as judged by an endpoint that answered,
\* and no earlier than the judgment, whatever was configured or answered before
\* (llm.py:197-199).
StampIsRecent ==
  [][\A c \in Checks : pairs[c] = "none" /\ pairs'[c] # "none" =>
       \E t \in Thread : job[t].event = c /\ active_model \in since[t]]_vars

\* What makes them inductive.

KeysSound ==
  \A e \in Endpoint : key[e] <= errors + 1 /\ refused[e] < key[e]

JobsSound ==
  \A t \in Thread :
    /\ job[t].event # NoEvent =>
         /\ rows[job[t].event].status = "processing"
         /\ \A u \in Thread \ {t} : job[u].event # job[t].event
    /\ call[t].pc # "idle" => job[t].event \in Checks /\ ~job[t].recorded
    /\ call[t].pc = "answered" => active_model \in since[t]

Unsettled == {"absent", "queued", "processing"}

ReviewSound ==
  /\ review.asked \subseteq Checks
  /\ review.pc = "pass" => ~review.blocking
  /\ review.pc \in {"pairs", "adds", "pass"} /\ ~review.blocking =>
       \A c \in review.asked : rows[c].status \in Unsettled => c \in retried

ReviewInv == TypeOK /\ KeysSound /\ RefusedIsForgotten /\ JobsSound /\ ReviewSound
===============================================================================
