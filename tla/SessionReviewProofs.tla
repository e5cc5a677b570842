-------------------------- MODULE SessionReviewProofs -------------------------
(***************************************************************************)
(* Proofs about SessionReview, and with it about Fallback, for any number  *)
(* of sessions' events, threads and endpoints.                             *)
(***************************************************************************)
EXTENDS SessionReview, TLAPS

USE DEF fallbackVars, queueVars, api_key

--------------------------------------------------------------------------------
(* The chain of endpoints: what is kept by whatever a thread does to it. *)

ChainInv == FallbackTypeOK /\ KeysSound /\ RefusedIsForgotten

\* The field names an endpoint that answered since this thread's answer.
Named(t) == call[t].pc = "answered" => active_model \in since[t]

LEMMA ChainUnchanged ==
  ASSUME ChainInv, UNCHANGED <<key, client, active_model, errors, refused>>,
         call' \in [Thread -> [pc : {"idle", "client", "ask", "drop", "answered", "failed"},
                               at : Endpoint, key : Key \cup {0}]],
         since' \in [Thread -> SUBSET Endpoint]
  PROVE  ChainInv'
  BY DEF ChainInv, FallbackTypeOK, KeysSound, RefusedIsForgotten

LEMMA NoCallOK ==
  NoCall \in [pc : {"idle", "client", "ask", "drop", "answered", "failed"},
              at : Endpoint, key : Key \cup {0}]
  BY ChainAssumption DEF NoCall, Endpoint, Key

LEMMA RotateKeeps ==
  ASSUME ChainInv, NEW e \in Endpoint, Rotate(e)
  PROVE  ChainInv'
  <1>1. errors' \in 0..MaxErrors /\ key[e] + 1 <= errors' + 1
    BY ChainAssumption DEF Rotate, ChainInv, FallbackTypeOK, KeysSound, Key
  <1>2. key' \in [Endpoint -> Key]
    BY <1>1, ChainAssumption DEF Rotate, ChainInv, FallbackTypeOK, Key
  <1>3. KeysSound'
    BY <1>1, <1>2, ChainAssumption DEF Rotate, ChainInv, FallbackTypeOK, KeysSound, Key
  <1> QED
    BY <1>1, <1>2, <1>3 DEF Rotate, ChainInv, FallbackTypeOK, RefusedIsForgotten

LEMMA FallOverMoves ==
  ASSUME FallbackTypeOK, NEW t \in Thread, FallOver(t)
  PROVE  /\ call' \in [Thread -> [pc : {"idle", "client", "ask", "drop", "answered", "failed"},
                                  at : Endpoint, key : Key \cup {0}]]
         /\ call'[t].pc \in {"client", "failed"}
         /\ \A u \in Thread \ {t} : call'[u] = call[u]
  <1> DEFINE e == call[t].at
  <1>1. CASE e = Endpoints
    BY <1>1, NoCallOK DEF FallOver, FallbackTypeOK, NoCall
  <1>2. CASE e # Endpoints
    <2>1. e \in Endpoint /\ e + 1 \in Endpoint
      BY <1>2, ChainAssumption DEF FallbackTypeOK, Endpoint
    <2> QED
      BY <1>2, <2>1, NoCallOK DEF FallOver, FallbackTypeOK, NoCall
  <1> QED BY <1>1, <1>2

\* What each step of a call does to the calls, and that it keeps the chain.
Moves(t) ==
  /\ ChainInv'
  /\ call[t].pc # "idle" /\ call'[t].pc # "idle"
  /\ \A u \in Thread \ {t} : call'[u] = call[u]
  /\ (\A u \in Thread : Named(u)) => \A u \in Thread : Named(u)'

LEMMA _llm_forMoves ==
  ASSUME ChainInv, NEW t \in Thread, _llm_for(t)
  PROVE  Moves(t)
  <1> DEFINE e == call[t].at
  <1>1. e \in Endpoint /\ call[t].pc = "client"
    BY DEF _llm_for, ChainInv, FallbackTypeOK
  <1>2. /\ call'[t].pc \in {"ask", "drop"}
        /\ \A u \in Thread \ {t} : call'[u] = call[u]
        /\ call' \in [Thread -> [pc : {"idle", "client", "ask", "drop", "answered", "failed"},
                                 at : Endpoint, key : Key \cup {0}]]
    BY <1>1 DEF _llm_for, ChainInv, FallbackTypeOK
  <1>3. /\ client' \in [Endpoint -> Key \cup {0}]
        /\ \A f \in Endpoint : client'[f] = client[f] \/ client'[f] = key[f]
    BY <1>1 DEF _llm_for, ChainInv, FallbackTypeOK
  <1>4. errors' \in 0..MaxErrors /\ errors <= errors'
    BY ChainAssumption DEF _llm_for, ChainInv, FallbackTypeOK
  <1>5. KeysSound'
    BY <1>4, ChainAssumption DEF _llm_for, ChainInv, FallbackTypeOK, KeysSound, Key
  <1>6. RefusedIsForgotten'
    BY <1>3, ChainAssumption
    DEF _llm_for, ChainInv, FallbackTypeOK, KeysSound, RefusedIsForgotten, Key
  <1>7. ChainInv'
    BY <1>2, <1>3, <1>4, <1>5, <1>6 DEF _llm_for, ChainInv, FallbackTypeOK
  <1>8. (\A u \in Thread : Named(u)) => \A u \in Thread : Named(u)'
    BY <1>1, <1>2 DEF _llm_for, Named
  <1> QED BY <1>1, <1>2, <1>7, <1>8 DEF Moves

LEMMA AskMoves ==
  ASSUME ChainInv, NEW t \in Thread, Ask(t)
  PROVE  Moves(t)
  <1> DEFINE e == call[t].at
  <1>1. e \in Endpoint /\ call[t].pc = "ask"
    BY DEF Ask, ChainInv, FallbackTypeOK
  <1>2. errors' \in 0..MaxErrors /\ errors <= errors'
    BY ChainAssumption DEF Ask, ChainInv, FallbackTypeOK
  <1>3. KeysSound' /\ RefusedIsForgotten'
    BY <1>2, ChainAssumption
    DEF Ask, ChainInv, FallbackTypeOK, KeysSound, RefusedIsForgotten, Key
  <1>4. CASE Answered(t)
    <2>1. /\ call'[t].pc = "answered" /\ since'[t] = {e} /\ active_model' = e
          /\ \A u \in Thread \ {t} :
               /\ call'[u] = call[u]
               /\ call[u].pc = "answered" => since'[u] = since[u] \cup {e}
      BY <1>4 DEF Answered, ChainInv, FallbackTypeOK
    <2>2. /\ call' \in [Thread -> [pc : {"idle", "client", "ask", "drop", "answered", "failed"},
                                   at : Endpoint, key : Key \cup {0}]]
          /\ since' \in [Thread -> SUBSET Endpoint]
      BY <1>1, <1>4 DEF Answered, ChainInv, FallbackTypeOK
    <2>3. ChainInv'
      BY <1>1, <1>2, <1>3, <2>1, <2>2 DEF Ask, ChainInv, FallbackTypeOK
    <2> QED
      BY <1>1, <2>1, <2>3 DEF Moves, Named
  <1>5. CASE FallOver(t) /\ UNCHANGED <<active_model, since>>
    <2>1. ChainInv'
      BY <1>2, <1>3, <1>5, FallOverMoves DEF Ask, ChainInv, FallbackTypeOK
    <2> QED
      BY <1>1, <1>5, <2>1, FallOverMoves DEF Moves, Named, ChainInv
  <1>6. CASE call' = [call EXCEPT ![t].pc = "drop"] /\ UNCHANGED <<active_model, since>>
    <2>1. /\ call'[t].pc = "drop"
          /\ \A u \in Thread \ {t} : call'[u] = call[u]
          /\ call' \in [Thread -> [pc : {"idle", "client", "ask", "drop", "answered", "failed"},
                                   at : Endpoint, key : Key \cup {0}]]
      BY <1>6 DEF ChainInv, FallbackTypeOK
    <2>2. ChainInv'
      BY <1>2, <1>3, <1>6, <2>1 DEF Ask, ChainInv, FallbackTypeOK
    <2> QED
      BY <1>1, <1>6, <2>1, <2>2 DEF Moves, Named
  <1> QED BY <1>4, <1>5, <1>6 DEF Ask

LEMMA DropMoves ==
  ASSUME ChainInv, NEW t \in Thread, Drop(t)
  PROVE  Moves(t)
  <1> DEFINE e == call[t].at
  <1>1. e \in Endpoint /\ call[t].pc = "drop" /\ call[t].key \in Key \cup {0}
    BY DEF Drop, ChainInv, FallbackTypeOK
  <1>2. client' \in [Endpoint -> Key \cup {0}] /\ client'[e] = 0
        /\ \A f \in Endpoint \ {e} : client'[f] = client[f]
    BY <1>1 DEF Drop, Without, ChainInv, FallbackTypeOK
  <1>3. /\ refused' \in [Endpoint -> Key \cup {0}] /\ refused'[e] < key[e]
        /\ \A f \in Endpoint \ {e} : refused'[f] = refused[f]
    BY <1>1, ChainAssumption DEF Drop, ChainInv, FallbackTypeOK, KeysSound, Key
  <1>4. KeysSound'
    BY <1>1, <1>3 DEF Drop, ChainInv, FallbackTypeOK, KeysSound
  <1>5. RefusedIsForgotten'
    BY <1>1, <1>2, <1>3 DEF ChainInv, FallbackTypeOK, RefusedIsForgotten
  <1>6. FallOver(t)
    BY DEF Drop
  <1>7. ChainInv'
    BY <1>2, <1>3, <1>4, <1>5, <1>6, FallOverMoves DEF Drop, ChainInv, FallbackTypeOK
  <1> QED
    BY <1>1, <1>6, <1>7, FallOverMoves DEF Moves, Named, Drop, ChainInv

LEMMA CallsMoves ==
  ASSUME ChainInv, NEW t \in Thread, Calls(t)
  PROVE  Moves(t)
  BY _llm_forMoves, AskMoves, DropMoves DEF Calls

LEMMA RestartKeepsChain ==
  ASSUME ChainInv, FallbackRestart
  PROVE  ChainInv' /\ \A t \in Thread : call'[t].pc = "idle"
  <1>1. errors' \in 0..MaxErrors /\ errors <= errors'
    BY ChainAssumption DEF FallbackRestart, ChainInv, FallbackTypeOK
  <1>2. KeysSound'
    BY <1>1, ChainAssumption DEF FallbackRestart, ChainInv, FallbackTypeOK, KeysSound, Key
  <1>3. active_model' \in Endpoint /\ RefusedIsForgotten'
    BY ChainAssumption DEF FallbackRestart, RefusedIsForgotten, Endpoint
  <1> QED
    BY <1>1, <1>2, <1>3, NoCallOK DEF FallbackRestart, ChainInv, FallbackTypeOK, NoCall

--------------------------------------------------------------------------------
(* The queue, the jobs and the review *)

RowsHeld ==
  \A t \in Thread : job[t].event # NoEvent =>
    /\ rows[job[t].event].status = "processing"
    /\ \A u \in Thread \ {t} : job[u].event # job[t].event

CallsHeld ==
  \A t \in Thread :
    /\ call[t].pc # "idle" => job[t].event \in Checks /\ ~job[t].recorded
    /\ Named(t)

RestOK ==
  /\ QueueTypeOK
  /\ job \in [Thread -> [event : Event \cup {NoEvent}, attempts : Nat, recorded : BOOLEAN]]
  /\ pairs \in [Checks -> {"none", "cached", "open", "closed"}]
  /\ review \in [pc : Phase, blocking : BOOLEAN, asked : SUBSET Checks]
  /\ retried \subseteq Checks

Parts == ChainInv /\ RestOK /\ RowsHeld /\ CallsHeld /\ ReviewSound

LEMMA PartsOfInv == ReviewInv <=> Parts
  BY DEF ReviewInv, Parts, TypeOK, ChainInv, RestOK, JobsSound, RowsHeld, CallsHeld, Named

LEMMA PartsOfInvNext == ReviewInv' <=> Parts'
  BY DEF ReviewInv, Parts, TypeOK, ChainInv, RestOK, JobsSound, RowsHeld, CallsHeld, Named

\* A row that the review has seen settled is not touched, or was put back.
Settled ==
  \A c \in Checks : rows[c].status \notin Unsettled =>
    rows'[c].status \notin Unsettled \/ c \in retried'

\* What is to be shown of a step that leaves the review alone.
LEMMA ReviewStays ==
  ASSUME Parts, UNCHANGED review, retried \subseteq retried', Settled
  PROVE  ReviewSound'
  BY DEF Parts, ReviewSound, Settled

LEMMA StatusSet ==
  ASSUME QueueTypeOK, NEW e \in Event, NEW s \in Status, SetStatus(e, s)
  PROVE  /\ rows' \in [Event -> Row]
         /\ \A f \in Event \ {e} : rows'[f] = rows[f]
         /\ rows[e].status = "processing" => rows'[e].status = s
  BY DEF SetStatus, QueueTypeOK, Row, Status

\* Who writes a row that no worker has, and nothing of the workers.
LEMMA OthersKeep ==
  ASSUME Parts, UNCHANGED <<fallbackVars, job>>, RestOK', ReviewSound',
         \A e \in Event : rows[e].status = "processing" => rows'[e].status = "processing"
  PROVE  Parts'
  <1>1. RowsHeld'
    BY ReviewAssumption DEF Parts, RowsHeld, RestOK
  <1>2. CallsHeld'
    BY DEF Parts, CallsHeld, Named
  <1>3. ChainInv'
    BY ChainUnchanged DEF Parts, ChainInv, FallbackTypeOK
  <1> QED BY <1>1, <1>2, <1>3 DEF Parts

LEMMA EnqueueKeeps ==
  ASSUME Parts, NEW e \in Event, Enqueue(e)
  PROVE  Parts'
  <1>1. /\ rows' \in [Event -> Row] /\ clock' \in Nat
        /\ rows[e].status = "absent" /\ \A f \in Event \ {e} : rows'[f] = rows[f]
    BY DEF Enqueue, enqueue, Parts, RestOK, QueueTypeOK, Row, Status
  <1>2. Settled
    BY <1>1, ReviewAssumption DEF Settled, Unsettled
  <1>3. ReviewSound'
    BY <1>2, ReviewStays DEF Enqueue
  <1>4. RestOK'
    BY <1>1 DEF Enqueue, jobVars, Parts, RestOK, QueueTypeOK
  <1> QED BY <1>1, <1>3, <1>4, OthersKeep DEF Enqueue, jobVars

LEMMA RetryKeeps ==
  ASSUME Parts, NEW e \in Event, Retry(e)
  PROVE  Parts'
  <1>1. /\ rows' \in [Event -> Row] /\ clock' = clock
        /\ rows[e].status = "failed" /\ \A f \in Event \ {e} : rows'[f] = rows[f]
    <2>1. /\ rows' = [rows EXCEPT ![e].status = "queued", ![e].attempts = 0, ![e].acked = FALSE]
          /\ rows[e].status = "failed" /\ clock' = clock
      BY DEF Retry, retry, With
    <2>2. rows \in [Event -> Row] /\ rows[e] \in Row
      BY DEF Parts, RestOK, QueueTypeOK
    <2>3. rows'[e] \in Row
      BY <2>1, <2>2 DEF Row, Status
    <2>4. \A f \in Event \ {e} : rows'[f] = rows[f] /\ rows'[f] \in Row
      BY <2>1, <2>2 DEF Parts, RestOK, QueueTypeOK
    <2>5. rows' = [f \in Event |-> rows'[f]]
      BY <2>1, <2>2
    <2> QED BY <2>1, <2>3, <2>4, <2>5
  <1>2. /\ retried' = retried \cup ({e} \cap Checks)
        /\ UNCHANGED <<fallbackVars, job, pairs, review>>
    BY DEF Retry, jobVars
  <1>3. Settled
    BY <1>1, <1>2, ReviewAssumption DEF Settled
  <1>4. ReviewSound'
    BY <1>2, <1>3, ReviewStays
  <1>5. RestOK'
    BY <1>1, <1>2 DEF Parts, RestOK, QueueTypeOK
  <1> QED BY <1>1, <1>2, <1>4, <1>5, OthersKeep

LEMMA AckKeeps ==
  ASSUME Parts, NEW e \in Event, Ack(e)
  PROVE  Parts'
  <1>1. /\ rows' \in [Event -> Row] /\ clock' = clock
        /\ \A f \in Event : rows'[f].status = rows[f].status
    <2>1. /\ rows' = [f \in Event |-> IF f = e THEN [rows[f] EXCEPT !.acked = TRUE] ELSE rows[f]]
          /\ clock' = clock
      BY DEF Ack, ack
    <2>2. \A f \in Event : rows[f] \in Row
      BY DEF Parts, RestOK, QueueTypeOK
    <2>3. \A f \in Event : /\ [rows[f] EXCEPT !.acked = TRUE] \in Row
                           /\ [rows[f] EXCEPT !.acked = TRUE].status = rows[f].status
      BY <2>2 DEF Row
    <2> QED BY <2>1, <2>2, <2>3
  <1>2. Settled
    BY <1>1, ReviewAssumption DEF Settled
  <1>3. ReviewSound'
    BY <1>2, ReviewStays DEF Ack
  <1>4. RestOK'
    BY <1>1 DEF Ack, jobVars, Parts, RestOK, QueueTypeOK
  <1> QED BY <1>1, <1>3, <1>4, OthersKeep DEF Ack, jobVars

LEMMA DisposeKeeps ==
  ASSUME Parts, NEW c \in Checks, Dispose(c)
  PROVE  Parts'
  <1>1. RestOK'
    BY DEF Dispose, Parts, RestOK, QueueTypeOK
  <1>2. ReviewSound'
    BY ReviewStays DEF Dispose, Settled
  <1> QED BY <1>1, <1>2, OthersKeep DEF Dispose

--------------------------------------------------------------------------------
(* The workers *)

LEMMA ClaimKeeps ==
  ASSUME Parts, NEW t \in Thread, Claim(t)
  PROVE  Parts'
  <1>1. PICK e \in Event, skipped \in BOOLEAN :
          LET judged == e \in Checks /\ (pairs[e] # "none" \/ skipped)
          IN /\ claim_next(e)
             /\ job' = [job EXCEPT ![t] = [event |-> e, attempts |-> rows[e].attempts + 1,
                                           recorded |-> judged]]
             /\ IF e \in Checks /\ ~judged THEN generate_response(t) ELSE UNCHANGED fallbackVars
    BY DEF Claim
  <1>2. /\ job[t].event = NoEvent
        /\ UNCHANGED <<pairs, review, retried>>
    BY DEF Claim
  <1> DEFINE judged == e \in Checks /\ (pairs[e] # "none" \/ skipped)
  <1>3. /\ rows' \in [Event -> Row] /\ clock' = clock
        /\ rows[e].status = "queued" /\ rows'[e].status = "processing"
        /\ rows[e].attempts + 1 \in Nat
        /\ \A f \in Event \ {e} : rows'[f] = rows[f]
    BY <1>1 DEF claim_next, With, Parts, RestOK, QueueTypeOK, Row, Status
  <1>4. job'[t] = [event |-> e, attempts |-> rows[e].attempts + 1, recorded |-> judged]
        /\ \A u \in Thread \ {t} : job'[u] = job[u]
    BY <1>1 DEF Parts, RestOK
  <1>5. judged \in BOOLEAN
    OBVIOUS
  <1>6. RestOK'
    BY <1>1, <1>2, <1>3, <1>5 DEF Parts, RestOK, QueueTypeOK
  <1>7. ReviewSound'
    <2>1. Settled
      BY <1>2, <1>3, ReviewAssumption DEF Settled, Unsettled
    <2> QED BY <2>1, <1>2, ReviewStays
  <1>8. RowsHeld'
    <2>1. \A u \in Thread \ {t} : job[u].event # NoEvent => job[u].event # e
      BY <1>3 DEF Parts, RowsHeld
    <2> QED
      BY <1>2, <1>3, <1>4, <2>1, ReviewAssumption DEF Parts, RowsHeld, RestOK
  <1>9. call[t].pc = "idle"
    BY <1>2, ReviewAssumption DEF Parts, CallsHeld
  <1>10. CASE UNCHANGED fallbackVars
    <2>1. ChainInv'
      BY <1>10, ChainUnchanged DEF Parts, ChainInv, FallbackTypeOK
    <2>2. CallsHeld'
      BY <1>4, <1>9, <1>10 DEF Parts, CallsHeld, Named
    <2> QED BY <1>6, <1>7, <1>8, <2>1, <2>2 DEF Parts
  <1>11. CASE e \in Checks /\ ~judged /\ generate_response(t)
    <2>1. /\ call' = [call EXCEPT ![t] = [NoCall EXCEPT !.pc = "client"]]
          /\ UNCHANGED <<key, client, active_model, errors, refused, since>>
      BY <1>11 DEF generate_response
    <2>2. /\ call'[t].pc = "client" /\ \A u \in Thread \ {t} : call'[u] = call[u]
          /\ call' \in [Thread -> [pc : {"idle", "client", "ask", "drop", "answered", "failed"},
                                   at : Endpoint, key : Key \cup {0}]]
      BY <2>1, NoCallOK DEF NoCall, Parts, ChainInv, FallbackTypeOK
    <2>3. ChainInv'
      BY <2>1, <2>2, ChainUnchanged DEF Parts, ChainInv, FallbackTypeOK
    <2>4. CallsHeld'
      BY <1>4, <1>11, <2>1, <2>2 DEF Parts, CallsHeld, Named
    <2> QED BY <1>6, <1>7, <1>8, <2>3, <2>4 DEF Parts
  <1> QED BY <1>1, <1>10, <1>11

LEMMA CallingKeeps ==
  ASSUME Parts, NEW t \in Thread, Calling(t)
  PROVE  Parts'
  <1>1. Moves(t) /\ UNCHANGED <<queueVars, job, pairs, review, retried>>
    BY CallsMoves DEF Calling, Parts, jobVars
  <1>2. RestOK' /\ RowsHeld'
    BY <1>1 DEF Parts, RestOK, QueueTypeOK, RowsHeld
  <1>3. ReviewSound'
    BY <1>1 DEF Parts, ReviewSound
  <1>4. CallsHeld'
    BY <1>1 DEF Parts, CallsHeld, Moves
  <1> QED BY <1>1, <1>2, <1>3, <1>4 DEF Parts, Moves

\* The job of a thread whose call is under way is a check in processing.
LEMMA CallerHolds ==
  ASSUME Parts, NEW t \in Thread, call[t].pc # "idle"
  PROVE  /\ job[t].event \in Checks /\ job[t].event \in Event
         /\ rows[job[t].event].status = "processing"
  BY ReviewAssumption DEF Parts, CallsHeld, RowsHeld

LEMMA RecordKeeps ==
  ASSUME Parts, NEW t \in Thread, Record(t)
  PROVE  Parts'
  <1>1. /\ job' = [job EXCEPT ![t].recorded = TRUE]
        /\ call' = [call EXCEPT ![t] = NoCall]
        /\ since' = [since EXCEPT ![t] = {}]
        /\ UNCHANGED <<queueVars, key, client, active_model, errors, refused, review, retried>>
    BY DEF Record, Return
  <1>2. /\ call'[t] = NoCall /\ job'[t].event = job[t].event
        /\ \A u \in Thread \ {t} : /\ call'[u] = call[u] /\ job'[u] = job[u]
                                   /\ since'[u] = since[u]
    BY <1>1 DEF Parts, ChainInv, RestOK, FallbackTypeOK
  <1>3. ChainInv'
    BY <1>1, NoCallOK, ChainUnchanged DEF Parts, ChainInv, FallbackTypeOK
  <1>4. pairs' \in [Checks -> {"none", "cached", "open", "closed"}]
    BY DEF Record, Parts, RestOK
  <1>5. job' \in [Thread -> [event : Event \cup {NoEvent}, attempts : Nat, recorded : BOOLEAN]]
    BY <1>1 DEF Parts, RestOK
  <1>6. RestOK'
    BY <1>1, <1>4, <1>5 DEF Parts, RestOK, QueueTypeOK
  <1>7. RowsHeld'
    BY <1>1, <1>2 DEF Parts, RowsHeld
  <1>8. CallsHeld'
    BY <1>1, <1>2 DEF Parts, CallsHeld, Named, NoCall
  <1>9. ReviewSound'
    BY <1>1 DEF Parts, ReviewSound
  <1> QED BY <1>3, <1>6, <1>7, <1>8, <1>9 DEF Parts

\* A worker settles its row, and its call is over.
LEMMA SettleKeeps ==
  ASSUME Parts, NEW t \in Thread, job[t].event # NoEvent,
         NEW s \in {"done", "failed", "queued"}, SetStatus(job[t].event, s), UNCHANGED clock,
         job' = [job EXCEPT ![t] = NoJob],
         call' \in {call, [call EXCEPT ![t] = NoCall]}, call'[t].pc = "idle",
         UNCHANGED <<key, client, active_model, errors, refused, since, pairs, review, retried>>
  PROVE  Parts'
  <1> DEFINE e == job[t].event
  <1>1. e \in Event /\ rows[e].status = "processing"
    BY DEF Parts, RestOK, RowsHeld
  <1>2. /\ rows' \in [Event -> Row] /\ rows'[e].status = s
        /\ \A f \in Event \ {e} : rows'[f] = rows[f]
    BY <1>1, StatusSet DEF Parts, RestOK, Status
  <1>3. job'[t] = NoJob /\ \A u \in Thread \ {t} : job'[u] = job[u]
    BY DEF Parts, RestOK
  <1>4. NoJob \in [event : Event \cup {NoEvent}, attempts : Nat, recorded : BOOLEAN]
    BY DEF NoJob
  <1>5. RestOK'
    BY <1>2, <1>4 DEF Parts, RestOK, QueueTypeOK
  <1>6. ReviewSound'
    <2>1. Settled
      BY <1>1, <1>2, ReviewAssumption DEF Settled, Unsettled
    <2> QED BY <2>1, ReviewStays
  <1>7. RowsHeld'
    BY <1>1, <1>2, <1>3 DEF Parts, RestOK, RowsHeld, NoJob
  <1>8. ChainInv'
    BY NoCallOK, ChainUnchanged DEF Parts, ChainInv, FallbackTypeOK
  <1>9. \A u \in Thread \ {t} : call'[u] = call[u]
    BY DEF Parts, ChainInv, FallbackTypeOK
  <1>10. CallsHeld'
    BY <1>3, <1>9 DEF Parts, CallsHeld, Named
  <1> QED BY <1>5, <1>6, <1>7, <1>8, <1>10 DEF Parts

LEMMA CompleteKeeps ==
  ASSUME Parts, NEW t \in Thread, Complete(t)
  PROVE  Parts'
  <1>1. call[t].pc = "idle"
    BY DEF Complete, Checking, Parts, CallsHeld
  <1> QED
    BY <1>1, SettleKeeps DEF Complete, complete

LEMMA FailsKeeps ==
  ASSUME Parts, NEW t \in Thread, Fails(t)
  PROVE  Parts'
  <1>1. call' = [call EXCEPT ![t] = NoCall] /\ call'[t].pc = "idle"
    BY DEF Fails, Return, NoCall, Parts, ChainInv, FallbackTypeOK
  <1>2. CASE Terminal(job[t].attempts)
    BY <1>1, <1>2, SettleKeeps DEF Fails, fail
  <1>3. CASE ~Terminal(job[t].attempts)
    BY <1>1, <1>3, SettleKeeps DEF Fails, fail
  <1> QED BY <1>2, <1>3

LEMMA RestartKeeps ==
  ASSUME Parts, Restart
  PROVE  Parts'
  <1>1. ChainInv' /\ \A t \in Thread : call'[t].pc = "idle"
    BY RestartKeepsChain DEF Restart, Parts
  <1>2. /\ rows' \in [Event -> Row] /\ clock' = clock
        /\ \A e \in Event : rows[e].status # "processing" => rows'[e] = rows[e]
    BY DEF Restart, recover_stale, With, Parts, RestOK, QueueTypeOK, Row, Status
  <1>3. job' = [t \in Thread |-> NoJob] /\ UNCHANGED <<pairs, review, retried>>
    BY DEF Restart
  <1>4. RestOK'
    BY <1>2, <1>3 DEF Parts, RestOK, QueueTypeOK, NoJob
  <1>5. RowsHeld' /\ CallsHeld'
    BY <1>1, <1>3 DEF RowsHeld, CallsHeld, Named, NoJob
  <1>6. ReviewSound'
    <2>1. Settled
      BY <1>2, ReviewAssumption DEF Settled, Unsettled
    <2> QED BY <2>1, <1>3, ReviewStays
  <1> QED BY <1>1, <1>4, <1>5, <1>6 DEF Parts

--------------------------------------------------------------------------------
(* The review *)

LEMMA ReadPendingKeeps ==
  ASSUME Parts, ReadPending
  PROVE  Parts'
  <1>1. /\ review' = [pc |-> "pairs", blocking |-> Pending # {}, asked |-> Asked]
        /\ UNCHANGED <<queueVars, fallbackVars, job, pairs, retried>>
    BY DEF ReadPending, jobVars
  <1>2. Asked \subseteq Checks
    BY DEF Asked
  <1>3. RestOK'
    BY <1>1, <1>2 DEF Parts, RestOK, QueueTypeOK, Phase
  <1>4. Pending = {} => \A c \in Asked : rows[c].status \notin Unsettled
    BY ReviewAssumption DEF Pending, Asked, With, Unsettled
  <1>5. ReviewSound'
    BY <1>1, <1>2, <1>4 DEF ReviewSound
  <1> QED BY <1>1, <1>3, <1>5, OthersKeep

LEMMA ReadsKeeps ==
  ASSUME Parts, NEW pc \in {"adds", "pass", "blocked"}, NEW blocking \in BOOLEAN,
         review.pc \in {"pairs", "adds"}, Reads(pc, blocking),
         pc = "pass" => ~blocking /\ ~review.blocking
  PROVE  Parts'
  <1>1. /\ review' = [review EXCEPT !.pc = pc, !.blocking = @ \/ blocking]
        /\ UNCHANGED <<queueVars, fallbackVars, job, pairs, retried>>
    BY DEF Reads, jobVars
  <1>2. review \in [pc : Phase, blocking : BOOLEAN, asked : SUBSET Checks]
    BY DEF Parts, RestOK
  <1>3. (review.blocking \/ blocking) \in BOOLEAN
    OBVIOUS
  <1>4. /\ review' \in [pc : Phase, blocking : BOOLEAN, asked : SUBSET Checks]
        /\ review'.pc = pc /\ review'.asked = review.asked
        /\ review'.blocking = (review.blocking \/ blocking)
    BY <1>1, <1>2, <1>3 DEF Phase
  <1>5. RestOK'
    BY <1>1, <1>4 DEF Parts, RestOK, QueueTypeOK
  <1>6. ReviewSound'
    BY <1>1, <1>4 DEF Parts, ReviewSound
  <1> QED BY <1>1, <1>5, <1>6, OthersKeep

LEMMA ReadPairsKeeps ==
  ASSUME Parts, ReadPairs
  PROVE  Parts'
  <1> DEFINE open == \E c \in Checks \cap Own : pairs[c] = "open"
  <1>1. review.pc = "pairs" /\ Reads("adds", open) /\ open \in BOOLEAN
    BY DEF ReadPairs
  <1> HIDE DEF open
  <1> QED BY <1>1, ReadsKeeps

LEMMA ReadFailedAddsKeeps ==
  ASSUME Parts, ReadFailedAdds
  PROVE  Parts'
  <1>1. PICK expired \in BOOLEAN :
          LET blocked == expired \/ review.blocking \/ (Unacked \cap Own) \ Checks # {}
          IN Reads(IF blocked THEN "blocked" ELSE "pass", blocked)
    BY DEF ReadFailedAdds
  <1> DEFINE blocked == expired \/ review.blocking \/ (Unacked \cap Own) \ Checks # {}
  <1>2. review.pc = "adds" /\ blocked \in BOOLEAN /\ (~blocked => ~review.blocking)
    BY DEF ReadFailedAdds
  <1>3. Reads(IF blocked THEN "blocked" ELSE "pass", blocked)
    BY <1>1
  <1> HIDE DEF blocked
  <1>4. CASE blocked
    BY <1>2, <1>3, <1>4, ReadsKeeps
  <1>5. CASE ~blocked
    BY <1>2, <1>3, <1>5, ReadsKeeps
  <1> QED BY <1>4, <1>5

--------------------------------------------------------------------------------
(* The theorems *)

LEMMA InitHolds == Init => Parts
  <1> SUFFICES ASSUME Init PROVE Parts
    OBVIOUS
  <1>1. ChainInv
    BY ChainAssumption, NoCallOK
    DEF Init, FallbackInit, ChainInv, FallbackTypeOK, KeysSound, RefusedIsForgotten, Endpoint, Key
  <1>2. QueueTypeOK
    BY DEF Init, QueueInit, QueueTypeOK, NoRow, Row, Status
  <1>3. RestOK
    BY <1>2 DEF Init, RestOK, NoJob, Phase
  <1>4. RowsHeld /\ CallsHeld /\ ReviewSound
    BY DEF Init, FallbackInit, RowsHeld, CallsHeld, Named, ReviewSound, NoJob, NoCall
  <1> QED BY <1>1, <1>3, <1>4 DEF Parts

LEMMA RotateStep ==
  ASSUME Parts, NEW e \in Endpoint, Rotate(e), UNCHANGED <<queueVars, jobVars, review, retried>>
  PROVE  Parts'
  <1>1. ChainInv'
    BY RotateKeeps DEF Parts
  <1>2. UNCHANGED <<queueVars, job, pairs, review, retried, call, active_model, since>>
    BY DEF Rotate, jobVars
  <1>3. RestOK' /\ RowsHeld' /\ CallsHeld' /\ ReviewSound'
    BY <1>2 DEF Parts, RestOK, QueueTypeOK, RowsHeld, CallsHeld, Named, ReviewSound
  <1> QED BY <1>1, <1>3 DEF Parts

LEMMA StutterKeeps ==
  ASSUME Parts, UNCHANGED vars
  PROVE  Parts'
  <1>1. UNCHANGED <<queueVars, fallbackVars, job, pairs, review, retried>>
    BY DEF vars, jobVars
  <1>2. RestOK' /\ ReviewSound'
    BY <1>1 DEF Parts, RestOK, QueueTypeOK, ReviewSound
  <1> QED BY <1>1, <1>2, OthersKeep

LEMMA NextKeeps == Parts /\ [Next]_vars => Parts'
  <1> SUFFICES ASSUME Parts, [Next]_vars PROVE Parts'
    OBVIOUS
  <1>1. CASE \E e \in Event : Enqueue(e) \/ Retry(e) \/ Ack(e)
    BY <1>1, EnqueueKeeps, RetryKeeps, AckKeeps
  <1>2. CASE \E c \in Checks : Dispose(c)
    BY <1>2, DisposeKeeps
  <1>3. CASE \E e \in Endpoint : Rotate(e) /\ UNCHANGED <<queueVars, jobVars, review, retried>>
    BY <1>3, RotateStep
  <1>4. CASE \E t \in Thread : Claim(t) \/ Calling(t) \/ Record(t) \/ Complete(t) \/ Fails(t)
    BY <1>4, ClaimKeeps, CallingKeeps, RecordKeeps, CompleteKeeps, FailsKeeps
  <1>5. CASE Restart
    BY <1>5, RestartKeeps
  <1>6. CASE ReadPending \/ ReadPairs \/ ReadFailedAdds
    BY <1>6, ReadPendingKeeps, ReadPairsKeeps, ReadFailedAddsKeeps
  <1>7. CASE UNCHANGED vars
    BY <1>7, StutterKeeps
  <1> QED BY <1>1, <1>2, <1>3, <1>4, <1>5, <1>6, <1>7 DEF Next

\* The inductive invariant: what the queue, the workers' jobs, the chain of
\* endpoints and the review know of each other (review.py:229-243, llm.py:214-256).
THEOREM ReviewIsSound == Spec => []ReviewInv
  <1>1. Init => Parts
    BY InitHolds
  <1>2. Parts /\ [Next]_vars => Parts'
    BY NextKeeps
  <1>3. Parts => ReviewInv
    BY PartsOfInv
  <1> QED BY <1>1, <1>2, <1>3, PTL DEF Spec

\* Every variable keeps its type, with any number of threads and endpoints.
THEOREM TypeCorrect == Spec => []TypeOK
  <1>1. ReviewInv => TypeOK
    BY DEF ReviewInv
  <1> QED BY <1>1, ReviewIsSound, PTL

\* No client is kept that uses a credential some thread has seen refused, though
\* threads build and drop clients by endpoint and not by client (llm.py:69-71, 233-235).
THEOREM RefusedClientsAreDropped == Spec => []RefusedIsForgotten
  <1>1. ReviewInv => RefusedIsForgotten
    BY DEF ReviewInv
  <1> QED BY <1>1, ReviewIsSound, PTL

\* What makes a pair known is a worker's record of the check it holds.
LEMMA OnlyRecords ==
  ASSUME Parts, [Next]_vars, NEW c \in Checks, pairs[c] = "none", pairs'[c] # "none"
  PROVE  \E t \in Thread : Record(t) /\ job[t].event = c
  <1>1. pairs' # pairs
    OBVIOUS
  <1>2. PICK t \in Thread : Record(t)
    <2>1. \A e \in Event : ~(Enqueue(e) \/ Retry(e) \/ Ack(e))
      BY <1>1 DEF Enqueue, Retry, Ack, jobVars
    <2>2. \A d \in Checks : ~Dispose(d)
      BY DEF Dispose, Parts, RestOK
    <2>3. \A e \in Endpoint : ~(Rotate(e) /\ UNCHANGED <<queueVars, jobVars, review, retried>>)
      BY <1>1 DEF jobVars
    <2>4. \A u \in Thread : ~(Claim(u) \/ Calling(u) \/ Complete(u) \/ Fails(u))
      BY <1>1 DEF Claim, Calling, Complete, Fails, jobVars
    <2>5. ~Restart /\ ~(ReadPending \/ ReadPairs \/ ReadFailedAdds) /\ ~UNCHANGED vars
      BY <1>1 DEF Restart, ReadPending, ReadPairs, ReadFailedAdds, Reads, vars, jobVars
    <2> QED BY <2>1, <2>2, <2>3, <2>4, <2>5 DEF Next
  <1>3. call[t].pc = "answered" /\ job[t].event \in Checks
    BY <1>2, CallerHolds DEF Record
  <1>4. job[t].event = c
    BY <1>2, <1>3 DEF Record, Parts, RestOK
  <1> QED BY <1>2, <1>4

\* After a pass nothing is suspected of what the session had asked to be checked,
\* unless a failed check is put back: any queue, any number of workers
\* (review.py:229-243, staleness.py:669-686).
THEOREM PassIsFinal == Spec => NothingOpensAfterPass
  <1>1. Init => Parts
    BY InitHolds
  <1>2. Parts /\ [Next]_vars => Parts'
    BY NextKeeps
  <1>3. Parts /\ [Next]_vars =>
          [\A c \in review.asked : review.pc = "pass" /\ pairs[c] = "none" /\ c \notin retried =>
             pairs'[c] # "open"]_vars
    <2> SUFFICES ASSUME Parts, [Next]_vars, NEW c \in review.asked, review.pc = "pass",
                        pairs[c] = "none", c \notin retried, pairs'[c] = "open"
                 PROVE  FALSE
      OBVIOUS
    <2>1. c \in Checks /\ rows[c].status \notin Unsettled
      BY DEF Parts, ReviewSound
    <2>2. PICK t \in Thread : Record(t) /\ job[t].event = c
      BY <2>1, OnlyRecords
    <2>3. rows[c].status = "processing"
      BY <2>2, CallerHolds DEF Record
    <2> QED BY <2>1, <2>3 DEF Unsettled
  <1> QED BY <1>1, <1>2, <1>3, PTL DEF Spec, NothingOpensAfterPass

\* The endpoint a pair is stamped with has answered since the judgment, however
\* the threads' calls interleave (llm.py:197-199, 248).
THEOREM StampsAreRecent == Spec => StampIsRecent
  <1>1. Init => Parts
    BY InitHolds
  <1>2. Parts /\ [Next]_vars => Parts'
    BY NextKeeps
  <1>3. Parts /\ [Next]_vars =>
          [\A c \in Checks : pairs[c] = "none" /\ pairs'[c] # "none" =>
             \E t \in Thread : job[t].event = c /\ active_model \in since[t]]_vars
    <2> SUFFICES ASSUME Parts, [Next]_vars, NEW c \in Checks, pairs[c] = "none", pairs'[c] # "none"
                 PROVE  \E t \in Thread : job[t].event = c /\ active_model \in since[t]
      OBVIOUS
    <2>1. PICK t \in Thread : Record(t) /\ job[t].event = c
      BY OnlyRecords
    <2>2. active_model \in since[t]
      BY <2>1 DEF Record, Parts, CallsHeld, Named
    <2> QED BY <2>1, <2>2
  <1> QED BY <1>1, <1>2, <1>3, PTL DEF Spec, StampIsRecent
===============================================================================
