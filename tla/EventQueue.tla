------------------------------ MODULE EventQueue ------------------------------
(***************************************************************************)
(* The SQLite table behind the asynchronous queue: one row per event and   *)
(* one operator per method of EventQueue that changes the table.  Each     *)
(* method runs in one transaction under the store lock, so each is one     *)
(* step.  EventWorkers supplies the threads that call them.                *)
(*                                                                         *)
(* A timestamp is kept only where its order decides something: "created"   *)
(* orders the claims.  How old a row is when purge runs is left open.      *)
(***************************************************************************)
EXTENDS Naturals

CONSTANTS
  Event,          \* event ids; a uuid, so none is ever used twice
  MaxAttempts     \* MAX_ATTEMPTS

ASSUME MaxAttemptsAssumption == MaxAttempts \in Nat \ {0}

VARIABLES
  rows,           \* rows[e]: the row of event e
  clock           \* the created_at of the youngest row

queueVars == <<rows, clock>>

Status == {"absent", "queued", "processing", "done", "failed", "purged"}

Row == [status : Status, attempts : Nat, acked : BOOLEAN, created : Nat]

NoRow == [status |-> "absent", attempts |-> 0, acked |-> FALSE, created |-> 0]

QueueTypeOK == rows \in [Event -> Row] /\ clock \in Nat

QueueInit == rows = [e \in Event |-> NoRow] /\ clock = 0

With(s) == {e \in Event : rows[e].status = s}

Unacked == {e \in With("failed") : ~rows[e].acked}

\* UPDATE ... SET status WHERE id: a row that is no longer there stays away.
SetStatus(e, s) ==
  rows' = [rows EXCEPT ![e].status = IF @ \in {"absent", "purged"} THEN @ ELSE s]

-------------------------------------------------------------------------------

enqueue(e) ==
  /\ rows[e].status = "absent"
  /\ clock' = clock + 1
  /\ rows' = [rows EXCEPT ![e] = [status |-> "queued", attempts |-> 0,
                                  acked |-> FALSE, created |-> clock']]

claim_next(e) ==
  /\ e \in With("queued")
  /\ \A f \in With("queued") : rows[e].created <= rows[f].created
  /\ rows' = [rows EXCEPT ![e].status = "processing", ![e].attempts = @ + 1]
  /\ UNCHANGED clock

complete(e) == SetStatus(e, "done") /\ UNCHANGED clock

\* Mutant: the last attempt is not recognised as the last.
Terminal_OffByOne(attempts) == attempts > MaxAttempts

\* "attempts" is what the worker read when it claimed e.
Terminal(attempts) == attempts >= MaxAttempts

\* Mutant: a failed dispatch is booked as a finished one.
fail_Swallowed(e, attempts) == complete(e)

fail(e, attempts) ==
  /\ SetStatus(e, IF Terminal(attempts) THEN "failed" ELSE "queued")
  /\ UNCHANGED clock

\* Mutant: the acked condition is dropped.
Purgeable_AnyFailure == With("done") \cup With("failed")

Purgeable == With("done") \cup (With("failed") \ Unacked)

\* S is the part of the purgeable rows that is past the retention window.
purge(S) ==
  /\ S \subseteq Purgeable
  /\ rows' = [e \in Event |-> IF e \in S THEN [rows[e] EXCEPT !.status = "purged"]
                                         ELSE rows[e]]
  /\ UNCHANGED clock

\* Mutant: the rows of a crashed daemon are left as they are.
recover_stale_Forgotten == UNCHANGED queueVars

recover_stale ==
  /\ rows' = [e \in Event |-> IF e \in With("processing")
                                THEN [rows[e] EXCEPT !.status = "queued"]
                                ELSE rows[e]]
  /\ UNCHANGED clock

retry(e) ==
  /\ e \in With("failed")
  /\ rows' = [rows EXCEPT ![e].status = "queued", ![e].attempts = 0, ![e].acked = FALSE]
  /\ UNCHANGED clock

\* S is one failed event, or every unacknowledged one.
ack(S) ==
  /\ S \subseteq With("failed")
  /\ rows' = [e \in Event |-> IF e \in S THEN [rows[e] EXCEPT !.acked = TRUE]
                                         ELSE rows[e]]
  /\ UNCHANGED clock
===============================================================================
