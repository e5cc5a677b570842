-------------------------------- MODULE Bridge --------------------------------
(***************************************************************************)
(* The mailbox of bridge.py: two SQLite tables shared by sandboxed clients *)
(* and the daemon.  Every method is one transaction, so one step, except   *)
(* claim_next, whose SELECT takes no lock: the caller reads Oldest in one  *)
(* step and claims in a later one.  `created` orders claims.  `answer` is  *)
(* the response that was recorded; it is kept here after the row has been  *)
(* deleted, so that properties can speak about it.                         *)
(***************************************************************************)
EXTENDS Naturals, FiniteSets

CONSTANTS Command, NoDaemon

\* A request id: the n-th time command c is carried, see Transport.
Attempt == Command \X (1..3)

VARIABLES requests,   \* the bridge_requests table
          daemon_id,  \* the bridge_state row: who wrote it,
          ready,      \*   what it claims,
          fresh       \*   whether its heartbeat is recent enough

bridgeVars == <<requests, daemon_id, ready, fresh>>
hostVars == <<daemon_id, ready, fresh>>

Row == [status : {"none", "queued", "processing", "done", "error", "deleted"},
        created : Nat, answer : {"none", "ok", "error", "withdrawn"}]

NoRequest == [status |-> "none", created |-> 0, answer |-> "none"]

BridgeInit ==
  /\ requests = [r \in Attempt |-> NoRequest]
  /\ daemon_id = NoDaemon
  /\ ready = FALSE
  /\ fresh = FALSE

With(s) == {r \in Attempt : requests[r].status = s}
Settled == With("done") \cup With("error")
Posted == Attempt \ With("none")

mark_ready(d) ==
  /\ daemon_id' = d
  /\ ready' = TRUE
  /\ fresh' = TRUE

heartbeat(d) ==
  /\ daemon_id = d
  /\ ready
  /\ fresh' = TRUE
  /\ UNCHANGED <<daemon_id, ready>>

mark_stopped(d) ==
  /\ ready' = (ready /\ daemon_id # d)
  /\ fresh' = (fresh \/ daemon_id = d)
  /\ UNCHANGED daemon_id

is_ready == ready /\ fresh

enqueue(r) ==
  requests' = [requests EXCEPT ![r] =
    [status |-> "queued", created |-> Cardinality(Posted), answer |-> "none"]]

acknowledge(r) ==
  requests' = [requests EXCEPT ![r].status =
    IF r \in Settled THEN "deleted" ELSE @]

\* Mutant: a request is withdrawn whether or not it was claimed.
cancel_if_queued_Always(r) ==
  requests' = [requests EXCEPT ![r].status = "error", ![r].answer = "withdrawn"]

cancel_if_queued(r) ==
  requests' = IF r \in With("queued")
              THEN [requests EXCEPT ![r].status = "error", ![r].answer = "withdrawn"]
              ELSE requests

Oldest ==
  {r \in With("queued") : \A q \in With("queued") : requests[r].created <= requests[q].created}

\* Whether the conditional UPDATE of claim_next finds the row still queued.
Claimable(r) == r \in With("queued")

claim(r) == requests' = [requests EXCEPT ![r].status = "processing"]

complete(r, v) ==
  requests' = IF r \in Posted \ With("deleted")
              THEN [requests EXCEPT ![r].status = IF v = "ok" THEN "done" ELSE "error",
                                    ![r].answer = v]
              ELSE requests

\* Mutant: nothing is done about interrupted requests.
recover_stale_Forgotten == UNCHANGED requests

recover_stale ==
  requests' = [r \in Attempt |->
    IF r \in With("processing")
    THEN [requests[r] EXCEPT !.status = "error", !.answer = "error"]
    ELSE requests[r]]

\* Old is the set of rows past retention.
purge(Old) ==
  requests' = [r \in Attempt |->
    IF r \in Old \cap Settled THEN [requests[r] EXCEPT !.status = "deleted"]
    ELSE requests[r]]
===============================================================================
