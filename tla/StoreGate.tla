------------------------------ MODULE StoreGate -------------------------------
(***************************************************************************)
(* Admission to the memory store inside one daemon: the shared/exclusive   *)
(* gate around every store operation, the semaphore around the operations  *)
(* that call a language model, and what happens at the gate while a        *)
(* stopping daemon drains.                                                 *)
(*                                                                         *)
(* A step is one critical section of the gate's condition variable, one    *)
(* semaphore operation, or the begin or end of a dispatch.  What the       *)
(* dispatch does in the store is left open.  Queue operations and ping     *)
(* never come here.                                                        *)
(***************************************************************************)
EXTENDS Naturals, FiniteSets

CONSTANTS
  Request,          \* threads that serve socket and mailbox requests
  Background,       \* event workers and the TTL harvest thread
  Direct,           \* CLI processes that run an operation in their own process
  LLM_CONCURRENCY,
  MaxBacklog        \* bound: background work left when the socket is closed

Thread == Request \cup Background

ASSUME GateAssumption ==
  /\ LLM_CONCURRENCY \in Nat \ {0}
  /\ MaxBacklog \in Nat
  /\ IsFiniteSet(Thread)
  /\ Direct \cap Thread = {}

VARIABLES
  listening,        \* socket and pid file exist and requests are accepted
  backlog,          \* background work a draining daemon still begins
  pc,               \* pc[a]: where thread or process a is
  op,               \* op[a]: the kind of its operation
  shared,           \* _RWGate._shared
  exclusive,        \* _RWGate._exclusive
  slots             \* free slots of the semaphore

gateVars == <<listening, backlog, pc, op, shared, exclusive, slots>>

Actor == Thread \cup Direct

\* "llm": infer=True adds, stale checks, searches with rerank; "wipe": delete --all.
Op == {"plain", "llm", "wipe"}

PC == {"idle", "enter", "asleep", "slot", "run", "leave"}

GateTypeOK ==
  /\ listening \in BOOLEAN
  /\ backlog \in 0..MaxBacklog
  /\ pc \in [Actor -> PC]
  /\ op \in [Actor -> Op]
  /\ shared \in Nat
  /\ exclusive \in BOOLEAN
  /\ slots \in 0..LLM_CONCURRENCY

GateInit ==
  /\ listening = TRUE
  /\ backlog = MaxBacklog
  /\ pc = [a \in Actor |-> "idle"]
  /\ op = [a \in Actor |-> "plain"]
  /\ shared = 0
  /\ exclusive = FALSE
  /\ slots = LLM_CONCURRENCY

MoveTo(t, where) == pc' = [pc EXCEPT ![t] = where]

\* Mutant: one of the sleepers is woken, not all.
WakeAll_One(t, where) ==
  LET asleep == {s \in Thread : pc[s] = "asleep"}
  IN IF asleep = {} THEN MoveTo(t, where)
     ELSE \E s \in asleep : pc' = [pc EXCEPT ![t] = where, ![s] = "enter"]

\* t moves on and notify_all() sends every sleeper back to its test.
WakeAll(t, where) ==
  pc' = [a \in Actor |-> IF a = t THEN where
                         ELSE IF a \in Thread /\ pc[a] = "asleep" THEN "enter" ELSE pc[a]]

-------------------------------------------------------------------------------

\* A request is accepted, or a background thread begins its next piece of work.
Arrive(t) ==
  /\ pc[t] = "idle"
  /\ \/ /\ t \in Request
        /\ listening
        /\ \E o \in Op : op' = [op EXCEPT ![t] = o]
        /\ UNCHANGED backlog
     \/ /\ t \in Background
        /\ listening \/ backlog > 0
        /\ backlog' = IF listening THEN backlog ELSE backlog - 1
        /\ \E o \in Op \ {"wipe"} : op' = [op EXCEPT ![t] = o]
  /\ MoveTo(t, "enter")
  /\ UNCHANGED <<listening, shared, exclusive, slots>>

acquire_shared(t) ==
  /\ pc[t] = "enter" /\ op[t] # "wipe"
  /\ IF exclusive
       THEN MoveTo(t, "asleep") /\ UNCHANGED shared
       ELSE MoveTo(t, IF op[t] = "llm" THEN "slot" ELSE "run") /\ shared' = shared + 1
  /\ UNCHANGED <<listening, backlog, op, exclusive, slots>>

\* Mutant: only other exclusive holders are waited for.
acquire_exclusive_IgnoresShared(t) ==
  /\ pc[t] = "enter" /\ op[t] = "wipe"
  /\ IF exclusive
       THEN MoveTo(t, "asleep") /\ UNCHANGED exclusive
       ELSE MoveTo(t, "run") /\ exclusive' = TRUE
  /\ UNCHANGED <<listening, backlog, op, shared, slots>>

acquire_exclusive(t) ==
  /\ pc[t] = "enter" /\ op[t] = "wipe"
  /\ IF exclusive \/ shared > 0
       THEN MoveTo(t, "asleep") /\ UNCHANGED exclusive
       ELSE MoveTo(t, "run") /\ exclusive' = TRUE
  /\ UNCHANGED <<listening, backlog, op, shared, slots>>

TakeSlot(t) ==
  /\ pc[t] = "slot" /\ slots > 0
  /\ slots' = slots - 1
  /\ MoveTo(t, "run")
  /\ UNCHANGED <<listening, backlog, op, shared, exclusive>>

\* The dispatch returns or raises; either way the with block gives the slot back.
Finish(t) ==
  /\ pc[t] = "run"
  /\ slots' = IF op[t] = "llm" THEN slots + 1 ELSE slots
  /\ MoveTo(t, "leave")
  /\ UNCHANGED <<listening, backlog, op, shared, exclusive>>

\* Mutant: the last shared holder leaves without a notify.
release_shared_Silent(t) ==
  /\ pc[t] = "leave" /\ op[t] # "wipe"
  /\ shared' = shared - 1
  /\ MoveTo(t, "idle")
  /\ UNCHANGED <<listening, backlog, op, exclusive, slots>>

release_shared(t) ==
  /\ pc[t] = "leave" /\ op[t] # "wipe"
  /\ shared' = shared - 1
  /\ IF shared' = 0 THEN WakeAll(t, "idle") ELSE MoveTo(t, "idle")
  /\ UNCHANGED <<listening, backlog, op, exclusive, slots>>

release_exclusive(t) ==
  /\ pc[t] = "leave" /\ op[t] = "wipe"
  /\ exclusive' = FALSE
  /\ WakeAll(t, "idle")
  /\ UNCHANGED <<listening, backlog, op, shared, slots>>

\* SIGTERM: the socket is closed and both runtime files are unlinked, so new
\* callers run their operations themselves, while the accepted ones drain here.
StopListening ==
  /\ listening
  /\ listening' = FALSE
  /\ UNCHANGED <<backlog, pc, op, shared, exclusive, slots>>

\* execute() without a daemon to ask: the same handler in the caller's process,
\* which has a gate of its own that nobody shares.
DirectBegin(c) ==
  /\ pc[c] = "idle" /\ ~listening
  /\ \E o \in Op : op' = [op EXCEPT ![c] = o]
  /\ MoveTo(c, "run")
  /\ UNCHANGED <<listening, backlog, shared, exclusive, slots>>

DirectEnd(c) ==
  /\ pc[c] = "run"
  /\ MoveTo(c, "idle")
  /\ UNCHANGED <<listening, backlog, op, shared, exclusive, slots>>

-------------------------------------------------------------------------------

\* What a thread does once it has an operation.
Serve(t) ==
  \/ acquire_shared(t) \/ acquire_exclusive(t) \/ TakeSlot(t) \/ Finish(t)
  \/ release_shared(t) \/ release_exclusive(t)

GateNext ==
  \/ \E t \in Thread : Arrive(t) \/ Serve(t)
  \/ StopListening
  \/ \E c \in Direct : DirectBegin(c) \/ DirectEnd(c)

GateSpec == GateInit /\ [][GateNext]_gateVars

\* A thread that has an operation is scheduled and its dispatch ends.  Nobody has
\* to send a request, and the order among the waiters of the gate and of the
\* semaphore is open.
GateFairness == \A t \in Thread : WF_gateVars(Serve(t))

FairGateSpec == GateSpec /\ GateFairness

-------------------------------------------------------------------------------
(* Properties *)

SharedHolders == {t \in Thread : pc[t] \in {"slot", "run", "leave"} /\ op[t] # "wipe"}

ExclusiveHolders == {t \in Thread : pc[t] \in {"run", "leave"} /\ op[t] = "wipe"}

SlotHolders == {t \in Thread : pc[t] = "run" /\ op[t] = "llm"}

\* The counters of the gate and the semaphore say who is inside, whatever path
\* (return, exception, sleep and retry) a thread takes through them.
CountersAreTrue ==
  /\ shared = Cardinality(SharedHolders)
  /\ exclusive <=> ExclusiveHolders # {}
  /\ slots + Cardinality(SlotHolders) = LLM_CONCURRENCY

\* While delete --all runs in the daemon, nothing else of the daemon runs in the
\* store.
WipeIsAlone ==
  \A s, t \in Thread :
    pc[s] = "run" /\ op[s] = "wipe" /\ pc[t] \in {"slot", "run"} => s = t

\* A thread sleeps at the gate only while the condition it waits on is false:
\* every change that could make it true wakes it, none is lost.
NoLostWakeup ==
  \A t \in Thread :
    pc[t] = "asleep" => IF op[t] = "wipe" THEN exclusive \/ shared > 0 ELSE exclusive

\* What makes them inductive: nobody is on both sides of the gate at once, and at
\* most one thread is on the exclusive side.
Sides ==
  /\ ExclusiveHolders # {} => SharedHolders = {}
  /\ \A s, t \in ExclusiveHolders : s = t

SlotOnlyForLlm == \A t \in Thread : pc[t] = "slot" => op[t] = "llm"

GateInv ==
  /\ GateTypeOK
  /\ CountersAreTrue
  /\ Sides
  /\ SlotOnlyForLlm
  /\ NoLostWakeup

\* A daemon that was told to stop gets every accepted request done, so
\* executor.shutdown(wait=True) returns: a waiting delete --all too, which new
\* readers may overtake as long as requests are still accepted.
DrainEnds == ~listening ~> \A t \in Request : pc[t] = "idle"
===============================================================================
