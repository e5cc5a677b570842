----------------------------- MODULE EventWorkers -----------------------------
(***************************************************************************)
(* The daemon around the event queue: processes that compete for the       *)
(* lifetime lock, the start-up sequence, the asynchronous worker threads,  *)
(* the callers that retry or acknowledge, the alerts file, and death of a  *)
(* process, a thread or a caller between any two steps.                    *)
(*                                                                         *)
(* Granularity.  A step is one database transaction, one file write, one   *)
(* dispatch into the store, or one visit to the condition variable.  The   *)
(* store gate and the LLM slots around the dispatch are in StoreGate; what *)
(* the dispatch does to a memory is here only "the effect reached the      *)
(* store or it did not".                                                   *)
(***************************************************************************)
EXTENDS EventQueue

CONSTANTS
  Daemon,         \* daemon processes that may be spawned
  Slot,           \* worker threads of one daemon (ASYNC_WORKERS of them)
  Caller,         \* request threads and direct-path CLI processes
  Checks,         \* the events whose op is "stale_check"; the others are adds
  Misconfigured,  \* daemons whose [llm.judge] chain cannot be constructed
  MaxExits,       \* bound: how many times a daemon process may end
  NoDaemon, NoEvent

ASSUME WorkersAssumption ==
  /\ Checks \subseteq Event
  /\ Misconfigured \subseteq Daemon
  /\ MaxExits \in Nat
  /\ NoDaemon \notin Daemon
  /\ NoEvent \notin Event

VARIABLES
  lock,           \* who holds daemon.lock, the lifetime flock
  proc,           \* proc[d]: where daemon process d is in serve()
  thread,         \* thread[w]: a worker thread and its local variables
  caller,         \* caller[c]: where an event_retry / event_ack handler is
  seen,           \* seen[r]: refresher r counted an unacknowledged failure
  alerts,         \* the alerts file exists
  applied,        \* adds and checks whose effect reached the store (history)
  logged,         \* adds with a row in the audit manifest
  exits           \* daemon processes that have ended so far

vars == <<rows, clock, lock, proc, thread, caller, seen, alerts, applied, logged, exits>>

Worker == Daemon \X Slot

Starting == {"recover", "purge", "refresh", "publish"}

ProcState == {"down", "serving", "draining", "stopping"} \cup Starting

\* A thread that is inside _process_event and has not settled the row yet.
Working == {"judge", "run", "settle"}

ThreadState ==
  {"off", "dead", "loop", "claim", "park", "parked", "refresh", "publish", "audit"}
    \cup Working

Verdict == {"none", "ok", "error", "requeued", "terminal"}

Thread == [pc : ThreadState, item : Event \cup {NoEvent}, attempts : Nat,
           verdict : Verdict]

At(pc) == [pc |-> pc, item |-> NoEvent, attempts |-> 0, verdict |-> "none"]

\* Everybody who calls refresh_alerts: worker threads, serve(), and callers.
Refresher == Worker \cup Daemon \cup Caller

TypeOK ==
  /\ QueueTypeOK
  /\ lock \in Daemon \cup {NoDaemon}
  /\ proc \in [Daemon -> ProcState]
  /\ thread \in [Worker -> Thread]
  /\ caller \in [Caller -> {"idle", "refresh", "publish"}]
  /\ seen \in [Refresher -> BOOLEAN]
  /\ alerts \in BOOLEAN
  /\ applied \subseteq Event
  /\ logged \subseteq Event
  /\ exits \in 0..MaxExits

Init ==
  /\ QueueInit
  /\ lock = NoDaemon
  /\ proc = [d \in Daemon |-> "down"]
  /\ thread = [w \in Worker |-> At("off")]
  /\ caller = [c \in Caller |-> "idle"]
  /\ seen = [r \in Refresher |-> FALSE]
  /\ alerts = FALSE
  /\ applied = {}
  /\ logged = {}
  /\ exits = 0

Holds(w, e) == thread[w].pc \in Working /\ thread[w].item = e

Goto(w, pc) == thread' = [thread EXCEPT ![w].pc = pc]

\* notify() wakes one thread that is already waiting, if there is one.
Notify(others) ==
  LET waiting == {w \in Worker : others[w].pc = "parked"}
  IN IF waiting = {} THEN thread' = others
     ELSE \E w \in waiting : thread' = [others EXCEPT ![w] = At("loop")]

\* refresh_alerts: the failures are counted under the store lock, the file is
\* written or unlinked after it.
CountUnacked(r) == seen' = [seen EXCEPT ![r] = Unacked # {}]

WriteAlerts(r) == alerts' = seen[r] /\ seen' = [seen EXCEPT ![r] = FALSE]

-------------------------------------------------------------------------------
(* The life of a daemon process *)

\* Mutant: serve() does not wait for the lifetime lock to be free.
TakeLifetimeLock_NoFlock(d) == proc[d] = "down"

\* A process that finds the lock taken exits at once and changes nothing.
TakeLifetimeLock(d) == proc[d] = "down" /\ lock = NoDaemon

Start(d) ==
  /\ TakeLifetimeLock(d)
  /\ lock' = d
  /\ proc' = [proc EXCEPT ![d] = "recover"]
  /\ UNCHANGED <<queueVars, thread, caller, seen, alerts, applied, logged, exits>>

StartRecover(d) ==
  /\ proc[d] = "recover"
  /\ recover_stale
  /\ proc' = [proc EXCEPT ![d] = "purge"]
  /\ UNCHANGED <<lock, thread, caller, seen, alerts, applied, logged, exits>>

StartPurge(d) ==
  /\ proc[d] = "purge"
  /\ \E S \in SUBSET Purgeable : purge(S)
  /\ proc' = [proc EXCEPT ![d] = "refresh"]
  /\ UNCHANGED <<lock, thread, caller, seen, alerts, applied, logged, exits>>

StartRefresh(d) ==
  /\ proc[d] = "refresh"
  /\ CountUnacked(d)
  /\ proc' = [proc EXCEPT ![d] = "publish"]
  /\ UNCHANGED <<queueVars, lock, thread, caller, alerts, applied, logged, exits>>

StartWorkers(d) ==
  /\ proc[d] = "publish"
  /\ WriteAlerts(d)
  /\ proc' = [proc EXCEPT ![d] = "serving"]
  /\ thread' = [w \in Worker |-> IF w[1] = d THEN At("loop") ELSE thread[w]]
  /\ UNCHANGED <<queueVars, lock, caller, applied, logged, exits>>

\* SIGTERM: the socket is closed, requests already accepted run to the end.
SigTerm(d) ==
  /\ proc[d] = "serving"
  /\ exits < MaxExits
  /\ proc' = [proc EXCEPT ![d] = "draining"]
  /\ UNCHANGED <<queueVars, lock, thread, caller, seen, alerts, applied, logged, exits>>

\* worker_stop.set() and notify_all().
StopWorkers(d) ==
  /\ proc[d] = "draining"
  /\ proc' = [proc EXCEPT ![d] = "stopping"]
  /\ thread' = [w \in Worker |-> IF w[1] = d /\ thread[w].pc = "parked"
                                   THEN At("loop") ELSE thread[w]]
  /\ UNCHANGED <<queueVars, lock, caller, seen, alerts, applied, logged, exits>>

\* The process is gone: a crash at any point, or the normal end once the joins
\* returned or timed out.  The kernel drops the flock and the threads vanish.
Die(d) ==
  /\ proc[d] # "down"
  /\ exits < MaxExits
  /\ exits' = exits + 1
  /\ lock' = IF lock = d THEN NoDaemon ELSE lock
  /\ proc' = [proc EXCEPT ![d] = "down"]
  /\ thread' = [w \in Worker |-> IF w[1] = d THEN At("off") ELSE thread[w]]
  /\ seen' = [r \in Refresher |-> IF r = d \/ r \in {d} \X Slot THEN FALSE ELSE seen[r]]
  /\ UNCHANGED <<queueVars, caller, alerts, applied, logged>>

-------------------------------------------------------------------------------
(* Intake, and the callers that manage failed events *)

Accepting == \E d \in Daemon : proc[d] \in {"serving", "draining", "stopping"}

\* An add is queued by the daemon, which notifies its own workers.  A stale
\* check is queued by the CLI process that wrote the entry, daemon or no
\* daemon, and its notify reaches nobody.
Submit(e) ==
  /\ enqueue(e)
  /\ IF e \in Checks THEN UNCHANGED thread
                     ELSE Accepting /\ Notify(thread)
  /\ UNCHANGED <<lock, proc, caller, seen, alerts, applied, logged, exits>>

\* Run by the daemon, or by a CLI process that cannot reach the daemon's threads.
CallerRetry(c, e) ==
  /\ caller[c] = "idle"
  /\ retry(e)
  /\ Notify(thread) \/ UNCHANGED thread
  /\ caller' = [caller EXCEPT ![c] = "refresh"]
  /\ UNCHANGED <<lock, proc, seen, alerts, applied, logged, exits>>

CallerAck(c) ==
  /\ caller[c] = "idle"
  /\ \/ ack(Unacked)
     \/ \E e \in With("failed") : ack({e})
  /\ caller' = [caller EXCEPT ![c] = "refresh"]
  /\ UNCHANGED <<lock, proc, thread, seen, alerts, applied, logged, exits>>

CallerRefresh(c) ==
  /\ caller[c] = "refresh"
  /\ CountUnacked(c)
  /\ caller' = [caller EXCEPT ![c] = "publish"]
  /\ UNCHANGED <<queueVars, lock, proc, thread, alerts, applied, logged, exits>>

CallerPublish(c) ==
  /\ caller[c] = "publish"
  /\ WriteAlerts(c)
  /\ caller' = [caller EXCEPT ![c] = "idle"]
  /\ UNCHANGED <<queueVars, lock, proc, thread, applied, logged, exits>>

\* The CLI process, or the request thread, is killed half way.
CallerDies(c) ==
  /\ caller[c] # "idle"
  /\ caller' = [caller EXCEPT ![c] = "idle"]
  /\ seen' = [seen EXCEPT ![c] = FALSE]
  /\ UNCHANGED <<queueVars, lock, proc, thread, alerts, applied, logged, exits>>

-------------------------------------------------------------------------------
(* The worker loop *)

\* worker_stop is tested at the head of the loop and nowhere else.
LoopHead(w) ==
  /\ thread[w].pc = "loop"
  /\ thread' = [thread EXCEPT ![w] = At(IF proc[w[1]] = "stopping" THEN "off" ELSE "claim")]
  /\ UNCHANGED <<queueVars, lock, proc, caller, seen, alerts, applied, logged, exits>>

Claim(w, e) ==
  /\ thread[w].pc = "claim"
  /\ claim_next(e)
  /\ thread' = [thread EXCEPT ![w] =
                  [pc |-> IF e \in Checks THEN "judge" ELSE "run", item |-> e,
                   attempts |-> rows'[e].attempts, verdict |-> "none"]]
  /\ UNCHANGED <<lock, proc, caller, seen, alerts, applied, logged, exits>>

\* claim_next returned None.  Until Park the thread is not waiting yet, so a
\* notify in between goes to nobody.
ClaimNothing(w) ==
  /\ thread[w].pc = "claim"
  /\ With("queued") = {}
  /\ Goto(w, "park")
  /\ UNCHANGED <<queueVars, lock, proc, caller, seen, alerts, applied, logged, exits>>

Park(w) ==
  /\ thread[w].pc = "park"
  /\ Goto(w, "parked")
  /\ UNCHANGED <<queueVars, lock, proc, caller, seen, alerts, applied, logged, exits>>

\* Mutant: notify.wait() without a timeout.
WaitTimesOut_Never(w) == FALSE /\ UNCHANGED vars

\* notify.wait(timeout=1.0)
WaitTimesOut(w) ==
  /\ thread[w].pc = "parked"
  /\ Goto(w, "loop")
  /\ UNCHANGED <<queueVars, lock, proc, caller, seen, alerts, applied, logged, exits>>

\* _get_judge_llm() is called before the try block: when it raises, nothing
\* catches the exception and the thread ends with its row still "processing".
BuildJudge(w) ==
  /\ thread[w].pc = "judge"
  /\ Goto(w, IF w[1] \in Misconfigured THEN "dead" ELSE "run")
  /\ UNCHANGED <<queueVars, lock, proc, caller, seen, alerts, applied, logged, exits>>

\* The dispatch returns, or raises with or without its effect in the store.
Dispatch(w) ==
  /\ thread[w].pc = "run"
  /\ \/ /\ thread' = [thread EXCEPT ![w].pc = "settle", ![w].verdict = "ok"]
        /\ applied' = applied \cup {thread[w].item}
     \/ /\ thread' = [thread EXCEPT ![w].pc = "settle", ![w].verdict = "error"]
        /\ applied' \in {applied, applied \cup {thread[w].item}}
  /\ UNCHANGED <<queueVars, lock, proc, caller, seen, alerts, logged, exits>>

Settle(w) ==
  /\ thread[w].pc = "settle"
  /\ \/ /\ thread[w].verdict = "ok"
        /\ complete(thread[w].item)
        /\ Goto(w, "refresh")
     \/ /\ thread[w].verdict = "error"
        /\ fail(thread[w].item, thread[w].attempts)
        /\ LET last == Terminal(thread[w].attempts)
               next == [thread EXCEPT ![w].pc = "refresh",
                          ![w].verdict = IF last THEN "terminal" ELSE "requeued"]
           IN IF last THEN thread' = next ELSE Notify(next)
  /\ UNCHANGED <<lock, proc, caller, seen, alerts, applied, logged, exits>>

WorkerRefresh(w) ==
  /\ thread[w].pc = "refresh"
  /\ CountUnacked(w)
  /\ Goto(w, "publish")
  /\ UNCHANGED <<queueVars, lock, proc, caller, alerts, applied, logged, exits>>

\* Only an add whose outcome is final goes on to the audit manifest.
WorkerPublish(w) ==
  /\ thread[w].pc = "publish"
  /\ WriteAlerts(w)
  /\ thread' = IF thread[w].item \in Checks \/ thread[w].verdict = "requeued"
                 THEN [thread EXCEPT ![w] = At("loop")]
                 ELSE [thread EXCEPT ![w].pc = "audit"]
  /\ UNCHANGED <<queueVars, lock, proc, caller, applied, logged, exits>>

\* append_live_audit; an exception in it is printed and forgotten.
Audit(w) ==
  /\ thread[w].pc = "audit"
  /\ logged' \in {logged, logged \cup {thread[w].item}}
  /\ thread' = [thread EXCEPT ![w] = At("loop")]
  /\ UNCHANGED <<queueVars, lock, proc, caller, seen, alerts, applied, exits>>

-------------------------------------------------------------------------------

DaemonStep(d) ==
  \/ Start(d) \/ StartRecover(d) \/ StartPurge(d) \/ StartRefresh(d) \/ StartWorkers(d)
  \/ StopWorkers(d)

WorkerStep(w) ==
  \/ LoopHead(w) \/ (\E e \in Event : Claim(w, e)) \/ ClaimNothing(w) \/ Park(w)
  \/ WaitTimesOut(w) \/ BuildJudge(w) \/ Dispatch(w) \/ Settle(w)
  \/ WorkerRefresh(w) \/ WorkerPublish(w) \/ Audit(w)

CallerStep(c) ==
  \/ (\E e \in Event : CallerRetry(c, e)) \/ CallerAck(c)
  \/ CallerRefresh(c) \/ CallerPublish(c) \/ CallerDies(c)

Next ==
  \/ \E d \in Daemon : DaemonStep(d) \/ SigTerm(d) \/ Die(d)
  \/ \E w \in Worker : WorkerStep(w)
  \/ \E c \in Caller : CallerStep(c)
  \/ \E e \in Event : Submit(e)

Spec == Init /\ [][Next]_vars

\* A started process runs on, its threads are scheduled, and somebody starts a
\* daemon again after one has ended.  Nobody has to submit, retry or stop.
Fairness ==
  /\ \A d \in Daemon : WF_vars(DaemonStep(d)) /\ WF_vars(proc[d] = "stopping" /\ Die(d))
  /\ \A w \in Worker : WF_vars(WorkerStep(w))

FairSpec == Spec /\ Fairness

-------------------------------------------------------------------------------
(* Properties *)

\* No event is worked on by two threads, of one daemon or of two, and a row a
\* thread works on is "processing" with the attempt count the thread read: the
\* transaction in claim_next, recover_stale before the workers start, and the
\* lifetime lock carry this together.
SingleOwner ==
  \A w \in Worker, e \in Event : Holds(w, e) =>
    /\ rows[e].status = "processing"
    /\ rows[e].attempts = thread[w].attempts
    /\ \A v \in Worker : Holds(v, e) => v = w

Keeps(w, e) == thread[w].pc \in Working \cup {"dead"} /\ thread[w].item = e

NobodyWorks == \A d \in Daemon : proc[d] \in {"down", "recover"}

\* While a daemon is past recover_stale, every "processing" row is in the hands
\* of one of its threads; the one exception is a thread that died on it.
NothingStranded ==
  \A e \in With("processing") : NobodyWorks \/ \E w \in Worker : Keeps(w, e)

\* The three attempts of an event are spent before it is given up, and only the
\* death of a process in the middle of one adds an attempt beyond them.
RetryBudget ==
  \A e \in Event :
    /\ rows[e].status = "failed" => rows[e].attempts >= MaxAttempts
    /\ rows[e].attempts <= MaxAttempts + exits

\* No event is reported done, however often it was re-claimed, unless one of
\* its dispatches reached the store.
DoneWasApplied == With("done") \subseteq applied

\* What makes the four invariants above inductive: only the holder of the
\* lifetime lock is alive, only a daemon past its start-up has threads, a thread
\* between the claim and the end of its turn has an event, an attempt is still to
\* be had wherever a claim may follow, a finished dispatch left its effect, and
\* only a failure is acknowledged.
LifetimeLock == \A d \in Daemon : proc[d] # "down" => lock = d

ThreadsLive ==
  \A w \in Worker :
    thread[w].pc # "off" => proc[w[1]] \in {"serving", "draining", "stopping"}

ItemOK ==
  \A w \in Worker :
    thread[w].pc \in Working \cup {"dead", "refresh", "publish", "audit"}
      => thread[w].item \in Event

AttemptLeft ==
  \A e \in Event :
    \/ rows[e].status = "queued"
    \/ rows[e].status = "processing" /\ NobodyWorks
    => rows[e].attempts < MaxAttempts + exits

SettledWasApplied ==
  \A w \in Worker :
    thread[w].pc = "settle" /\ thread[w].verdict = "ok" => thread[w].item \in applied

AckedIsFailed == \A e \in Event : rows[e].acked => rows[e].status \in {"failed", "purged"}

IInv ==
  /\ TypeOK
  /\ ItemOK
  /\ LifetimeLock
  /\ ThreadsLive
  /\ SingleOwner
  /\ NothingStranded
  /\ AttemptLeft
  /\ RetryBudget
  /\ SettledWasApplied
  /\ DoneWasApplied
  /\ AckedIsFailed

\* The queue keeps its promise to the submitter across retries, crashes and
\* restarts of the daemon.
PhaseOf(row) ==
  CASE row.status = "absent"                   -> "new"
    [] row.status \in {"queued", "processing"} -> "pending"
    [] row.status = "done"                     -> "done"
    [] row.status = "failed"                   -> IF row.acked THEN "acked" ELSE "failed"
    [] row.status = "purged"                   -> "gone"

phaseOf == [e \in Event |-> PhaseOf(rows[e])]

Work == INSTANCE AcceptedWork WITH phase <- phaseOf

KeepsAcceptedWork == Work!Spec

\* Every queued event is finished or given up in the end, although a notify may
\* find no thread waiting and a daemon may end at any moment.
EveryEventSettles ==
  \A e \in Event : rows[e].status = "queued" ~> rows[e].status \in {"done", "failed"}
===============================================================================
