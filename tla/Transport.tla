------------------------------- MODULE Transport ------------------------------
(***************************************************************************)
(* How a command reaches the store: over the daemon's socket, through the  *)
(* mailbox (Bridge) when the socket cannot be reached, after an auto-start,*)
(* or in the command's own process.  daemon.request and bridge.request are *)
(* modelled call by call, maybe_daemon_request decision by decision, the   *)
(* daemon by the steps of serve that touch the socket, the runtime files   *)
(* or the mailbox; the event workers are in EventWorkers.                  *)
(*                                                                         *)
(* An attempt <<c, n>> is the n-th time command c is carried: 1 the first  *)
(* request, 2 the one after an auto-start, 3 the direct path.  Executing   *)
(* it may raise, before or after its effect.                               *)
(***************************************************************************)
EXTENDS Bridge

CONSTANTS Daemon, Slot, MaxExits, NoAttempt

ASSUME TransportAssumption ==
  /\ IsFiniteSet(Command)
  /\ MaxExits \in Nat
  /\ NoDaemon \notin Daemon
  /\ NoAttempt \notin Attempt

Worker == Daemon \X Slot

VARIABLES
  lock,    \* the holder of the lifetime lock
  files,   \* the socket file or the pid file exists
  proc,    \* where each daemon process is in serve
  worker,  \* the mailbox threads
  conn,    \* the socket connection of each attempt
  client,  \* where each command is
  runs,    \* history: how often the effect of each attempt took place
  exits    \* how many daemon processes have ended

daemonVars == <<lock, files, proc, exits>>
vars == <<bridgeVars, daemonVars, worker, conn, client, runs>>

Result == {"ok", "error"}
NoConn == [st |-> "none", d |-> NoDaemon]
Conn == [st : {"none", "backlog", "accepted", "reset", "eof"} \cup Result,
         d : Daemon \cup {NoDaemon}]
Thread == [pc : {"off", "loop", "look", "claim", "run", "complete"},
           item : Attempt \cup {NoAttempt}, result : Result]
Client == [pc : {"idle", "connect", "receive", "mail", "enqueue", "poll", "cancel",
                 "acknowledge", "unavailable", "start", "direct",
                 "succeeded", "failed", "killed"},
           n : {1, 2}, result : Result]
Phase == {"down", "bound", "recovered", "purged", "workers", "serving",
          "closed", "unlinked", "draining"}

TypeOK ==
  /\ requests \in [Attempt -> Row]
  /\ daemon_id \in Daemon \cup {NoDaemon}
  /\ ready \in BOOLEAN
  /\ fresh \in BOOLEAN
  /\ lock \in Daemon \cup {NoDaemon}
  /\ files \in BOOLEAN
  /\ proc \in [Daemon -> Phase]
  /\ worker \in [Worker -> Thread]
  /\ conn \in [Attempt -> Conn]
  /\ client \in [Command -> Client]
  /\ runs \in [Attempt -> Nat]
  /\ exits \in 0..MaxExits

Idle == [pc |-> "off", item |-> NoAttempt, result |-> "ok"]

Init ==
  /\ BridgeInit
  /\ lock = NoDaemon
  /\ files = FALSE
  /\ proc = [d \in Daemon |-> "down"]
  /\ worker = [w \in Worker |-> Idle]
  /\ conn = [r \in Attempt |-> NoConn]
  /\ client = [c \in Command |-> [pc |-> "idle", n |-> 1, result |-> "ok"]]
  /\ runs = [r \in Attempt |-> 0]
  /\ exits = 0

\* Attempt r is executed and says v: what succeeded took effect, what raised
\* may have.
Execute(r, v) ==
  \E effect \in {0, 1} :
    /\ v = "ok" => effect = 1
    /\ runs' = [runs EXCEPT ![r] = @ + effect]

--------------------------------------------------------------------------------
(* The daemon *)

Bind(d) ==
  /\ proc[d] = "down"
  /\ lock = NoDaemon
  /\ lock' = d
  /\ files' = TRUE
  /\ proc' = [proc EXCEPT ![d] = "bound"]
  /\ UNCHANGED <<bridgeVars, worker, conn, client, runs, exits>>

\* From here on the kernel completes connections, accepted or not.
Recover(d) ==
  /\ proc[d] = "bound"
  /\ recover_stale
  /\ proc' = [proc EXCEPT ![d] = "recovered"]
  /\ UNCHANGED <<hostVars, lock, files, worker, conn, client, runs, exits>>

Purge(d) ==
  /\ proc[d] = "recovered"
  /\ \E Old \in SUBSET Settled : purge(Old)
  /\ proc' = [proc EXCEPT ![d] = "purged"]
  /\ UNCHANGED <<hostVars, lock, files, worker, conn, client, runs, exits>>

StartWorkers(d) ==
  /\ proc[d] = "purged"
  /\ proc' = [proc EXCEPT ![d] = "workers"]
  /\ worker' = [w \in Worker |-> IF w[1] = d THEN [Idle EXCEPT !.pc = "loop"] ELSE worker[w]]
  /\ UNCHANGED <<bridgeVars, lock, files, conn, client, runs, exits>>

MarkReady(d) ==
  /\ proc[d] = "workers"
  /\ mark_ready(d)
  /\ proc' = [proc EXCEPT ![d] = "serving"]
  /\ UNCHANGED <<requests, lock, files, worker, conn, client, runs, exits>>

Heartbeat(d) ==
  /\ proc[d] \in {"serving", "closed", "unlinked"}
  /\ heartbeat(d)
  /\ UNCHANGED <<requests, daemonVars, worker, conn, client, runs>>

\* The last heartbeat is older than HEARTBEAT_STALE_SECONDS.
HeartbeatAges ==
  /\ fresh
  /\ fresh' = FALSE
  /\ UNCHANGED <<requests, daemon_id, ready, daemonVars, worker, conn, client, runs>>

Listening(d) == proc[d] \in {"recovered", "purged", "workers", "serving"}

Accept(r) ==
  /\ conn[r].st = "backlog"
  /\ proc[conn[r].d] = "serving"
  /\ conn' = [conn EXCEPT ![r].st = "accepted"]
  /\ UNCHANGED <<bridgeVars, daemonVars, worker, client, runs>>

Serve(r) ==
  /\ conn[r].st = "accepted"
  /\ \E v \in Result : Execute(r, v) /\ conn' = [conn EXCEPT ![r].st = v]
  /\ UNCHANGED <<bridgeVars, daemonVars, worker, client>>

\* What the clients of d see when its sockets are closed: a connection nobody
\* accepted is reset, one that was being served reads end of file.
Hangup(d, served) ==
  conn' = [r \in Attempt |->
    IF conn[r].d # d THEN conn[r]
    ELSE IF conn[r].st = "backlog" THEN [conn[r] EXCEPT !.st = "reset"]
    ELSE IF conn[r].st = "accepted" /\ served THEN [conn[r] EXCEPT !.st = "eof"]
    ELSE conn[r]]

\* SIGTERM or daemon_stop: the handler closes the listening socket.
Close(d) ==
  /\ proc[d] = "serving"
  /\ exits < MaxExits
  /\ Hangup(d, FALSE)
  /\ proc' = [proc EXCEPT ![d] = "closed"]
  /\ UNCHANGED <<bridgeVars, lock, files, worker, client, runs, exits>>

Unlink(d) ==
  /\ proc[d] = "closed"
  /\ files' = FALSE
  /\ proc' = [proc EXCEPT ![d] = "unlinked"]
  /\ UNCHANGED <<bridgeVars, lock, worker, conn, client, runs, exits>>

\* mark_stopped, and bridge_stop is set.
Drain(d) ==
  /\ proc[d] = "unlinked"
  /\ mark_stopped(d)
  /\ proc' = [proc EXCEPT ![d] = "draining"]
  /\ UNCHANGED <<requests, lock, files, worker, conn, client, runs, exits>>

Gone(d) ==
  /\ proc' = [proc EXCEPT ![d] = "down"]
  /\ lock' = IF lock = d THEN NoDaemon ELSE lock
  /\ worker' = [w \in Worker |-> IF w[1] = d THEN Idle ELSE worker[w]]
  /\ exits' = exits + 1

\* The executor is joined without a limit, the mailbox threads for 30 seconds.
Exit(d) ==
  /\ proc[d] = "draining"
  /\ \A r \in Attempt : conn[r].d = d => conn[r].st # "accepted"
  /\ Gone(d)
  /\ UNCHANGED <<bridgeVars, files, conn, client, runs>>

Die(d) ==
  /\ proc[d] # "down"
  /\ exits < MaxExits
  /\ Gone(d)
  /\ Hangup(d, TRUE)
  /\ UNCHANGED <<bridgeVars, files, client, runs>>

\* daemon start and daemon stop remove what a dead daemon left behind.
Tidy ==
  /\ files
  /\ \A d \in Daemon : proc[d] = "down"
  /\ files' = FALSE
  /\ UNCHANGED <<bridgeVars, lock, proc, exits, worker, conn, client, runs>>

--------------------------------------------------------------------------------
(* The mailbox threads of the daemon *)

Goto(w, pc) == worker' = [worker EXCEPT ![w].pc = pc]

LoopHead(w) ==
  /\ worker[w].pc = "loop"
  /\ Goto(w, IF proc[w[1]] = "draining" THEN "off" ELSE "look")
  /\ UNCHANGED <<bridgeVars, daemonVars, conn, client, runs>>

Look(w) ==
  /\ worker[w].pc = "look"
  /\ worker' \in IF Oldest = {} THEN {[worker EXCEPT ![w].pc = "loop"]}
                 ELSE {[worker EXCEPT ![w].pc = "claim", ![w].item = r] : r \in Oldest}
  /\ UNCHANGED <<bridgeVars, daemonVars, conn, client, runs>>

Claim(w) ==
  /\ worker[w].pc = "claim"
  /\ IF Claimable(worker[w].item)
     THEN claim(worker[w].item) /\ Goto(w, "run")
     ELSE UNCHANGED requests /\ worker' = [worker EXCEPT ![w] = [Idle EXCEPT !.pc = "loop"]]
  /\ UNCHANGED <<hostVars, daemonVars, conn, client, runs>>

RunItem(w) ==
  /\ worker[w].pc = "run"
  /\ \E v \in Result :
       /\ Execute(worker[w].item, v)
       /\ worker' = [worker EXCEPT ![w].pc = "complete", ![w].result = v]
  /\ UNCHANGED <<bridgeVars, daemonVars, conn, client>>

Complete(w) ==
  /\ worker[w].pc = "complete"
  /\ complete(worker[w].item, worker[w].result)
  /\ worker' = [worker EXCEPT ![w] = [Idle EXCEPT !.pc = "loop"]]
  /\ UNCHANGED <<hostVars, daemonVars, conn, client, runs>>

--------------------------------------------------------------------------------
(* The command *)

At(c) == <<c, client[c].n>>
Move(c, pc) == client' = [client EXCEPT ![c].pc = pc]

Issue(c) ==
  /\ client[c].pc = "idle"
  /\ Move(c, "connect")
  /\ UNCHANGED <<bridgeVars, daemonVars, worker, conn, runs>>

Connect(c) ==
  /\ client[c].pc = "connect"
  /\ \E d \in Daemon :
       /\ Listening(d)
       /\ conn' = [conn EXCEPT ![At(c)] = [st |-> "backlog", d |-> d]]
  /\ Move(c, "receive")
  /\ UNCHANGED <<bridgeVars, daemonVars, worker, runs>>

\* There is no socket, nobody listens, or a sandbox denies the connection.
ConnectFails(c) ==
  /\ client[c].pc = "connect"
  /\ Move(c, "mail")
  /\ UNCHANGED <<bridgeVars, daemonVars, worker, conn, runs>>

Receive(c) ==
  /\ client[c].pc = "receive"
  /\ conn[At(c)].st \in Result
  /\ Move(c, IF conn[At(c)].st = "ok" THEN "succeeded" ELSE "failed")
  /\ UNCHANGED <<bridgeVars, daemonVars, worker, conn, runs>>

\* A timeout or a reset is an OSError, end of file a ValueError.
ReceiveFails(c) ==
  /\ client[c].pc = "receive"
  /\ conn[At(c)].st \notin Result
  /\ Move(c, IF conn[At(c)].st = "eof" THEN "failed" ELSE "unavailable")
  /\ UNCHANGED <<bridgeVars, daemonVars, worker, conn, runs>>

Mail(c) ==
  /\ client[c].pc = "mail"
  /\ Move(c, IF is_ready THEN "enqueue" ELSE "unavailable")
  /\ UNCHANGED <<bridgeVars, daemonVars, worker, conn, runs>>

Enqueue(c) ==
  /\ client[c].pc = "enqueue"
  /\ enqueue(At(c))
  /\ Move(c, "poll")
  /\ UNCHANGED <<hostVars, daemonVars, worker, conn, runs>>

PollAnswered(c) ==
  /\ client[c].pc = "poll"
  /\ At(c) \in Settled
  /\ client' = [client EXCEPT ![c].pc = "acknowledge",
                              ![c].result = IF At(c) \in With("done") THEN "ok" ELSE "error"]
  /\ UNCHANGED <<bridgeVars, daemonVars, worker, conn, runs>>

Acknowledge(c) ==
  /\ client[c].pc = "acknowledge"
  /\ acknowledge(At(c))
  /\ Move(c, IF client[c].result = "ok" THEN "succeeded" ELSE "failed")
  /\ UNCHANGED <<hostVars, daemonVars, worker, conn, runs>>

PollNotReady(c) ==
  /\ client[c].pc = "poll"
  /\ At(c) \notin Settled
  /\ ~is_ready
  /\ Move(c, "cancel")
  /\ UNCHANGED <<bridgeVars, daemonVars, worker, conn, runs>>

Cancel(c) ==
  /\ client[c].pc = "cancel"
  /\ cancel_if_queued(At(c))
  /\ Move(c, IF At(c) \in With("queued") THEN "unavailable" ELSE "poll")
  /\ UNCHANGED <<hostVars, daemonVars, worker, conn, runs>>

Deadline(c) ==
  /\ client[c].pc = "poll"
  /\ cancel_if_queued(At(c))
  /\ Move(c, "unavailable")
  /\ UNCHANGED <<hostVars, daemonVars, worker, conn, runs>>

\* What maybe_daemon_request does about DaemonUnavailable: with runtime files
\* left it reports the error, as it does after an auto-start.  Otherwise it
\* starts a daemon, unless that is disabled or unsafe where it runs, or leaves
\* the command to its own process.
Unavailable(c) ==
  /\ client[c].pc = "unavailable"
  /\ \E pc \in {"failed", "start", "direct"} :
       /\ pc = "failed" <=> (files \/ client[c].n = 2)
       /\ Move(c, pc)
  /\ UNCHANGED <<bridgeVars, daemonVars, worker, conn, runs>>

Started(c) ==
  /\ client[c].pc = "start"
  /\ \E d \in Daemon : proc[d] = "serving"
  /\ client' = [client EXCEPT ![c].pc = "connect", ![c].n = 2]
  /\ UNCHANGED <<bridgeVars, daemonVars, worker, conn, runs>>

StartFails(c) ==
  /\ client[c].pc = "start"
  /\ Move(c, "direct")
  /\ UNCHANGED <<bridgeVars, daemonVars, worker, conn, runs>>

Direct(c) ==
  /\ client[c].pc = "direct"
  /\ \E v \in Result :
       /\ Execute(<<c, 3>>, v)
       /\ Move(c, IF v = "ok" THEN "succeeded" ELSE "failed")
  /\ UNCHANGED <<bridgeVars, daemonVars, worker, conn>>

\* The process of the command is interrupted.
Killed(c) ==
  /\ client[c].pc \notin {"idle", "succeeded", "failed", "killed"}
  /\ Move(c, "killed")
  /\ UNCHANGED <<bridgeVars, daemonVars, worker, conn, runs>>

--------------------------------------------------------------------------------
DaemonStep(d) ==
  \/ Bind(d) \/ Recover(d) \/ Purge(d) \/ StartWorkers(d) \/ MarkReady(d)
  \/ Heartbeat(d) \/ Close(d) \/ Unlink(d) \/ Drain(d) \/ Exit(d) \/ Die(d)

ConnStep(r) == Accept(r) \/ Serve(r)

WorkerStep(w) == LoopHead(w) \/ Look(w) \/ Claim(w) \/ RunItem(w) \/ Complete(w)

ClientStep(c) ==
  \/ Issue(c) \/ Connect(c) \/ ConnectFails(c) \/ Receive(c) \/ ReceiveFails(c)
  \/ Mail(c) \/ Enqueue(c) \/ PollAnswered(c) \/ Acknowledge(c) \/ PollNotReady(c)
  \/ Cancel(c) \/ Deadline(c) \/ Unavailable(c) \/ Started(c) \/ StartFails(c)
  \/ Direct(c) \/ Killed(c)

Next ==
  \/ \E d \in Daemon : DaemonStep(d)
  \/ \E r \in Attempt : ConnStep(r)
  \/ \E w \in Worker : WorkerStep(w)
  \/ \E c \in Command : ClientStep(c)
  \/ HeartbeatAges
  \/ Tidy

Spec == Init /\ [][Next]_vars

\* A started daemon runs on, a stopping one ends, somebody starts the next one,
\* and threads are scheduled.
Fairness ==
  /\ \A d \in Daemon :
       WF_vars(Bind(d) \/ Recover(d) \/ Purge(d) \/ StartWorkers(d) \/ MarkReady(d)
               \/ Unlink(d) \/ Drain(d) \/ Exit(d))
  /\ \A r \in Attempt : WF_vars(Serve(r))
  /\ \A w \in Worker : WF_vars(WorkerStep(w))

FairSpec == Spec /\ Fairness

--------------------------------------------------------------------------------
(* Properties *)

\* The mailbox and the socket carry an attempt at most once, whatever dies:
\* an interrupted or withdrawn request is never executed later, and what was
\* recorded about it is never replaced.
verdictOf == [r \in Attempt |-> requests[r].answer]
Once == INSTANCE AtMostOnce WITH verdict <- verdictOf

RunsAtMostOnce == Once!Spec

\* A command that reports success took effect.
SuccessIsReal ==
  \A c \in Command : client[c].pc = "succeeded" => \E n \in 1..3 : runs[<<c, n>>] = 1

\* A posted request is answered, withdrawn or given up in the end, although
\* its client and the daemon may die at any moment.
EveryRequestSettles ==
  \A r \in Attempt :
    requests[r].status \in {"queued", "processing"} ~>
      requests[r].status \in {"done", "error", "deleted"}

\* A command takes effect at most once.
OneRunPerCommand ==
  \A c \in Command : runs[<<c, 1>>] + runs[<<c, 2>>] + runs[<<c, 3>>] <= 1

(* The parts of the inductive invariant *)

LifetimeLock == \A d \in Daemon : proc[d] # "down" => lock = d

ExitsLeft == \A d \in Daemon : proc[d] \in {"closed", "unlinked", "draining"} => exits < MaxExits

Working == {"workers", "serving", "closed", "unlinked", "draining"}

Busy(w) == worker[w].pc \in {"run", "complete"}

\* A thread works for a live daemon, on a request that is marked as claimed.
ThreadOK(w) ==
  /\ worker[w].pc # "off" => proc[w[1]] \in Working
  /\ worker[w].pc \in {"claim", "run", "complete"} => worker[w].item \in Attempt
  /\ Busy(w) => requests[worker[w].item].status = "processing"
  /\ worker[w].pc = "run" => runs[worker[w].item] = 0
  /\ worker[w].pc = "complete" /\ worker[w].result = "ok" => runs[worker[w].item] = 1

OneThreadPerItem ==
  \A w, v \in Worker : Busy(w) /\ Busy(v) /\ worker[w].item = worker[v].item => w = v

\* What a row says agrees with what happened to the request.
RequestOK(r) ==
  /\ runs[r] \in {0, 1}
  /\ requests[r].status \in {"none", "queued", "processing"} <=> requests[r].answer = "none"
  /\ requests[r].status = "queued" => runs[r] = 0
  /\ requests[r].status = "done" => requests[r].answer = "ok"
  /\ requests[r].answer = "ok" => runs[r] = 1
  /\ requests[r].answer = "withdrawn" => runs[r] = 0

\* An attempt goes over the socket or through the mailbox.
ConnOK(r) ==
  /\ conn[r].st # "none" => requests[r].status = "none"
  /\ conn[r].st \in {"backlog", "accepted"} => runs[r] = 0
  /\ conn[r].st = "ok" => runs[r] = 1

Unused(r) == requests[r].status = "none" /\ conn[r].st = "none" /\ runs[r] = 0

Ended == {"succeeded", "failed", "killed"}

ClientOK(c) ==
  /\ client[c].pc \in {"idle", "connect", "mail", "enqueue"} => Unused(At(c))
  /\ client[c].n = 1 => Unused(<<c, 2>>)
  /\ client[c].pc \notin Ended => Unused(<<c, 3>>)
  /\ client[c].pc \in {"start", "direct"} => client[c].n = 1
  /\ client[c].pc \in {"poll", "cancel", "acknowledge"} => requests[At(c)].status # "none"
  /\ client[c].pc = "acknowledge" /\ client[c].result = "ok" => runs[At(c)] = 1

TransportInv ==
  /\ TypeOK
  /\ LifetimeLock
  /\ ExitsLeft
  /\ \A w \in Worker : ThreadOK(w)
  /\ OneThreadPerItem
  /\ \A r \in Attempt : RequestOK(r) /\ ConnOK(r)
  /\ \A c \in Command : ClientOK(c)
  /\ SuccessIsReal
===============================================================================
