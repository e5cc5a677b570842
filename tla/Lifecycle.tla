------------------------------- MODULE Lifecycle ------------------------------
(***************************************************************************)
(* The life of the daemon: who starts one, who stops one, and what each    *)
(* concludes from the socket file, the pid file, a ping and the process    *)
(* table.  A process is spawned once and never comes back.  A step is one  *)
(* look or one change; commands may be killed between any two, and so may  *)
(* daemons.  What requests do in a daemon is in Transport and EventWorkers.*)
(*                                                                         *)
(* A ping goes to the socket, and to the mailbox where nothing listens; a  *)
(* daemon whose threads are all at work (Busy) may answer too late.        *)
(***************************************************************************)
EXTENDS FiniteSets, Naturals

CONSTANTS Daemon, Starter, Stopper, Nobody,
          Busy,    \* the daemons that may be too slow for a ping
          Where,   \* the contexts a command may run in, and the daemon it spawns
          InNeed     \* the starters that are commands in need of a daemon

Caller == Starter \cup Stopper

\* "netns" shares the processes of the host but not its network, "sandbox"
\* neither.  The hint of the code is to run daemon start from a normal shell.
Context == {"host", "netns", "sandbox"}

ASSUME LifecycleAssumption ==
  /\ Nobody \notin Daemon \cup Caller
  /\ Starter \cap Stopper = {}
  /\ InNeed \subseteq Starter
  /\ Where \in [Caller -> SUBSET Context]
  /\ \A c \in Starter \ InNeed : "sandbox" \notin Where[c]

VARIABLES
  lock,       \* the flock on daemon.lock
  proc,       \* the daemon processes
  home,       \* the context each was spawned in
  sock,       \* whose socket the socket file is
  pid,        \* what the pid file says
  mailbox,    \* whose row says that the mailbox is served
  startLock,  \* the flock on daemon-start.lock
  call,       \* the commands
  qdrants,    \* the contexts in which a qdrant server runs
  slain,      \* history: healthy daemons that a start has signalled
  orphans     \* history: daemons whose starter was killed

fileVars == <<sock, pid>>
historyVars == <<slain, orphans>>
vars == <<lock, proc, home, fileVars, mailbox, startLock, call, qdrants, historyVars>>

Someone == Daemon \cup {Nobody}

Call == [at : Context,
         pc : {"idle", "first", "queue", "second", "look", "slay", "wait", "unlink", "spawn",
               "await", "reap", "ping", "decide", "term", "tidy", "done"},
         seen : Someone,    \* what the pid file said
         child : Someone,   \* what it spawned, or the daemon that answered
         result : {"none", "found", "started", "failed", "stopped", "absent", "killed"}]

\* Lives, with its lock, from "locked" on.
Stage == {"none", "spawned", "locked", "bound", "loaded", "listening", "ready",
          "stopping", "draining", "dead"}

TypeOK ==
  /\ lock \in Someone /\ sock \in Someone /\ pid \in Someone /\ mailbox \in Someone
  /\ proc \in [Daemon -> Stage]
  /\ home \in [Daemon -> Context]
  /\ startLock \in Starter \cup {Nobody}
  /\ call \in [Caller -> Call]
  /\ qdrants \subseteq Context
  /\ slain \subseteq Daemon /\ orphans \subseteq Daemon

NoCall == [at |-> "host", pc |-> "idle", seen |-> Nobody, child |-> Nobody, result |-> "none"]

\* After a boot, with or without a qdrant server.
Init ==
  /\ lock = Nobody /\ sock = Nobody /\ pid = Nobody /\ mailbox = Nobody
  /\ startLock = Nobody
  /\ proc = [d \in Daemon |-> "none"]
  /\ home \in [Daemon -> {"host"}]
  /\ call = [c \in Caller |-> NoCall]
  /\ qdrants \in {{}, {"host"}}
  /\ slain = {} /\ orphans = {}

Alive == {d \in Daemon : proc[d] \notin {"none", "dead"}}
Holding == {"locked", "bound", "loaded", "listening", "ready", "stopping", "draining"}
Serving == {"listening", "ready"}

--------------------------------------------------------------------------------
(* serve *)

Proceed(d, from, to) == proc[d] = from /\ proc' = [proc EXCEPT ![d] = to]

\* The end of a process, by itself or by a signal; its files stay.
Dies(d) ==
  /\ proc' = [proc EXCEPT ![d] = "dead"]
  /\ lock' = IF lock = d THEN Nobody ELSE lock

TakeLock(d) ==
  /\ IF lock = Nobody THEN Proceed(d, "spawned", "locked") /\ lock' = d
     ELSE Proceed(d, "spawned", "dead") /\ UNCHANGED lock
  /\ UNCHANGED <<home, fileVars, mailbox, startLock, call, qdrants, historyVars>>

Bind(d) ==
  /\ Proceed(d, "locked", "bound")
  /\ sock' = d
  /\ UNCHANGED <<lock, home, pid, mailbox, startLock, call, qdrants, historyVars>>

\* What a process in a context sees of the qdrant servers.
Reachable(x) == x \in qdrants
Listed(x) == qdrants \cap (IF x = "sandbox" THEN {x} ELSE {"host", "netns"}) # {}

Load_NoLook(d) ==
  /\ Proceed(d, "bound", "loaded")
  /\ qdrants' \in {qdrants, qdrants \cup {home[d]}}
  /\ UNCHANGED <<lock, home, fileVars, mailbox, startLock, call, historyVars>>

\* _ensure_qdrant; the client is built and the queue taken over.
Load(d) ==
  /\ proc[d] = "bound"
  /\ IF ~Reachable(home[d]) /\ Listed(home[d])
     THEN Dies(d) /\ UNCHANGED qdrants
     ELSE /\ Proceed(d, "bound", "loaded")
          /\ qdrants' \in {qdrants, qdrants \cup {home[d]}}
          /\ UNCHANGED lock
  /\ UNCHANGED <<home, fileVars, mailbox, startLock, call, historyVars>>

Listen(d) ==
  /\ Proceed(d, "loaded", "listening")
  /\ pid' = d
  /\ UNCHANGED <<lock, home, sock, mailbox, startLock, call, qdrants, historyVars>>

MarkReady(d) ==
  /\ Proceed(d, "listening", "ready")
  /\ mailbox' = d
  /\ UNCHANGED <<lock, home, fileVars, startLock, call, qdrants, historyVars>>

\* The files are unlinked by their names.
Close(d) ==
  /\ Proceed(d, "stopping", "draining")
  /\ sock' = Nobody /\ pid' = Nobody
  /\ mailbox' = IF mailbox = d THEN Nobody ELSE mailbox
  /\ UNCHANGED <<lock, home, startLock, call, qdrants, historyVars>>

Exit(d) ==
  /\ proc[d] = "draining"
  /\ Dies(d)
  /\ UNCHANGED <<home, fileVars, mailbox, startLock, call, qdrants, historyVars>>

Crash(d) ==
  /\ d \in Alive
  /\ Dies(d)
  /\ UNCHANGED <<home, fileVars, mailbox, startLock, call, qdrants, historyVars>>

QdrantDies ==
  /\ qdrants # {} /\ qdrants' = {}
  /\ UNCHANGED <<lock, proc, home, fileVars, mailbox, startLock, call, historyVars>>

--------------------------------------------------------------------------------
(* What the commands look at *)

Sees(x, d) == x = "sandbox" <=> home[d] = "sandbox"
Running(x, d) == d \in Alive /\ Sees(x, d)

Connects(x, d) == sock = d /\ Running(x, d) /\ proc[d] \in Serving

Reached_SocketOnly(x) == {d \in Daemon : Connects(x, d)}

\* Whom a request from x reaches.
Reached(x) ==
  {d \in Daemon : \/ Connects(x, d)
                  \/ ~(\E e \in Daemon : Connects(x, e)) /\ mailbox = d /\ proc[d] = "ready"}

\* Until a daemon is ready its socket only queues, and what is queued is not sent
\* to the mailbox as well.
Ping(x) ==
  LET ready == {d \in Reached(x) : proc[d] = "ready"}
  IN ready \cup IF ready \subseteq Busy THEN {Nobody} ELSE {}

At(c) == call[c].at
Become(c, r) == call' = [call EXCEPT ![c] = r]
Goto(c, pc) == Become(c, [call[c] EXCEPT !.pc = pc])
Return(c, result) == Become(c, [call[c] EXCEPT !.pc = "done", !.result = result])

\* SIGTERM: a handler is installed once the daemon is ready.
Signal(d) ==
  IF proc[d] \in {"ready", "stopping", "draining"}
  THEN /\ proc' = [proc EXCEPT ![d] = IF @ = "ready" THEN "stopping" ELSE @]
       /\ UNCHANGED lock
  ELSE Dies(d)

\* unlink_runtime_files, or of the socket file only.
UnlinkFiles(c, both) ==
  /\ sock' = Nobody
  /\ pid' = IF both THEN Nobody ELSE pid

--------------------------------------------------------------------------------
(* start_daemon, and the commands that call it *)

daemon_spawn_safe(x) ==
  Reachable(x) \/ (~Listed(x) /\ x # "sandbox")

\* maybe_daemon_request, once its request has failed: files that are there
\* are reported instead.
start_daemon(c) ==
  /\ call[c].pc = "idle" /\ c \in Starter
  /\ \E x \in Where[c] :
       /\ c \in InNeed => Nobody \in Ping(x) /\ sock = Nobody /\ pid = Nobody /\ daemon_spawn_safe(x)
       /\ Become(c, [NoCall EXCEPT !.at = x, !.pc = "first"])
  /\ UNCHANGED <<lock, proc, home, fileVars, mailbox, startLock, qdrants, historyVars>>

FirstPing(c) ==
  /\ call[c].pc = "first"
  /\ \E d \in Ping(At(c)) : IF d = Nobody THEN Goto(c, "queue") ELSE Return(c, "found")
  /\ UNCHANGED <<lock, proc, home, fileVars, mailbox, startLock, qdrants, historyVars>>

TakeStartLock(c) ==
  /\ call[c].pc = "queue"
  /\ startLock = Nobody
  /\ startLock' = c
  /\ Goto(c, "second")
  /\ UNCHANGED <<lock, proc, home, fileVars, mailbox, qdrants, historyVars>>

SecondPing_Unheeded(c) ==
  /\ call[c].pc = "second"
  /\ Goto(c, "look")
  /\ UNCHANGED <<lock, proc, home, fileVars, mailbox, startLock, qdrants, historyVars>>

SecondPing(c) ==
  /\ call[c].pc = "second"
  /\ \E d \in Ping(At(c)) : IF d = Nobody THEN Goto(c, "look") /\ UNCHANGED startLock
                        ELSE Return(c, "found") /\ startLock' = Nobody
  /\ UNCHANGED <<lock, proc, home, fileVars, mailbox, qdrants, historyVars>>

\* A pid that is no running daemon's is stale.
Look(c) ==
  /\ call[c].pc = "look"
  /\ Become(c, [call[c] EXCEPT !.seen = pid,
                               !.pc = IF pid \in Daemon /\ Running(At(c), pid) THEN "slay" ELSE "unlink"])
  /\ UNCHANGED <<lock, proc, home, fileVars, mailbox, startLock, qdrants, historyVars>>

\* terminate_daemon_pid, which knows the process by what it was.
Slay(c) ==
  /\ call[c].pc = "slay"
  /\ LET d == call[c].seen
     IN IF d \in Alive
        THEN /\ Signal(d)
             /\ slain' = IF proc[d] = "ready" /\ d \notin Busy THEN slain \cup {d} ELSE slain
        ELSE UNCHANGED <<proc, lock, slain>>
  /\ Goto(c, "wait")
  /\ UNCHANGED <<home, fileVars, mailbox, startLock, qdrants, orphans>>

\* The grace period is over: SIGKILL.
SlayForGood(c) ==
  /\ call[c].pc = "wait"
  /\ IF call[c].seen \in Alive THEN Dies(call[c].seen) ELSE UNCHANGED <<proc, lock>>
  /\ Goto(c, "unlink")
  /\ UNCHANGED <<home, fileVars, mailbox, startLock, qdrants, historyVars>>

Unlink(c) ==
  /\ call[c].pc = "unlink"
  /\ IF sock # Nobody \/ call[c].seen # Nobody THEN UnlinkFiles(c, TRUE)
     ELSE UNCHANGED fileVars
  /\ Goto(c, "spawn")
  /\ UNCHANGED <<lock, proc, home, mailbox, startLock, qdrants, slain, orphans>>

Spawn(c) ==
  /\ call[c].pc = "spawn"
  /\ \E d \in Daemon :
       /\ Proceed(d, "none", "spawned")
       /\ home' = [home EXCEPT ![d] = At(c)]
       /\ Become(c, [call[c] EXCEPT !.pc = "await", !.child = d])
  /\ UNCHANGED <<lock, fileVars, mailbox, startLock, qdrants, historyVars>>

SignalChild_Spared(c, result) ==
  /\ Return(c, result) /\ startLock' = Nobody
  /\ UNCHANGED <<proc, lock>>

\* terminate_process of the child.
SignalChild(c, result) ==
  /\ Signal(call[c].child)
  /\ Become(c, [call[c] EXCEPT !.pc = "reap", !.result = result])
  /\ UNCHANGED startLock

\* Another daemon has answered: the child is one too many.
Answered(c) ==
  /\ call[c].pc = "await"
  /\ \E d \in Ping(At(c)) \ {Nobody} :
       IF d # call[c].child /\ call[c].child \in Alive THEN SignalChild(c, "found")
       ELSE UNCHANGED <<proc, lock>> /\ Return(c, "started") /\ startLock' = Nobody
  /\ UNCHANGED <<home, fileVars, mailbox, qdrants, historyVars>>

ChildDied(c) ==
  /\ call[c].pc = "await"
  /\ Nobody \in Ping(At(c))
  /\ call[c].child \notin Alive
  /\ Return(c, "failed")
  /\ startLock' = Nobody
  /\ UNCHANGED <<lock, proc, home, fileVars, mailbox, qdrants, historyVars>>

NotReadyInTime(c) ==
  /\ call[c].pc = "await"
  /\ Nobody \in Ping(At(c))
  /\ call[c].child \in Alive
  /\ SignalChild(c, "failed")
  /\ UNCHANGED <<home, fileVars, mailbox, qdrants, historyVars>>

Reap_KeepsLock(c) ==
  /\ call[c].pc = "reap"
  /\ IF call[c].child \in Alive THEN Dies(call[c].child) ELSE UNCHANGED <<proc, lock>>
  /\ Goto(c, "done")
  /\ UNCHANGED <<home, fileVars, mailbox, startLock, qdrants, historyVars>>

\* The child has ended in time, or is killed.
Reap(c) ==
  /\ call[c].pc = "reap"
  /\ IF call[c].child \in Alive THEN Dies(call[c].child) ELSE UNCHANGED <<proc, lock>>
  /\ IF call[c].result = "failed" /\ pid = call[c].child THEN UnlinkFiles(c, TRUE)
     ELSE UNCHANGED fileVars
  /\ Goto(c, "done")
  /\ startLock' = Nobody
  /\ UNCHANGED <<home, mailbox, qdrants, slain, orphans>>

\* The command is killed; what it spawned lives on.
Killed(c) ==
  /\ call[c].pc \notin {"idle", "done"}
  /\ Return(c, "killed")
  /\ startLock' = IF startLock = c THEN Nobody ELSE startLock
  /\ orphans' = orphans \cup ({call[c].child} \cap Alive)
  /\ UNCHANGED <<lock, proc, home, fileVars, mailbox, qdrants, slain>>

--------------------------------------------------------------------------------
(* stop_daemon *)

stop_daemon(c) ==
  /\ call[c].pc = "idle" /\ c \in Stopper
  /\ \E x \in Where[c] : Become(c, [NoCall EXCEPT !.at = x, !.pc = "ping", !.seen = pid])
  /\ UNCHANGED <<lock, proc, home, fileVars, mailbox, startLock, qdrants, historyVars>>

StopPing(c) ==
  /\ call[c].pc = "ping"
  /\ \E d \in Ping(At(c)) : Become(c, [call[c] EXCEPT !.pc = "decide", !.child = d])
  /\ UNCHANGED <<lock, proc, home, fileVars, mailbox, startLock, qdrants, historyVars>>

StopGoes(c) == call[c].seen \in Daemon /\ Running(At(c), call[c].seen)

\* The daemon that answered cannot be seen here: whoever is reached now is asked
\* to stop.
StopByRequest(c) ==
  /\ call[c].pc = "decide"
  /\ call[c].child # Nobody /\ ~StopGoes(c)
  /\ \E d \in Ping(At(c)) :
       IF d = Nobody THEN Return(c, "failed") /\ UNCHANGED <<proc, lock>>
       ELSE /\ Signal(d)
            /\ \/ Become(c, [call[c] EXCEPT !.pc = "done", !.child = d, !.result = "stopped"])
               \/ d \in Busy /\ Return(c, "failed")
  /\ UNCHANGED <<home, fileVars, mailbox, startLock, qdrants, historyVars>>

StopFindsNobody(c) ==
  /\ call[c].pc = "decide"
  /\ call[c].child = Nobody /\ ~StopGoes(c)
  /\ UnlinkFiles(c, call[c].seen # Nobody)
  /\ Return(c, "absent")
  /\ UNCHANGED <<lock, proc, home, mailbox, startLock, qdrants, slain, orphans>>

StopBySignal(c) ==
  /\ call[c].pc = "decide"
  /\ StopGoes(c)
  /\ Signal(call[c].seen)
  /\ Goto(c, "term")
  /\ UNCHANGED <<home, fileVars, mailbox, startLock, qdrants, historyVars>>

StopWaits(c) ==
  /\ call[c].pc = "term"
  /\ IF call[c].seen \in Alive THEN Return(c, "failed") ELSE Goto(c, "tidy")
  /\ UNCHANGED <<lock, proc, home, fileVars, mailbox, startLock, qdrants, historyVars>>

StopTidies(c) ==
  /\ call[c].pc = "tidy"
  /\ UnlinkFiles(c, TRUE)
  /\ Return(c, "stopped")
  /\ UNCHANGED <<lock, proc, home, mailbox, startLock, qdrants, slain, orphans>>

--------------------------------------------------------------------------------

Serves(d) ==
  \/ TakeLock(d) \/ Bind(d) \/ Load(d) \/ Listen(d) \/ MarkReady(d) \/ Close(d) \/ Exit(d)

Starts(c) ==
  \/ FirstPing(c) \/ TakeStartLock(c) \/ SecondPing(c) \/ Look(c) \/ Slay(c) \/ SlayForGood(c)
  \/ Unlink(c) \/ Spawn(c) \/ Answered(c) \/ ChildDied(c) \/ NotReadyInTime(c)
  \/ Reap(c)

Stops(c) ==
  \/ StopPing(c) \/ StopByRequest(c) \/ StopFindsNobody(c) \/ StopBySignal(c)
  \/ StopWaits(c) \/ StopTidies(c)

Next ==
  \/ \E d \in Daemon : Serves(d) \/ Crash(d)
  \/ \E c \in Caller : start_daemon(c) \/ Starts(c) \/ stop_daemon(c) \/ Stops(c) \/ Killed(c)
  \/ QdrantDies

Spec == Init /\ [][Next]_vars

\* Processes and commands run on; every wait of theirs has a timeout.
Fairness ==
  /\ \A d \in Daemon : WF_vars(Serves(d))
  /\ \A c \in Caller : WF_vars(Starts(c)) /\ WF_vars(Stops(c))

FairSpec == Spec /\ Fairness

--------------------------------------------------------------------------------
(* Properties *)

\* A daemon that is ready answers: what others do to its files costs it the
\* socket, never the mailbox, so that it can be found, used and stopped.
ReadyIsReachable ==
  \A d \in Daemon, x \in Context : proc[d] = "ready" => Reached(x) = {d}

\* A start terminates a daemon only if it is too busy to answer, or was left
\* behind by a start that was killed: the ping is repeated under the start lock.
HealthyIsSpared == \A d \in slain : d \in orphans

\* No start leaves a process behind that neither is the daemon nor ends.
NobodyLoiters ==
  \A c \in Starter :
    call[c].pc = "done" /\ call[c].result # "killed" /\ call[c].child \in Alive =>
      lock = call[c].child

\* Two qdrant servers never share the storage directory.
OneQdrant == Cardinality(qdrants) <= 1

\* Every start and every stop comes to an end.
CallsEnd == \A c \in Caller : call[c].pc # "idle" ~> call[c].pc = "done"

--------------------------------------------------------------------------------
(* What makes them inductive *)

\* Who is past the flock of serve, and lives, has it.
LockHeld == \A d \in Daemon : lock = d <=> proc[d] \in Holding

\* The heartbeat in the mailbox is that of the daemon that is ready.
MailboxKnown == \A d \in Daemon : proc[d] = "ready" => mailbox = d

\* No start spawns in a sandbox, so qdrant servers run where daemons see each other's.
HomesSound == \A d \in Daemon : home[d] # "sandbox"

QdrantsSound == "sandbox" \notin qdrants /\ \A x, y \in qdrants : x = y

Locking == {"second", "look", "slay", "wait", "unlink", "spawn", "await", "reap"}

\* After the second ping of a start, who is ready and not slow has lost his own start.
StartSound(c) ==
  /\ call[c].pc \in {"idle", "first", "queue", "done"} \cup Locking
  /\ call[c].pc \in Locking => startLock = c
  /\ call[c].pc \notin {"idle", "done"} => call[c].at # "sandbox"
  /\ call[c].pc \notin {"await", "reap", "done"} => call[c].child = Nobody
  /\ call[c].pc \in {"await", "reap"} => call[c].child \in Daemon
  /\ call[c].child \in Daemon => proc[call[c].child] # "none"
  /\ call[c].pc \in {"look", "slay"} =>
       \A d \in Daemon \ Busy : proc[d] = "ready" => d \in orphans
  /\ call[c].pc = "done" /\ call[c].result # "killed" /\ call[c].child \in Alive =>
       lock = call[c].child

StopSound(c) == call[c].pc \in {"idle", "ping", "decide", "term", "tidy", "done"}

\* Who is not ready yet has somebody who waits for him, or had.
Fledgling == {"spawned", "locked", "bound", "loaded", "listening"}

FledglingsKnown ==
  \A d \in Daemon : proc[d] \in Fledgling =>
    d \in orphans \/ \E c \in Starter : call[c].pc = "await" /\ call[c].child = d

\* The invariant of LifecycleProofs.
LifecycleInv ==
  /\ TypeOK /\ LockHeld /\ MailboxKnown /\ HomesSound /\ QdrantsSound
  /\ \A c \in Starter : StartSound(c)
  /\ \A c \in Stopper : StopSound(c)
  /\ FledglingsKnown /\ HealthyIsSpared
===============================================================================
