-------------------------- MODULE EventWorkersProofs --------------------------
(***************************************************************************)
(* Proofs about EventWorkers for any number of events, daemons, worker     *)
(* threads, callers, attempts and process deaths.                          *)
(***************************************************************************)
EXTENDS EventWorkers, TLAPS

-------------------------------------------------------------------------------
(* Types of the operators the actions are made of. *)

LEMMA AtType ==
  ASSUME NEW pc \in ThreadState
  PROVE  At(pc) \in Thread
BY DEF At, Thread, Verdict

LEMMA NotifyType ==
  ASSUME NEW others \in [Worker -> Thread], Notify(others)
  PROVE  thread' \in [Worker -> Thread]
BY AtType DEF Notify, ThreadState, Working

LEMMA SetStatusType ==
  ASSUME rows \in [Event -> Row], NEW e \in Event, NEW s \in Status, SetStatus(e, s)
  PROVE  rows' \in [Event -> Row]
BY DEF SetStatus, Row, Status

\* What Settle does to the threads: w moves on to refresh_alerts, every other
\* thread stays where it is, and one that waits may be notified.
LEMMA SettleThread ==
  ASSUME TypeOK, NEW w \in Worker, Settle(w)
  PROVE  \E next \in [Worker -> Thread] :
           /\ next[w].pc = "refresh" /\ next[w].item = thread[w].item
           /\ next[w].verdict \in {"ok", "requeued", "terminal"}
           /\ \A x \in Worker \ {w} : next[x] = thread[x]
           /\ thread' = next \/ Notify(next)
<1>0. thread \in [Worker -> Thread]
  BY DEF TypeOK
<1>1. CASE thread[w].verdict = "ok" /\ Goto(w, "refresh")
  <2> DEFINE next == [thread EXCEPT ![w].pc = "refresh"]
  <2>1. /\ next \in [Worker -> Thread] /\ next[w].pc = "refresh"
        /\ next[w].item = thread[w].item /\ next[w].verdict = "ok"
        /\ \A x \in Worker \ {w} : next[x] = thread[x]
    BY <1>0, <1>1 DEF Thread, ThreadState
  <2>2. thread' = next
    BY <1>1 DEF Goto
  <2> HIDE DEF next
  <2>3. QED
    BY <2>1, <2>2
<1>2. ASSUME NEW v \in {"requeued", "terminal"},
             \/ thread' = [thread EXCEPT ![w].pc = "refresh", ![w].verdict = v]
             \/ Notify([thread EXCEPT ![w].pc = "refresh", ![w].verdict = v])
      PROVE  \E next \in [Worker -> Thread] :
               /\ next[w].pc = "refresh" /\ next[w].item = thread[w].item
               /\ next[w].verdict \in {"ok", "requeued", "terminal"}
               /\ \A x \in Worker \ {w} : next[x] = thread[x]
               /\ thread' = next \/ Notify(next)
  <2> DEFINE next == [thread EXCEPT ![w].pc = "refresh", ![w].verdict = v]
  <2>1. /\ next \in [Worker -> Thread] /\ next[w].pc = "refresh"
        /\ next[w].item = thread[w].item /\ next[w].verdict = v
        /\ \A x \in Worker \ {w} : next[x] = thread[x]
    BY <1>0 DEF Thread, ThreadState, Verdict
  <2>2. thread' = next \/ Notify(next)
    BY <1>2
  <2> HIDE DEF next
  <2>3. QED
    BY <2>1, <2>2
<1>3. QED
  BY <1>1, <1>2 DEF Settle

LEMMA SettleType ==
  ASSUME TypeOK, NEW w \in Worker, Settle(w), thread[w].item \in Event
  PROVE  rows' \in [Event -> Row] /\ clock' = clock /\ thread' \in [Worker -> Thread]
<1>1. thread' \in [Worker -> Thread]
  BY SettleThread, NotifyType
<1>2. rows' \in [Event -> Row] /\ clock' = clock
  BY SetStatusType DEF Settle, TypeOK, QueueTypeOK, complete, fail, Status
<1>3. QED
  BY <1>1, <1>2

-------------------------------------------------------------------------------
(* Types.  TypeOK is inductive only together with ItemOK. *)

LEMMA NotifyItem ==
  ASSUME NEW others \in [Worker -> Thread], Notify(others),
         \A w \in Worker :
           others[w].pc \in Working \cup {"dead", "refresh", "publish", "audit"}
             => others[w].item \in Event
  PROVE  ItemOK'
BY DEF Notify, ItemOK, At, Working

LEMMA ItemInductive == TypeOK /\ ItemOK /\ [Next]_vars => ItemOK'
<1> SUFFICES ASSUME TypeOK, ItemOK, [Next]_vars PROVE ItemOK'
  OBVIOUS
<1>0. thread \in [Worker -> Thread]
  BY DEF TypeOK
<1> USE <1>0
<1>1. ASSUME NEW d \in Daemon, DaemonStep(d) \/ SigTerm(d) \/ Die(d)
      PROVE  ItemOK'
  <2> USE DEF ItemOK, At, Working
  <2>1. CASE UNCHANGED thread
    BY <2>1
  <2>2. CASE StartWorkers(d)
    BY <2>2 DEF StartWorkers
  <2>3. CASE StopWorkers(d)
    BY <2>3 DEF StopWorkers
  <2>4. CASE Die(d)
    BY <2>4 DEF Die
  <2>5. QED
    BY <1>1, <2>1, <2>2, <2>3, <2>4
       DEF DaemonStep, Start, StartRecover, StartPurge, StartRefresh, SigTerm
<1>2. ASSUME NEW w \in Worker, WorkerStep(w)
      PROVE  ItemOK'
  <2> USE DEF ItemOK, At, Working, Goto
  <2>1. CASE LoopHead(w) \/ ClaimNothing(w) \/ Park(w) \/ WaitTimesOut(w)
    BY <2>1 DEF LoopHead, ClaimNothing, Park, WaitTimesOut, Thread
  <2>2. CASE \E e \in Event : Claim(w, e)
    BY <2>2 DEF Claim, Thread
  <2>3. CASE BuildJudge(w) \/ Dispatch(w)
    BY <2>3 DEF BuildJudge, Dispatch, Thread
  <2>4. CASE Settle(w)
    <3>1. PICK next \in [Worker -> Thread] :
            /\ next[w].item = thread[w].item
            /\ \A x \in Worker \ {w} : next[x] = thread[x]
            /\ thread' = next \/ Notify(next)
      BY <2>4, SettleThread
    <3>2. \A x \in Worker :
            next[x].pc \in Working \cup {"dead", "refresh", "publish", "audit"}
              => next[x].item \in Event
      BY <2>4, <3>1 DEF Settle
    <3>3. QED
      BY <3>1, <3>2, NotifyItem
  <2>5. CASE WorkerRefresh(w) \/ WorkerPublish(w) \/ Audit(w)
    BY <2>5 DEF WorkerRefresh, WorkerPublish, Audit, Thread
  <2>6. QED
    BY <1>2, <2>1, <2>2, <2>3, <2>4, <2>5 DEF WorkerStep
<1>3. ASSUME NEW c \in Caller, CallerStep(c)
      PROVE  ItemOK'
  BY <1>3, NotifyItem DEF CallerStep, CallerRetry, CallerAck, CallerRefresh, CallerPublish,
                          CallerDies, ItemOK
<1>4. ASSUME NEW e \in Event, Submit(e)
      PROVE  ItemOK'
  BY <1>4, NotifyItem DEF Submit, ItemOK
<1>5. CASE UNCHANGED vars
  BY <1>5 DEF vars, ItemOK
<1>6. QED
  BY <1>1, <1>2, <1>3, <1>4, <1>5 DEF Next

LEMMA TypeInductive == TypeOK /\ ItemOK /\ [Next]_vars => TypeOK'
<1> SUFFICES ASSUME TypeOK, ItemOK, [Next]_vars PROVE TypeOK'
  OBVIOUS
<1> USE DEF TypeOK, QueueTypeOK, queueVars
<1>1. ASSUME NEW d \in Daemon, DaemonStep(d) \/ SigTerm(d) \/ Die(d)
      PROVE  TypeOK'
  <2> USE <1>1 DEF ProcState, Starting
  <2>1. CASE Start(d)
    BY <2>1 DEF Start, TakeLifetimeLock
  <2>2. CASE StartRecover(d)
    BY <2>2 DEF StartRecover, recover_stale, With, Row, Status
  <2>3. CASE StartPurge(d)
    BY <2>3 DEF StartPurge, purge, Row, Status
  <2>4. CASE StartRefresh(d)
    BY <2>4 DEF StartRefresh, CountUnacked, Refresher
  <2>5. CASE StartWorkers(d)
    BY <2>5, AtType DEF StartWorkers, WriteAlerts, Refresher, ThreadState
  <2>6. CASE StopWorkers(d)
    BY <2>6, AtType DEF StopWorkers, ThreadState
  <2>7. CASE SigTerm(d)
    BY <2>7 DEF SigTerm
  <2>8. CASE Die(d)
    <3>1. At("off") \in Thread
      BY AtType DEF ThreadState
    <3>2. exits' \in 0..MaxExits
      BY <2>8, WorkersAssumption DEF Die
    <3>3. thread' \in [Worker -> Thread] /\ seen' \in [Refresher -> BOOLEAN]
      BY <2>8, <3>1 DEF Die
    <3>4. QED
      BY <2>8, <3>2, <3>3 DEF Die
  <2>9. QED
    BY <1>1, <2>1, <2>2, <2>3, <2>4, <2>5, <2>6, <2>7, <2>8 DEF DaemonStep
<1>2. ASSUME NEW w \in Worker, WorkerStep(w)
      PROVE  TypeOK'
  <2> USE DEF Goto, ThreadState, Working
  <2>1. CASE LoopHead(w)
    BY <2>1, AtType DEF LoopHead
  <2>2. ASSUME NEW e \in Event, Claim(w, e)
        PROVE  TypeOK'
    <3>1. rows' \in [Event -> Row] /\ rows'[e].attempts \in Nat
      BY <2>2 DEF Claim, claim_next, Row, Status
    <3>2. QED
      BY <2>2, <3>1 DEF Claim, claim_next, Thread, Verdict
  <2>3. CASE ClaimNothing(w)
    BY <2>3 DEF ClaimNothing, Thread
  <2>4. CASE Park(w)
    BY <2>4 DEF Park, Thread
  <2>5. CASE WaitTimesOut(w)
    BY <2>5 DEF WaitTimesOut, Thread
  <2>6. CASE BuildJudge(w)
    BY <2>6 DEF BuildJudge, Thread
  <2>7. CASE Dispatch(w)
    <3>1. thread[w].item \in Event
      BY <2>7 DEF Dispatch, ItemOK
    <3>2. thread' \in [Worker -> Thread]
      BY <2>7 DEF Dispatch, Thread, Verdict
    <3>3. QED
      BY <2>7, <3>1, <3>2 DEF Dispatch
  <2>8. CASE Settle(w)
    <3>1. thread[w].item \in Event
      BY <2>8 DEF Settle, ItemOK
    <3>2. QED
      BY <2>8, <3>1, SettleType DEF Settle
  <2>9. CASE WorkerRefresh(w)
    BY <2>9 DEF WorkerRefresh, CountUnacked, Refresher, Thread
  <2>10. CASE WorkerPublish(w)
    BY <2>10, AtType DEF WorkerPublish, WriteAlerts, Refresher, Thread
  <2>11. CASE Audit(w)
    <3>1. thread[w].item \in Event
      BY <2>11 DEF Audit, ItemOK
    <3>2. thread' \in [Worker -> Thread]
      BY <2>11, AtType DEF Audit
    <3>3. QED
      BY <2>11, <3>1, <3>2 DEF Audit
  <2>12. QED
    BY <1>2, <2>1, <2>2, <2>3, <2>4, <2>5, <2>6, <2>7, <2>8, <2>9, <2>10, <2>11
       DEF WorkerStep
<1>3. ASSUME NEW c \in Caller, CallerStep(c)
      PROVE  TypeOK'
  <2>1. ASSUME NEW e \in Event, CallerRetry(c, e)
        PROVE  TypeOK'
    <3>1. rows' \in [Event -> Row]
      <4>1. rows \in [Event -> Row]
        BY DEF TypeOK, QueueTypeOK
      <4>2. rows' = [rows EXCEPT ![e] = [rows[e] EXCEPT !.status = "queued", !.attempts = 0,
                                                        !.acked = FALSE]]
        BY <2>1 DEF CallerRetry, retry
      <4>3. ASSUME NEW r \in Row
            PROVE  [r EXCEPT !.status = "queued", !.attempts = 0, !.acked = FALSE] \in Row
        BY DEF Row, Status
      <4> QED BY <4>1, <4>2, <4>3
    <3>2. thread' \in [Worker -> Thread]
      BY <2>1, NotifyType DEF CallerRetry
    <3>3. QED
      BY <2>1, <3>1, <3>2 DEF CallerRetry, retry
  <2>2. CASE CallerAck(c)
    <3>1. ASSUME NEW S, ack(S)
          PROVE  rows' \in [Event -> Row] /\ clock' = clock
      BY <3>1 DEF ack, Row
    <3>2. rows' \in [Event -> Row] /\ clock' = clock
      BY <2>2, <3>1 DEF CallerAck
    <3>3. QED
      BY <2>2, <3>2 DEF CallerAck
  <2>3. CASE CallerRefresh(c)
    BY <2>3 DEF CallerRefresh, CountUnacked, Refresher
  <2>4. CASE CallerPublish(c)
    BY <2>4 DEF CallerPublish, WriteAlerts, Refresher
  <2>5. CASE CallerDies(c)
    BY <2>5 DEF CallerDies, Refresher
  <2>6. QED
    BY <1>3, <2>1, <2>2, <2>3, <2>4, <2>5 DEF CallerStep
<1>4. ASSUME NEW e \in Event, Submit(e)
      PROVE  TypeOK'
  <2>1. rows' \in [Event -> Row] /\ clock' \in Nat
    BY <1>4 DEF Submit, enqueue, Row, Status
  <2>2. thread' \in [Worker -> Thread]
    BY <1>4, NotifyType DEF Submit
  <2>3. QED
    BY <1>4, <2>1, <2>2 DEF Submit, enqueue
<1>5. CASE UNCHANGED vars
  BY <1>5 DEF vars
<1>6. QED
  BY <1>1, <1>2, <1>3, <1>4, <1>5 DEF Next

\* The value of every variable has the shape TypeOK gives it, in every state.
THEOREM TypeCorrect == Spec => []TypeOK
<1>1. Init => TypeOK
  <2> SUFFICES ASSUME Init PROVE TypeOK
    OBVIOUS
  <2>1. QueueTypeOK
    BY DEF Init, QueueInit, QueueTypeOK, NoRow, Row, Status
  <2>2. At("off") \in Thread
    BY AtType DEF ThreadState
  <2>3. exits \in 0..MaxExits
    BY WorkersAssumption DEF Init
  <2>4. QED
    BY <2>1, <2>2, <2>3 DEF Init, TypeOK, ProcState, Starting
<1>2. Init => ItemOK
  BY DEF Init, ItemOK, At, Working
<1>3. QED
  BY <1>1, <1>2, ItemInductive, TypeInductive, PTL DEF Spec

-------------------------------------------------------------------------------
(* One daemon at a time, and only its threads *)

LEMMA LockInductive == IInv /\ [Next]_vars => LifetimeLock' /\ ThreadsLive'
<1> SUFFICES ASSUME IInv, [Next]_vars PROVE LifetimeLock' /\ ThreadsLive'
  OBVIOUS
<1>0. thread \in [Worker -> Thread] /\ proc \in [Daemon -> ProcState] /\ thread' \in [Worker -> Thread]
  BY TypeInductive DEF IInv, TypeOK
<1>1. \A w \in Worker : w[1] \in Daemon
  BY DEF Worker
<1> USE <1>0, <1>1 DEF IInv, LifetimeLock, ThreadsLive, At
<1>2. ASSUME NEW d \in Daemon, DaemonStep(d) \/ SigTerm(d) \/ Die(d)
      PROVE  LifetimeLock' /\ ThreadsLive'
  <2>1. CASE Start(d)
    BY <2>1, WorkersAssumption DEF Start, TakeLifetimeLock
  <2>2. CASE StartRecover(d) \/ StartPurge(d) \/ StartRefresh(d) \/ SigTerm(d)
    BY <2>2 DEF StartRecover, StartPurge, StartRefresh, SigTerm
  <2>3. CASE StartWorkers(d)
    BY <2>3 DEF StartWorkers
  <2>4. CASE StopWorkers(d)
    BY <2>4 DEF StopWorkers
  <2>5. CASE Die(d)
    <3>1. proc' = [proc EXCEPT ![d] = "down"] /\ lock' = IF lock = d THEN NoDaemon ELSE lock
      BY <2>5 DEF Die
    <3>2. LifetimeLock'
      BY <3>1
    <3>3. thread' = [w \in Worker |-> IF w[1] = d THEN At("off") ELSE thread[w]]
      BY <2>5 DEF Die
    <3>4. ThreadsLive'
      BY <3>1, <3>3
    <3>5. QED
      BY <3>2, <3>4
  <2>6. QED
    BY <1>2, <2>1, <2>2, <2>3, <2>4, <2>5 DEF DaemonStep
<1>3. ASSUME UNCHANGED <<lock, proc>>,
             \A w \in Worker : thread'[w].pc # "off" => thread[w].pc # "off"
      PROVE  LifetimeLock' /\ ThreadsLive'
  BY <1>3
<1>4. ASSUME NEW others \in [Worker -> Thread], Notify(others), UNCHANGED <<lock, proc>>,
             \A w \in Worker : others[w].pc # "off" => thread[w].pc # "off"
      PROVE  LifetimeLock' /\ ThreadsLive'
  BY <1>4, <1>3 DEF Notify
<1>5. ASSUME NEW w \in Worker, WorkerStep(w)
      PROVE  LifetimeLock' /\ ThreadsLive'
  <2> USE DEF Goto, Thread
  <2>1. CASE LoopHead(w) \/ ClaimNothing(w) \/ Park(w) \/ WaitTimesOut(w) \/ BuildJudge(w)
    BY <2>1, <1>3 DEF LoopHead, ClaimNothing, Park, WaitTimesOut, BuildJudge
  <2>2. CASE (\E e \in Event : Claim(w, e)) \/ Dispatch(w)
    BY <2>2, <1>3 DEF Claim, Dispatch
  <2>3. CASE Settle(w)
    <3>1. PICK next \in [Worker -> Thread] :
            /\ \A x \in Worker \ {w} : next[x] = thread[x]
            /\ thread' = next \/ Notify(next)
      BY <2>3, SettleThread
    <3>2. thread[w].pc # "off" /\ UNCHANGED <<lock, proc>>
      BY <2>3 DEF Settle
    <3>3. \A x \in Worker : next[x].pc # "off" => thread[x].pc # "off"
      BY <3>1, <3>2
    <3>4. QED
      BY <3>1, <3>2, <3>3, <1>3, <1>4
  <2>4. CASE WorkerRefresh(w) \/ WorkerPublish(w) \/ Audit(w)
    BY <2>4, <1>3 DEF WorkerRefresh, WorkerPublish, Audit
  <2>5. QED
    BY <1>5, <2>1, <2>2, <2>3, <2>4 DEF WorkerStep
<1>6. ASSUME NEW c \in Caller, CallerStep(c)
      PROVE  LifetimeLock' /\ ThreadsLive'
  BY <1>6, <1>3, <1>4 DEF CallerStep, CallerRetry, CallerAck, CallerRefresh, CallerPublish,
                          CallerDies
<1>7. ASSUME NEW e \in Event, Submit(e)
      PROVE  LifetimeLock' /\ ThreadsLive'
  BY <1>7, <1>3, <1>4 DEF Submit
<1>8. CASE UNCHANGED vars
  BY <1>8, <1>3 DEF vars
<1>9. QED
  BY <1>2, <1>5, <1>6, <1>7, <1>8 DEF Next

-------------------------------------------------------------------------------
(* No event has two owners *)

\* A step that leaves the rows alone, and in which every owner owned its event
\* before, keeps SingleOwner.
LEMMA OwnerFrame ==
  ASSUME SingleOwner, UNCHANGED rows,
         \A w \in Worker, e \in Event :
           Holds(w, e)' => Holds(w, e) /\ thread'[w].attempts = thread[w].attempts
  PROVE  SingleOwner'
BY DEF SingleOwner

LEMMA OwnerInductive == IInv /\ [Next]_vars => SingleOwner'
<1> SUFFICES ASSUME IInv, [Next]_vars PROVE SingleOwner'
  OBVIOUS
<1>0. /\ thread \in [Worker -> Thread] /\ proc \in [Daemon -> ProcState]
      /\ thread' \in [Worker -> Thread] /\ rows \in [Event -> Row]
      /\ SingleOwner /\ ItemOK
  BY TypeInductive DEF IInv, TypeOK, QueueTypeOK
<1>1. \A w \in Worker : w[1] \in Daemon
  BY DEF Worker
<1>a. ASSUME NEW others \in [Worker -> Thread], Notify(others),
             \A w \in Worker, e \in Event :
               others[w].pc \in Working /\ others[w].item = e
                 => Holds(w, e) /\ others[w].attempts = thread[w].attempts
      PROVE  \A w \in Worker, e \in Event :
               Holds(w, e)' => Holds(w, e) /\ thread'[w].attempts = thread[w].attempts
  BY <1>a DEF Notify, Holds, At, Working
<1>b. ASSUME Notify(thread)
      PROVE  \A w \in Worker, e \in Event :
               Holds(w, e)' => Holds(w, e) /\ thread'[w].attempts = thread[w].attempts
  BY <1>0, <1>a, <1>b DEF Holds
\* Rows that nobody works on may change freely.
<1>c. ASSUME \A w \in Worker, e \in Event :
               Holds(w, e)' => Holds(w, e) /\ thread'[w].attempts = thread[w].attempts,
             \A e \in Event : rows'[e] = rows[e] \/ rows[e].status # "processing"
      PROVE  SingleOwner'
  BY <1>0, <1>c DEF SingleOwner
<1>2. ASSUME NEW d \in Daemon, DaemonStep(d) \/ SigTerm(d) \/ Die(d)
      PROVE  SingleOwner'
  <2> USE <1>0 DEF Holds, At, Working
  <2>1. CASE Start(d) \/ StartRefresh(d) \/ SigTerm(d)
    BY <2>1, <1>c DEF Start, StartRefresh, SigTerm, queueVars
  <2>2. CASE StartRecover(d)
    <3>1. \A w \in Worker : thread[w].pc = "off"
      BY <2>2, <1>1 DEF StartRecover, IInv, ThreadsLive, LifetimeLock
    <3>2. QED
      BY <2>2, <3>1 DEF StartRecover, SingleOwner
  <2>3. CASE StartPurge(d)
    BY <2>3, <1>c DEF StartPurge, purge, Purgeable, With
  <2>4. CASE StartWorkers(d)
    BY <2>4, <1>c DEF StartWorkers, queueVars
  <2>5. CASE StopWorkers(d)
    BY <2>5, <1>c DEF StopWorkers, queueVars
  <2>6. CASE Die(d)
    BY <2>6, <1>c DEF Die, queueVars
  <2>7. QED
    BY <1>2, <2>1, <2>2, <2>3, <2>4, <2>5, <2>6 DEF DaemonStep
<1>3. ASSUME NEW w \in Worker, WorkerStep(w)
      PROVE  SingleOwner'
  <2>1. CASE LoopHead(w) \/ ClaimNothing(w) \/ Park(w) \/ WaitTimesOut(w) \/ BuildJudge(w)
    BY <1>0, <2>1, <1>c
       DEF LoopHead, ClaimNothing, Park, WaitTimesOut, BuildJudge, Goto, Thread, Holds, At,
           Working, queueVars
  <2>2. ASSUME NEW e \in Event, Claim(w, e)
        PROVE  SingleOwner'
    <3>1. /\ rows[e].status = "queued"
          /\ rows' = [rows EXCEPT ![e].status = "processing", ![e].attempts = @ + 1]
          /\ thread' = [thread EXCEPT ![w] =
                          [pc |-> IF e \in Checks THEN "judge" ELSE "run", item |-> e,
                           attempts |-> rows'[e].attempts, verdict |-> "none"]]
      BY <2>2 DEF Claim, claim_next, With
    <3>2. \A v \in Worker : ~Holds(v, e)
      BY <1>0, <3>1 DEF SingleOwner
    <3>3. rows'[e].status = "processing" /\ \A f \in Event \ {e} : rows'[f] = rows[f]
      BY <1>0, <3>1 DEF Row
    <3>4. \A v \in Worker \ {w} : thread'[v] = thread[v]
      BY <1>0, <3>1
    <3>5. /\ thread'[w].item = e /\ thread'[w].attempts = rows'[e].attempts
      BY <1>0, <3>1
    <3>6. QED
      BY <1>0, <3>2, <3>3, <3>4, <3>5 DEF SingleOwner, Holds
  <2>3. CASE Dispatch(w)
    BY <1>0, <2>3, <1>c DEF Dispatch, Thread, Holds, Working, queueVars
  <2>4. CASE Settle(w)
    <3> DEFINE e == thread[w].item
    <3>1. thread[w].pc = "settle" /\ e \in Event /\ Holds(w, e)
      BY <1>0, <2>4 DEF Settle, ItemOK, Holds, Working
    <3>2. \A f \in Event \ {e} : rows'[f] = rows[f]
      BY <1>0, <2>4, <3>1 DEF Settle, complete, fail, SetStatus
    <3>3. \A v \in Worker, f \in Event :
            Holds(v, f)' => v # w /\ Holds(v, f) /\ thread'[v].attempts = thread[v].attempts
      <4>1. PICK next \in [Worker -> Thread] :
              /\ next[w].pc = "refresh"
              /\ \A x \in Worker \ {w} : next[x] = thread[x]
              /\ thread' = next \/ Notify(next)
        BY <2>4, SettleThread DEF IInv
      <4>2. QED
        BY <4>1 DEF Notify, Holds, At, Working
    <3>4. QED
      BY <1>0, <3>1, <3>2, <3>3 DEF SingleOwner
  <2>5. CASE WorkerRefresh(w) \/ WorkerPublish(w) \/ Audit(w)
    BY <1>0, <2>5, <1>c
       DEF WorkerRefresh, WorkerPublish, Audit, Goto, Thread, Holds, At, Working, queueVars
  <2>6. QED
    BY <1>3, <2>1, <2>2, <2>3, <2>4, <2>5 DEF WorkerStep
<1>4. ASSUME NEW c \in Caller, CallerStep(c)
      PROVE  SingleOwner'
  <2>1. ASSUME NEW e \in Event, CallerRetry(c, e)
        PROVE  SingleOwner'
    <3>1. \A f \in Event : rows'[f] = rows[f] \/ rows[f].status # "processing"
      BY <1>0, <2>1 DEF CallerRetry, retry, With
    <3>2. QED
      BY <1>b, <1>c, <2>1, <3>1 DEF CallerRetry, Holds
  <2>2. CASE CallerAck(c)
    <3>1. \A f \in Event : rows'[f] = rows[f] \/ rows[f].status # "processing"
      BY <1>0, <2>2 DEF CallerAck, ack, With
    <3>2. QED
      BY <1>c, <2>2, <3>1 DEF CallerAck, Holds
  <2>3. CASE CallerRefresh(c) \/ CallerPublish(c) \/ CallerDies(c)
    BY <2>3, <1>c DEF CallerRefresh, CallerPublish, CallerDies, Holds, queueVars
  <2>4. QED
    BY <1>4, <2>1, <2>2, <2>3 DEF CallerStep
<1>5. ASSUME NEW e \in Event, Submit(e)
      PROVE  SingleOwner'
  <2>1. \A f \in Event : rows'[f] = rows[f] \/ rows[f].status # "processing"
    BY <1>0, <1>5 DEF Submit, enqueue
  <2>2. QED
    BY <1>b, <1>c, <1>5, <2>1 DEF Submit, Holds
<1>6. CASE UNCHANGED vars
  BY <1>6, <1>c DEF vars, Holds
<1>7. QED
  BY <1>2, <1>3, <1>4, <1>5, <1>6 DEF Next

-------------------------------------------------------------------------------
(* No event is stranded *)

\* A step that makes no row "processing", takes no event from a thread and
\* starts no daemon keeps NothingStranded.
LEMMA StrandedFrame ==
  ASSUME NothingStranded, NobodyWorks => NobodyWorks',
         \A e \in Event : rows'[e].status = "processing" => rows[e].status = "processing",
         \A w \in Worker, e \in Event : Keeps(w, e) => Keeps(w, e)'
  PROVE  NothingStranded'
BY DEF NothingStranded, With

LEMMA StrandedInductive == IInv /\ [Next]_vars => NothingStranded'
<1> SUFFICES ASSUME IInv, [Next]_vars PROVE NothingStranded'
  OBVIOUS
<1>0. /\ thread \in [Worker -> Thread] /\ proc \in [Daemon -> ProcState]
      /\ rows \in [Event -> Row]
      /\ NothingStranded /\ ItemOK /\ LifetimeLock /\ ThreadsLive
  BY DEF IInv, TypeOK, QueueTypeOK
<1>1. \A w \in Worker : w[1] \in Daemon
  BY DEF Worker
<1>a. ASSUME NEW others \in [Worker -> Thread], Notify(others), UNCHANGED proc,
             \A w \in Worker, e \in Event :
               Keeps(w, e) => others[w].pc \in Working \cup {"dead"} /\ others[w].item = e,
             \A e \in Event : rows'[e].status = "processing" => rows[e].status = "processing"
      PROVE  NothingStranded'
  <2>1. \A w \in Worker, e \in Event : Keeps(w, e) => Keeps(w, e)'
    BY <1>a DEF Notify, Keeps, At, Working
  <2>2. QED
    BY <1>0, <1>a, <2>1, StrandedFrame DEF NobodyWorks
<1>2. ASSUME NEW d \in Daemon, DaemonStep(d) \/ SigTerm(d) \/ Die(d)
      PROVE  NothingStranded'
  <2>1. CASE Start(d)
    BY <1>0, <2>1, WorkersAssumption
       DEF Start, TakeLifetimeLock, NothingStranded, NobodyWorks, LifetimeLock
  <2>2. CASE StartRecover(d)
    BY <1>0, <2>2 DEF StartRecover, recover_stale, With, Row, NothingStranded
  <2>3. CASE StartPurge(d)
    <3>1. \A e \in Event : rows'[e].status = "processing" => rows[e].status = "processing"
      BY <1>0, <2>3 DEF StartPurge, purge, Row
    <3>2. ~NobodyWorks
      BY <2>3 DEF StartPurge, NobodyWorks
    <3>3. QED
      BY <1>0, <2>3, <3>1, <3>2, StrandedFrame DEF StartPurge, Keeps
  <2>4. CASE StartRefresh(d) \/ SigTerm(d)
    BY <1>0, <2>4, StrandedFrame DEF StartRefresh, SigTerm, Keeps, NobodyWorks, queueVars
  <2>5. CASE StartWorkers(d)
    <3>1. \A w \in Worker : w[1] = d => thread[w].pc = "off"
      BY <1>0, <2>5 DEF StartWorkers, ThreadsLive
    <3>2. \A w \in Worker, e \in Event : Keeps(w, e) => Keeps(w, e)'
      BY <2>5, <3>1 DEF StartWorkers, Keeps, Working
    <3>3. ~NobodyWorks
      BY <2>5 DEF StartWorkers, NobodyWorks
    <3>4. QED
      BY <1>0, <2>5, <3>2, <3>3, StrandedFrame DEF StartWorkers, queueVars
  <2>6. CASE StopWorkers(d)
    <3>1. \A w \in Worker, e \in Event : Keeps(w, e) => Keeps(w, e)'
      BY <2>6 DEF StopWorkers, Keeps, Working
    <3>2. ~NobodyWorks
      BY <2>6 DEF StopWorkers, NobodyWorks
    <3>3. QED
      BY <1>0, <2>6, <3>1, <3>2, StrandedFrame DEF StopWorkers, queueVars
  <2>7. CASE Die(d)
    BY <1>0, <2>7 DEF Die, NothingStranded, NobodyWorks, LifetimeLock
  <2>8. QED
    BY <1>2, <2>1, <2>2, <2>3, <2>4, <2>5, <2>6, <2>7 DEF DaemonStep
<1>3. ASSUME NEW w \in Worker, WorkerStep(w)
      PROVE  NothingStranded'
  <2>1. CASE LoopHead(w) \/ ClaimNothing(w) \/ Park(w) \/ WaitTimesOut(w) \/ BuildJudge(w)
    <3>1. \A v \in Worker, e \in Event : Keeps(v, e) => Keeps(v, e)'
      BY <1>0, <2>1 DEF LoopHead, ClaimNothing, Park, WaitTimesOut, BuildJudge, Goto, Thread,
                        Keeps, Working
    <3>2. UNCHANGED <<rows, proc>>
      BY <2>1 DEF LoopHead, ClaimNothing, Park, WaitTimesOut, BuildJudge, queueVars
    <3>3. QED
      BY <1>0, <3>1, <3>2, StrandedFrame DEF NobodyWorks
  <2>2. ASSUME NEW e \in Event, Claim(w, e)
        PROVE  NothingStranded'
    <3>1. /\ thread[w].pc = "claim" /\ UNCHANGED proc
          /\ thread' = [thread EXCEPT ![w] =
                          [pc |-> IF e \in Checks THEN "judge" ELSE "run", item |-> e,
                           attempts |-> rows'[e].attempts, verdict |-> "none"]]
      BY <2>2 DEF Claim
    <3>2. \A f \in Event \ {e} : rows'[f] = rows[f]
      BY <1>0, <2>2 DEF Claim, claim_next
    <3>3. \A v \in Worker \ {w} : thread'[v] = thread[v]
      BY <1>0, <3>1
    <3>4. \A v \in Worker, f \in Event : Keeps(v, f) => Keeps(v, f)'
      BY <3>1, <3>3 DEF Keeps, Working
    <3>5. Keeps(w, e)'
      BY <1>0, <3>1 DEF Keeps, Working
    <3>6. QED
      BY <1>0, <3>1, <3>2, <3>4, <3>5 DEF NothingStranded, With, NobodyWorks
  <2>3. CASE Dispatch(w)
    <3>1. \A v \in Worker, e \in Event : Keeps(v, e) => Keeps(v, e)'
      BY <1>0, <2>3 DEF Dispatch, Thread, Keeps, Working
    <3>2. QED
      BY <1>0, <2>3, <3>1, StrandedFrame DEF Dispatch, NobodyWorks, queueVars
  <2>4. CASE Settle(w)
    <3> DEFINE e == thread[w].item
    <3>1. /\ thread[w].pc = "settle" /\ e \in Event /\ UNCHANGED proc
          /\ \E s \in {"done", "failed", "queued"} : SetStatus(e, s)
      BY <1>0, <2>4 DEF Settle, ItemOK, Working, complete, fail
    <3>2. /\ rows'[e].status # "processing"
          /\ \A f \in Event \ {e} : rows'[f] = rows[f]
      BY <1>0, <3>1 DEF SetStatus, Row
    <3>3. \A v \in Worker, f \in Event \ {e} : Keeps(v, f) => Keeps(v, f)'
      <4>1. PICK next \in [Worker -> Thread] :
              /\ next[w].pc = "refresh"
              /\ \A x \in Worker \ {w} : next[x] = thread[x]
              /\ thread' = next \/ Notify(next)
        BY <2>4, SettleThread DEF IInv
      <4>2. QED
        BY <4>1 DEF Notify, Keeps, At, Working
    <3>4. QED
      BY <1>0, <3>1, <3>2, <3>3 DEF NothingStranded, With, NobodyWorks
  <2>5. CASE WorkerRefresh(w) \/ WorkerPublish(w) \/ Audit(w)
    <3>1. \A v \in Worker, e \in Event : Keeps(v, e) => Keeps(v, e)'
      BY <1>0, <2>5 DEF WorkerRefresh, WorkerPublish, Audit, Goto, Thread, Keeps, Working
    <3>2. UNCHANGED <<rows, proc>>
      BY <2>5 DEF WorkerRefresh, WorkerPublish, Audit, queueVars
    <3>3. QED
      BY <1>0, <3>1, <3>2, StrandedFrame DEF NobodyWorks
  <2>6. QED
    BY <1>3, <2>1, <2>2, <2>3, <2>4, <2>5 DEF WorkerStep
<1>4. ASSUME NEW c \in Caller, CallerStep(c)
      PROVE  NothingStranded'
  <2>0. UNCHANGED proc
    BY <1>4 DEF CallerStep, CallerRetry, CallerAck, CallerRefresh, CallerPublish, CallerDies
  <2>1. \A e \in Event : rows'[e].status = "processing" => rows[e].status = "processing"
    <3>1. ASSUME NEW S, ack(S)
          PROVE  \A e \in Event : rows'[e].status = rows[e].status
      BY <1>0, <3>1 DEF ack, Row
    <3>2. ASSUME NEW e \in Event, retry(e)
          PROVE  \A f \in Event : rows'[f].status = "processing" => rows[f].status = "processing"
      BY <1>0, <3>2 DEF retry, Row
    <3>3. QED
      BY <1>4, <3>1, <3>2 DEF CallerStep, CallerRetry, CallerAck, CallerRefresh,
                              CallerPublish, CallerDies, queueVars
  <2>2. CASE UNCHANGED thread
    BY <1>0, <2>0, <2>1, <2>2, StrandedFrame DEF NobodyWorks, Keeps
  <2>3. CASE Notify(thread)
    BY <1>0, <1>a, <2>0, <2>1, <2>3 DEF Keeps
  <2>4. QED
    BY <1>4, <2>2, <2>3 DEF CallerStep, CallerRetry, CallerAck, CallerRefresh, CallerPublish,
                            CallerDies
<1>5. ASSUME NEW e \in Event, Submit(e)
      PROVE  NothingStranded'
  <2>1. \A f \in Event : rows'[f].status = "processing" => rows[f].status = "processing"
    BY <1>0, <1>5 DEF Submit, enqueue, Row
  <2>2. CASE UNCHANGED thread
    BY <1>0, <1>5, <2>1, <2>2, StrandedFrame DEF Submit, NobodyWorks, Keeps
  <2>3. CASE Notify(thread)
    BY <1>0, <1>5, <1>a, <2>1, <2>3 DEF Submit, Keeps
  <2>4. QED
    BY <1>5, <2>2, <2>3 DEF Submit
<1>6. CASE UNCHANGED vars
  BY <1>0, <1>6, StrandedFrame DEF vars, Keeps, NobodyWorks
<1>7. QED
  BY <1>2, <1>3, <1>4, <1>5, <1>6 DEF Next

-------------------------------------------------------------------------------
(* The attempts, and what "done" stands for *)

\* A step that ends no process, spends no attempt, and moves a row at most to
\* "done" or "purged" keeps the two statements about attempts.
LEMMA BudgetFrame ==
  ASSUME AttemptLeft, RetryBudget, UNCHANGED exits, NobodyWorks' => NobodyWorks,
         \A e \in Event : /\ rows'[e].attempts = rows[e].attempts
                          /\ rows'[e].status \in {rows[e].status, "done", "purged"}
  PROVE  AttemptLeft' /\ RetryBudget'
BY DEF AttemptLeft, RetryBudget

LEMMA BudgetInductive == IInv /\ [Next]_vars => AttemptLeft' /\ RetryBudget'
<1> SUFFICES ASSUME IInv, [Next]_vars PROVE AttemptLeft' /\ RetryBudget'
  OBVIOUS
<1>0. /\ thread \in [Worker -> Thread] /\ proc \in [Daemon -> ProcState]
      /\ rows \in [Event -> Row] /\ exits \in Nat /\ MaxAttempts \in Nat \ {0}
      /\ AttemptLeft /\ RetryBudget /\ SingleOwner /\ ItemOK /\ LifetimeLock /\ ThreadsLive
  BY WorkersAssumption, MaxAttemptsAssumption DEF IInv, TypeOK, QueueTypeOK
<1>1. /\ \A w \in Worker : w[1] \in Daemon
      /\ \A e \in Event : rows[e].attempts \in Nat
  BY <1>0 DEF Worker, Row
<1>2. ASSUME NEW d \in Daemon, DaemonStep(d) \/ SigTerm(d) \/ Die(d)
      PROVE  AttemptLeft' /\ RetryBudget'
  <2>1. CASE Start(d)
    BY <1>0, <2>1, WorkersAssumption, BudgetFrame
       DEF Start, TakeLifetimeLock, NobodyWorks, LifetimeLock, queueVars
  <2>2. CASE StartRecover(d)
    <3>1. NobodyWorks
      BY <1>0, <2>2 DEF StartRecover, NobodyWorks, LifetimeLock
    <3>2. /\ UNCHANGED exits
          /\ \A e \in Event :
               /\ rows'[e].attempts = rows[e].attempts
               /\ rows'[e].status = IF rows[e].status = "processing" THEN "queued"
                                                                     ELSE rows[e].status
      BY <1>0, <2>2 DEF StartRecover, recover_stale, With, Row
    <3>3. QED
      BY <1>0, <3>1, <3>2 DEF AttemptLeft, RetryBudget
  <2>3. CASE StartPurge(d)
    <3>1. \A e \in Event : /\ rows'[e].attempts = rows[e].attempts
                           /\ rows'[e].status \in {rows[e].status, "done", "purged"}
      BY <1>0, <2>3 DEF StartPurge, purge, Row
    <3>2. ~NobodyWorks'
      BY <1>0, <2>3 DEF StartPurge, NobodyWorks
    <3>3. QED
      BY <1>0, <2>3, <3>1, <3>2, BudgetFrame DEF StartPurge
  <2>4. CASE StartRefresh(d) \/ StartWorkers(d) \/ StopWorkers(d) \/ SigTerm(d)
    <3>1. ~NobodyWorks'
      BY <1>0, <2>4 DEF StartRefresh, StartWorkers, StopWorkers, SigTerm, NobodyWorks
    <3>2. UNCHANGED <<rows, exits>>
      BY <2>4 DEF StartRefresh, StartWorkers, StopWorkers, SigTerm, queueVars
    <3>3. QED
      BY <1>0, <3>1, <3>2, BudgetFrame
  <2>5. CASE Die(d)
    <3>1. UNCHANGED rows /\ exits' = exits + 1
      BY <2>5 DEF Die, queueVars
    <3>2. QED
      BY <1>0, <1>1, <3>1 DEF AttemptLeft, RetryBudget
  <2>6. QED
    BY <1>2, <2>1, <2>2, <2>3, <2>4, <2>5 DEF DaemonStep
<1>3. ASSUME NEW w \in Worker, WorkerStep(w)
      PROVE  AttemptLeft' /\ RetryBudget'
  <2>0. UNCHANGED <<proc, exits>> /\ (NobodyWorks' <=> NobodyWorks)
    BY <1>3 DEF WorkerStep, LoopHead, Claim, ClaimNothing, Park, WaitTimesOut, BuildJudge,
                Dispatch, Settle, WorkerRefresh, WorkerPublish, Audit, NobodyWorks
  <2>1. CASE UNCHANGED rows
    BY <1>0, <2>0, <2>1, BudgetFrame
  <2>2. ASSUME NEW e \in Event, Claim(w, e)
        PROVE  AttemptLeft' /\ RetryBudget'
    <3>1. rows[e].status = "queued" /\ rows[e].attempts < MaxAttempts + exits
      BY <1>0, <2>2 DEF Claim, claim_next, With, AttemptLeft
    <3>2. /\ rows'[e].status = "processing" /\ rows'[e].attempts = rows[e].attempts + 1
          /\ \A f \in Event \ {e} : rows'[f] = rows[f]
      BY <1>0, <2>2 DEF Claim, claim_next, Row
    <3>3. ~NobodyWorks
      BY <1>0, <1>1, <2>2 DEF Claim, ThreadsLive, NobodyWorks
    <3>4. QED
      BY <1>0, <1>1, <2>0, <3>1, <3>2, <3>3 DEF AttemptLeft, RetryBudget
  <2>3. CASE Settle(w)
    <3> DEFINE e == thread[w].item
    <3>1. e \in Event /\ Holds(w, e)
      BY <1>0, <2>3 DEF Settle, ItemOK, Holds, Working
    <3>2. rows[e].attempts = thread[w].attempts /\ rows[e].status = "processing"
      BY <1>0, <3>1 DEF SingleOwner
    <3>3. PICK s \in {"done", "failed", "queued"} :
            /\ SetStatus(e, s)
            /\ s = "failed" => thread[w].attempts >= MaxAttempts
            /\ s = "queued" => ~(thread[w].attempts >= MaxAttempts)
      BY <2>3 DEF Settle, complete, fail, Terminal
    <3>4. /\ rows'[e].status = s /\ rows'[e].attempts = rows[e].attempts
          /\ \A f \in Event \ {e} : rows'[f] = rows[f]
      BY <1>0, <3>1, <3>2, <3>3 DEF SetStatus, Row
    <3>5. s = "queued" => rows[e].attempts < MaxAttempts + exits
      BY <1>0, <1>1, <3>1, <3>2, <3>3
    <3>6. QED
      BY <1>0, <1>1, <2>0, <3>1, <3>2, <3>3, <3>4, <3>5 DEF AttemptLeft, RetryBudget
  <2>4. QED
    BY <1>3, <2>1, <2>2, <2>3
       DEF WorkerStep, LoopHead, ClaimNothing, Park, WaitTimesOut, BuildJudge, Dispatch,
           WorkerRefresh, WorkerPublish, Audit, queueVars
<1>4. ASSUME NEW c \in Caller, CallerStep(c)
      PROVE  AttemptLeft' /\ RetryBudget'
  <2>0. UNCHANGED <<proc, exits>> /\ (NobodyWorks' <=> NobodyWorks)
    BY <1>4 DEF CallerStep, CallerRetry, CallerAck, CallerRefresh, CallerPublish, CallerDies,
                NobodyWorks
  <2>1. ASSUME NEW e \in Event, CallerRetry(c, e)
        PROVE  AttemptLeft' /\ RetryBudget'
    <3>1. /\ rows'[e].status = "queued" /\ rows'[e].attempts = 0
          /\ \A f \in Event \ {e} : rows'[f] = rows[f]
      BY <1>0, <2>1 DEF CallerRetry, retry, Row
    <3>2. QED
      BY <1>0, <1>1, <2>0, <3>1 DEF AttemptLeft, RetryBudget
  <2>2. CASE CallerAck(c)
    <3>1. ASSUME NEW S, ack(S)
          PROVE  \A e \in Event : /\ rows'[e].attempts = rows[e].attempts
                                  /\ rows'[e].status = rows[e].status
      BY <1>0, <3>1 DEF ack, Row
    <3>2. QED
      BY <1>0, <2>0, <2>2, <3>1, BudgetFrame DEF CallerAck
  <2>3. CASE UNCHANGED rows
    BY <1>0, <2>0, <2>3, BudgetFrame
  <2>4. QED
    BY <1>4, <2>1, <2>2, <2>3 DEF CallerStep, CallerRefresh, CallerPublish, CallerDies, queueVars
<1>5. ASSUME NEW e \in Event, Submit(e)
      PROVE  AttemptLeft' /\ RetryBudget'
  <2>1. /\ rows'[e].status = "queued" /\ rows'[e].attempts = 0
        /\ \A f \in Event \ {e} : rows'[f] = rows[f]
    BY <1>0, <1>5 DEF Submit, enqueue, Row
  <2>2. UNCHANGED <<proc, exits>> /\ (NobodyWorks' <=> NobodyWorks)
    BY <1>5 DEF Submit, NobodyWorks
  <2>3. AttemptLeft'
    BY <1>0, <2>1, <2>2 DEF AttemptLeft
  <2>4. RetryBudget'
    BY <1>0, <2>1, <2>2 DEF RetryBudget
  <2>5. QED
    BY <2>3, <2>4
<1>6. CASE UNCHANGED vars
  BY <1>0, <1>6, BudgetFrame DEF vars, NobodyWorks
<1>7. QED
  BY <1>2, <1>3, <1>4, <1>5, <1>6 DEF Next

LEMMA AppliedInductive == IInv /\ [Next]_vars => SettledWasApplied' /\ DoneWasApplied'
<1> SUFFICES ASSUME IInv, [Next]_vars PROVE SettledWasApplied' /\ DoneWasApplied'
  OBVIOUS
<1>0. /\ thread \in [Worker -> Thread] /\ rows \in [Event -> Row]
      /\ SettledWasApplied /\ DoneWasApplied /\ ItemOK
  BY DEF IInv, TypeOK, QueueTypeOK
<1>a. ASSUME applied \subseteq applied',
             \A w \in Worker : thread'[w].pc = "settle" => thread'[w] = thread[w],
             \A e \in Event : rows'[e].status = "done" => rows[e].status = "done"
      PROVE  SettledWasApplied' /\ DoneWasApplied'
  BY <1>0, <1>a DEF SettledWasApplied, DoneWasApplied, With
<1>b. ASSUME NEW others \in [Worker -> Thread], Notify(others),
             \A w \in Worker : others[w].pc = "settle" => others[w] = thread[w]
      PROVE  \A w \in Worker : thread'[w].pc = "settle" => thread'[w] = thread[w]
  BY <1>b DEF Notify, At
<1>2. ASSUME NEW d \in Daemon, DaemonStep(d) \/ SigTerm(d) \/ Die(d)
      PROVE  SettledWasApplied' /\ DoneWasApplied'
  <2>1. UNCHANGED applied
    BY <1>2 DEF DaemonStep, Start, StartRecover, StartPurge, StartRefresh, StartWorkers,
                StopWorkers, SigTerm, Die
  <2>2. \A w \in Worker : thread'[w].pc = "settle" => thread'[w] = thread[w]
    <3>1. CASE StartWorkers(d)
      BY <3>1 DEF StartWorkers, At
    <3>2. CASE StopWorkers(d)
      BY <3>2 DEF StopWorkers, At
    <3>3. CASE Die(d)
      BY <3>3 DEF Die, At
    <3>4. CASE UNCHANGED thread
      BY <3>4
    <3>5. QED
      BY <1>2, <3>1, <3>2, <3>3, <3>4 DEF DaemonStep, Start, StartRecover, StartPurge,
                                          StartRefresh, SigTerm
  <2>3. \A e \in Event : rows'[e].status = "done" => rows[e].status = "done"
    <3>1. CASE StartRecover(d)
      BY <1>0, <3>1 DEF StartRecover, recover_stale, Row
    <3>2. CASE StartPurge(d)
      BY <1>0, <3>2 DEF StartPurge, purge, Row
    <3>3. CASE UNCHANGED rows
      BY <3>3
    <3>4. QED
      BY <1>2, <3>1, <3>2, <3>3 DEF DaemonStep, Start, StartRefresh, StartWorkers, StopWorkers,
                                    SigTerm, Die, queueVars
  <2>4. QED
    BY <1>a, <2>1, <2>2, <2>3
<1>3. ASSUME NEW w \in Worker, WorkerStep(w)
      PROVE  SettledWasApplied' /\ DoneWasApplied'
  <2>1. CASE LoopHead(w) \/ ClaimNothing(w) \/ Park(w) \/ WaitTimesOut(w) \/ BuildJudge(w)
    BY <1>0, <1>a, <2>1 DEF LoopHead, ClaimNothing, Park, WaitTimesOut, BuildJudge, Goto, At,
                            Thread, queueVars
  <2>2. ASSUME NEW e \in Event, Claim(w, e)
        PROVE  SettledWasApplied' /\ DoneWasApplied'
    <3>1. \A f \in Event : rows'[f].status = "done" => rows[f].status = "done"
      BY <1>0, <2>2 DEF Claim, claim_next, Row
    <3>2. \A v \in Worker : thread'[v].pc = "settle" => thread'[v] = thread[v]
      BY <1>0, <2>2 DEF Claim
    <3>3. QED
      BY <1>a, <2>2, <3>1, <3>2 DEF Claim
  <2>3. CASE Dispatch(w)
    <3>1. UNCHANGED rows /\ applied \subseteq applied'
      BY <2>3 DEF Dispatch, queueVars
    <3>2. \A v \in Worker \ {w} : thread'[v] = thread[v]
      BY <1>0, <2>3 DEF Dispatch
    <3>3. thread'[w].item = thread[w].item
          /\ (thread'[w].verdict = "ok" => thread[w].item \in applied')
      BY <1>0, <2>3 DEF Dispatch, Thread
    <3>4. QED
      BY <1>0, <3>1, <3>2, <3>3 DEF SettledWasApplied, DoneWasApplied, With
  <2>4. CASE Settle(w)
    <3> DEFINE e == thread[w].item
    <3>1. e \in Event /\ UNCHANGED applied
      BY <1>0, <2>4 DEF Settle, ItemOK, Working
    <3>2. PICK s \in {"done", "failed", "queued"} :
            SetStatus(e, s) /\ (s = "done" => e \in applied)
      BY <1>0, <2>4 DEF Settle, complete, fail, SettledWasApplied
    <3>3. \A f \in Event : rows'[f].status = "done" => rows[f].status = "done" \/ (f = e /\ s = "done")
      BY <1>0, <3>1, <3>2 DEF SetStatus, Row
    <3>4. \A v \in Worker : thread'[v].pc = "settle" => thread'[v] = thread[v]
      <4>1. PICK next \in [Worker -> Thread] :
              /\ next[w].pc = "refresh"
              /\ \A x \in Worker \ {w} : next[x] = thread[x]
              /\ thread' = next \/ Notify(next)
        BY <2>4, SettleThread DEF IInv
      <4>2. QED
        BY <4>1, <1>b
    <3>5. QED
      BY <1>0, <3>1, <3>2, <3>3, <3>4 DEF SettledWasApplied, DoneWasApplied, With
  <2>5. CASE WorkerRefresh(w) \/ WorkerPublish(w) \/ Audit(w)
    BY <1>0, <1>a, <2>5 DEF WorkerRefresh, WorkerPublish, Audit, Goto, At, Thread, queueVars
  <2>6. QED
    BY <1>3, <2>1, <2>2, <2>3, <2>4, <2>5 DEF WorkerStep
<1>4. ASSUME NEW c \in Caller, CallerStep(c)
      PROVE  SettledWasApplied' /\ DoneWasApplied'
  <2>1. \A w \in Worker : thread'[w].pc = "settle" => thread'[w] = thread[w]
    BY <1>0, <1>b, <1>4 DEF CallerStep, CallerRetry, CallerAck, CallerRefresh, CallerPublish,
                            CallerDies
  <2>2. \A e \in Event : rows'[e].status = "done" => rows[e].status = "done"
    <3>1. ASSUME NEW S, ack(S)
          PROVE  \A e \in Event : rows'[e].status = rows[e].status
      BY <1>0, <3>1 DEF ack, Row
    <3>2. ASSUME NEW e \in Event, retry(e)
          PROVE  \A f \in Event : rows'[f].status = "done" => rows[f].status = "done"
      BY <1>0, <3>2 DEF retry, Row
    <3>3. QED
      BY <1>4, <3>1, <3>2 DEF CallerStep, CallerRetry, CallerAck, CallerRefresh,
                              CallerPublish, CallerDies, queueVars
  <2>3. UNCHANGED applied
    BY <1>4 DEF CallerStep, CallerRetry, CallerAck, CallerRefresh, CallerPublish, CallerDies
  <2>4. QED
    BY <1>a, <2>1, <2>2, <2>3
<1>5. ASSUME NEW e \in Event, Submit(e)
      PROVE  SettledWasApplied' /\ DoneWasApplied'
  <2>1. \A w \in Worker : thread'[w].pc = "settle" => thread'[w] = thread[w]
    BY <1>0, <1>b, <1>5 DEF Submit
  <2>2. \A f \in Event : rows'[f].status = "done" => rows[f].status = "done"
    BY <1>0, <1>5 DEF Submit, enqueue, Row
  <2>3. QED
    BY <1>a, <1>5, <2>1, <2>2 DEF Submit
<1>6. CASE UNCHANGED vars
  BY <1>0, <1>6, <1>a DEF vars
<1>7. QED
  BY <1>2, <1>3, <1>4, <1>5, <1>6 DEF Next

-------------------------------------------------------------------------------
(* Acknowledgement *)

LEMMA AckedInductive == IInv /\ [Next]_vars => AckedIsFailed'
<1> SUFFICES ASSUME IInv, [Next]_vars PROVE AckedIsFailed'
  OBVIOUS
<1>0. rows \in [Event -> Row] /\ AckedIsFailed /\ ItemOK /\ SingleOwner
  BY DEF IInv, TypeOK, QueueTypeOK
<1>a. CASE UNCHANGED rows
  BY <1>0, <1>a DEF AckedIsFailed
<1>2. ASSUME NEW d \in Daemon, DaemonStep(d) \/ SigTerm(d) \/ Die(d)
      PROVE  AckedIsFailed'
  <2>1. CASE StartRecover(d)
    BY <1>0, <2>1 DEF StartRecover, recover_stale, With, Row, AckedIsFailed
  <2>2. CASE StartPurge(d)
    BY <1>0, <2>2 DEF StartPurge, purge, Row, AckedIsFailed
  <2>3. QED
    BY <1>2, <1>a, <2>1, <2>2 DEF DaemonStep, Start, StartRefresh, StartWorkers, StopWorkers,
                                  SigTerm, Die, queueVars
<1>3. ASSUME NEW w \in Worker, WorkerStep(w)
      PROVE  AckedIsFailed'
  <2>1. ASSUME NEW e \in Event, Claim(w, e)
        PROVE  AckedIsFailed'
    BY <1>0, <2>1 DEF Claim, claim_next, With, Row, AckedIsFailed
  <2>2. CASE Settle(w)
    <3> DEFINE e == thread[w].item
    <3>1. e \in Event /\ rows[e].status = "processing"
      BY <1>0, <2>2 DEF Settle, ItemOK, SingleOwner, Holds, Working
    <3>2. PICK s \in {"done", "failed", "queued"} : SetStatus(e, s)
      BY <2>2 DEF Settle, complete, fail
    <3>3. QED
      BY <1>0, <3>1, <3>2 DEF SetStatus, Row, AckedIsFailed
  <2>3. QED
    BY <1>3, <1>a, <2>1, <2>2
       DEF WorkerStep, LoopHead, ClaimNothing, Park, WaitTimesOut, BuildJudge, Dispatch,
           WorkerRefresh, WorkerPublish, Audit, queueVars
<1>4. ASSUME NEW c \in Caller, CallerStep(c)
      PROVE  AckedIsFailed'
  <2>1. ASSUME NEW S, ack(S)
        PROVE  AckedIsFailed'
    BY <1>0, <2>1 DEF ack, With, Row, AckedIsFailed
  <2>2. ASSUME NEW e \in Event, retry(e)
        PROVE  AckedIsFailed'
    BY <1>0, <2>2 DEF retry, Row, AckedIsFailed
  <2>3. QED
    BY <1>4, <1>a, <2>1, <2>2 DEF CallerStep, CallerRetry, CallerAck, CallerRefresh,
                                  CallerPublish, CallerDies, queueVars
<1>5. ASSUME NEW e \in Event, Submit(e)
      PROVE  AckedIsFailed'
  BY <1>0, <1>5 DEF Submit, enqueue, Row, AckedIsFailed
<1>6. QED
  BY <1>2, <1>3, <1>4, <1>5, <1>a DEF Next, vars

-------------------------------------------------------------------------------
(* The theorems *)

\* IInv is what the daemon, its threads and the callers keep together, in any
\* interleaving and through any number of process deaths.
THEOREM Inductive == Spec => []IInv
<1>1. Init => IInv
  <2> SUFFICES ASSUME Init PROVE IInv
    OBVIOUS
  <2> USE DEF Init, At, QueueInit, NoRow
  <2>1. TypeOK
    <3>1. At("off") \in Thread
      BY AtType DEF ThreadState
    <3>2. exits \in 0..MaxExits
      BY WorkersAssumption
    <3>3. QED
      BY <3>1, <3>2 DEF TypeOK, QueueTypeOK, Row, Status, ProcState, Starting
  <2>2. \A w \in Worker : thread[w].pc = "off"
    OBVIOUS
  <2>3. \A e \in Event : rows[e].status = "absent" /\ rows[e].attempts = 0
    OBVIOUS
  <2>4. ItemOK /\ LifetimeLock /\ ThreadsLive
    BY <2>2 DEF ItemOK, LifetimeLock, ThreadsLive, Working
  <2>5. SingleOwner /\ NothingStranded /\ SettledWasApplied /\ DoneWasApplied
    BY <2>2, <2>3 DEF SingleOwner, Holds, Working, NothingStranded, With, SettledWasApplied,
                      DoneWasApplied
  <2>6. AttemptLeft /\ RetryBudget
    BY <2>3, MaxAttemptsAssumption DEF AttemptLeft, RetryBudget
  <2>7. AckedIsFailed
    BY DEF AckedIsFailed
  <2>8. QED
    BY <2>1, <2>4, <2>5, <2>6, <2>7 DEF IInv
<1>2. IInv /\ [Next]_vars => TypeOK' /\ ItemOK'
  BY TypeInductive, ItemInductive DEF IInv
<1>3. IInv /\ [Next]_vars => IInv'
  BY <1>2, LockInductive, OwnerInductive, StrandedInductive, BudgetInductive,
     AppliedInductive, AckedInductive DEF IInv
<1>4. QED
  BY <1>1, <1>3, PTL DEF Spec

\* No event is ever worked on by two threads, of one daemon or of two, and the
\* thread's idea of the attempt count is the row's.
THEOREM OneOwner == Spec => []SingleOwner
<1>1. IInv => SingleOwner
  BY DEF IInv
<1>2. QED
  BY <1>1, Inductive, PTL

\* Once recover_stale has run, no row stays "processing" without a thread on it,
\* except under a thread that died.
THEOREM NobodyIsStranded == Spec => []NothingStranded
<1>1. IInv => NothingStranded
  BY DEF IInv
<1>2. QED
  BY <1>1, Inductive, PTL

\* An event fails for good only after MAX_ATTEMPTS claims, and is claimed at most
\* once more for every death of a daemon.
THEOREM AttemptsAreBounded == Spec => []RetryBudget
<1>1. IInv => RetryBudget
  BY DEF IInv
<1>2. QED
  BY <1>1, Inductive, PTL

\* Whatever is reported done did reach the store.
THEOREM DoneIsApplied == Spec => []DoneWasApplied
<1>1. IInv => DoneWasApplied
  BY DEF IInv
<1>2. QED
  BY <1>1, Inductive, PTL

-------------------------------------------------------------------------------
(* EventWorkers implements AcceptedWork *)

LEMMA PhaseFrame ==
  ASSUME \A e \in Event : PhaseOf(rows'[e]) = PhaseOf(rows[e])
  PROVE  UNCHANGED phaseOf
BY DEF phaseOf

\* One row changes its phase.
LEMMA PhaseOfOne ==
  ASSUME NEW e \in Event, NEW p, PhaseOf(rows'[e]) = p,
         \A f \in Event \ {e} : rows'[f] = rows[f]
  PROVE  Work!Become({e}, p)
BY DEF phaseOf, Work!Become

LEMMA PhaseStep == IInv /\ [Next]_vars => [Work!Next]_phaseOf
<1> SUFFICES ASSUME IInv, [Next]_vars PROVE Work!Next \/ UNCHANGED phaseOf
  OBVIOUS
<1>0. rows \in [Event -> Row] /\ AckedIsFailed /\ ItemOK /\ SingleOwner
  BY DEF IInv, TypeOK, QueueTypeOK
<1>a. CASE UNCHANGED rows
  BY <1>a, PhaseFrame
<1>2. ASSUME NEW d \in Daemon, DaemonStep(d) \/ SigTerm(d) \/ Die(d)
      PROVE  Work!Next \/ UNCHANGED phaseOf
  <2>1. CASE StartRecover(d)
    <3>1. \A e \in Event : PhaseOf(rows'[e]) = PhaseOf(rows[e])
      BY <1>0, <2>1 DEF StartRecover, recover_stale, With, Row, PhaseOf
    <3>2. QED
      BY <3>1, PhaseFrame
  <2>2. CASE StartPurge(d)
    <3>1. PICK S \in SUBSET Purgeable : purge(S)
      BY <2>2 DEF StartPurge
    <3>2. S \in SUBSET Event
      BY DEF Purgeable, With
    <3>3. \A e \in S : phaseOf[e] \in {"done", "acked"}
      BY <1>0 DEF Purgeable, Unacked, With, phaseOf, PhaseOf
    <3>4. \A e \in Event : PhaseOf(rows'[e]) = IF e \in S THEN "gone" ELSE PhaseOf(rows[e])
      <4>1. \A e \in Event : IF e \in S THEN rows'[e].status = "purged" ELSE rows'[e] = rows[e]
        BY <1>0, <3>1 DEF purge, Row
      <4>2. \A e \in S \cap Event : PhaseOf(rows'[e]) = "gone"
        BY <4>1 DEF PhaseOf
      <4>3. QED
        BY <4>1, <4>2
    <3>5. Work!Become(S, "gone")
      BY <3>4 DEF phaseOf, Work!Become
    <3>6. QED
      BY <3>2, <3>3, <3>5 DEF Work!Forget, Work!Next
  <2>3. QED
    BY <1>2, <1>a, <2>1, <2>2 DEF DaemonStep, Start, StartRefresh, StartWorkers, StopWorkers,
                                  SigTerm, Die, queueVars
<1>3. ASSUME NEW w \in Worker, WorkerStep(w)
      PROVE  Work!Next \/ UNCHANGED phaseOf
  <2>1. ASSUME NEW e \in Event, Claim(w, e)
        PROVE  UNCHANGED phaseOf
    <3>1. \A f \in Event : PhaseOf(rows'[f]) = PhaseOf(rows[f])
      BY <1>0, <2>1 DEF Claim, claim_next, With, Row, PhaseOf
    <3>2. QED
      BY <3>1, PhaseFrame
  <2>2. CASE Settle(w)
    <3> DEFINE e == thread[w].item
    <3>1. /\ e \in Event /\ rows[e].status = "processing" /\ ~rows[e].acked
      BY <1>0, <2>2 DEF Settle, ItemOK, SingleOwner, Holds, Working, AckedIsFailed
    <3>2. PICK s \in {"done", "failed", "queued"} : SetStatus(e, s)
      BY <2>2 DEF Settle, complete, fail
    <3>3. /\ rows'[e].status = s /\ ~rows'[e].acked
          /\ \A f \in Event \ {e} : rows'[f] = rows[f]
      BY <1>0, <3>1, <3>2 DEF SetStatus, Row
    <3>4. phaseOf[e] = "pending"
      BY <3>1 DEF phaseOf, PhaseOf
    <3>5. CASE s = "done"
      <4>1. PhaseOf(rows'[e]) = "done"
        BY <3>3, <3>5 DEF PhaseOf
      <4>2. QED
        BY <3>1, <3>3, <3>4, <4>1, PhaseOfOne DEF Work!Finish, Work!Next
    <3>6. CASE s = "failed"
      <4>1. PhaseOf(rows'[e]) = "failed"
        BY <3>3, <3>6 DEF PhaseOf
      <4>2. QED
        BY <3>1, <3>3, <3>4, <4>1, PhaseOfOne DEF Work!GiveUp, Work!Next
    <3>7. CASE s = "queued"
      <4>1. PhaseOf(rows'[e]) = PhaseOf(rows[e])
        BY <3>1, <3>3, <3>7 DEF PhaseOf
      <4>2. QED
        BY <3>3, <4>1, PhaseFrame
    <3>8. QED
      BY <3>2, <3>5, <3>6, <3>7
  <2>3. QED
    BY <1>3, <1>a, <2>1, <2>2
       DEF WorkerStep, LoopHead, ClaimNothing, Park, WaitTimesOut, BuildJudge, Dispatch,
           WorkerRefresh, WorkerPublish, Audit, queueVars
<1>4. ASSUME NEW c \in Caller, CallerStep(c)
      PROVE  Work!Next \/ UNCHANGED phaseOf
  <2>1. ASSUME NEW S \in SUBSET With("failed"), ack(S)
        PROVE  Work!Next
    <3>1. S \in SUBSET Event /\ \A e \in S : phaseOf[e] \in {"failed", "acked"}
      BY <1>0 DEF With, phaseOf, PhaseOf
    <3>2. \A e \in Event : PhaseOf(rows'[e]) = IF e \in S THEN "acked" ELSE PhaseOf(rows[e])
      <4>1. \A e \in Event : IF e \in S THEN rows'[e].status = "failed" /\ rows'[e].acked
                                         ELSE rows'[e] = rows[e]
        BY <1>0, <2>1 DEF ack, With, Row
      <4>2. \A e \in S \cap Event : PhaseOf(rows'[e]) = "acked"
        BY <4>1 DEF PhaseOf
      <4>3. QED
        BY <4>1, <4>2
    <3>3. Work!Become(S, "acked")
      BY <3>2 DEF phaseOf, Work!Become
    <3>4. QED
      BY <3>1, <3>3 DEF Work!Acknowledge, Work!Next
  <2>2. ASSUME NEW e \in Event, retry(e)
        PROVE  Work!Next
    <3>1. phaseOf[e] \in {"failed", "acked"}
      BY <1>0, <2>2 DEF retry, With, phaseOf, PhaseOf
    <3>2. /\ PhaseOf(rows'[e]) = "pending"
          /\ \A f \in Event \ {e} : rows'[f] = rows[f]
      BY <1>0, <2>2 DEF retry, Row, PhaseOf
    <3>3. QED
      BY <3>1, <3>2, PhaseOfOne DEF Work!TakeBack, Work!Next
  <2>3. CASE CallerAck(c)
    BY <2>1, <2>3 DEF CallerAck, Unacked
  <2>4. QED
    BY <1>4, <1>a, <2>2, <2>3 DEF CallerStep, CallerRetry, CallerRefresh, CallerPublish,
                                  CallerDies, queueVars
<1>5. ASSUME NEW e \in Event, Submit(e)
      PROVE  Work!Next
  <2>1. phaseOf[e] = "new"
    BY <1>0, <1>5 DEF Submit, enqueue, phaseOf, PhaseOf
  <2>2. /\ PhaseOf(rows'[e]) = "pending"
        /\ \A f \in Event \ {e} : rows'[f] = rows[f]
    BY <1>0, <1>5 DEF Submit, enqueue, Row, PhaseOf
  <2>3. QED
    BY <2>1, <2>2, PhaseOfOne DEF Work!Accept, Work!Next
<1>6. QED
  BY <1>2, <1>3, <1>4, <1>5, <1>a DEF Next, vars

\* Through retries, acknowledgements, purges, lost notifications and deaths of
\* daemons, an accepted event stays pending until it is finished or given up, and
\* is forgotten only when finished or acknowledged.
THEOREM Implements == Spec => KeepsAcceptedWork
<1>1. Init => Work!Init
  BY DEF Init, QueueInit, NoRow, Work!Init, phaseOf, PhaseOf
<1>2. QED
  BY <1>1, PhaseStep, Inductive, PTL DEF Spec, KeepsAcceptedWork, Work!Spec
===============================================================================
