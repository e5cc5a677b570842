------------------------------ MODULE DaemonProofs -----------------------------
(***************************************************************************)
(* Proofs about the daemon: the gate of its store (StoreGate), for any     *)
(* finite number of threads, any number of direct processes and any number *)
(* of slots; and the life of its processes (Lifecycle), for any daemons,   *)
(* starts and stops.  The two models share no variable.                    *)
(***************************************************************************)
EXTENDS StoreGate, Lifecycle, FiniteSetTheorems, TLAPS

--------------------------------------------------------------------------------
(* The gate of the store                                                   *)

LEMMA HoldersFinite ==
  /\ IsFiniteSet(SharedHolders)
  /\ IsFiniteSet(ExclusiveHolders)
  /\ IsFiniteSet(SlotHolders)
BY FS_Subset, GateAssumption DEF SharedHolders, ExclusiveHolders, SlotHolders

\* A woken sleeper holds nothing before and nothing after.
LEMMA WakeAllHolds ==
  ASSUME GateTypeOK, NEW t \in Thread, NEW where \in PC,
         MoveTo(t, where) \/ WakeAll(t, where)
  PROVE  /\ pc' \in [Actor -> PC]
         /\ pc'[t] = where
         /\ \A s \in Thread \ {t} :
              pc'[s] = pc[s] \/ (pc[s] = "asleep" /\ pc'[s] = "enter")
BY DEF GateTypeOK, MoveTo, WakeAll, Actor, PC

\* After notify_all() nobody but the caller can be asleep.
LEMMA WakeAllWakes ==
  ASSUME GateTypeOK, NEW t \in Thread, WakeAll(t, "idle")
  PROVE  \A s \in Thread : pc'[s] # "asleep"
BY DEF GateTypeOK, WakeAll, Actor

-------------------------------------------------------------------------------
(* One lemma per action *)

LEMMA ArriveKeeps ==
  ASSUME GateInv, NEW t \in Thread, Arrive(t)
  PROVE  GateInv'
<1> USE DEF GateInv
<1>1. /\ pc' \in [Actor -> PC] /\ pc[t] = "idle" /\ pc'[t] = "enter"
      /\ \A s \in Thread \ {t} : pc'[s] = pc[s] /\ op'[s] = op[s]
      /\ op' \in [Actor -> Op]
  BY DEF Arrive, MoveTo, GateTypeOK, Actor, PC
<1>2. backlog' \in 0..MaxBacklog
  <2>1. CASE UNCHANGED backlog
    BY <2>1 DEF GateTypeOK
  <2>2. CASE ~listening /\ backlog > 0 /\ backlog' = backlog - 1
    BY <2>2, GateAssumption DEF GateTypeOK
  <2>3. QED
    BY <2>1, <2>2 DEF Arrive, GateTypeOK
<1>3. /\ SharedHolders' = SharedHolders
      /\ ExclusiveHolders' = ExclusiveHolders
      /\ SlotHolders' = SlotHolders
  BY <1>1 DEF SharedHolders, ExclusiveHolders, SlotHolders
<1>4. GateTypeOK'
  BY <1>1, <1>2 DEF GateTypeOK, Arrive
<1>5. CountersAreTrue' /\ Sides'
  BY <1>3 DEF CountersAreTrue, Sides, Arrive
<1>6. SlotOnlyForLlm' /\ NoLostWakeup'
  BY <1>1 DEF SlotOnlyForLlm, NoLostWakeup, Arrive
<1>7. QED
  BY <1>4, <1>5, <1>6

LEMMA AcquireSharedKeeps ==
  ASSUME GateInv, NEW t \in Thread, acquire_shared(t)
  PROVE  GateInv'
<1> USE DEF GateInv
<1>0. t \in Actor /\ shared \in Nat /\ pc[t] = "enter" /\ op[t] \in {"plain", "llm"}
  BY DEF acquire_shared, GateTypeOK, Actor, Op
<1>1. CASE exclusive
  <2>1. /\ pc' \in [Actor -> PC] /\ pc'[t] = "asleep"
        /\ \A s \in Thread \ {t} : pc'[s] = pc[s]
    BY <1>0, <1>1 DEF acquire_shared, MoveTo, GateTypeOK, Actor, PC
  <2>2. UNCHANGED <<listening, backlog, op, shared, exclusive, slots>>
    BY <1>1 DEF acquire_shared
  <2>3. /\ SharedHolders' = SharedHolders
        /\ ExclusiveHolders' = ExclusiveHolders
        /\ SlotHolders' = SlotHolders
    BY <1>0, <2>1, <2>2 DEF SharedHolders, ExclusiveHolders, SlotHolders
  <2>4. QED
    BY <1>0, <1>1, <2>1, <2>2, <2>3
       DEF GateTypeOK, CountersAreTrue, Sides, SlotOnlyForLlm, NoLostWakeup
<1>2. CASE ~exclusive
  <2>1. /\ pc' \in [Actor -> PC]
        /\ pc'[t] = IF op[t] = "llm" THEN "slot" ELSE "run"
        /\ \A s \in Thread \ {t} : pc'[s] = pc[s]
    BY <1>0, <1>2 DEF acquire_shared, MoveTo, GateTypeOK, Actor, PC
  <2>2. UNCHANGED <<listening, backlog, op, exclusive, slots>> /\ shared' = shared + 1
    BY <1>2 DEF acquire_shared
  <2>3. /\ SharedHolders' = SharedHolders \cup {t} /\ t \notin SharedHolders
        /\ ExclusiveHolders' = ExclusiveHolders
        /\ SlotHolders' = SlotHolders
    BY <1>0, <2>1, <2>2 DEF SharedHolders, ExclusiveHolders, SlotHolders
  <2>4. ExclusiveHolders = {}
    BY <1>2 DEF CountersAreTrue
  <2>5. CountersAreTrue' /\ Sides'
    <3>1. Cardinality(SharedHolders') = Cardinality(SharedHolders) + 1
      BY <2>3, HoldersFinite, FS_AddElement
    <3>2. QED
      BY <2>2, <2>3, <2>4, <3>1 DEF CountersAreTrue, Sides
  <2>6. GateTypeOK'
    BY <1>0, <2>1, <2>2 DEF GateTypeOK
  <2>7. SlotOnlyForLlm' /\ NoLostWakeup'
    BY <1>0, <2>1, <2>2 DEF SlotOnlyForLlm, NoLostWakeup
  <2>8. QED
    BY <2>5, <2>6, <2>7
<1>3. QED
  BY <1>1, <1>2

LEMMA AcquireExclusiveKeeps ==
  ASSUME GateInv, NEW t \in Thread, acquire_exclusive(t)
  PROVE  GateInv'
<1> USE DEF GateInv
<1>0. t \in Actor /\ shared \in Nat /\ pc[t] = "enter" /\ op[t] = "wipe"
  BY DEF acquire_exclusive, GateTypeOK, Actor
<1>1. CASE exclusive \/ shared > 0
  <2>1. /\ pc' \in [Actor -> PC] /\ pc'[t] = "asleep"
        /\ \A s \in Thread \ {t} : pc'[s] = pc[s]
    BY <1>0, <1>1 DEF acquire_exclusive, MoveTo, GateTypeOK, Actor, PC
  <2>2. UNCHANGED <<listening, backlog, op, shared, exclusive, slots>>
    BY <1>1 DEF acquire_exclusive
  <2>3. /\ SharedHolders' = SharedHolders
        /\ ExclusiveHolders' = ExclusiveHolders
        /\ SlotHolders' = SlotHolders
    BY <1>0, <2>1, <2>2 DEF SharedHolders, ExclusiveHolders, SlotHolders
  <2>4. QED
    BY <1>0, <1>1, <2>1, <2>2, <2>3
       DEF GateTypeOK, CountersAreTrue, Sides, SlotOnlyForLlm, NoLostWakeup
<1>2. CASE ~exclusive /\ shared = 0
  <2>1. /\ pc' \in [Actor -> PC] /\ pc'[t] = "run"
        /\ \A s \in Thread \ {t} : pc'[s] = pc[s]
    BY <1>0, <1>2 DEF acquire_exclusive, MoveTo, GateTypeOK, Actor, PC
  <2>2. UNCHANGED <<listening, backlog, op, shared, slots>> /\ exclusive' = TRUE
    BY <1>2 DEF acquire_exclusive
  <2>3. SharedHolders = {} /\ ExclusiveHolders = {}
    BY <1>2, HoldersFinite, FS_EmptySet DEF CountersAreTrue
  <2>4. /\ SharedHolders' = {}
        /\ ExclusiveHolders' = {t}
        /\ SlotHolders' = SlotHolders
    BY <1>0, <2>1, <2>2, <2>3 DEF SharedHolders, ExclusiveHolders, SlotHolders
  <2>5. CountersAreTrue' /\ Sides'
    BY <2>2, <2>3, <2>4 DEF CountersAreTrue, Sides
  <2>6. GateTypeOK' /\ SlotOnlyForLlm' /\ NoLostWakeup'
    BY <1>0, <2>1, <2>2 DEF GateTypeOK, SlotOnlyForLlm, NoLostWakeup
  <2>7. QED
    BY <2>5, <2>6
<1>3. QED
  BY <1>0, <1>1, <1>2

LEMMA TakeSlotKeeps ==
  ASSUME GateInv, NEW t \in Thread, TakeSlot(t)
  PROVE  GateInv'
<1> USE DEF GateInv
<1>0. /\ t \in Actor /\ slots \in Nat /\ slots > 0 /\ LLM_CONCURRENCY \in Nat
      /\ pc[t] = "slot" /\ op[t] = "llm"
  BY GateAssumption DEF TakeSlot, GateTypeOK, Actor, SlotOnlyForLlm
<1>1. /\ pc' \in [Actor -> PC] /\ pc'[t] = "run"
      /\ \A s \in Thread \ {t} : pc'[s] = pc[s]
  BY <1>0 DEF TakeSlot, MoveTo, GateTypeOK, Actor, PC
<1>2. UNCHANGED <<listening, backlog, op, shared, exclusive>> /\ slots' = slots - 1
  BY DEF TakeSlot
<1>3. /\ SharedHolders' = SharedHolders
      /\ ExclusiveHolders' = ExclusiveHolders
      /\ SlotHolders' = SlotHolders \cup {t} /\ t \notin SlotHolders
  BY <1>0, <1>1, <1>2 DEF SharedHolders, ExclusiveHolders, SlotHolders
<1>4. CountersAreTrue' /\ Sides'
  <2>1. /\ Cardinality(SlotHolders') = Cardinality(SlotHolders) + 1
        /\ Cardinality(SlotHolders) \in Nat
    BY <1>3, HoldersFinite, FS_AddElement, FS_CardinalityType
  <2>2. QED
    BY <1>0, <1>2, <1>3, <2>1 DEF CountersAreTrue, Sides
<1>5. GateTypeOK'
  BY <1>0, <1>1, <1>2 DEF GateTypeOK
<1>6. SlotOnlyForLlm' /\ NoLostWakeup'
  BY <1>0, <1>1, <1>2 DEF SlotOnlyForLlm, NoLostWakeup
<1>7. QED
  BY <1>4, <1>5, <1>6

LEMMA FinishKeeps ==
  ASSUME GateInv, NEW t \in Thread, Finish(t)
  PROVE  GateInv'
<1> USE DEF GateInv
<1>0. /\ t \in Actor /\ slots \in Nat /\ LLM_CONCURRENCY \in Nat /\ pc[t] = "run"
  BY GateAssumption DEF Finish, GateTypeOK, Actor
<1>1. /\ pc' \in [Actor -> PC] /\ pc'[t] = "leave"
      /\ \A s \in Thread \ {t} : pc'[s] = pc[s]
  BY <1>0 DEF Finish, MoveTo, GateTypeOK, Actor, PC
<1>2. UNCHANGED <<listening, backlog, op, shared, exclusive>>
  BY DEF Finish
<1>3. /\ SharedHolders' = SharedHolders
      /\ ExclusiveHolders' = ExclusiveHolders
      /\ SlotHolders' = SlotHolders \ {t}
      /\ t \in SlotHolders <=> op[t] = "llm"
  BY <1>0, <1>1, <1>2 DEF SharedHolders, ExclusiveHolders, SlotHolders
<1>4. slots' + Cardinality(SlotHolders') = LLM_CONCURRENCY /\ slots' \in 0..LLM_CONCURRENCY
  <2>1. /\ Cardinality(SlotHolders') =
             IF op[t] = "llm" THEN Cardinality(SlotHolders) - 1 ELSE Cardinality(SlotHolders)
        /\ Cardinality(SlotHolders) \in Nat /\ Cardinality(SlotHolders') \in Nat
    BY <1>3, HoldersFinite, FS_RemoveElement, FS_CardinalityType
  <2>2. slots' = IF op[t] = "llm" THEN slots + 1 ELSE slots
    BY DEF Finish
  <2>3. QED
    BY <1>0, <2>1, <2>2 DEF CountersAreTrue
<1>5. CountersAreTrue' /\ Sides'
  BY <1>2, <1>3, <1>4 DEF CountersAreTrue, Sides
<1>6. GateTypeOK' /\ SlotOnlyForLlm' /\ NoLostWakeup'
  BY <1>1, <1>2, <1>4 DEF GateTypeOK, SlotOnlyForLlm, NoLostWakeup
<1>7. QED
  BY <1>5, <1>6

LEMMA ReleaseSharedKeeps ==
  ASSUME GateInv, NEW t \in Thread, release_shared(t)
  PROVE  GateInv'
<1> USE DEF GateInv
<1>0. t \in Actor /\ shared \in Nat /\ pc[t] = "leave" /\ op[t] # "wipe"
  BY DEF release_shared, GateTypeOK, Actor
<1>1. /\ pc' \in [Actor -> PC] /\ pc'[t] = "idle"
      /\ \A s \in Thread \ {t} : pc'[s] = pc[s] \/ (pc[s] = "asleep" /\ pc'[s] = "enter")
  <2>1. MoveTo(t, "idle") \/ WakeAll(t, "idle")
    BY DEF release_shared
  <2>2. QED
    BY <2>1, WakeAllHolds DEF PC
<1>2. UNCHANGED <<listening, backlog, op, exclusive, slots>> /\ shared' = shared - 1
  BY DEF release_shared
<1>3. /\ SharedHolders' = SharedHolders \ {t} /\ t \in SharedHolders
      /\ ExclusiveHolders' = ExclusiveHolders
      /\ SlotHolders' = SlotHolders
  BY <1>0, <1>1, <1>2 DEF SharedHolders, ExclusiveHolders, SlotHolders
<1>4. shared' = Cardinality(SharedHolders') /\ shared' \in Nat
  <2>1. /\ Cardinality(SharedHolders') = Cardinality(SharedHolders) - 1
        /\ Cardinality(SharedHolders') \in Nat
    BY <1>3, HoldersFinite, FS_RemoveElement, FS_CardinalityType
  <2>2. QED
    BY <1>2, <2>1 DEF CountersAreTrue
<1>5. CountersAreTrue' /\ Sides'
  BY <1>2, <1>3, <1>4 DEF CountersAreTrue, Sides
<1>6. GateTypeOK' /\ SlotOnlyForLlm'
  BY <1>1, <1>2, <1>4 DEF GateTypeOK, SlotOnlyForLlm
<1>7. NoLostWakeup'
  <2>1. CASE shared' = 0
    BY <2>1, WakeAllWakes DEF release_shared, NoLostWakeup
  <2>2. CASE shared' > 0
    <3>1. MoveTo(t, "idle")
      BY <1>4, <2>2 DEF release_shared
    <3>2. \A s \in Thread : pc'[s] = "asleep" => pc[s] = "asleep" /\ op'[s] = op[s]
      BY <1>0, <1>1, <1>2
    <3>3. QED
      BY <1>2, <2>2, <3>2 DEF NoLostWakeup
  <2>3. QED
    BY <1>4, <2>1, <2>2
<1>8. QED
  BY <1>5, <1>6, <1>7

LEMMA ReleaseExclusiveKeeps ==
  ASSUME GateInv, NEW t \in Thread, release_exclusive(t)
  PROVE  GateInv'
<1> USE DEF GateInv
<1>0. t \in Actor /\ pc[t] = "leave" /\ op[t] = "wipe"
  BY DEF release_exclusive, GateTypeOK, Actor
<1>1. /\ pc' \in [Actor -> PC] /\ pc'[t] = "idle"
      /\ \A s \in Thread \ {t} : pc'[s] = pc[s] \/ (pc[s] = "asleep" /\ pc'[s] = "enter")
  BY WakeAllHolds DEF PC, release_exclusive
<1>2. UNCHANGED <<listening, backlog, op, shared, slots>> /\ exclusive' = FALSE
  BY DEF release_exclusive
<1>3. t \in ExclusiveHolders
  BY <1>0 DEF ExclusiveHolders
<1>4. /\ SharedHolders' = SharedHolders
      /\ ExclusiveHolders' = {}
      /\ SlotHolders' = SlotHolders
  BY <1>0, <1>1, <1>2, <1>3 DEF SharedHolders, ExclusiveHolders, SlotHolders, Sides
<1>5. CountersAreTrue' /\ Sides'
  BY <1>2, <1>4 DEF CountersAreTrue, Sides
<1>6. GateTypeOK' /\ SlotOnlyForLlm'
  BY <1>1, <1>2 DEF GateTypeOK, SlotOnlyForLlm
<1>7. NoLostWakeup'
  BY WakeAllWakes DEF release_exclusive, NoLostWakeup
<1>8. QED
  BY <1>5, <1>6, <1>7

\* The gate of the daemon does not notice the processes that go around it.
LEMMA DirectKeeps ==
  ASSUME GateInv, NEW c \in Direct, DirectBegin(c) \/ DirectEnd(c)
  PROVE  GateInv'
<1> USE DEF GateInv
<1>1. /\ pc' \in [Actor -> PC] /\ op' \in [Actor -> Op]
      /\ \A t \in Thread : pc'[t] = pc[t] /\ op'[t] = op[t]
  BY GateAssumption DEF DirectBegin, DirectEnd, MoveTo, GateTypeOK, Actor, PC
<1>2. UNCHANGED <<listening, backlog, shared, exclusive, slots>>
  BY DEF DirectBegin, DirectEnd
<1>3. /\ SharedHolders' = SharedHolders
      /\ ExclusiveHolders' = ExclusiveHolders
      /\ SlotHolders' = SlotHolders
  BY <1>1 DEF SharedHolders, ExclusiveHolders, SlotHolders
<1>4. QED
  BY <1>1, <1>2, <1>3 DEF GateTypeOK, CountersAreTrue, Sides, SlotOnlyForLlm, NoLostWakeup

LEMMA UnchangedKeeps ==
  ASSUME GateInv, StopListening \/ UNCHANGED gateVars
  PROVE  GateInv'
<1>1. UNCHANGED <<backlog, pc, op, shared, exclusive, slots>> /\ listening' \in BOOLEAN
  BY DEF StopListening, gateVars, GateInv, GateTypeOK
<1>2. QED
  BY <1>1 DEF GateInv, GateTypeOK, CountersAreTrue, Sides, SlotOnlyForLlm, NoLostWakeup,
              SharedHolders, ExclusiveHolders, SlotHolders

-------------------------------------------------------------------------------
(* The theorems *)

\* The counters are true, the sides of the gate exclude each other and no wake-up
\* is lost, for any number of threads.
THEOREM GateIsSound == GateSpec => []GateInv
<1>1. GateInit => GateInv
  <2> SUFFICES ASSUME GateInit PROVE GateInv
    OBVIOUS
  <2>1. \A t \in Thread : pc[t] = "idle"
    BY DEF GateInit, Actor
  <2>2. SharedHolders = {} /\ ExclusiveHolders = {} /\ SlotHolders = {}
    BY <2>1 DEF SharedHolders, ExclusiveHolders, SlotHolders
  <2>3. CountersAreTrue /\ Sides
    BY <2>2, FS_EmptySet, GateAssumption DEF GateInit, CountersAreTrue, Sides
  <2>4. GateTypeOK
    <3>1. backlog \in 0..MaxBacklog /\ slots \in 0..LLM_CONCURRENCY
      BY GateAssumption DEF GateInit
    <3>2. QED
      BY <3>1 DEF GateInit, GateTypeOK, PC, Op
  <2>5. SlotOnlyForLlm /\ NoLostWakeup
    BY <2>1 DEF SlotOnlyForLlm, NoLostWakeup
  <2>6. QED
    BY <2>3, <2>4, <2>5 DEF GateInv
<1>2. GateInv /\ [GateNext]_gateVars => GateInv'
  BY ArriveKeeps, AcquireSharedKeeps, AcquireExclusiveKeeps, TakeSlotKeeps, FinishKeeps,
     ReleaseSharedKeeps, ReleaseExclusiveKeeps, DirectKeeps, UnchangedKeeps
     DEF GateNext, Serve
<1>3. QED
  BY <1>1, <1>2, PTL DEF GateSpec

\* delete --all is alone among the operations of its daemon.
THEOREM WipeExcludesTheRest == GateSpec => []WipeIsAlone
<1>1. GateInv => WipeIsAlone
  <2> SUFFICES ASSUME GateInv, NEW s \in Thread, NEW t \in Thread,
                      pc[s] = "run", op[s] = "wipe", pc[t] \in {"slot", "run"}
               PROVE  s = t
    BY DEF WipeIsAlone
  <2>1. s \in ExclusiveHolders
    BY DEF ExclusiveHolders
  <2>2. CASE op[t] = "wipe"
    <3>1. t \in ExclusiveHolders
      BY <2>2 DEF ExclusiveHolders, GateInv, SlotOnlyForLlm
    <3>2. QED
      BY <2>1, <3>1 DEF GateInv, Sides
  <2>3. CASE op[t] # "wipe"
    BY <2>1, <2>3 DEF GateInv, Sides, SharedHolders
  <2>4. QED
    BY <2>2, <2>3
<1>2. QED
  BY <1>1, GateIsSound, PTL

\* Whoever sleeps at the gate has a reason to.
THEOREM NoSleeperIsForgotten == GateSpec => []NoLostWakeup
<1>1. GateInv => NoLostWakeup
  BY DEF GateInv
<1>2. QED
  BY <1>1, GateIsSound, PTL

--------------------------------------------------------------------------------
(* The life of the processes *)

USE DEF fileVars, historyVars

--------------------------------------------------------------------------------
(* What requests reach *)

LEMMA ReadyIsReached == LifecycleInv => ReadyIsReachable
  <1> SUFFICES ASSUME LifecycleInv, NEW d \in Daemon, NEW x \in Context, proc[d] = "ready"
               PROVE  Reached(x) = {d}
    BY DEF ReadyIsReachable
  <1>1. lock = d /\ mailbox = d
    BY DEF LifecycleInv, LockHeld, MailboxKnown, Holding
  <1>2. \A e \in Daemon : Connects(x, e) => e = d
    BY <1>1 DEF Connects, Serving, Holding, LifecycleInv, LockHeld
  <1> QED BY <1>1, <1>2 DEF Reached

LEMMA PingTells ==
  ASSUME LifecycleInv, NEW x \in Context
  PROVE  /\ Ping(x) \subseteq Someone
         /\ \A d \in Ping(x) \ {Nobody} : d \in Daemon /\ proc[d] = "ready"
         /\ Nobody \in Ping(x) => \A d \in Daemon \ Busy : proc[d] # "ready"
  <1>1. \A d \in Daemon : proc[d] = "ready" => d \in Reached(x)
    BY ReadyIsReached DEF ReadyIsReachable
  <1> QED BY <1>1, LifecycleAssumption DEF Ping, Reached, Someone

--------------------------------------------------------------------------------
(* What a step may do to the processes *)

\* None comes back, and who holds the lock does so until he ends.
Ages ==
  \A d \in Daemon :
    /\ proc[d] # "none" => proc'[d] # "none"
    /\ proc[d] = "dead" => proc'[d] = "dead"
    /\ proc[d] \in Holding /\ proc'[d] # "dead" => proc'[d] \in Holding
    /\ proc'[d] = "ready" => proc[d] \in {"ready", "listening"}

\* Nothing happens to a process but that it ends or is told to.
Declines ==
  /\ proc' \in [Daemon -> Stage] /\ lock' \in Someone
  /\ LockHeld'
  /\ \A d \in Daemon :
       \/ proc'[d] = proc[d]
       \/ d \in Alive /\ proc'[d] = "dead"
       \/ proc[d] = "ready" /\ proc'[d] = "stopping"

LEMMA DiesDeclines ==
  ASSUME LifecycleInv, NEW d \in Alive, Dies(d)
  PROVE  Declines /\ proc'[d] = "dead"
  <1>1. d \in Daemon /\ \A e \in Daemon \ {d} : proc'[e] = proc[e]
    BY DEF Dies, Alive, LifecycleInv, TypeOK
  <1>2. proc' \in [Daemon -> Stage] /\ proc'[d] = "dead" /\ lock' \in Someone
    BY <1>1 DEF Dies, LifecycleInv, TypeOK, Stage, Someone
  <1>3. LockHeld'
    <2> SUFFICES ASSUME NEW e \in Daemon PROVE lock' = e <=> proc'[e] \in Holding
      BY DEF LockHeld
    <2>1. lock = e <=> proc[e] \in Holding
      BY DEF LifecycleInv, LockHeld
    <2>2. lock' = IF lock = d THEN Nobody ELSE lock
      BY DEF Dies
    <2>3. CASE e = d
      BY <1>2, <2>2, <2>3, LifecycleAssumption DEF Holding
    <2>4. CASE e # d
      BY <1>1, <2>1, <2>2, <2>4, LifecycleAssumption
    <2> QED BY <2>3, <2>4
  <1> QED BY <1>1, <1>2, <1>3 DEF Declines

LEMMA SignalDeclines ==
  ASSUME LifecycleInv, NEW d \in Alive, Signal(d)
  PROVE  Declines /\ proc'[d] \in {"stopping", "draining", "dead"}
  <1>1. CASE proc[d] \in {"ready", "stopping", "draining"}
    <2>1. /\ d \in Daemon /\ lock' = lock /\ \A e \in Daemon \ {d} : proc'[e] = proc[e]
          /\ proc'[d] = IF proc[d] = "ready" THEN "stopping" ELSE proc[d]
          /\ proc' \in [Daemon -> Stage]
      BY <1>1 DEF Signal, Alive, LifecycleInv, TypeOK, Stage
    <2>2. LockHeld'
      BY <1>1, <2>1 DEF LifecycleInv, LockHeld, Holding
    <2> QED BY <1>1, <2>1, <2>2 DEF Declines, LifecycleInv, TypeOK
  <1>2. CASE proc[d] \notin {"ready", "stopping", "draining"}
    BY <1>2, DiesDeclines DEF Signal
  <1> QED BY <1>1, <1>2

LEMMA NothingDeclines ==
  ASSUME LifecycleInv, UNCHANGED <<proc, lock>>
  PROVE  Declines
  BY DEF Declines, LifecycleInv, TypeOK, LockHeld

LEMMA DecliningAges ==
  ASSUME Declines
  PROVE  Ages
  <1> SUFFICES ASSUME NEW d \in Daemon
               PROVE  /\ proc[d] # "none" => proc'[d] # "none"
                      /\ proc[d] = "dead" => proc'[d] = "dead"
                      /\ proc[d] \in Holding /\ proc'[d] # "dead" => proc'[d] \in Holding
                      /\ proc'[d] = "ready" => proc[d] \in {"ready", "listening"}
    BY DEF Ages
  <1>1. CASE proc'[d] = proc[d]
    BY <1>1
  <1>2. CASE d \in Alive /\ proc'[d] = "dead"
    BY <1>2 DEF Alive
  <1>3. CASE proc[d] = "ready" /\ proc'[d] = "stopping"
    BY <1>3 DEF Holding
  <1> QED BY <1>1, <1>2, <1>3 DEF Declines

--------------------------------------------------------------------------------
(* What a step of some commands, or of none, does to the others *)

Keeps(C) ==
  /\ Ages /\ orphans \subseteq orphans'
  /\ \A u \in Caller \ C : call'[u] = call[u]
  /\ startLock \in Caller \ C => startLock' = startLock
  /\ LockHeld'
  /\ \A u \in C : /\ u \in Starter => StartSound(u)'
                  /\ u \in Stopper => StopSound(u)'

LEMMA OthersKeep ==
  ASSUME LifecycleInv, NEW C \in SUBSET Caller, Keeps(C)
  PROVE  /\ \A c \in Starter : StartSound(c)'
         /\ \A c \in Stopper : StopSound(c)'
  <1>1. \A c \in Stopper : StopSound(c)'
    BY DEF Keeps, LifecycleInv, StopSound, Caller
  <1> SUFFICES ASSUME NEW c \in Starter, c \notin C PROVE StartSound(c)'
    BY <1>1 DEF Keeps
  <1>3. StartSound(c) /\ call'[c] = call[c] /\ c \in Caller
    BY DEF Keeps, LifecycleInv, Caller
  <1>4. call[c].pc \in Locking => startLock' = c
    BY <1>3 DEF Keeps, StartSound
  <1>5. call[c].child \in Daemon => proc'[call[c].child] # "none"
    BY <1>3 DEF Keeps, StartSound, Ages
  <1>6. ASSUME call[c].pc \in {"look", "slay"}, NEW d \in Daemon \ Busy, proc'[d] = "ready"
        PROVE  d \in orphans'
    <2>1. CASE proc[d] = "ready"
      BY <1>3, <1>6, <2>1 DEF Keeps, StartSound
    <2>2. CASE proc[d] = "listening"
      <3>1. \A u \in Starter : call[u].pc # "await"
        BY <1>3, <1>6 DEF LifecycleInv, StartSound, Locking
      <3> QED BY <3>1, <2>2 DEF LifecycleInv, FledglingsKnown, Fledgling, Keeps
    <2> QED BY <1>6, <2>1, <2>2 DEF Keeps, Ages
  <1>7. ASSUME call[c].pc = "done", call[c].result # "killed", call[c].child \in Alive'
        PROVE  lock' = call[c].child
    <2> DEFINE d == call[c].child
    <2>1. d \in Daemon /\ proc'[d] \notin {"none", "dead"}
      BY <1>7 DEF Alive
    <2>2. proc[d] \notin {"none", "dead"}
      BY <2>1, <1>3 DEF Keeps, Ages, StartSound
    <2>3. lock = d
      BY <2>1, <2>2, <1>3, <1>7 DEF StartSound, Alive
    <2>4. proc'[d] \in Holding
      BY <2>1, <2>3 DEF LifecycleInv, LockHeld, Keeps, Ages
    <2> QED BY <2>1, <2>4 DEF Keeps, LockHeld
  <1> QED BY <1>3, <1>4, <1>5, <1>6, <1>7 DEF StartSound, Alive

\* A step of one command, which may end processes.
LEMMA CommandKeeps ==
  ASSUME LifecycleInv, NEW c \in Caller, Declines, NEW r \in Call, call' = [call EXCEPT ![c] = r],
         UNCHANGED <<mailbox, home, qdrants>>, sock' \in Someone, pid' \in Someone,
         startLock' # startLock => startLock \in {c, Nobody},
         startLock' \in Starter \cup {Nobody},
         slain' \subseteq orphans', orphans \subseteq orphans', orphans' \subseteq Daemon,
         call[c].pc = "await" /\ proc'[call[c].child] \in Fledgling =>
           call[c].child \in orphans' \/ (r.pc = "await" /\ r.child = call[c].child),
         c \in Starter => StartSound(c)', c \in Stopper => StopSound(c)'
  PROVE  LifecycleInv'
  <1>1. call' \in [Caller -> Call] /\ call'[c] = r /\ \A u \in Caller \ {c} : call'[u] = call[u]
    BY DEF LifecycleInv, TypeOK
  <1>2. TypeOK'
    BY <1>1 DEF Declines, LifecycleInv, TypeOK
  <1>3. Keeps({c})
    <2>1. startLock \in Caller \ {c} => startLock' = startLock
      BY LifecycleAssumption
    <2> QED BY <1>1, <2>1, DecliningAges DEF Keeps, Declines
  <1>4. \A u \in Starter : StartSound(u)'
    BY <1>3, OthersKeep
  <1>5. \A u \in Stopper : StopSound(u)'
    BY <1>3, OthersKeep
  <1>6. MailboxKnown'
    BY DEF Declines, LifecycleInv, MailboxKnown
  <1>7. FledglingsKnown'
    <2> SUFFICES ASSUME NEW d \in Daemon, proc'[d] \in Fledgling
                 PROVE  d \in orphans' \/ \E u \in Starter : call'[u].pc = "await" /\ call'[u].child = d
      BY DEF FledglingsKnown
    <2>1. proc[d] \in Fledgling
      BY DEF Declines, Fledgling
    <2>2. d \in orphans \/ \E u \in Starter : call[u].pc = "await" /\ call[u].child = d
      BY <2>1 DEF LifecycleInv, FledglingsKnown
    <2> QED BY <1>1, <2>2 DEF Caller
  <1>8. HomesSound' /\ QdrantsSound' /\ HealthyIsSpared'
    BY DEF LifecycleInv, HomesSound, QdrantsSound, HealthyIsSpared
  <1> QED BY <1>2, <1>4, <1>5, <1>6, <1>7, <1>8 DEF LifecycleInv, Declines

\* A step of no command.
LEMMA ProcessKeeps ==
  ASSUME LifecycleInv, Ages, TypeOK', UNCHANGED <<home, call, startLock, historyVars>>,
         LockHeld', MailboxKnown', QdrantsSound',
         \A d \in Daemon : proc'[d] \in Fledgling => proc[d] \in Fledgling
  PROVE  LifecycleInv'
  <1>1. Keeps({})
    BY DEF Keeps
  <1>2. \A u \in Starter : StartSound(u)'
    BY <1>1, OthersKeep
  <1>3. \A u \in Stopper : StopSound(u)'
    BY <1>1, OthersKeep
  <1>4. FledglingsKnown'
    BY DEF LifecycleInv, FledglingsKnown
  <1>5. HomesSound' /\ HealthyIsSpared'
    BY DEF LifecycleInv, HomesSound, HealthyIsSpared
  <1> QED BY <1>2, <1>3, <1>4, <1>5 DEF LifecycleInv

--------------------------------------------------------------------------------
(* Records of the commands *)

Point ==
  {"idle", "first", "queue", "second", "look", "slay", "wait", "unlink", "spawn",
   "await", "reap", "ping", "decide", "term", "tidy", "done"}

Outcome == {"none", "found", "started", "failed", "stopped", "absent", "killed"}

LEMMA CallFields ==
  ASSUME NEW o \in Call
  PROVE  /\ o.at \in Context /\ o.pc \in Point /\ o.seen \in Someone /\ o.child \in Someone
         /\ o.result \in Outcome
  BY DEF Call, Point, Outcome

LEMMA GotoTurns ==
  ASSUME LifecycleInv, NEW c \in Caller, NEW p \in Point, Goto(c, p)
  PROVE  \E r \in Call :
           /\ call' = [call EXCEPT ![c] = r] /\ call'[c] = r
           /\ r.at = call[c].at /\ r.child = call[c].child /\ r.result = call[c].result /\ r.pc = p
  <1> DEFINE r == [call[c] EXCEPT !.pc = p]
  <1>1. call[c] \in Call
    BY DEF LifecycleInv, TypeOK
  <1>2. /\ r \in Call
        /\ r.at = call[c].at /\ r.child = call[c].child /\ r.result = call[c].result /\ r.pc = p
    BY <1>1 DEF Call, Point
  <1>3. call' = [call EXCEPT ![c] = r]
    BY DEF Goto, Become
  <1> HIDE DEF r
  <1>4. call'[c] = r
    BY <1>3 DEF LifecycleInv, TypeOK
  <1> QED BY <1>2, <1>3, <1>4

LEMMA ReturnTurns ==
  ASSUME LifecycleInv, NEW c \in Caller, NEW t \in Outcome, Return(c, t)
  PROVE  \E r \in Call :
           /\ call' = [call EXCEPT ![c] = r] /\ call'[c] = r
           /\ r.at = call[c].at /\ r.child = call[c].child /\ r.result = t /\ r.pc = "done"
  <1> DEFINE r == [call[c] EXCEPT !.pc = "done", !.result = t]
  <1>1. call[c] \in Call
    BY DEF LifecycleInv, TypeOK
  <1>2. /\ r \in Call
        /\ r.at = call[c].at /\ r.child = call[c].child /\ r.result = t /\ r.pc = "done"
    BY <1>1 DEF Call, Outcome
  <1>3. call' = [call EXCEPT ![c] = r]
    BY DEF Return, Become
  <1> HIDE DEF r
  <1>4. call'[c] = r
    BY <1>3 DEF LifecycleInv, TypeOK
  <1> QED BY <1>2, <1>3, <1>4

--------------------------------------------------------------------------------
(* Commands that end no process *)

\* Who is at such a point is a start.
LEMMA StarterIsKnown ==
  ASSUME LifecycleInv, NEW c \in Caller, call[c].pc \in {"first", "queue"} \cup Locking
  PROVE  c \in Starter /\ StartSound(c) /\ call[c] \in Call
  BY DEF LifecycleInv, TypeOK, Caller, StopSound, Locking

LEMMA StopperIsKnown ==
  ASSUME LifecycleInv, NEW c \in Caller, call[c].pc \in {"ping", "decide", "term", "tidy"}
  PROVE  c \in Stopper /\ c \notin Starter /\ call[c] \in Call
  BY DEF LifecycleInv, TypeOK, Caller, StartSound, Locking

LEMMA QuietKeeps ==
  ASSUME LifecycleInv, NEW c \in Caller, NEW r \in Call, call' = [call EXCEPT ![c] = r],
         UNCHANGED <<lock, proc, home, mailbox, qdrants, historyVars>>,
         sock' \in Someone, pid' \in Someone,
         startLock' # startLock => startLock \in {c, Nobody},
         startLock' \in Starter \cup {Nobody},
         call[c].pc = "await" => proc[call[c].child] \notin Fledgling,
         c \in Starter => StartSound(c)', c \in Stopper => StopSound(c)'
  PROVE  LifecycleInv'
  <1>1. Declines
    BY NothingDeclines
  <1>2. slain' \subseteq orphans' /\ orphans \subseteq orphans' /\ orphans' \subseteq Daemon
    BY DEF LifecycleInv, HealthyIsSpared, TypeOK
  <1> QED BY <1>1, <1>2, CommandKeeps

LEMMA StartDaemonKeeps ==
  ASSUME LifecycleInv, NEW c \in Caller, start_daemon(c)
  PROVE  LifecycleInv'
  <1>1. PICK x \in Where[c] :
          /\ c \in InNeed => (Nobody \in Ping(x) /\ sock = Nobody /\ pid = Nobody /\ daemon_spawn_safe(x))
          /\ Become(c, [NoCall EXCEPT !.at = x, !.pc = "first"])
    BY DEF start_daemon
  <1> DEFINE r == [NoCall EXCEPT !.at = x, !.pc = "first"]
  <1>2. c \in Starter /\ c \notin Stopper /\ call[c].pc = "idle"
    BY LifecycleAssumption DEF start_daemon
  <1>3. x \in Context /\ x # "sandbox"
    <2>1. Where[c] \subseteq Context
      BY LifecycleAssumption
    <2>2. CASE c \in InNeed
      BY <1>1, <2>1, <2>2 DEF daemon_spawn_safe, Reachable, LifecycleInv, QdrantsSound
    <2>3. CASE c \notin InNeed
      BY <1>1, <1>2, <2>1, <2>3, LifecycleAssumption
    <2> QED BY <2>2, <2>3
  <1>4. r \in Call /\ r.at = x /\ r.pc = "first" /\ r.child = Nobody
    BY <1>3 DEF NoCall, Call, Someone
  <1>5. call' = [call EXCEPT ![c] = r] /\ call'[c] = r
    BY <1>1 DEF Become, LifecycleInv, TypeOK
  <1>6. StartSound(c)'
    BY <1>3, <1>4, <1>5, LifecycleAssumption DEF StartSound, Locking
  <1>7. sock' \in Someone /\ pid' \in Someone /\ startLock' \in Starter \cup {Nobody}
    BY DEF start_daemon, LifecycleInv, TypeOK
  <1> HIDE DEF r
  <1> QED BY <1>2, <1>4, <1>5, <1>6, <1>7, QuietKeeps DEF start_daemon

LEMMA FirstPingKeeps ==
  ASSUME LifecycleInv, NEW c \in Caller, FirstPing(c)
  PROVE  LifecycleInv'
  <1>1. c \in Starter /\ StartSound(c) /\ call[c] \in Call /\ call[c].pc = "first" /\ c \notin Stopper
    BY StarterIsKnown, LifecycleAssumption DEF FirstPing
  <1>2. PICK r \in Call :
          /\ call' = [call EXCEPT ![c] = r] /\ call'[c] = r
          /\ r.at = call[c].at /\ r.child = call[c].child /\ r.pc \in {"queue", "done"}
    <2>1. Goto(c, "queue") \/ Return(c, "found")
      BY DEF FirstPing
    <2> QED BY <2>1, GotoTurns, ReturnTurns DEF Point, Outcome
  <1>3. call[c].child = Nobody /\ call[c].at # "sandbox"
    BY <1>1 DEF StartSound
  <1>4. StartSound(c)'
    BY <1>1, <1>2, <1>3, LifecycleAssumption DEF StartSound, Locking, Alive, FirstPing
  <1>5. sock' \in Someone /\ pid' \in Someone /\ startLock' \in Starter \cup {Nobody}
    BY DEF FirstPing, LifecycleInv, TypeOK
  <1> QED BY <1>1, <1>2, <1>4, <1>5, QuietKeeps DEF FirstPing

LEMMA TakeStartLockKeeps ==
  ASSUME LifecycleInv, NEW c \in Caller, TakeStartLock(c)
  PROVE  LifecycleInv'
  <1>1. c \in Starter /\ StartSound(c) /\ call[c] \in Call /\ call[c].pc = "queue" /\ c \notin Stopper
    BY StarterIsKnown, LifecycleAssumption DEF TakeStartLock
  <1> DEFINE r == [call[c] EXCEPT !.pc = "second"]
  <1>2. /\ r \in Call /\ call' = [call EXCEPT ![c] = r]
        /\ r.at = call[c].at /\ r.child = call[c].child /\ r.pc = "second"
    BY <1>1 DEF TakeStartLock, Goto, Become, Call
  <1>3. call'[c] = r
    BY <1>2 DEF LifecycleInv, TypeOK
  <1> HIDE DEF r
  <1>4. StartSound(c)'
    BY <1>1, <1>2, <1>3, LifecycleAssumption DEF StartSound, Locking, TakeStartLock
  <1>5. sock' \in Someone /\ pid' \in Someone
    BY DEF TakeStartLock, LifecycleInv, TypeOK
  <1> QED BY <1>1, <1>2, <1>4, <1>5, QuietKeeps DEF TakeStartLock

\* A healthy daemon would have answered.
LEMMA SecondPingKeeps ==
  ASSUME LifecycleInv, NEW c \in Caller, SecondPing(c)
  PROVE  LifecycleInv'
  <1>1. c \in Starter /\ StartSound(c) /\ call[c] \in Call /\ call[c].pc = "second" /\ c \notin Stopper
    BY StarterIsKnown, LifecycleAssumption DEF SecondPing, Locking
  <1>2. startLock = c /\ call[c].child = Nobody /\ call[c].at \in Context
    BY <1>1 DEF StartSound, Locking, Call
  <1>3. PICK d \in Ping(At(c)) :
          IF d = Nobody THEN Goto(c, "look") /\ UNCHANGED startLock
          ELSE Return(c, "found") /\ startLock' = Nobody
    BY DEF SecondPing
  <1>4. PICK r \in Call :
          /\ call' = [call EXCEPT ![c] = r] /\ call'[c] = r
          /\ r.at = call[c].at /\ r.child = call[c].child
          /\ \/ r.pc = "look" /\ d = Nobody /\ startLock' = startLock
             \/ r.pc = "done" /\ startLock' = Nobody
    BY <1>3, GotoTurns, ReturnTurns DEF Point, Outcome
  <1>5. call[c].at # "sandbox"
    BY <1>1 DEF StartSound
  <1>6. r.pc = "look" => \A e \in Daemon \ Busy : proc'[e] # "ready"
    BY <1>2, <1>3, <1>4, PingTells DEF At, SecondPing
  <1>7. StartSound(c)'
    BY <1>1, <1>2, <1>4, <1>5, <1>6, LifecycleAssumption DEF StartSound, Locking, Alive, SecondPing
  <1>8. sock' \in Someone /\ pid' \in Someone /\ startLock' \in Starter \cup {Nobody}
    BY <1>4 DEF SecondPing, LifecycleInv, TypeOK
  <1> QED BY <1>1, <1>2, <1>4, <1>7, <1>8, QuietKeeps DEF SecondPing

LEMMA LookKeeps ==
  ASSUME LifecycleInv, NEW c \in Caller, Look(c)
  PROVE  LifecycleInv'
  <1>1. c \in Starter /\ StartSound(c) /\ call[c] \in Call /\ call[c].pc = "look" /\ c \notin Stopper
    BY StarterIsKnown, LifecycleAssumption DEF Look, Locking
  <1>2. pid \in Someone
    BY DEF LifecycleInv, TypeOK
  <1> DEFINE r == [call[c] EXCEPT !.seen = pid,
                                  !.pc = IF pid \in Daemon /\ Running(At(c), pid) THEN "slay" ELSE "unlink"]
  <1>3. /\ r \in Call /\ call' = [call EXCEPT ![c] = r]
        /\ r.at = call[c].at /\ r.child = call[c].child /\ r.pc \in {"slay", "unlink"}
    <2>1. /\ r \in Call
          /\ r.at = call[c].at /\ r.child = call[c].child /\ r.pc \in {"slay", "unlink"}
      BY <1>1, <1>2 DEF Call
    <2> QED BY <2>1 DEF Look, Become
  <1> HIDE DEF r
  <1>4. call'[c] = r
    BY <1>3 DEF LifecycleInv, TypeOK
  <1>5. StartSound(c)'
    BY <1>1, <1>3, <1>4, LifecycleAssumption DEF StartSound, Locking, Look
  <1>6. sock' \in Someone /\ pid' \in Someone /\ startLock' \in Starter \cup {Nobody}
    BY DEF Look, LifecycleInv, TypeOK
  <1> QED BY <1>1, <1>3, <1>5, <1>6, QuietKeeps DEF Look

LEMMA UnlinkKeeps ==
  ASSUME LifecycleInv, NEW c \in Caller, Unlink(c)
  PROVE  LifecycleInv'
  <1>1. c \in Starter /\ StartSound(c) /\ call[c] \in Call /\ call[c].pc = "unlink" /\ c \notin Stopper
    BY StarterIsKnown, LifecycleAssumption DEF Unlink, Locking
  <1>2. PICK r \in Call :
          /\ call' = [call EXCEPT ![c] = r] /\ call'[c] = r
          /\ r.at = call[c].at /\ r.child = call[c].child /\ r.pc = "spawn"
    BY GotoTurns DEF Unlink, Point
  <1>3. /\ startLock = c /\ startLock' = c /\ proc' = proc
        /\ call[c].child = Nobody /\ call[c].at # "sandbox"
    BY <1>1 DEF StartSound, Locking, Unlink
  <1>4. StartSound(c)'
    BY <1>1, <1>2, <1>3, LifecycleAssumption DEF StartSound, Locking, Unlink
  <1>5. sock' \in Someone /\ pid' \in Someone /\ startLock' \in Starter \cup {Nobody}
    BY DEF Unlink, UnlinkFiles, Someone, LifecycleInv, TypeOK
  <1> QED BY <1>1, <1>2, <1>4, <1>5, QuietKeeps DEF Unlink

LEMMA ChildDiedKeeps ==
  ASSUME LifecycleInv, NEW c \in Caller, ChildDied(c)
  PROVE  LifecycleInv'
  <1>1. c \in Starter /\ StartSound(c) /\ call[c] \in Call /\ call[c].pc = "await" /\ c \notin Stopper
    BY StarterIsKnown, LifecycleAssumption DEF ChildDied, Locking
  <1>2. PICK r \in Call :
          /\ call' = [call EXCEPT ![c] = r] /\ call'[c] = r
          /\ r.at = call[c].at /\ r.child = call[c].child /\ r.pc = "done"
    BY ReturnTurns DEF ChildDied, Outcome
  <1>3. proc' = proc
    BY DEF ChildDied
  <1>4. /\ startLock = c /\ call[c].child \in Daemon
        /\ proc[call[c].child] = "dead"
    BY <1>1 DEF StartSound, Locking, ChildDied, Alive
  <1>5. StartSound(c)'
    BY <1>1, <1>2, <1>3, <1>4 DEF StartSound, Locking, ChildDied, Alive
  <1>6. sock' \in Someone /\ pid' \in Someone /\ startLock' \in Starter \cup {Nobody}
    BY DEF ChildDied, LifecycleInv, TypeOK
  <1>7. proc[call[c].child] \notin Fledgling
    BY <1>4 DEF Fledgling
  <1> QED BY <1>1, <1>2, <1>4, <1>5, <1>6, <1>7, QuietKeeps DEF ChildDied

LEMMA StopDaemonKeeps ==
  ASSUME LifecycleInv, NEW c \in Caller, stop_daemon(c)
  PROVE  LifecycleInv'
  <1>1. PICK x \in Where[c] : Become(c, [NoCall EXCEPT !.at = x, !.pc = "ping", !.seen = pid])
    BY DEF stop_daemon
  <1> DEFINE r == [NoCall EXCEPT !.at = x, !.pc = "ping", !.seen = pid]
  <1>2. c \in Stopper /\ c \notin Starter /\ call[c].pc = "idle"
    BY LifecycleAssumption DEF stop_daemon
  <1>3. x \in Context /\ pid \in Someone
    BY LifecycleAssumption DEF LifecycleInv, TypeOK
  <1>4. r \in Call /\ r.pc = "ping"
    BY <1>3 DEF NoCall, Call, Someone
  <1>5. call' = [call EXCEPT ![c] = r] /\ call'[c] = r
    BY <1>1 DEF Become, LifecycleInv, TypeOK
  <1>6. StopSound(c)'
    BY <1>4, <1>5 DEF StopSound
  <1>7. sock' \in Someone /\ pid' \in Someone /\ startLock' \in Starter \cup {Nobody}
    BY DEF stop_daemon, LifecycleInv, TypeOK
  <1> HIDE DEF r
  <1> QED BY <1>2, <1>4, <1>5, <1>6, <1>7, QuietKeeps DEF stop_daemon

LEMMA StopPingKeeps ==
  ASSUME LifecycleInv, NEW c \in Caller, StopPing(c)
  PROVE  LifecycleInv'
  <1>1. c \in Stopper /\ c \notin Starter /\ call[c] \in Call /\ call[c].pc = "ping"
    BY StopperIsKnown DEF StopPing
  <1>2. PICK d \in Ping(At(c)) : Become(c, [call[c] EXCEPT !.pc = "decide", !.child = d])
    BY DEF StopPing
  <1> DEFINE r == [call[c] EXCEPT !.pc = "decide", !.child = d]
  <1>3. d \in Someone
    BY <1>1, <1>2, PingTells DEF At, Call
  <1>4. r \in Call /\ r.pc = "decide"
    BY <1>1, <1>3 DEF Call
  <1>5. call' = [call EXCEPT ![c] = r] /\ call'[c] = r
    BY <1>2 DEF Become, LifecycleInv, TypeOK
  <1>6. StopSound(c)'
    BY <1>4, <1>5 DEF StopSound
  <1>7. sock' \in Someone /\ pid' \in Someone /\ startLock' \in Starter \cup {Nobody}
    BY DEF StopPing, LifecycleInv, TypeOK
  <1> HIDE DEF r
  <1> QED BY <1>1, <1>4, <1>5, <1>6, <1>7, QuietKeeps DEF StopPing

LEMMA StopQuietlyKeeps ==
  ASSUME LifecycleInv, NEW c \in Caller, StopFindsNobody(c) \/ StopWaits(c) \/ StopTidies(c)
  PROVE  LifecycleInv'
  <1>1. c \in Stopper /\ c \notin Starter /\ call[c].pc \in {"decide", "term", "tidy"}
    BY StopperIsKnown DEF StopFindsNobody, StopWaits, StopTidies
  <1>2. Return(c, "absent") \/ Return(c, "failed") \/ Goto(c, "tidy") \/ Return(c, "stopped")
    BY DEF StopFindsNobody, StopWaits, StopTidies
  <1>3. PICK r \in Call :
          call' = [call EXCEPT ![c] = r] /\ call'[c] = r /\ r.pc \in {"tidy", "done"}
    BY <1>2, GotoTurns, ReturnTurns DEF Point, Outcome
  <1>4. StopSound(c)'
    BY <1>3 DEF StopSound
  <1>5. sock' \in Someone /\ pid' \in Someone /\ startLock' = startLock
    BY DEF StopFindsNobody, StopWaits, StopTidies, UnlinkFiles, Someone, LifecycleInv, TypeOK
  <1>6. startLock' \in Starter \cup {Nobody}
    BY <1>5 DEF LifecycleInv, TypeOK
  <1>7. UNCHANGED <<lock, proc, home, mailbox, qdrants, historyVars>>
    BY DEF StopFindsNobody, StopWaits, StopTidies
  <1> QED BY <1>1, <1>3, <1>4, <1>5, <1>6, <1>7, QuietKeeps

--------------------------------------------------------------------------------
(* Commands that end processes *)

LEMMA StopLoudlyKeeps ==
  ASSUME LifecycleInv, NEW c \in Caller, StopByRequest(c) \/ StopBySignal(c)
  PROVE  LifecycleInv'
  <1>1. c \in Stopper /\ c \notin Starter /\ call[c] \in Call /\ call[c].pc = "decide"
    BY StopperIsKnown DEF StopByRequest, StopBySignal
  <1>2. Declines
    <2>1. CASE StopBySignal(c)
      BY <2>1, SignalDeclines DEF StopBySignal, StopGoes, Running
    <2>2. CASE StopByRequest(c)
      <3>1. PICK d \in Ping(At(c)) :
              \/ d = Nobody /\ UNCHANGED <<proc, lock>>
              \/ d # Nobody /\ Signal(d)
        BY <2>2 DEF StopByRequest
      <3>2. d # Nobody => d \in Alive
        BY <1>1, <3>1, PingTells DEF At, Call, Alive
      <3> QED BY <3>1, <3>2, SignalDeclines, NothingDeclines
    <2> QED BY <2>1, <2>2
  <1>3. PICK r \in Call :
          call' = [call EXCEPT ![c] = r] /\ call'[c] = r /\ r.pc \in {"term", "done"}
    <2>1. CASE StopBySignal(c)
      BY <2>1, GotoTurns DEF StopBySignal, Point
    <2>2. CASE StopByRequest(c) /\ Return(c, "failed")
      BY <2>2, ReturnTurns DEF Outcome
    <2>3. CASE StopByRequest(c) /\ ~Return(c, "failed")
      <3>1. PICK d \in Ping(At(c)) :
              Become(c, [call[c] EXCEPT !.pc = "done", !.child = d, !.result = "stopped"])
        BY <2>3 DEF StopByRequest
      <3> DEFINE r == [call[c] EXCEPT !.pc = "done", !.child = d, !.result = "stopped"]
      <3>2. d \in Someone
        BY <1>1, <3>1, PingTells DEF At, Call
      <3>3. r \in Call /\ r.pc = "done"
        BY <1>1, <3>2 DEF Call
      <3>4. call' = [call EXCEPT ![c] = r] /\ call'[c] = r
        BY <3>1 DEF Become, LifecycleInv, TypeOK
      <3> HIDE DEF r
      <3> QED BY <3>3, <3>4
    <2> QED BY <2>1, <2>2, <2>3
  <1>4. StopSound(c)'
    BY <1>3 DEF StopSound
  <1>5. UNCHANGED <<home, fileVars, mailbox, startLock, qdrants, historyVars>>
    BY DEF StopByRequest, StopBySignal
  <1>6. /\ sock' \in Someone /\ pid' \in Someone /\ startLock' \in Starter \cup {Nobody}
        /\ slain' \subseteq orphans' /\ orphans \subseteq orphans' /\ orphans' \subseteq Daemon
    BY <1>5 DEF LifecycleInv, TypeOK, HealthyIsSpared
  <1> QED BY <1>1, <1>2, <1>3, <1>4, <1>5, <1>6, CommandKeeps

\* Only who is too slow to answer, or was left behind, is signalled while ready.
LEMMA SlayKeeps ==
  ASSUME LifecycleInv, NEW c \in Caller, Slay(c)
  PROVE  LifecycleInv'
  <1>1. c \in Starter /\ StartSound(c) /\ call[c] \in Call /\ call[c].pc = "slay" /\ c \notin Stopper
    BY StarterIsKnown, LifecycleAssumption DEF Slay, Locking
  <1> DEFINE d == call[c].seen
  <1>2. d \in Someone
    BY <1>1, CallFields
  <1>3. /\ IF d \in Alive
           THEN /\ Signal(d)
                /\ slain' = IF proc[d] = "ready" /\ d \notin Busy THEN slain \cup {d} ELSE slain
           ELSE UNCHANGED <<proc, lock, slain>>
        /\ Goto(c, "wait")
        /\ UNCHANGED <<home, fileVars, mailbox, startLock, qdrants, orphans>>
    BY DEF Slay
  <1> HIDE DEF d
  <1>4. Declines
    BY <1>3, SignalDeclines, NothingDeclines
  <1>5. PICK r \in Call :
          /\ call' = [call EXCEPT ![c] = r] /\ call'[c] = r
          /\ r.at = call[c].at /\ r.child = call[c].child /\ r.pc = "wait"
    BY <1>3, GotoTurns DEF Point
  <1>6. call[c].child = Nobody /\ call[c].at # "sandbox" /\ startLock = c
    BY <1>1 DEF StartSound, Locking
  <1>7. StartSound(c)'
    BY <1>1, <1>3, <1>5, <1>6, LifecycleAssumption DEF StartSound, Locking, Alive
  <1>8. \A e \in Daemon \ Busy : proc[e] = "ready" => e \in orphans
    BY <1>1 DEF StartSound
  <1>9. slain' \subseteq orphans' /\ orphans \subseteq orphans' /\ orphans' \subseteq Daemon
    <2>1. slain \subseteq orphans /\ orphans \subseteq Daemon
      BY DEF LifecycleInv, HealthyIsSpared, TypeOK
    <2>2. \A e \in Alive : e \in Daemon
      BY DEF Alive
    <2> QED BY <1>3, <1>8, <2>1, <2>2
  <1>10. sock' \in Someone /\ pid' \in Someone /\ startLock' \in Starter \cup {Nobody}
    BY <1>3 DEF LifecycleInv, TypeOK
  <1> QED BY <1>1, <1>3, <1>4, <1>5, <1>7, <1>9, <1>10, CommandKeeps

LEMMA SlayForGoodKeeps ==
  ASSUME LifecycleInv, NEW c \in Caller, SlayForGood(c)
  PROVE  LifecycleInv'
  <1>1. c \in Starter /\ StartSound(c) /\ call[c] \in Call /\ call[c].pc = "wait" /\ c \notin Stopper
    BY StarterIsKnown, LifecycleAssumption DEF SlayForGood, Locking
  <1>2. Declines
    BY DiesDeclines, NothingDeclines DEF SlayForGood
  <1>3. PICK r \in Call :
          /\ call' = [call EXCEPT ![c] = r] /\ call'[c] = r
          /\ r.at = call[c].at /\ r.child = call[c].child /\ r.pc = "unlink"
    BY GotoTurns DEF Point, SlayForGood
  <1>4. call[c].child = Nobody /\ call[c].at # "sandbox" /\ startLock = c
    BY <1>1 DEF StartSound, Locking
  <1>5. UNCHANGED <<home, fileVars, mailbox, startLock, qdrants, historyVars>>
    BY DEF SlayForGood
  <1>6. StartSound(c)'
    BY <1>1, <1>3, <1>4, <1>5, LifecycleAssumption DEF StartSound, Locking, Alive
  <1>7. /\ sock' \in Someone /\ pid' \in Someone /\ startLock' \in Starter \cup {Nobody}
        /\ slain' \subseteq orphans' /\ orphans \subseteq orphans' /\ orphans' \subseteq Daemon
    BY <1>5 DEF LifecycleInv, TypeOK, HealthyIsSpared
  <1> QED BY <1>1, <1>2, <1>3, <1>5, <1>6, <1>7, CommandKeeps

\* The child of a start that gives it up, or that finds it to be one too many.
LEMMA SignalChildKeeps ==
  ASSUME LifecycleInv, NEW c \in Caller, NEW t \in Outcome,
         call[c].pc = "await", call[c].child \in Alive, SignalChild(c, t),
         UNCHANGED <<home, fileVars, mailbox, qdrants, historyVars>>
  PROVE  LifecycleInv'
  <1>1. c \in Starter /\ StartSound(c) /\ call[c] \in Call /\ c \notin Stopper
    BY StarterIsKnown, LifecycleAssumption DEF Locking
  <1> DEFINE d == call[c].child
             r == [call[c] EXCEPT !.pc = "reap", !.result = t]
  <1>2. Declines /\ proc'[d] \in {"stopping", "draining", "dead"}
    BY SignalDeclines DEF SignalChild
  <1>3. r \in Call /\ r.at = call[c].at /\ r.child = d /\ r.pc = "reap"
    BY <1>1 DEF Call, Outcome
  <1>4. call' = [call EXCEPT ![c] = r] /\ call'[c] = r /\ startLock' = startLock
    BY DEF SignalChild, Become, LifecycleInv, TypeOK
  <1>5. d \in Daemon /\ startLock = c /\ call[c].at # "sandbox"
    BY <1>1 DEF StartSound, Locking
  <1> HIDE DEF d, r
  <1>6. StartSound(c)'
    BY <1>1, <1>2, <1>3, <1>4, <1>5 DEF StartSound, Locking
  <1>7. proc'[d] \notin Fledgling
    BY <1>2 DEF Fledgling
  <1>8. /\ sock' \in Someone /\ pid' \in Someone /\ startLock' \in Starter \cup {Nobody}
        /\ slain' \subseteq orphans' /\ orphans \subseteq orphans' /\ orphans' \subseteq Daemon
    BY <1>4 DEF LifecycleInv, TypeOK, HealthyIsSpared
  <1> USE DEF d
  <1> QED BY <1>1, <1>2, <1>3, <1>4, <1>6, <1>7, <1>8, CommandKeeps

\* The child itself has answered, or has lost the lock to who has.
LEMMA AnsweredKeeps ==
  ASSUME LifecycleInv, NEW c \in Caller, Answered(c)
  PROVE  LifecycleInv'
  <1>1. c \in Starter /\ StartSound(c) /\ call[c] \in Call /\ call[c].pc = "await" /\ c \notin Stopper
    BY StarterIsKnown, LifecycleAssumption DEF Answered, Locking
  <1>2. PICK d \in Ping(At(c)) \ {Nobody} :
          IF d # call[c].child /\ call[c].child \in Alive THEN SignalChild(c, "found")
          ELSE UNCHANGED <<proc, lock>> /\ Return(c, "started") /\ startLock' = Nobody
    BY DEF Answered
  <1>3. UNCHANGED <<home, fileVars, mailbox, qdrants, historyVars>>
    BY DEF Answered
  <1>4. CASE d # call[c].child /\ call[c].child \in Alive
    BY <1>1, <1>2, <1>3, <1>4, SignalChildKeeps DEF Outcome
  <1>5. CASE ~(d # call[c].child /\ call[c].child \in Alive)
    <2>1. UNCHANGED <<proc, lock>> /\ Return(c, "started") /\ startLock' = Nobody
      BY <1>2, <1>5
    <2>2. d \in Daemon /\ proc[d] = "ready" /\ lock = d
      BY <1>1, <1>2, PingTells DEF At, Call, LifecycleInv, LockHeld, Holding
    <2>3. PICK r \in Call :
            /\ call' = [call EXCEPT ![c] = r] /\ call'[c] = r
            /\ r.at = call[c].at /\ r.child = call[c].child /\ r.pc = "done"
      BY <2>1, ReturnTurns DEF Outcome
    <2>4. call[c].child \in Daemon /\ startLock = c /\ proc[call[c].child] # "none"
      BY <1>1 DEF StartSound, Locking
    <2>5. call[c].child \in Alive => call[c].child = d
      BY <1>5
    <2>6. StartSound(c)'
      BY <1>1, <2>1, <2>2, <2>3, <2>4, <2>5 DEF StartSound, Locking, Alive
    <2>7. proc[call[c].child] \notin Fledgling
      BY <2>2, <2>4, <2>5 DEF Fledgling, Alive
    <2>8. sock' \in Someone /\ pid' \in Someone /\ startLock' \in Starter \cup {Nobody}
      BY <1>3, <2>1 DEF LifecycleInv, TypeOK
    <2> QED BY <1>1, <1>3, <2>1, <2>3, <2>4, <2>6, <2>7, <2>8, QuietKeeps
  <1> QED BY <1>4, <1>5

LEMMA NotReadyInTimeKeeps ==
  ASSUME LifecycleInv, NEW c \in Caller, NotReadyInTime(c)
  PROVE  LifecycleInv'
  BY SignalChildKeeps DEF NotReadyInTime, Outcome

LEMMA ReapKeeps ==
  ASSUME LifecycleInv, NEW c \in Caller, Reap(c)
  PROVE  LifecycleInv'
  <1>1. c \in Starter /\ StartSound(c) /\ call[c] \in Call /\ call[c].pc = "reap" /\ c \notin Stopper
    BY StarterIsKnown, LifecycleAssumption DEF Reap, Locking
  <1> DEFINE d == call[c].child
  <1>2. d \in Daemon /\ startLock = c /\ proc[d] # "none"
    BY <1>1 DEF StartSound, Locking
  <1>3. /\ IF d \in Alive THEN Dies(d) ELSE UNCHANGED <<proc, lock>>
        /\ Goto(c, "done") /\ startLock' = Nobody
        /\ UNCHANGED <<home, mailbox, qdrants, slain, orphans>>
    BY DEF Reap
  <1>4. sock' \in Someone /\ pid' \in Someone
    BY DEF Reap, UnlinkFiles, Someone, LifecycleInv, TypeOK
  <1>5. PICK r \in Call :
          /\ call' = [call EXCEPT ![c] = r] /\ call'[c] = r
          /\ r.at = call[c].at /\ r.child = d /\ r.pc = "done"
    BY <1>3, GotoTurns DEF Point
  <1> HIDE DEF d
  <1>6. Declines /\ proc'[d] = "dead"
    BY <1>2, <1>3, DiesDeclines, NothingDeclines DEF Alive
  <1>7. StartSound(c)'
    BY <1>1, <1>2, <1>5, <1>6 DEF StartSound, Locking, Alive
  <1>8. /\ startLock' \in Starter \cup {Nobody}
        /\ slain' \subseteq orphans' /\ orphans \subseteq orphans' /\ orphans' \subseteq Daemon
    BY <1>3 DEF LifecycleInv, TypeOK, HealthyIsSpared
  <1> QED BY <1>1, <1>2, <1>3, <1>4, <1>5, <1>6, <1>7, <1>8, CommandKeeps

LEMMA KilledKeeps ==
  ASSUME LifecycleInv, NEW c \in Caller, Killed(c)
  PROVE  LifecycleInv'
  <1>1. PICK r \in Call :
          /\ call' = [call EXCEPT ![c] = r] /\ call'[c] = r
          /\ r.child = call[c].child /\ r.pc = "done" /\ r.result = "killed"
    BY ReturnTurns DEF Killed, Outcome
  <1>2. Declines /\ proc' = proc
    BY NothingDeclines DEF Killed
  <1>3. /\ startLock' = IF startLock = c THEN Nobody ELSE startLock
        /\ orphans' = orphans \cup ({call[c].child} \cap Alive)
        /\ UNCHANGED <<lock, home, fileVars, mailbox, qdrants, slain>>
    BY DEF Killed
  <1>4. c \in Starter => StartSound(c)'
    <2> SUFFICES ASSUME c \in Starter PROVE StartSound(c)'
      OBVIOUS
    <2>1. StartSound(c)
      BY DEF LifecycleInv
    <2> QED BY <1>1, <1>2, <2>1 DEF StartSound, Locking
  <1>5. c \in Stopper => StopSound(c)'
    BY <1>1 DEF StopSound
  <1>6. call[c].pc = "await" /\ proc'[call[c].child] \in Fledgling => call[c].child \in orphans'
    <2> SUFFICES ASSUME call[c].pc = "await", proc[call[c].child] \in Fledgling
                 PROVE  call[c].child \in Alive
      BY <1>2, <1>3
    <2>1. call[c].child \in Daemon
      BY StarterIsKnown DEF StartSound, Locking
    <2> QED BY <2>1 DEF Alive, Fledgling
  <1>7. /\ sock' \in Someone /\ pid' \in Someone /\ startLock' \in Starter \cup {Nobody}
        /\ slain' \subseteq orphans' /\ orphans \subseteq orphans' /\ orphans' \subseteq Daemon
    BY <1>3 DEF LifecycleInv, TypeOK, HealthyIsSpared, Alive
  <1> QED BY <1>1, <1>2, <1>3, <1>4, <1>5, <1>6, <1>7, CommandKeeps

--------------------------------------------------------------------------------
(* The processes *)

LEMMA SpawnKeeps ==
  ASSUME LifecycleInv, NEW c \in Caller, Spawn(c)
  PROVE  LifecycleInv'
  <1>1. c \in Starter /\ StartSound(c) /\ call[c] \in Call /\ call[c].pc = "spawn" /\ c \notin Stopper
    BY StarterIsKnown, LifecycleAssumption DEF Spawn, Locking
  <1>2. PICK d \in Daemon :
          /\ Proceed(d, "none", "spawned")
          /\ home' = [home EXCEPT ![d] = At(c)]
          /\ Become(c, [call[c] EXCEPT !.pc = "await", !.child = d])
    BY DEF Spawn
  <1> DEFINE r == [call[c] EXCEPT !.pc = "await", !.child = d]
  <1>3. r \in Call /\ r.at = call[c].at /\ r.pc = "await" /\ r.child = d
    BY <1>1 DEF Call, Someone
  <1>4. /\ call' \in [Caller -> Call] /\ call'[c] = r
        /\ \A u \in Caller \ {c} : call'[u] = call[u]
    BY <1>2, <1>3 DEF Become, LifecycleInv, TypeOK
  <1> HIDE DEF r
  <1>5. startLock = c /\ call[c].at \in Context \ {"sandbox"}
    BY <1>1, CallFields DEF StartSound, Locking
  <1>6. /\ proc[d] = "none" /\ proc'[d] = "spawned" /\ proc' \in [Daemon -> Stage]
        /\ \A e \in Daemon \ {d} : proc'[e] = proc[e]
    BY <1>2 DEF Proceed, LifecycleInv, TypeOK, Stage
  <1>7. UNCHANGED <<lock, fileVars, mailbox, startLock, qdrants, historyVars>>
    BY DEF Spawn
  <1>8. home' \in [Daemon -> Context] /\ HomesSound'
    BY <1>2, <1>5 DEF LifecycleInv, TypeOK, HomesSound, At
  <1>9. TypeOK'
    BY <1>4, <1>6, <1>7, <1>8 DEF LifecycleInv, TypeOK
  <1>10. LockHeld' /\ MailboxKnown'
    BY <1>6, <1>7 DEF LifecycleInv, LockHeld, MailboxKnown, Holding
  <1>11. StartSound(c)'
    BY <1>3, <1>4, <1>5, <1>6, <1>7 DEF StartSound, Locking
  <1>12. Keeps({c})
    <2>1. Ages
      BY <1>6 DEF Ages, Holding
    <2> QED BY <1>1, <1>4, <1>7, <1>10, <1>11, <2>1 DEF Keeps
  <1>13. \A u \in Starter : StartSound(u)'
    BY <1>12, OthersKeep
  <1>14. \A u \in Stopper : StopSound(u)'
    BY <1>12, OthersKeep
  <1>15. FledglingsKnown'
    <2> SUFFICES ASSUME NEW e \in Daemon, proc'[e] \in Fledgling
                 PROVE  e \in orphans' \/ \E u \in Starter : call'[u].pc = "await" /\ call'[u].child = e
      BY DEF FledglingsKnown
    <2>1. CASE e = d
      BY <1>1, <1>3, <1>4, <2>1
    <2>2. CASE e # d
      <3>1. e \in orphans \/ \E u \in Starter : call[u].pc = "await" /\ call[u].child = e
        BY <1>6, <2>2 DEF LifecycleInv, FledglingsKnown
      <3> QED BY <1>1, <1>4, <1>7, <3>1 DEF Caller
    <2> QED BY <2>1, <2>2
  <1>16. QdrantsSound' /\ HealthyIsSpared'
    BY <1>7 DEF LifecycleInv, QdrantsSound, HealthyIsSpared
  <1> QED BY <1>8, <1>9, <1>10, <1>13, <1>14, <1>15, <1>16 DEF LifecycleInv

\* A step of the life of a daemon that has the lock.
LEMMA HolderAges ==
  ASSUME LifecycleInv, NEW d \in Daemon, NEW from, NEW to, Proceed(d, from, to), UNCHANGED lock,
         from \in Holding, to \in Holding, to = "ready" => from = "listening",
         to \in Fledgling => from \in Fledgling
  PROVE  /\ Ages /\ LockHeld' /\ proc' \in [Daemon -> Stage] /\ proc'[d] = to /\ proc[d] = from
         /\ \A e \in Daemon \ {d} : proc'[e] = proc[e]
         /\ \A e \in Daemon : proc'[e] \in Fledgling => proc[e] \in Fledgling
  <1>1. /\ proc'[d] = to /\ proc[d] = from /\ proc' \in [Daemon -> Stage]
        /\ \A e \in Daemon \ {d} : proc'[e] = proc[e]
    BY DEF Proceed, LifecycleInv, TypeOK, Stage, Holding
  <1>2. Ages
    BY <1>1 DEF Ages, Holding
  <1>3. LockHeld'
    BY <1>1 DEF LifecycleInv, LockHeld
  <1> QED BY <1>1, <1>2, <1>3

LEMMA EndKeeps ==
  ASSUME LifecycleInv, NEW d \in Alive, Dies(d),
         UNCHANGED <<home, fileVars, mailbox, startLock, call, qdrants, historyVars>>
  PROVE  LifecycleInv'
  <1>1. Declines
    BY DiesDeclines
  <1>2. Ages /\ \A e \in Daemon : proc'[e] \in Fledgling => proc[e] \in Fledgling
    BY <1>1, DecliningAges DEF Declines, Fledgling
  <1>3. MailboxKnown'
    BY <1>1 DEF Declines, LifecycleInv, MailboxKnown
  <1>4. TypeOK' /\ LockHeld' /\ QdrantsSound'
    BY <1>1 DEF Declines, LifecycleInv, TypeOK, QdrantsSound
  <1> QED BY <1>2, <1>3, <1>4, ProcessKeeps

LEMMA TakeLockKeeps ==
  ASSUME LifecycleInv, NEW d \in Daemon, TakeLock(d)
  PROVE  LifecycleInv'
  <1>1. UNCHANGED <<home, fileVars, mailbox, startLock, call, qdrants, historyVars>>
    BY DEF TakeLock
  <1>2. CASE lock = Nobody
    <2>1. /\ proc[d] = "spawned" /\ proc'[d] = "locked" /\ lock' = d
          /\ proc' \in [Daemon -> Stage] /\ \A e \in Daemon \ {d} : proc'[e] = proc[e]
      BY <1>2 DEF TakeLock, Proceed, LifecycleInv, TypeOK, Stage
    <2>2. Ages /\ \A e \in Daemon : proc'[e] \in Fledgling => proc[e] \in Fledgling
      BY <2>1 DEF Ages, Holding, Fledgling
    <2>3. LockHeld'
      BY <1>2, <2>1, LifecycleAssumption DEF LifecycleInv, LockHeld, Holding
    <2>4. MailboxKnown' /\ QdrantsSound' /\ TypeOK'
      BY <1>1, <2>1 DEF LifecycleInv, MailboxKnown, QdrantsSound, TypeOK, Someone
    <2> QED BY <1>1, <2>2, <2>3, <2>4, ProcessKeeps
  <1>3. CASE lock # Nobody
    <2>1. d \in Alive /\ lock # d
      BY <1>3 DEF TakeLock, Proceed, Alive, LifecycleInv, LockHeld, Holding
    <2>2. Dies(d)
      BY <1>3, <2>1 DEF TakeLock, Proceed, Dies
    <2> QED BY <1>1, <2>1, <2>2, EndKeeps
  <1> QED BY <1>2, <1>3

LEMMA BindKeeps ==
  ASSUME LifecycleInv, NEW d \in Daemon, Bind(d)
  PROVE  LifecycleInv'
  <1>1. /\ Ages /\ LockHeld' /\ proc' \in [Daemon -> Stage]
        /\ proc'[d] = "bound" /\ \A e \in Daemon \ {d} : proc'[e] = proc[e]
        /\ \A e \in Daemon : proc'[e] \in Fledgling => proc[e] \in Fledgling
    BY HolderAges DEF Bind, Holding, Fledgling
  <1>2. MailboxKnown' /\ QdrantsSound' /\ TypeOK'
    BY <1>1 DEF Bind, LifecycleInv, MailboxKnown, QdrantsSound, TypeOK, Someone
  <1> QED BY <1>1, <1>2, ProcessKeeps DEF Bind

\* Where a server is listed that cannot be reached, the daemon gives up; the
\* others live where all servers that there are can be reached.
LEMMA LoadKeeps ==
  ASSUME LifecycleInv, NEW d \in Daemon, Load(d)
  PROVE  LifecycleInv'
  <1>1. UNCHANGED <<home, fileVars, mailbox, startLock, call, historyVars>> /\ proc[d] = "bound"
    BY DEF Load
  <1>2. CASE ~Reachable(home[d]) /\ Listed(home[d])
    <2>1. d \in Alive
      BY <1>1 DEF Alive
    <2>2. Dies(d) /\ UNCHANGED qdrants
      BY <1>2 DEF Load
    <2> QED BY <1>1, <2>1, <2>2, EndKeeps
  <1>3. CASE ~(~Reachable(home[d]) /\ Listed(home[d]))
    <2>1. Proceed(d, "bound", "loaded") /\ qdrants' \in {qdrants, qdrants \cup {home[d]}} /\ UNCHANGED lock
      BY <1>3 DEF Load
    <2>2. /\ Ages /\ LockHeld' /\ proc' \in [Daemon -> Stage]
          /\ proc'[d] = "loaded" /\ \A e \in Daemon \ {d} : proc'[e] = proc[e]
          /\ \A e \in Daemon : proc'[e] \in Fledgling => proc[e] \in Fledgling
      BY <2>1, HolderAges DEF Holding, Fledgling
    <2>3. home[d] \in {"host", "netns"}
      BY DEF LifecycleInv, TypeOK, HomesSound, Context
    <2>4. qdrants \subseteq {"host", "netns"}
      BY DEF LifecycleInv, TypeOK, QdrantsSound, Context
    <2>5. home[d] \in qdrants \/ qdrants = {}
      BY <1>3, <2>3, <2>4 DEF Reachable, Listed
    <2>6. qdrants' \subseteq {"host", "netns"} /\ QdrantsSound'
      BY <2>1, <2>3, <2>4, <2>5 DEF LifecycleInv, QdrantsSound
    <2>7. MailboxKnown' /\ TypeOK'
      BY <1>1, <2>1, <2>2, <2>6 DEF LifecycleInv, MailboxKnown, TypeOK, Context
    <2> QED BY <1>1, <2>2, <2>6, <2>7, ProcessKeeps
  <1> QED BY <1>2, <1>3

LEMMA ListenKeeps ==
  ASSUME LifecycleInv, NEW d \in Daemon, Listen(d)
  PROVE  LifecycleInv'
  <1>1. /\ Ages /\ LockHeld' /\ proc' \in [Daemon -> Stage]
        /\ proc'[d] = "listening" /\ \A e \in Daemon \ {d} : proc'[e] = proc[e]
        /\ \A e \in Daemon : proc'[e] \in Fledgling => proc[e] \in Fledgling
    BY HolderAges DEF Listen, Holding, Fledgling
  <1>2. MailboxKnown' /\ QdrantsSound' /\ TypeOK'
    BY <1>1 DEF Listen, LifecycleInv, MailboxKnown, QdrantsSound, TypeOK, Someone
  <1> QED BY <1>1, <1>2, ProcessKeeps DEF Listen

LEMMA MarkReadyKeeps ==
  ASSUME LifecycleInv, NEW d \in Daemon, MarkReady(d)
  PROVE  LifecycleInv'
  <1>1. /\ Ages /\ LockHeld' /\ proc' \in [Daemon -> Stage]
        /\ proc'[d] = "ready" /\ \A e \in Daemon \ {d} : proc'[e] = proc[e]
        /\ \A e \in Daemon : proc'[e] \in Fledgling => proc[e] \in Fledgling
    BY HolderAges DEF MarkReady, Holding, Fledgling
  <1>2. MailboxKnown'
    BY <1>1 DEF MarkReady, LockHeld, Holding, MailboxKnown
  <1>3. QdrantsSound' /\ TypeOK'
    BY <1>1 DEF MarkReady, LifecycleInv, QdrantsSound, TypeOK, Someone
  <1> QED BY <1>1, <1>2, <1>3, ProcessKeeps DEF MarkReady

LEMMA CloseKeeps ==
  ASSUME LifecycleInv, NEW d \in Daemon, Close(d)
  PROVE  LifecycleInv'
  <1>1. /\ Ages /\ LockHeld' /\ proc' \in [Daemon -> Stage]
        /\ proc'[d] = "draining" /\ \A e \in Daemon \ {d} : proc'[e] = proc[e]
        /\ \A e \in Daemon : proc'[e] \in Fledgling => proc[e] \in Fledgling
    BY HolderAges DEF Close, Holding, Fledgling
  <1>2. MailboxKnown' /\ QdrantsSound' /\ TypeOK'
    BY <1>1 DEF Close, LifecycleInv, MailboxKnown, QdrantsSound, TypeOK, Someone
  <1> QED BY <1>1, <1>2, ProcessKeeps DEF Close

LEMMA QdrantDiesKeeps ==
  ASSUME LifecycleInv, QdrantDies
  PROVE  LifecycleInv'
  <1>1. Ages /\ LockHeld' /\ MailboxKnown' /\ QdrantsSound' /\ TypeOK'
    BY DEF QdrantDies, LifecycleInv, Ages, LockHeld, MailboxKnown, QdrantsSound, TypeOK
  <1> QED BY <1>1, ProcessKeeps DEF QdrantDies

--------------------------------------------------------------------------------
(* The induction *)

LEMMA InitHolds == Init => LifecycleInv
  <1> SUFFICES ASSUME Init PROVE LifecycleInv
    OBVIOUS
  <1>1. NoCall \in Call /\ NoCall.pc = "idle" /\ NoCall.child = Nobody
    BY DEF NoCall, Call, Context, Someone
  <1>2. TypeOK
    BY <1>1 DEF Init, TypeOK, Someone, Stage, Context
  <1>3. LockHeld /\ MailboxKnown /\ HomesSound /\ QdrantsSound
    BY LifecycleAssumption DEF Init, LockHeld, MailboxKnown, HomesSound, QdrantsSound, Holding
  <1>4. \A c \in Caller : call[c].pc = "idle" /\ call[c].child = Nobody
    BY <1>1 DEF Init
  <1>5. \A c \in Starter : StartSound(c)
    BY <1>4, LifecycleAssumption DEF StartSound, Locking, Caller
  <1>6. \A c \in Stopper : StopSound(c)
    BY <1>4 DEF StopSound, Caller
  <1>7. FledglingsKnown /\ HealthyIsSpared
    BY DEF Init, FledglingsKnown, HealthyIsSpared, Fledgling
  <1> QED BY <1>2, <1>3, <1>5, <1>6, <1>7 DEF LifecycleInv

LEMMA NextKeeps == LifecycleInv /\ [Next]_vars => LifecycleInv'
  <1> SUFFICES ASSUME LifecycleInv, [Next]_vars PROVE LifecycleInv'
    OBVIOUS
  <1>1. ASSUME NEW d \in Daemon, Serves(d) PROVE LifecycleInv'
    <2>1. ASSUME Exit(d) PROVE LifecycleInv'
      BY <2>1, EndKeeps DEF Exit, Alive
    <2> QED BY <1>1, <2>1, TakeLockKeeps, BindKeeps, LoadKeeps, ListenKeeps, MarkReadyKeeps, CloseKeeps
            DEF Serves
  <1>2. ASSUME NEW d \in Daemon, Crash(d) PROVE LifecycleInv'
    BY <1>2, EndKeeps DEF Crash
  <1>3. ASSUME NEW c \in Caller, Starts(c) PROVE LifecycleInv'
    BY <1>3, FirstPingKeeps, TakeStartLockKeeps, SecondPingKeeps, LookKeeps, SlayKeeps,
       SlayForGoodKeeps, UnlinkKeeps, SpawnKeeps, AnsweredKeeps, ChildDiedKeeps,
       NotReadyInTimeKeeps, ReapKeeps DEF Starts
  <1>4. ASSUME NEW c \in Caller, Stops(c) PROVE LifecycleInv'
    BY <1>4, StopPingKeeps, StopLoudlyKeeps, StopQuietlyKeeps DEF Stops
  <1>5. CASE UNCHANGED vars
    <2>1. Ages /\ LockHeld' /\ MailboxKnown' /\ QdrantsSound' /\ TypeOK'
      BY <1>5 DEF vars, LifecycleInv, Ages, LockHeld, MailboxKnown, QdrantsSound, TypeOK
    <2> QED BY <1>5, <2>1, ProcessKeeps DEF vars
  <1> QED BY <1>1, <1>2, <1>3, <1>4, <1>5, StartDaemonKeeps, StopDaemonKeeps, KilledKeeps,
             QdrantDiesKeeps DEF Next

--------------------------------------------------------------------------------
(* Theorems *)

\* What the commands know of the processes, and what the locks protect, whatever
\* the daemons, the commands and the contexts: the invariant the others follow from.
THEOREM LifecycleIsSound == Spec => []LifecycleInv
  BY InitHolds, NextKeeps, PTL DEF Spec

\* The files name daemons or nobody, a process is at one of the stages of serve, and
\* a command at one of the points of start_daemon or stop_daemon.
THEOREM TypeCorrect == Spec => []TypeOK
  <1>1. LifecycleInv => TypeOK
    BY DEF LifecycleInv
  <1> QED BY <1>1, LifecycleIsSound, PTL

\* A daemon that is ready is reached by every request, whatever was done to its socket
\* file: what cannot connect goes through the mailbox, which is his.
THEOREM ReadyDaemonIsReachable == Spec => []ReadyIsReachable
  BY ReadyIsReached, LifecycleIsSound, PTL

\* start_daemon terminates a daemon that answers in time only if a start that was killed
\* had left it behind, for the second ping is made under the start lock.
THEOREM HealthyDaemonIsSpared == Spec => []HealthyIsSpared
  <1>1. LifecycleInv => HealthyIsSpared
    BY DEF LifecycleInv
  <1> QED BY <1>1, LifecycleIsSound, PTL

\* When start_daemon has returned, what it spawned is the daemon or has ended.
THEOREM NobodyIsLeftBehind == Spec => []NobodyLoiters
  <1>1. LifecycleInv => NobodyLoiters
    BY DEF LifecycleInv, NobodyLoiters, StartSound
  <1> QED BY <1>1, LifecycleIsSound, PTL

\* However many daemons are started, and from wherever, never two qdrant servers run.
THEOREM OneQdrantRuns == Spec => []OneQdrant
  <1>1. LifecycleInv => OneQdrant
    <2> SUFFICES ASSUME LifecycleInv PROVE Cardinality(qdrants) <= 1
      BY DEF OneQdrant
    <2>1. CASE qdrants = {}
      BY <2>1, FS_EmptySet
    <2>2. CASE qdrants # {}
      <3>1. PICK x \in qdrants : TRUE
        BY <2>2
      <3>2. qdrants = {x}
        BY <3>1 DEF LifecycleInv, QdrantsSound
      <3> QED BY <3>2, FS_Singleton
    <2> QED BY <2>1, <2>2
  <1> QED BY <1>1, LifecycleIsSound, PTL
===============================================================================
