-------------------------- MODULE DispositionsProofs --------------------------
(***************************************************************************)
(* Proofs about Dispositions, for any memories, texts, kinds, checkers,    *)
(* reviewers and editors.  A step of an actor changes its own task, closes *)
(* or opens pairs for the reasons Tidy lists, and lets the histories grow; *)
(* StepKeeps says once that such a step preserves the invariant, and each  *)
(* action is then shown to be one.                                         *)
(***************************************************************************)
EXTENDS Dispositions, TLAPS

USE DEF Actor

Acted == {"confirmed", "merged", "ttl"}

Reason(p, d) ==
  IF d = "obsoleted" THEN past[p.old].superseded \/ past[p.old].deleted
  ELSE (\E text \in past[p.old].texts : text # p.text) \/ past[p.new].deleted

\* What the actor may do to the pairs.
Tidy(a) ==
  \A p \in Pair :
    /\ pairs[p] \notin {"none", "cached"} => pairs'[p] \notin {"none", "cached"}
    /\ \A d \in {"obsoleted", "expired"} : pairs'[p] = d => pairs[p] = d \/ Reason(p, d)'
    /\ pairs'[p] = "open" => pairs[p] = "open" \/ InHand(a, p)
    /\ pairs'[p] \in Acted /\ p \notin carried' =>
         \/ p \in abandoned' \/ Minds(a, p)'
         \/ pairs[p] \in Acted /\ p \notin carried /\ ~Minds(a, p)
    /\ p \in carried' => p \in carried \/ InHand(a, p)

Grows ==
  /\ \A m \in Memory : /\ past[m].superseded => past'[m].superseded
                       /\ past[m].deleted => past'[m].deleted
                       /\ past[m].texts \subseteq past'[m].texts
  /\ doubtful \subseteq doubtful'
  /\ carried \subseteq carried'
  /\ abandoned \subseteq abandoned'

HandSoundOf(r, p) ==
  InHand(r, p) =>
    /\ pairs[p] \notin {"none", "cached"}
    /\ \A s \in Reviewer \ {r} : InHand(s, p) => p \in doubtful
    /\ p \notin doubtful =>
         /\ task[r].pc \in Mutating => pairs[p] # "open"
         /\ task[r].pc \notin {"close", "answer"} => p \notin carried

StepOf(a) ==
  /\ \A b \in Actor \ {a} : task'[b] = task[b]
  /\ check' = check
  /\ Grows
  /\ Tidy(a)
  /\ TaskSoundOf(a)'
  /\ GoneWasDeleted'
  /\ \A p \in Pair : a \in Reviewer => HandSoundOf(a, p)'
  /\ CarriedSound'

-------------------------------------------------------------------------------

\* The tasks of the others stay sound.
LEMMA OthersSound ==
  ASSUME DispositionsInv, NEW a \in Actor, StepOf(a)
  PROVE  TasksSound'
  <1>1. ASSUME NEW b \in Actor \ {a} PROVE TaskSoundOf(b)'
    <2>1. TaskSoundOf(b) /\ task'[b] = task[b] /\ Grows
      BY DEF StepOf, DispositionsInv, TasksSound
    <2>2. task[b] \in Task
      BY DEF DispositionsInv, TypeOK
    <2>3. task[b].pc \notin {"idle", "done"} => task[b].m \in Memory
      BY <2>1 DEF TaskSoundOf
    <2> QED BY <2>1, <2>2, <2>3 DEF TaskSoundOf, Grows, Task
  <1>2. \A k \in Checker : CheckSoundOf(k)'
    BY DEF StepOf, DispositionsInv, TasksSound, CheckSoundOf
  <1> QED BY <1>1, <1>2 DEF StepOf, TasksSound

LEMMA ReasonsStay ==
  ASSUME DispositionsInv, NEW a \in Actor, StepOf(a)
  PROVE  ClosedForReason'
  <1> SUFFICES ASSUME NEW p \in Pair
               PROVE  /\ pairs'[p] = "obsoleted" => Reason(p, "obsoleted")'
                      /\ pairs'[p] = "expired" => Reason(p, "expired")'
    BY DEF ClosedForReason, Reason
  <1>1. p.old \in Memory /\ p.new \in Memory
    BY DEF Pair
  <1>2. /\ pairs[p] = "obsoleted" => Reason(p, "obsoleted")
        /\ pairs[p] = "expired" => Reason(p, "expired")
    BY DEF DispositionsInv, ClosedForReason, Reason
  <1>3. Grows
    BY DEF StepOf
  <1>4. /\ Reason(p, "obsoleted") => Reason(p, "obsoleted")'
        /\ Reason(p, "expired") => Reason(p, "expired")'
    BY <1>1, <1>3 DEF Reason, Grows
  <1> QED BY <1>2, <1>4 DEF StepOf, Tidy

LEMMA NothingDropped ==
  ASSUME DispositionsInv, NEW a \in Actor, StepOf(a)
  PROVE  NothingHalfDone'
  <1> SUFFICES ASSUME NEW p \in Pair, pairs'[p] \in Acted, p \notin carried', p \notin abandoned',
                      ~Minds(a, p)'
               PROVE  \E r \in Reviewer : Minds(r, p)'
    <2>1. ASSUME NEW p \in Pair, Minds(a, p)' PROVE \E r \in Reviewer : Minds(r, p)'
      <3>1. TaskSoundOf(a)'
        BY DEF StepOf
      <3>2. a \notin Editor
        BY <2>1, <3>1, DispositionsAssumption DEF TaskSoundOf, Minds
      <3> QED BY <2>1, <3>2
    <2> QED BY <2>1 DEF NothingHalfDone, Promise!Acted, Acted
  <1>1. pairs[p] \in Acted /\ p \notin carried /\ ~Minds(a, p)
    BY DEF StepOf, Tidy
  <1>2. p \notin abandoned
    BY DEF StepOf, Grows
  <1>3. PICK r \in Reviewer : Minds(r, p)
    BY <1>1, <1>2 DEF DispositionsInv, NothingHalfDone, Promise!Acted, Acted
  <1>4. r # a
    BY <1>1, <1>3
  <1>5. task'[r] = task[r]
    BY <1>4 DEF StepOf
  <1> QED BY <1>3, <1>5 DEF Minds

LEMMA HandsStay ==
  ASSUME DispositionsInv, NEW a \in Actor, StepOf(a)
  PROVE  HandSound'
  <1> SUFFICES ASSUME NEW r \in Reviewer, NEW p \in Pair PROVE HandSoundOf(r, p)'
    BY DEF HandSound, HandSoundOf
  <1>1. CASE r = a
    BY <1>1 DEF StepOf
  <1>2. CASE r # a
    <2> SUFFICES ASSUME InHand(r, p)'
                 PROVE  /\ pairs'[p] \notin {"none", "cached"}
                        /\ \A s \in Reviewer \ {r} : InHand(s, p)' => p \in doubtful'
                        /\ p \notin doubtful' =>
                             /\ task'[r].pc \in Mutating => pairs'[p] # "open"
                             /\ task'[r].pc \notin {"close", "answer"} => p \notin carried'
      BY DEF HandSoundOf
    <2>1. task'[r] = task[r]
      BY <1>2 DEF StepOf
    <2>2. InHand(r, p)
      BY <2>1 DEF InHand
    <2>3. HandSoundOf(r, p)
      BY DEF DispositionsInv, HandSound, HandSoundOf
    <2>4. Tidy(a) /\ doubtful \subseteq doubtful'
      BY DEF StepOf, Grows
    <2>5. ASSUME NEW s \in Reviewer \ {r}, InHand(s, p)' PROVE p \in doubtful'
      <3>1. CASE s = a
        <4>1. HandSoundOf(a, p)'
          BY <3>1 DEF StepOf
        <4> QED BY <1>2, <2>5, <3>1, <4>1 DEF HandSoundOf
      <3>2. CASE s # a
        <4>1. task'[s] = task[s]
          BY <3>2 DEF StepOf
        <4> QED BY <2>2, <2>3, <2>4, <2>5, <4>1 DEF HandSoundOf, InHand
      <3> QED BY <3>1, <3>2
    <2>6. ASSUME p \notin doubtful' PROVE ~InHand(a, p)
      <3>1. a \in Editor => ~InHand(a, p)
        BY DispositionsAssumption DEF DispositionsInv, TasksSound, TaskSoundOf, InHand
      <3>2. a \in Reviewer => ~InHand(a, p)
        BY <1>2, <2>2, <2>3, <2>4, <2>6 DEF HandSoundOf
      <3> QED BY <3>1, <3>2
    <2> QED BY <2>1, <2>2, <2>3, <2>4, <2>5, <2>6 DEF HandSoundOf, Tidy
  <1> QED BY <1>1, <1>2

LEMMA StepKeeps ==
  ASSUME DispositionsInv, NEW a \in Actor, StepOf(a), TypeOK'
  PROVE  DispositionsInv'
  <1>1. GoneWasDeleted' /\ CarriedSound'
    BY DEF StepOf
  <1> QED BY <1>1, OthersSound, ReasonsStay, NothingDropped, HandsStay DEF DispositionsInv

-------------------------------------------------------------------------------
(* Steps by which no pair is decided, carried out or opened *)

OnlyMoots ==
  \A p \in Pair :
    \/ pairs'[p] = pairs[p]
    \/ /\ pairs[p] = "open"
       /\ \E d \in {"obsoleted", "expired"} : pairs'[p] = d /\ Reason(p, d)'

\* A pair that closes is moot, and the actor has in hand what it had.
Settled(a) ==
  /\ \A b \in Actor \ {a} : task'[b] = task[b]
  /\ TaskSoundOf(a)'
  /\ \A p \in Pair : InHand(a, p)' =>
       /\ InHand(a, p)
       /\ \/ p \in doubtful
          \/ /\ task'[a].pc \in Mutating => task[a].pc \in Mutating
             /\ task[a].pc \in {"close", "answer"} => task'[a].pc \in {"close", "answer"}
  /\ \A p \in Pair : Minds(a, p) => Minds(a, p)'
  /\ UNCHANGED <<check, historyVars>>
  /\ OnlyMoots
  /\ Grows
  /\ GoneWasDeleted'
  /\ TypeOK'

promiseVars == <<pairs, carried, doubtful>>

\* What is to be shown of an action.
Good(a) == StepOf(a) /\ TypeOK' /\ [Promise!Next]_promiseVars

LEMMA SettledIsGood ==
  ASSUME DispositionsInv, NEW a \in Actor, Settled(a)
  PROVE  Good(a)
  <1> USE DEF historyVars
  <1>1. Tidy(a)
    BY DEF Settled, OnlyMoots, Tidy, Acted
  <1>2. CarriedSound'
    BY DEF Settled, OnlyMoots, DispositionsInv, TypeOK, CarriedSound
  <1>3. ASSUME NEW p \in Pair, a \in Reviewer PROVE HandSoundOf(a, p)'
    <2> SUFFICES ASSUME InHand(a, p)'
                 PROVE  /\ pairs'[p] \notin {"none", "cached"}
                        /\ \A s \in Reviewer \ {a} : InHand(s, p)' => p \in doubtful
                        /\ p \notin doubtful =>
                             /\ task'[a].pc \in Mutating => pairs'[p] # "open"
                             /\ task'[a].pc \notin {"close", "answer"} => p \notin carried
      BY DEF HandSoundOf, Settled
    <2>1. InHand(a, p) /\ HandSoundOf(a, p)
      BY <1>3 DEF Settled, DispositionsInv, HandSound, HandSoundOf
    <2>2. \A s \in Reviewer \ {a} : InHand(s, p)' => InHand(s, p)
      BY DEF Settled, InHand
    <2> QED BY <2>1, <2>2 DEF HandSoundOf, Settled, OnlyMoots
  <1>4. [Promise!Next]_promiseVars
    <2>1. Promise!Moot
      BY DEF Settled, OnlyMoots, TypeOK, Promise!Moot
    <2> QED BY <2>1 DEF Promise!Next
  <1> QED BY <1>1, <1>2, <1>3, <1>4 DEF Good, StepOf, Settled

\* Of these, those that change nothing but a task.
Calm(a) ==
  /\ \A b \in Actor \ {a} : task'[b] = task[b]
  /\ task' \in [Actor -> Task]
  /\ TaskSoundOf(a)'
  /\ \A p \in Pair : InHand(a, p)' =>
       /\ InHand(a, p)
       /\ \/ p \in doubtful
          \/ /\ task'[a].pc \in Mutating => task[a].pc \in Mutating
             /\ task[a].pc \in {"close", "answer"} => task'[a].pc \in {"close", "answer"}
  /\ \A p \in Pair : Minds(a, p) => Minds(a, p)'
  /\ UNCHANGED <<pairs, storeVars, check, historyVars>>

LEMMA CalmIsGood ==
  ASSUME DispositionsInv, NEW a \in Actor, Calm(a)
  PROVE  Good(a)
  <1>1. TypeOK'
    BY DEF DispositionsInv, TypeOK, Calm, storeVars, historyVars
  <1>2. Grows
    BY DEF Calm, Grows, storeVars, historyVars
  <1>3. GoneWasDeleted'
    BY DEF Calm, DispositionsInv, GoneWasDeleted, storeVars
  <1>4. Settled(a)
    BY <1>1, <1>2, <1>3 DEF Calm, Settled, OnlyMoots
  <1> QED BY <1>4, SettledIsGood

\* What a task of an actor is like before a step.
LEMMA TaskFacts ==
  ASSUME DispositionsInv, NEW a \in Actor
  PROVE  task \in [Actor -> Task] /\ task[a] \in Task /\ TaskSoundOf(a)
  BY DEF DispositionsInv, TypeOK, TasksSound

\* Tasks that differ in a field or two from one that is well typed.
LEMMA TaskEdits ==
  ASSUME NEW t \in Task
  PROVE  /\ \A v \in {"absent", "null", "yes"} :
              /\ [t EXCEPT !.pc = "read", !.seen = v] \in Task
              /\ [t EXCEPT !.pc = "upsert", !.seen = v] \in Task
              /\ [t EXCEPT !.pc = "expire", !.seen = v] \in Task
         /\ [t EXCEPT !.pc = "write"] \in Task
         /\ [t EXCEPT !.pc = "answer"] \in Task
         /\ [Finished EXCEPT !.client = "reopens", !.pair = t.pair] \in Task
         /\ \A m \in Memory :
              [t EXCEPT !.pc = "dispose", !.m = m, !.text = NoText] \in Task
  <1>1. ASSUME NEW v \in {"absent", "null", "yes"}
        PROVE  /\ [t EXCEPT !.pc = "read", !.seen = v] \in Task
               /\ [t EXCEPT !.pc = "upsert", !.seen = v] \in Task
               /\ [t EXCEPT !.pc = "expire", !.seen = v] \in Task
    <2>1. [t EXCEPT !.seen = v] \in Task
      BY DEF Task
    <2>2. ASSUME NEW w \in Task
          PROVE  /\ [w EXCEPT !.pc = "read"] \in Task
                 /\ [w EXCEPT !.pc = "upsert"] \in Task
                 /\ [w EXCEPT !.pc = "expire"] \in Task
      BY DEF Task
    <2> DEFINE w == [t EXCEPT !.seen = v]
    <2>3. /\ [t EXCEPT !.pc = "read", !.seen = v] = [w EXCEPT !.pc = "read"]
          /\ [t EXCEPT !.pc = "upsert", !.seen = v] = [w EXCEPT !.pc = "upsert"]
          /\ [t EXCEPT !.pc = "expire", !.seen = v] = [w EXCEPT !.pc = "expire"]
      BY DEF Task
    <2> QED BY <2>1, <2>2, <2>3
  <1>2. [t EXCEPT !.pc = "answer"] \in Task /\ [t EXCEPT !.pc = "write"] \in Task
    BY DEF Task
  <1>3. [Finished EXCEPT !.client = "reopens", !.pair = t.pair] \in Task
    BY DEF Task, Finished, NoTask
  <1>4. \A m \in Memory : [t EXCEPT !.pc = "dispose", !.m = m, !.text = NoText] \in Task
    BY DEF Task
  <1> QED BY <1>1, <1>2, <1>3, <1>4

LEMMA FinishedTask ==
  /\ Finished \in Task /\ Finished.pc = "done"
  /\ Finished.pair = NoPair /\ Finished.client = "waits"
  BY DEF Finished, NoTask, Task

LEMMA invalidateGood ==
  ASSUME DispositionsInv, NEW a \in Actor, invalidate(a)
  PROVE  Good(a)
  <1>1. PICK m \in Memory, by \in Memory :
          task' = [task EXCEPT ![a] = [NoTask EXCEPT !.pc = "check", !.m = m, !.by = by]]
    BY DEF invalidate, Become
  <1>2. Calm(a)
    BY <1>1, TaskFacts, DispositionsAssumption
    DEF invalidate, Calm, Task, NoTask, TaskSoundOf, InHand, Minds, Inside, Mutating
  <1> QED BY <1>2, CalmIsGood

LEMMA AcceptGood ==
  ASSUME DispositionsInv, NEW a \in Actor, Accept(a)
  PROVE  Good(a)
  <1> DEFINE u == [task[a] EXCEPT !.pc = "write"]
  <1>1. u \in Task /\ task' = [task EXCEPT ![a] = u]
    BY TaskFacts, TaskEdits DEF Accept, Goto
  <1>2. /\ u.pc = "write" /\ task[a].pc = "check"
        /\ u.client = task[a].client /\ u.pair = task[a].pair /\ u.m = task[a].m
        /\ u.act = task[a].act /\ u.text = task[a].text
    BY TaskFacts DEF Accept, Task
  <1> HIDE DEF u
  <1>3. task' \in [Actor -> Task] /\ task'[a] = u /\ \A b \in Actor \ {a} : task'[b] = task[b]
    BY <1>1, TaskFacts
  <1>4. TaskSoundOf(a)'
    BY <1>2, <1>3, TaskFacts DEF TaskSoundOf, Accept, historyVars, Mutating, Inside
  <1>5. Calm(a)
    BY <1>2, <1>3, <1>4 DEF Accept, Calm, InHand, Minds, Mutating
  <1> QED BY <1>5, CalmIsGood

LEMMA AnswerGood ==
  ASSUME DispositionsInv, NEW a \in Actor, Answer(a)
  PROVE  Good(a)
  <1> DEFINE u == IF task[a].client = "reopens"
                  THEN [Finished EXCEPT !.client = "reopens", !.pair = task[a].pair] ELSE Finished
  <1>1. u \in Task /\ task' = [task EXCEPT ![a] = u]
    BY TaskFacts DEF Answer, Finish, Become, Finished, NoTask, Task
  <1>2. /\ u.pc = "done" /\ task[a].pc = "answer"
        /\ u.client = "reopens" => u.pair = task[a].pair /\ task[a].client = "reopens"
        /\ task[a].client = "reopens" => u.client = "reopens" /\ u.pair = task[a].pair
        /\ u.client \in {"waits", "reopens"} /\ (u.client = "waits" => u.pair = NoPair)
    BY DEF Answer, Finished, NoTask
  <1> HIDE DEF u
  <1>3. task' \in [Actor -> Task] /\ task'[a] = u /\ \A b \in Actor \ {a} : task'[b] = task[b]
    BY <1>1, TaskFacts
  <1>4. TaskSoundOf(a)'
    BY <1>2, <1>3, TaskFacts DEF TaskSoundOf, Mutating, Inside
  <1>5. Calm(a)
    BY <1>2, <1>3, <1>4, TaskFacts, DispositionsAssumption
    DEF Answer, Calm, InHand, Minds, Mutating, TaskSoundOf
  <1> QED BY <1>5, CalmIsGood

LEMMA reviveGood ==
  ASSUME DispositionsInv, NEW a \in Actor, revive(a)
  PROVE  Good(a)
  <1>1. PICK m \in Memory : task' = [task EXCEPT ![a] = [NoTask EXCEPT !.pc = "clear", !.m = m]]
    BY DEF revive, Become, Stored, Active
  <1>2. Calm(a)
    BY <1>1, TaskFacts, DispositionsAssumption
    DEF revive, Calm, Task, NoTask, TaskSoundOf, InHand, Minds, Inside, Mutating
  <1> QED BY <1>2, CalmIsGood

LEMMA updateGood ==
  ASSUME DispositionsInv, NEW a \in Actor, update(a)
  PROVE  Good(a)
  <1>1. PICK m \in Memory, text \in Text :
          task' = [task EXCEPT ![a] = [NoTask EXCEPT !.pc = "read", !.m = m, !.text = text,
                                                     !.seen = memory[m].superseded]]
    BY DEF update, Become, Stored
  <1>2. memory[m].superseded \in {"absent", "null", "yes"}
    BY DEF DispositionsInv, TypeOK, Entry
  <1> DEFINE u == [NoTask EXCEPT !.pc = "read", !.m = m, !.text = text,
                                 !.seen = memory[m].superseded]
  <1>3. /\ u \in Task /\ u.pc = "read" /\ u.client = "waits" /\ u.pair = NoPair
        /\ u.m = m /\ u.text = text
    BY <1>2 DEF Task, NoTask
  <1> HIDE DEF u
  <1>4. task' \in [Actor -> Task] /\ task'[a] = u /\ \A b \in Actor \ {a} : task'[b] = task[b]
    BY <1>1, <1>3, TaskFacts DEF u
  <1>5. a \in Editor /\ a \notin Reviewer /\ task[a].client = "waits" /\ task[a].pair = NoPair
    BY TaskFacts, DispositionsAssumption DEF update, TaskSoundOf
  <1>6. TaskSoundOf(a)'
    BY <1>3, <1>4, <1>5 DEF TaskSoundOf, Inside, Mutating
  <1>7. Calm(a)
    BY <1>3, <1>4, <1>5, <1>6, DispositionsAssumption DEF update, Calm, InHand, Minds
  <1> QED BY <1>7, CalmIsGood

LEMMA GetGood ==
  ASSUME DispositionsInv, NEW a \in Actor, Get(a)
  PROVE  Good(a)
  <1> DEFINE u == [task[a] EXCEPT !.pc = "read", !.seen = memory[task[a].m].superseded]
  <1>1. memory[task[a].m].superseded \in {"absent", "null", "yes"}
    BY DEF Get, Stored, DispositionsInv, TypeOK, Entry
  <1>2. u \in Task /\ task' = [task EXCEPT ![a] = u]
    BY <1>1, TaskFacts, TaskEdits DEF Get, Become
  <1>3. /\ u.pc = "read" /\ task[a].pc = "get"
        /\ u.client = task[a].client /\ u.pair = task[a].pair /\ u.m = task[a].m
        /\ u.text = task[a].text /\ u.act = task[a].act
    BY TaskFacts DEF Get, Task
  <1> HIDE DEF u
  <1>4. task' \in [Actor -> Task] /\ task'[a] = u /\ \A b \in Actor \ {a} : task'[b] = task[b]
    BY <1>2, TaskFacts
  <1>5. TaskSoundOf(a)'
    BY <1>3, <1>4, TaskFacts DEF TaskSoundOf, Mutating, Inside
  <1>6. Calm(a)
    BY <1>3, <1>4, <1>5 DEF Get, Calm, InHand, Minds, Mutating
  <1> QED BY <1>6, CalmIsGood

LEMMA ReadGood ==
  ASSUME DispositionsInv, NEW a \in Actor, Read(a)
  PROVE  Good(a)
  <1> DEFINE u == [task[a] EXCEPT !.pc = "upsert",
                                  !.seen = IF @ = "absent" THEN memory[task[a].m].superseded ELSE @]
  <1>1. memory[task[a].m].superseded \in {"absent", "null", "yes"}
    BY DEF Read, Stored, DispositionsInv, TypeOK, Entry
  <1>2. u \in Task /\ task' = [task EXCEPT ![a] = u]
    <2>1. u = [task[a] EXCEPT !.pc = "upsert",
                 !.seen = IF task[a].seen = "absent" THEN memory[task[a].m].superseded
                                                     ELSE task[a].seen]
      OBVIOUS
    <2>2. task[a].seen \in {"absent", "null", "yes"}
      BY TaskFacts DEF Task
    <2>3. u \in Task
      BY <1>1, <2>1, <2>2, TaskFacts, TaskEdits
    <2> QED BY <2>3 DEF Read, Become
  <1>3. /\ u.pc = "upsert" /\ task[a].pc = "read"
        /\ u.client = task[a].client /\ u.pair = task[a].pair /\ u.m = task[a].m
        /\ u.text = task[a].text /\ u.act = task[a].act
    BY TaskFacts DEF Read, Task
  <1> HIDE DEF u
  <1>4. task' \in [Actor -> Task] /\ task'[a] = u /\ \A b \in Actor \ {a} : task'[b] = task[b]
    BY <1>2, TaskFacts
  <1>5. TaskSoundOf(a)'
    BY <1>3, <1>4, TaskFacts DEF TaskSoundOf, Mutating, Inside
  <1>6. Calm(a)
    BY <1>3, <1>4, <1>5 DEF Read, Calm, InHand, Minds, Mutating
  <1> QED BY <1>6, CalmIsGood

LEMMA deleteGood ==
  ASSUME DispositionsInv, NEW a \in Actor, delete(a)
  PROVE  Good(a)
  <1>1. PICK m \in Memory : task' = [task EXCEPT ![a] = [NoTask EXCEPT !.pc = "delete", !.m = m]]
    BY DEF delete, Become, Stored, Active
  <1>2. Calm(a)
    BY <1>1, TaskFacts, DispositionsAssumption
    DEF delete, Calm, Task, NoTask, TaskSoundOf, InHand, Minds, Inside, Mutating
  <1> QED BY <1>2, CalmIsGood

-------------------------------------------------------------------------------
(* The steps of a reviewer *)

\* A pair that is closed, or is not open, and what that does to the others.
LEMMA CloseFacts ==
  ASSUME pairs \in [Pair -> Disposition], NEW P, NEW d \in Disposition, Close(P, d)
  PROVE  /\ pairs' \in [Pair -> Disposition]
         /\ \A p \in Pair : pairs'[p] = IF p \in P THEN d ELSE pairs[p]
  BY DEF Close

LEMMA LoadOpenPairGood ==
  ASSUME DispositionsInv, NEW a \in Actor, LoadOpenPair(a)
  PROVE  Good(a)
  <1>1. PICK p \in Open, act \in {"dismissed", "confirmed", "ttl", "merged"}, text \in Text :
          /\ task' = [task EXCEPT ![a] =
               [NoTask EXCEPT !.pc = IF act = "merged" THEN "get" ELSE "dispose",
                              !.pair = p, !.act = act,
                              !.text = IF act = "merged" THEN text ELSE NoText,
                              !.m = IF act = "merged" THEN p.new ELSE p.old]]
          /\ doubtful' = IF \E s \in Reviewer \ {a} : InHand(s, p)
                         THEN doubtful \cup {p} ELSE doubtful
    BY DEF LoadOpenPair, Become
  <1>2. p \in Pair /\ pairs[p] = "open" /\ p.new \in Memory /\ p.old \in Memory
    BY <1>1 DEF Open, Pair
  <1> DEFINE u == [NoTask EXCEPT !.pc = IF act = "merged" THEN "get" ELSE "dispose",
                                 !.pair = p, !.act = act,
                                 !.text = IF act = "merged" THEN text ELSE NoText,
                                 !.m = IF act = "merged" THEN p.new ELSE p.old]
  <1>3. /\ u \in Task /\ u.pc \in {"get", "dispose"} /\ u.client = "waits" /\ u.pair = p
        /\ u.m \in Memory /\ u.act # "undecided" /\ (u.pc = "get" => u.text \in Text)
    BY <1>2 DEF Task, NoTask
  <1>4. /\ task' \in [Actor -> Task] /\ task'[a] = u
        /\ \A b \in Actor \ {a} : task'[b] = task[b]
    BY <1>1, <1>3, TaskFacts
  <1> HIDE DEF u
  <1>5. /\ a \in Reviewer /\ a \notin Editor
        /\ task[a].pc = "idle" /\ task[a].client = "waits"
        /\ UNCHANGED <<pairs, memory, past, check, carried, abandoned>>
    BY TaskFacts, DispositionsAssumption DEF LoadOpenPair, storeVars, TaskSoundOf, Inside, Task
  <1>6. TypeOK'
    BY <1>1, <1>2, <1>4, <1>5 DEF DispositionsInv, TypeOK
  <1>7. TaskSoundOf(a)'
    BY <1>2, <1>3, <1>4, <1>5 DEF TaskSoundOf
  <1>8. Grows
    BY <1>1, <1>5 DEF Grows
  <1>9. Tidy(a)
    BY <1>5 DEF Tidy, Minds
  <1>10. GoneWasDeleted' /\ CarriedSound'
    BY <1>5, <1>8 DEF DispositionsInv, GoneWasDeleted, CarriedSound, Grows
  <1>11. ASSUME NEW q \in Pair PROVE HandSoundOf(a, q)'
    <2> SUFFICES ASSUME q = p
                 PROVE  /\ \A s \in Reviewer \ {a} : InHand(s, p)' => p \in doubtful'
                        /\ p \notin doubtful' => p \notin carried
      BY <1>2, <1>3, <1>4, <1>5 DEF HandSoundOf, InHand, Mutating
    <2>1. ASSUME NEW s \in Reviewer \ {a}, InHand(s, p)' PROVE p \in doubtful'
      BY <1>1, <1>4, <2>1 DEF InHand
    <2>2. p \notin doubtful => p \notin carried
      BY <1>2 DEF DispositionsInv, CarriedSound
    <2> QED BY <2>1, <2>2, <1>1
  <1>12. [Promise!Next]_promiseVars
    <2>1. CASE doubtful' = doubtful
      BY <1>5, <2>1 DEF promiseVars
    <2>2. CASE doubtful' = doubtful \cup {p}
      <3>1. Promise!Doubt(p)
        BY <1>2, <1>5, <2>2 DEF Promise!Doubt
      <3> QED BY <1>2, <3>1 DEF Promise!Next
    <2> QED BY <1>1, <2>1, <2>2
  <1> QED BY <1>4, <1>5, <1>6, <1>7, <1>8, <1>9, <1>10, <1>11, <1>12 DEF Good, StepOf

LEMMA DisposeGood ==
  ASSUME DispositionsInv, NEW a \in Actor, Dispose(a)
  PROVE  Good(a)
  <1> DEFINE p == task[a].pair
             act == task[a].act
             u == IF act = "dismissed" THEN Finished
                  ELSE [NoTask EXCEPT !.pc = "check", !.pair = p,
                                      !.m = p.old, !.by = SupersededBy(p)]
  <1>1. /\ a \in Reviewer /\ a \notin Editor /\ p \in Pair
        /\ task[a].pc = "dispose" /\ task[a].client = "waits"
        /\ act \in {"dismissed", "confirmed", "ttl", "merged"}
    BY TaskFacts, DispositionsAssumption DEF Dispose, TaskSoundOf, Inside, Task
  <1>2. p.old \in Memory /\ p.new \in Memory /\ SupersededBy(p) \in Memory \cup {NoMemory}
    BY <1>1 DEF Pair, SupersededBy
  <1>3. /\ task' = [task EXCEPT ![a] = u] /\ Close({p} \cap Open, act)
        /\ UNCHANGED <<memory, past, check, carried, doubtful, abandoned>>
    BY <1>1, <1>2 DEF Dispose, Finish, Become, dispose, storeVars, historyVars
  <1>4. /\ u \in Task /\ u.client = "waits"
        /\ act = "dismissed" => u.pc = "done"
        /\ act # "dismissed" => u.pc = "check" /\ u.pair = p /\ u.m \in Memory
    BY <1>1, <1>2 DEF Finished, NoTask, Task
  <1>5. /\ task' \in [Actor -> Task] /\ task'[a] = u
        /\ \A b \in Actor \ {a} : task'[b] = task[b]
    BY <1>3, <1>4, TaskFacts
  <1>6. /\ pairs \in [Pair -> Disposition] /\ pairs' \in [Pair -> Disposition]
        /\ \A q \in Pair : pairs'[q] = IF q = p /\ pairs[p] = "open" THEN act ELSE pairs[q]
    <2>1. pairs \in [Pair -> Disposition] /\ act \in Disposition
      BY <1>1 DEF DispositionsInv, TypeOK, Disposition
    <2> QED BY <1>1, <1>3, <2>1, CloseFacts DEF Open
  <1>7. HandSoundOf(a, p) /\ InHand(a, p)
    BY <1>1 DEF DispositionsInv, HandSound, HandSoundOf, InHand
  <1> HIDE DEF u, p, act
  <1>8. TypeOK'
    BY <1>3, <1>5, <1>6 DEF DispositionsInv, TypeOK
  <1>9. TaskSoundOf(a)'
    BY <1>1, <1>4, <1>5 DEF TaskSoundOf, u, Finished, NoTask
  <1>10. Grows
    BY <1>3 DEF Grows
  <1>11. Tidy(a)
    BY <1>1, <1>3, <1>4, <1>5, <1>6 DEF Tidy, Minds, Acted
  <1>12. GoneWasDeleted' /\ CarriedSound'
    <2>1. GoneWasDeleted'
      BY <1>3 DEF DispositionsInv, GoneWasDeleted
    <2>2. CarriedSound'
      BY <1>1, <1>3, <1>6 DEF DispositionsInv, TypeOK, CarriedSound
    <2> QED BY <2>1, <2>2
  <1>13. ASSUME NEW q \in Pair PROVE HandSoundOf(a, q)'
    <2> SUFFICES ASSUME InHand(a, q)'
                 PROVE  /\ pairs'[q] \notin {"none", "cached"}
                        /\ \A s \in Reviewer \ {a} : InHand(s, q)' => q \in doubtful'
                        /\ q \notin doubtful' => pairs'[q] # "open" /\ q \notin carried'
      BY DEF HandSoundOf
    <2>1. q = p
      BY <1>4, <1>5 DEF InHand
    <2>2. \A s \in Reviewer \ {a} : InHand(s, q)' => InHand(s, q)
      BY <1>5 DEF InHand
    <2>3. HandSoundOf(a, q) /\ InHand(a, q)
      BY <1>7, <2>1
    <2> QED BY <1>1, <1>3, <1>6, <2>1, <2>2, <2>3 DEF HandSoundOf
  <1>14. [Promise!Next]_promiseVars
    <2>1. CASE pairs[p] = "open"
      <3>1. pairs' = [pairs EXCEPT ![p] = act]
        BY <1>6, <2>1
      <3>2. Promise!Decide(p)
        BY <1>1, <1>3, <2>1, <3>1 DEF Promise!Decide, Promise!Acted
      <3> QED BY <1>1, <3>2 DEF Promise!Next
    <2>2. CASE pairs[p] # "open"
      BY <1>3, <1>6, <2>2 DEF promiseVars
    <2> QED BY <2>1, <2>2
  <1> QED BY <1>3, <1>5, <1>8, <1>9, <1>10, <1>11, <1>12, <1>13, <1>14 DEF Good, StepOf

LEMMA ReopenGood ==
  ASSUME DispositionsInv, NEW a \in Actor, Reopen(a)
  PROVE  Good(a)
  <1> DEFINE p == task[a].pair
             u == IF task[a].pc = "done" THEN Finished ELSE [task[a] EXCEPT !.client = "gone"]
  <1>1. /\ a \in Reviewer /\ a \notin Editor /\ p \in Pair
        /\ task[a].client = "reopens" /\ task[a].pc \in Mutating \cup {"done"}
        /\ task[a].pc \in Mutating => p \in doubtful
    BY TaskFacts, DispositionsAssumption DEF Reopen, TaskSoundOf
  <1>2. /\ task' = [task EXCEPT ![a] = u] /\ reopen(p)
        /\ UNCHANGED <<memory, past, check, carried, doubtful, abandoned>>
    BY DEF Reopen, Become, storeVars, historyVars
  <1>3. /\ u \in Task /\ u.client \in {"waits", "gone"}
        /\ task[a].pc = "done" => u.pc = "done" /\ u.client = "waits" /\ u.pair = NoPair
        /\ task[a].pc # "done" => /\ u.pc = task[a].pc /\ u.client = "gone" /\ u.pair = p
                                  /\ u.m = task[a].m /\ u.text = task[a].text
    BY TaskFacts DEF Finished, NoTask, Task
  <1>4. /\ task' \in [Actor -> Task] /\ task'[a] = u
        /\ \A b \in Actor \ {a} : task'[b] = task[b]
    BY <1>2, <1>3, TaskFacts
  <1>5. /\ pairs \in [Pair -> Disposition] /\ pairs' \in [Pair -> Disposition]
        /\ \A q \in Pair : pairs'[q] = IF q = p /\ pairs[p] \in Acted THEN "open" ELSE pairs[q]
    BY <1>1, <1>2 DEF DispositionsInv, TypeOK, reopen, Acted, Disposition
  <1>6. HandSoundOf(a, p) /\ InHand(a, p)
    BY <1>1 DEF DispositionsInv, HandSound, HandSoundOf, InHand
  <1>7. p \in carried => p \in doubtful
    BY <1>1, <1>6 DEF HandSoundOf, Mutating
  <1>8. TaskSoundOf(a)
    BY TaskFacts
  <1> HIDE DEF u
  <1>9. TypeOK'
    BY <1>2, <1>4, <1>5 DEF DispositionsInv, TypeOK
  <1>10. TaskSoundOf(a)'
    BY <1>1, <1>2, <1>3, <1>4, <1>8 DEF TaskSoundOf, Mutating, Inside
  <1>11. Grows
    BY <1>2 DEF Grows
  <1>12. Tidy(a)
    BY <1>1, <1>2, <1>5, <1>6 DEF Tidy, Minds, Acted
  <1>13. GoneWasDeleted' /\ CarriedSound'
    <2>1. GoneWasDeleted'
      BY <1>2 DEF DispositionsInv, GoneWasDeleted
    <2>2. CarriedSound'
      BY <1>2, <1>5, <1>7 DEF DispositionsInv, TypeOK, CarriedSound
    <2> QED BY <2>1, <2>2
  <1>14. ASSUME NEW q \in Pair PROVE HandSoundOf(a, q)'
    <2> SUFFICES ASSUME InHand(a, q)'
                 PROVE  /\ pairs'[q] \notin {"none", "cached"}
                        /\ q \in doubtful'
      BY DEF HandSoundOf
    <2>1. q = p /\ task[a].pc \in Mutating
      BY <1>1, <1>3, <1>4 DEF InHand
    <2> QED BY <1>1, <1>2, <1>5, <1>6, <2>1 DEF HandSoundOf
  <1>15. [Promise!Next]_promiseVars
    <2>1. CASE pairs[p] \in Acted
      <3>1. pairs' = [pairs EXCEPT ![p] = "open"]
        BY <1>5, <2>1
      <3>2. Promise!GiveUp(p)
        BY <1>2, <1>7, <2>1, <3>1 DEF Promise!GiveUp, Promise!Acted, Acted
      <3> QED BY <1>1, <3>2 DEF Promise!Next
    <2>2. CASE pairs[p] \notin Acted
      BY <1>2, <1>5, <2>2 DEF promiseVars
    <2> QED BY <2>1, <2>2
  <1> QED BY <1>2, <1>4, <1>9, <1>10, <1>11, <1>12, <1>13, <1>14, <1>15 DEF Good, StepOf

-------------------------------------------------------------------------------
(* The steps that change the store or close what is moot *)

LEMMA CloseForOldGood ==
  ASSUME DispositionsInv, NEW a \in Actor, CloseForOld(a)
  PROVE  Good(a)
  <1> DEFINE m == task[a].m
             u == IF a \in Reviewer THEN [task[a] EXCEPT !.pc = "answer"]
                  ELSE IF task[a].client = "reopens"
                       THEN [Finished EXCEPT !.client = "reopens", !.pair = task[a].pair]
                       ELSE Finished
  <1>1. /\ task[a].pc = "close" /\ m \in Memory
        /\ past[m].superseded \/ past[m].deleted
        /\ TaskSoundOf(a)
    BY TaskFacts DEF CloseForOld, TaskSoundOf
  <1>2. /\ task' = [task EXCEPT ![a] = u] /\ u \in Task
        /\ Close({p \in Open : p.old = m}, "obsoleted")
        /\ UNCHANGED <<memory, past, check, carried, doubtful, abandoned>>
    <2>1. task' = [task EXCEPT ![a] = u]
      BY DEF CloseForOld, Goto, Finish, Become
    <2>2. u \in Task
      BY TaskFacts, TaskEdits, FinishedTask
    <2> QED BY <2>1, <2>2 DEF CloseForOld, close_for_old, storeVars, historyVars
  <1>3. /\ a \in Reviewer => /\ u.pc = "answer" /\ u.client = task[a].client
                             /\ u.pair = task[a].pair /\ u.m = m
        /\ a \notin Reviewer => u = Finished
    BY TaskFacts, DispositionsAssumption DEF Task, TaskSoundOf
  <1>4. /\ task' \in [Actor -> Task] /\ task'[a] = u
        /\ \A b \in Actor \ {a} : task'[b] = task[b]
    BY <1>2, TaskFacts
  <1>5. /\ pairs' \in [Pair -> Disposition]
        /\ \A p \in Pair : pairs'[p] = IF p \in Open /\ p.old = m THEN "obsoleted" ELSE pairs[p]
    <2>1. pairs \in [Pair -> Disposition] /\ "obsoleted" \in Disposition
      BY DEF DispositionsInv, TypeOK, Disposition
    <2> QED BY <1>2, <2>1, CloseFacts
  <1> HIDE DEF u, m
  <1>6. TypeOK'
    BY <1>2, <1>4, <1>5 DEF DispositionsInv, TypeOK
  <1>7. TaskSoundOf(a)'
    BY <1>1, <1>2, <1>3, <1>4 DEF TaskSoundOf, Mutating, Inside, Finished, NoTask
  <1>8. Grows /\ GoneWasDeleted'
    BY <1>2 DEF Grows, DispositionsInv, GoneWasDeleted
  <1>9. \A p \in Pair : InHand(a, p)' => InHand(a, p) /\ task'[a].pc = "answer"
    BY <1>1, <1>3, <1>4, DispositionsAssumption DEF InHand, Finished, NoTask
  <1>10. \A p \in Pair : Minds(a, p) => Minds(a, p)'
    BY <1>1, <1>3, <1>4, DispositionsAssumption DEF Minds, TaskSoundOf
  <1>11. OnlyMoots
    BY <1>1, <1>2, <1>5 DEF Open, Reason, OnlyMoots
  <1>12. Settled(a)
    BY <1>1, <1>2, <1>4, <1>6, <1>7, <1>8, <1>9, <1>10, <1>11
    DEF Settled, historyVars, Mutating
  <1> QED BY <1>12, SettledIsGood

\* An editor that is done, or has a last step to do, has nothing in hand.
LEMMA EditorSettles ==
  ASSUME DispositionsInv, NEW a \in Editor, NEW u \in Task, task' = [task EXCEPT ![a] = u],
         u.pair = NoPair, u.client = "waits", TypeOK', Grows, GoneWasDeleted',
         UNCHANGED <<check, historyVars>>,
         u.pc = "done" \/ (u.pc = "forget" /\ u.m \in Memory /\ past'[u.m].deleted),
         OnlyMoots
  PROVE  Good(a)
  <1>1. task'[a] = u /\ \A b \in Actor \ {a} : task'[b] = task[b]
    BY TaskFacts
  <1>2. TaskSoundOf(a)'
    BY <1>1, DispositionsAssumption DEF TaskSoundOf
  <1>3. \A p \in Pair : ~InHand(a, p)' /\ ~Minds(a, p)
    BY <1>1, TaskFacts, DispositionsAssumption DEF InHand, Minds, TaskSoundOf
  <1>4. Settled(a)
    BY <1>1, <1>2, <1>3 DEF Settled
  <1> QED BY <1>4, SettledIsGood

\* The task of one who is no reviewer ends.
LEMMA FinishFacts ==
  ASSUME DispositionsInv, NEW a \in Editor, Finish(a)
  PROVE  /\ Finished \in Task /\ Finished.pc = "done"
         /\ Finished.pair = NoPair /\ Finished.client = "waits"
         /\ task' = [task EXCEPT ![a] = Finished] /\ task' \in [Actor -> Task]
  <1>1. task' = [task EXCEPT ![a] = Finished]
    BY TaskFacts DEF Finish, Become, TaskSoundOf
  <1>2. task \in [Actor -> Task]
    BY TaskFacts
  <1> QED BY <1>1, <1>2, FinishedTask

LEMMA EditorFinishes ==
  ASSUME DispositionsInv, NEW a \in Editor, Finish(a), TypeOK', Grows, GoneWasDeleted',
         UNCHANGED <<check, historyVars>>, OnlyMoots
  PROVE  Good(a)
  <1>1. task'[a] = Finished /\ \A b \in Actor \ {a} : task'[b] = task[b]
    BY FinishFacts, TaskFacts
  <1>2. TaskSoundOf(a)'
    BY <1>1, FinishFacts, DispositionsAssumption DEF TaskSoundOf
  <1>3. \A p \in Pair : ~InHand(a, p)' /\ ~Minds(a, p)
    BY <1>1, FinishFacts, TaskFacts, DispositionsAssumption DEF InHand, Minds, TaskSoundOf
  <1>4. Settled(a)
    BY <1>1, <1>2, <1>3 DEF Settled
  <1> QED BY <1>4, SettledIsGood

LEMMA ClearGood ==
  ASSUME DispositionsInv, NEW a \in Actor, Clear(a)
  PROVE  Good(a)
  <1>1. a \in Editor /\ task[a].m \in Memory
    BY TaskFacts DEF Clear, TaskSoundOf
  <1>2. Finish(a) /\ UNCHANGED <<pairs, past, check, carried, doubtful, abandoned>>
    BY DEF Clear, historyVars
  <1>3. memory' = [m \in Memory |-> IF m \in {task[a].m} \cap Stored
                                    THEN [memory[m] EXCEPT !.superseded = "null"] ELSE memory[m]]
    BY DEF Clear
  <1>4. memory \in [Memory -> Entry]
    BY DEF DispositionsInv, TypeOK
  <1>5. \A m \in Memory : memory'[m] \in Entry /\ memory'[m].stored = memory[m].stored
    BY <1>3, <1>4 DEF Entry
  <1>6. memory' \in [Memory -> Entry]
    BY <1>3, <1>5
  <1>7. TypeOK'
    BY <1>1, <1>2, <1>6, FinishFacts DEF DispositionsInv, TypeOK
  <1>8. Grows
    BY <1>2 DEF Grows
  <1>9. GoneWasDeleted'
    BY <1>2, <1>5 DEF DispositionsInv, GoneWasDeleted
  <1> QED BY <1>1, <1>2, <1>7, <1>8, <1>9, EditorFinishes DEF historyVars, OnlyMoots

\* Deletion, of one memory or of many.
LEMMA DeleteFacts ==
  ASSUME DispositionsInv, NEW M, Delete(M), UNCHANGED historyVars
  PROVE  /\ memory' \in [Memory -> Entry]
         /\ past' \in [Memory -> Past]
         /\ \A m \in Memory : m \in M => past'[m].deleted
         /\ Grows
         /\ GoneWasDeleted'
  <1>1. memory \in [Memory -> Entry] /\ past \in [Memory -> Past]
    BY DEF DispositionsInv, TypeOK
  <1>2. \A m \in Memory : /\ memory'[m] \in Entry
                          /\ m \notin M => memory'[m] = memory[m]
    BY <1>1 DEF Delete, Entry
  <1>3. \A m \in Memory : /\ past'[m] \in Past
                          /\ past'[m].superseded = past[m].superseded
                          /\ past'[m].texts = past[m].texts
                          /\ past'[m].deleted = (m \in M \/ past[m].deleted)
    BY <1>1 DEF Delete, Past
  <1>4. memory' \in [Memory -> Entry] /\ past' \in [Memory -> Past]
    BY <1>2, <1>3 DEF Delete
  <1>5. Grows
    BY <1>3 DEF Grows, historyVars
  <1>6. GoneWasDeleted'
    BY <1>2, <1>3 DEF DispositionsInv, GoneWasDeleted
  <1> QED BY <1>3, <1>4, <1>5, <1>6

LEMMA DeletePointGood ==
  ASSUME DispositionsInv, NEW a \in Actor, DeletePoint(a)
  PROVE  Good(a)
  <1> DEFINE u == [task[a] EXCEPT !.pc = "forget"]
  <1>1. a \in Editor /\ task[a].m \in Memory /\ task[a].pair = NoPair /\ task[a].client = "waits"
    BY TaskFacts DEF DeletePoint, TaskSoundOf
  <1>2. /\ task' = [task EXCEPT ![a] = u] /\ Delete({task[a].m})
        /\ UNCHANGED <<pairs, check>> /\ UNCHANGED historyVars
    BY DEF DeletePoint, Goto, historyVars
  <1>3. /\ u \in Task /\ u.pc = "forget" /\ u.m = task[a].m
        /\ u.pair = NoPair /\ u.client = "waits"
    BY <1>1, TaskFacts DEF Task
  <1> HIDE DEF u
  <1>4. /\ memory' \in [Memory -> Entry] /\ past' \in [Memory -> Past]
        /\ past'[u.m].deleted /\ Grows /\ GoneWasDeleted'
    BY <1>1, <1>2, <1>3, DeleteFacts
  <1>5. TypeOK'
    BY <1>2, <1>3, <1>4, TaskFacts DEF DispositionsInv, TypeOK, historyVars
  <1> QED BY <1>1, <1>2, <1>3, <1>4, <1>5, EditorSettles DEF OnlyMoots

LEMMA delete_allGood ==
  ASSUME DispositionsInv, NEW a \in Actor, delete_all(a)
  PROVE  Good(a)
  <1>1. PICK M \in SUBSET Stored : Delete(M)
    BY DEF delete_all
  <1>2. a \in Editor /\ Finish(a) /\ UNCHANGED <<pairs, check>> /\ UNCHANGED historyVars
    BY DEF delete_all, historyVars
  <1>3. /\ memory' \in [Memory -> Entry] /\ past' \in [Memory -> Past]
        /\ Grows /\ GoneWasDeleted'
    BY <1>1, <1>2, DeleteFacts
  <1>4. TypeOK'
    BY <1>2, <1>3, FinishFacts DEF DispositionsInv, TypeOK, historyVars
  <1> QED BY <1>2, <1>3, <1>4, EditorFinishes DEF OnlyMoots

LEMMA ForgetGood ==
  ASSUME DispositionsInv, NEW a \in Actor, Forget(a)
  PROVE  Good(a)
  <1>1. /\ a \in Editor /\ task[a].m \in Memory /\ past[task[a].m].deleted
        /\ Finish(a) /\ close_for_deleted_memory(task[a].m)
        /\ UNCHANGED <<memory, past, check, carried, doubtful, abandoned>>
    BY TaskFacts DEF Forget, TaskSoundOf, storeVars, historyVars
  <1>2. pairs \in [Pair -> Disposition]
    BY DEF DispositionsInv, TypeOK
  <1>3. /\ pairs' \in [Pair -> Disposition]
        /\ \A p \in Pair :
             \/ pairs'[p] = pairs[p]
             \/ pairs[p] = "open" /\ pairs'[p] = "obsoleted" /\ p.old = task[a].m
             \/ pairs[p] = "open" /\ pairs'[p] = "expired" /\ p.new = task[a].m
    BY <1>1, <1>2 DEF close_for_deleted_memory, Open, Disposition
  <1>4. OnlyMoots
    BY <1>1, <1>3 DEF Reason, OnlyMoots
  <1>5. TypeOK'
    BY <1>1, <1>3, FinishFacts DEF DispositionsInv, TypeOK
  <1>6. Grows /\ GoneWasDeleted'
    BY <1>1 DEF Grows, DispositionsInv, GoneWasDeleted
  <1> QED BY <1>1, <1>4, <1>5, <1>6, EditorFinishes DEF historyVars

LEMMA UpsertGood ==
  ASSUME DispositionsInv, NEW a \in Actor, Upsert(a)
  PROVE  Good(a)
  <1> DEFINE m == task[a].m
             text == task[a].text
             u == [task[a] EXCEPT !.pc = "expire", !.seen = "absent"]
  <1>1. /\ task[a].pc = "upsert" /\ m \in Memory /\ text \in Text
        /\ task[a].seen \in {"absent", "null", "yes"}
    BY TaskFacts DEF Upsert, TaskSoundOf, Task
  <1>2. /\ task' = [task EXCEPT ![a] = u]
        /\ memory' = [memory EXCEPT ![m] = [stored |-> TRUE, text |-> text,
                                            superseded |-> task[a].seen]]
        /\ past' = [past EXCEPT ![m].texts = @ \cup {text}]
        /\ UNCHANGED <<pairs, check, carried, doubtful, abandoned>>
    BY DEF Upsert, Become, historyVars
  <1>3. /\ u \in Task /\ u.pc = "expire" /\ u.client = task[a].client
        /\ u.pair = task[a].pair /\ u.m = m /\ u.text = text /\ u.act = task[a].act
    <2>1. u \in Task
      BY TaskFacts, TaskEdits
    <2> QED BY <2>1, TaskFacts DEF Task
  <1>4. memory \in [Memory -> Entry] /\ past \in [Memory -> Past]
    BY DEF DispositionsInv, TypeOK
  <1>5. /\ memory' \in [Memory -> Entry] /\ memory'[m].stored
        /\ \A x \in Memory \ {m} : memory'[x] = memory[x]
    BY <1>1, <1>2, <1>4 DEF Entry
  <1> HIDE DEF u, m, text
  <1>6. /\ past' \in [Memory -> Past]
        /\ past'[m].texts = past[m].texts \cup {text}
        /\ past'[m].superseded = past[m].superseded /\ past'[m].deleted = past[m].deleted
        /\ \A x \in Memory \ {m} : past'[x] = past[x]
    BY <1>1, <1>2, <1>4 DEF Past
  <1>7. /\ task' \in [Actor -> Task] /\ task'[a] = u
        /\ \A b \in Actor \ {a} : task'[b] = task[b]
    BY <1>2, <1>3, TaskFacts
  <1>8. TypeOK'
    BY <1>2, <1>5, <1>6, <1>7 DEF DispositionsInv, TypeOK
  <1>9. TaskSoundOf(a)'
    <2>1. TaskSoundOf(a) /\ m \in Memory /\ u.text \in past'[u.m].texts
      BY <1>1, <1>3, <1>6, TaskFacts DEF m
    <2> QED BY <1>1, <1>2, <1>3, <1>7, <2>1 DEF TaskSoundOf, Inside, Mutating
  <1>10. Grows
    BY <1>2, <1>6 DEF Grows
  <1>11. GoneWasDeleted'
    BY <1>5, <1>6 DEF DispositionsInv, GoneWasDeleted
  <1>12. \A p \in Pair : /\ InHand(a, p)' => InHand(a, p)
                         /\ Minds(a, p) => Minds(a, p)'
    BY <1>1, <1>3, <1>7 DEF InHand, Minds
  <1>13. Settled(a)
    BY <1>1, <1>2, <1>3, <1>7, <1>8, <1>9, <1>10, <1>11, <1>12
    DEF Settled, OnlyMoots, historyVars, Mutating
  <1> QED BY <1>13, SettledIsGood

LEMMA ExpireGood ==
  ASSUME DispositionsInv, NEW a \in Actor, Expire(a)
  PROVE  Good(a)
  <1> DEFINE m == task[a].m
             text == task[a].text
             u == IF a \in Reviewer /\ task[a].client = "waits"
                  THEN [task[a] EXCEPT !.pc = "dispose", !.m = task[a].pair.old, !.text = NoText]
                  ELSE Finished
  <1>1. /\ task[a].pc = "expire" /\ m \in Memory /\ text \in past[m].texts
        /\ task[a].client \in {"waits", "gone"}
        /\ a \in Reviewer => task[a].pair \in Pair
        /\ a \in Editor => task[a].pair = NoPair /\ task[a].client = "waits"
    BY TaskFacts DEF Expire, TaskSoundOf, Mutating, Task
  <1>2. /\ task' = [task EXCEPT ![a] = u]
        /\ close_for_updated_text(m, text) \/ UNCHANGED pairs
        /\ UNCHANGED <<memory, past, check, carried, doubtful, abandoned>>
    BY <1>1 DEF Expire, Finish, Become, storeVars, historyVars
  <1>3. /\ u \in Task /\ u.client = "waits"
        /\ \/ /\ a \in Reviewer /\ task[a].client = "waits"
              /\ u.pc = "dispose" /\ u.pair = task[a].pair /\ u.m \in Memory /\ u.act = task[a].act
           \/ /\ ~(a \in Reviewer /\ task[a].client = "waits")
              /\ u.pc = "done" /\ u.pair = NoPair
    <2>1. CASE a \in Reviewer /\ task[a].client = "waits"
      <3>1. task[a].pair.old \in Memory
        BY <1>1, <2>1 DEF Pair
      <3>2. u \in Task
        BY <2>1, <3>1, TaskFacts, TaskEdits
      <3>3. /\ u.client = "waits" /\ u.pc = "dispose" /\ u.pair = task[a].pair
            /\ u.m = task[a].pair.old /\ u.act = task[a].act
        BY <2>1, TaskFacts DEF Task
      <3> QED BY <2>1, <3>1, <3>2, <3>3
    <2>2. CASE ~(a \in Reviewer /\ task[a].client = "waits")
      BY <2>2, FinishedTask
    <2> QED BY <2>1, <2>2
  <1>4. pairs \in [Pair -> Disposition]
    BY DEF DispositionsInv, TypeOK
  <1>5. /\ pairs' \in [Pair -> Disposition]
        /\ \A p \in Pair :
             \/ pairs'[p] = pairs[p]
             \/ pairs[p] = "open" /\ pairs'[p] = "expired" /\ p.old = m /\ p.text # text
    <2>1. CASE UNCHANGED pairs
      BY <1>4, <2>1
    <2>2. CASE close_for_updated_text(m, text)
      BY <1>4, <2>2 DEF close_for_updated_text, Close, Open, Disposition
    <2> QED BY <1>2, <2>1, <2>2
  <1> HIDE DEF u, m, text
  <1>6. OnlyMoots
    BY <1>1, <1>2, <1>5 DEF Reason, OnlyMoots
  <1>7. /\ task' \in [Actor -> Task] /\ task'[a] = u
        /\ \A b \in Actor \ {a} : task'[b] = task[b]
    BY <1>2, <1>3, TaskFacts
  <1>8. TypeOK'
    BY <1>2, <1>5, <1>7 DEF DispositionsInv, TypeOK
  <1>9. TaskSoundOf(a)'
    BY <1>1, <1>3, <1>7, TaskFacts, DispositionsAssumption DEF TaskSoundOf
  <1>10. Grows /\ GoneWasDeleted'
    BY <1>2 DEF Grows, DispositionsInv, GoneWasDeleted
  <1>11. \A p \in Pair : /\ InHand(a, p)' => InHand(a, p)
                         /\ ~Minds(a, p)
    BY <1>1, <1>3, <1>7 DEF InHand, Minds
  <1>12. Settled(a)
    BY <1>1, <1>2, <1>3, <1>6, <1>7, <1>8, <1>9, <1>10, <1>11
    DEF Settled, historyVars, Mutating
  <1> QED BY <1>12, SettledIsGood

LEMMA WriteGood ==
  ASSUME DispositionsInv, NEW a \in Actor, Write(a)
  PROVE  Good(a)
  <1> DEFINE m == task[a].m
             by == task[a].by
             u == [task[a] EXCEPT !.pc = IF by = NoMemory THEN "answer" ELSE "close"]
  <1>1. task[a].pc = "write" /\ m \in Memory /\ TaskSoundOf(a)
    BY TaskFacts DEF Write, TaskSoundOf
  <1>2. /\ task' = [task EXCEPT ![a] = u]
        /\ carried' = carried \cup ({task[a].pair} \ {NoPair})
        /\ UNCHANGED <<pairs, check, doubtful, abandoned>>
    BY DEF Write, Goto
  <1>3. /\ u \in Task /\ u.pc \in {"answer", "close"} /\ (by = NoMemory => u.pc = "answer")
        /\ u.client = task[a].client /\ u.pair = task[a].pair /\ u.m = m
    BY TaskFacts DEF Task
  <1>4. /\ memory \in [Memory -> Entry] /\ past \in [Memory -> Past]
        /\ pairs \in [Pair -> Disposition] /\ carried \subseteq Pair
    BY DEF DispositionsInv, TypeOK
  <1>5. /\ memory' \in [Memory -> Entry] /\ past' \in [Memory -> Past]
        /\ \A x \in Memory : /\ memory'[x].stored = memory[x].stored
                             /\ past'[x].texts = past[x].texts
                             /\ past'[x].deleted = past[x].deleted
                             /\ past[x].superseded => past'[x].superseded
        /\ by # NoMemory => ~memory[m].stored \/ past'[m].superseded
    <2>1. CASE by = NoMemory
      BY <1>4, <2>1 DEF Write, storeVars
    <2>2. CASE by # NoMemory
      <3>1. /\ memory' = [x \in Memory |-> IF x \in {m} \cap Stored
                            THEN [memory[x] EXCEPT !.superseded = "yes"] ELSE memory[x]]
            /\ past' = [x \in Memory |-> IF x \in {m} \cap Stored
                          THEN [past[x] EXCEPT !.superseded = TRUE] ELSE past[x]]
        BY <2>2 DEF Write
      <3>2. \A x \in Memory : memory'[x] \in Entry /\ memory'[x].stored = memory[x].stored
        BY <1>4, <3>1 DEF Entry
      <3>3. \A x \in Memory : /\ past'[x] \in Past
                              /\ past'[x].texts = past[x].texts
                              /\ past'[x].deleted = past[x].deleted
                              /\ past'[x].superseded = (x \in {m} \cap Stored \/ past[x].superseded)
        BY <1>4, <3>1 DEF Past
      <3>4. memory' \in [Memory -> Entry] /\ past' \in [Memory -> Past]
        BY <3>1, <3>2, <3>3
      <3> QED BY <1>1, <3>2, <3>3, <3>4 DEF Stored
    <2> QED BY <2>1, <2>2
  <1> HIDE DEF u, m, by
  <1>6. /\ task' \in [Actor -> Task] /\ task'[a] = u
        /\ \A b \in Actor \ {a} : task'[b] = task[b]
    BY <1>2, <1>3, TaskFacts
  <1>7. /\ a \in Editor => task[a].pair = NoPair
        /\ a \in Reviewer => task[a].pair \in Pair /\ InHand(a, task[a].pair)
    BY <1>1 DEF TaskSoundOf, InHand
  <1>8. TypeOK'
    BY <1>2, <1>4, <1>5, <1>6, <1>7 DEF DispositionsInv, TypeOK
  <1>9. GoneWasDeleted' /\ Grows
    BY <1>2, <1>5 DEF DispositionsInv, GoneWasDeleted, Grows
  <1>10. TaskSoundOf(a)'
    <2>1. u.pc = "close" => past'[m].superseded \/ past'[m].deleted
      BY <1>1, <1>3, <1>5 DEF DispositionsInv, GoneWasDeleted
    <2>2. task[a].client = "reopens" => task[a].pair \in doubtful
      BY <1>1 DEF TaskSoundOf, Mutating
    <2> QED BY <1>1, <1>2, <1>3, <1>6, <2>1, <2>2 DEF TaskSoundOf, Inside, Mutating
  <1>11. Tidy(a)
    BY <1>2, <1>7, DispositionsAssumption DEF Tidy, Minds
  <1>12. ASSUME NEW q \in Pair, a \in Reviewer, q = task[a].pair
         PROVE  HandSoundOf(a, q) /\ InHand(a, q)
    BY <1>7, <1>12 DEF DispositionsInv, HandSound, HandSoundOf
  <1>13. ASSUME NEW q \in Pair, a \in Reviewer PROVE HandSoundOf(a, q)'
    <2> SUFFICES ASSUME InHand(a, q)'
                 PROVE  /\ pairs'[q] \notin {"none", "cached"}
                        /\ \A s \in Reviewer \ {a} : InHand(s, q)' => q \in doubtful'
                        /\ q \notin doubtful' => pairs'[q] # "open"
      BY <1>3, <1>6 DEF HandSoundOf
    <2>1. q = task[a].pair
      BY <1>3, <1>6 DEF InHand
    <2>2. \A s \in Reviewer \ {a} : InHand(s, q)' => InHand(s, q)
      BY <1>6 DEF InHand
    <2> QED BY <1>1, <1>2, <1>12, <1>13, <2>1, <2>2 DEF HandSoundOf, Mutating
  <1>14. ASSUME NEW q \in carried'
         PROVE  pairs'[q] \notin {"none", "cached"} /\ (pairs'[q] = "open" => q \in doubtful')
    <2>1. CASE q \in carried
      BY <1>2, <2>1 DEF DispositionsInv, CarriedSound
    <2>2. CASE q \notin carried
      <3>1. a \in Reviewer /\ q = task[a].pair /\ q \in Pair
        BY <1>2, <1>7, <2>2
      <3> QED BY <1>1, <1>2, <1>12, <3>1 DEF HandSoundOf, Mutating
    <2> QED BY <2>1, <2>2
  <1>15. CarriedSound'
    BY <1>14 DEF CarriedSound
  <1>16. [Promise!Next]_promiseVars
    <2>1. CASE a \in Editor
      BY <1>2, <1>7, <2>1 DEF promiseVars
    <2>2. CASE a \in Reviewer
      <3> DEFINE p == task[a].pair
      <3>1. p \in Pair /\ carried' = carried \cup {p}
        BY <1>2, <1>7, <2>2, DispositionsAssumption
      <3>2. pairs[p] \notin {"none", "cached"} /\ (pairs[p] = "open" => p \in doubtful)
        BY <1>1, <1>12, <2>2, <3>1 DEF HandSoundOf, Mutating
      <3>3. Promise!CarryOut(p)
        BY <1>2, <3>1, <3>2 DEF Promise!CarryOut
      <3> QED BY <3>1, <3>3 DEF Promise!Next
    <2> QED BY <2>1, <2>2
  <1> QED BY <1>2, <1>6, <1>8, <1>9, <1>10, <1>11, <1>13, <1>15, <1>16 DEF Good, StepOf

-------------------------------------------------------------------------------
(* Failures *)

LEMMA FailGood ==
  ASSUME DispositionsInv, NEW a \in Actor, Fail(a)
  PROVE  Good(a)
  <1> DEFINE p == task[a].pair
             takesBack == a \in Reviewer /\ task[a].client = "waits" /\ task[a].pc \in Mutating
             u == IF takesBack \/ task[a].client = "reopens"
                  THEN [Finished EXCEPT !.client = "reopens", !.pair = p] ELSE Finished
             D == a \in Reviewer /\ task[a].client = "waits" /\ task[a].pc \in {"close", "answer"}
  <1>1. task[a].pc \notin {"idle", "done"} /\ TaskSoundOf(a)
    BY TaskFacts DEF Fail
  <1>2. /\ task' = [task EXCEPT ![a] = u]
        /\ doubtful' = IF D THEN doubtful \cup {p} ELSE doubtful
        /\ UNCHANGED <<pairs, memory, past, check, carried, abandoned>>
    BY DEF Fail, Finish, Become, storeVars
  <1>3. /\ u \in Task /\ u.pc = "done"
        /\ takesBack \/ task[a].client = "reopens" => u.client = "reopens" /\ u.pair = p
        /\ ~(takesBack \/ task[a].client = "reopens") => u.client = "waits" /\ u.pair = NoPair
    BY TaskFacts DEF Finished, NoTask, Task
  <1>4. /\ task' \in [Actor -> Task] /\ task'[a] = u
        /\ \A b \in Actor \ {a} : task'[b] = task[b]
    BY <1>2, <1>3, TaskFacts
  <1>5. a \in Reviewer => p \in Pair /\ HandSoundOf(a, p) /\ InHand(a, p)
    <2>1. a \in Reviewer => p \in Pair /\ InHand(a, p)
      BY <1>1 DEF TaskSoundOf, InHand
    <2> QED BY <2>1 DEF DispositionsInv, HandSound, HandSoundOf
  <1>6. /\ D => takesBack /\ p \in Pair
        /\ a \in Editor => p = NoPair /\ ~takesBack /\ task[a].client = "waits"
        /\ task[a].client = "reopens" => (task[a].pc \in Mutating => p \in doubtful)
    BY <1>1, <1>5, DispositionsAssumption DEF TaskSoundOf, Mutating
  <1>7. p \in doubtful' \/ u.client = "waits" \/ task[a].pc \notin {"close", "answer"}
    BY <1>2, <1>3, <1>6 DEF Mutating
  <1> HIDE DEF u
  <1>8. TypeOK'
    BY <1>2, <1>4, <1>6 DEF DispositionsInv, TypeOK
  <1>9. TaskSoundOf(a)'
    BY <1>1, <1>3, <1>4, <1>5, <1>6, DispositionsAssumption DEF TaskSoundOf, Mutating, Inside
  <1>10. Grows /\ GoneWasDeleted'
    BY <1>2 DEF Grows, DispositionsInv, GoneWasDeleted
  <1>11. \A q \in Pair : Minds(a, q) => Minds(a, q)'
    BY <1>3, <1>4, <1>6, DispositionsAssumption DEF Minds, Mutating
  <1>12. Tidy(a)
    BY <1>2, <1>11 DEF Tidy
  <1>13. CarriedSound'
    BY <1>2 DEF DispositionsInv, CarriedSound
  <1>14. ASSUME NEW q \in Pair, a \in Reviewer PROVE HandSoundOf(a, q)'
    <2> SUFFICES ASSUME InHand(a, q)'
                 PROVE  /\ pairs'[q] \notin {"none", "cached"}
                        /\ \A s \in Reviewer \ {a} : InHand(s, q)' => q \in doubtful'
                        /\ q \notin doubtful' => q \notin carried'
      BY <1>3, <1>4 DEF HandSoundOf, Mutating
    <2>1. q = p /\ u.client = "reopens"
      BY <1>3, <1>4 DEF InHand
    <2>2. \A s \in Reviewer \ {a} : InHand(s, q)' => InHand(s, q)
      BY <1>4 DEF InHand
    <2>3. HandSoundOf(a, q) /\ InHand(a, q)
      BY <1>5, <1>14, <2>1
    <2>4. doubtful \subseteq doubtful'
      BY <1>2
    <2> QED BY <1>2, <1>7, <2>1, <2>2, <2>3, <2>4 DEF HandSoundOf
  <1>15. [Promise!Next]_promiseVars
    <2>1. CASE ~D
      BY <1>2, <2>1 DEF promiseVars
    <2>2. CASE D
      <3>1. pairs[p] \notin {"none", "cached"} /\ p \in Pair
        BY <1>5, <2>2 DEF HandSoundOf
      <3>2. Promise!Doubt(p)
        BY <1>2, <2>2, <3>1 DEF Promise!Doubt
      <3> QED BY <3>1, <3>2 DEF Promise!Next
    <2> QED BY <2>1, <2>2
  <1> QED BY <1>2, <1>4, <1>8, <1>9, <1>10, <1>12, <1>13, <1>14, <1>15 DEF Good, StepOf

LEMMA TimeOutGood ==
  ASSUME DispositionsInv, NEW a \in Actor, TimeOut(a)
  PROVE  Good(a)
  <1> DEFINE p == task[a].pair
             D == task[a].pc \in Mutating
             u == [task[a] EXCEPT !.client = IF D THEN "reopens" ELSE "gone"]
  <1>1. /\ a \in Reviewer /\ a \notin Editor
        /\ task[a].client = "waits" /\ task[a].pc \in Inside /\ TaskSoundOf(a)
    BY TaskFacts, DispositionsAssumption DEF TimeOut
  <1>2. /\ task' = [task EXCEPT ![a] = u]
        /\ doubtful' = IF D THEN doubtful \cup {p} ELSE doubtful
        /\ UNCHANGED <<pairs, memory, past, check, carried, abandoned>>
    BY DEF TimeOut, storeVars
  <1>3. /\ u \in Task /\ u.pc = task[a].pc /\ u.pair = p /\ u.m = task[a].m
        /\ u.text = task[a].text /\ u.act = task[a].act
        /\ u.client = IF D THEN "reopens" ELSE "gone"
    BY TaskFacts DEF Task
  <1>4. /\ task' \in [Actor -> Task] /\ task'[a] = u
        /\ \A b \in Actor \ {a} : task'[b] = task[b]
    BY <1>2, <1>3, TaskFacts
  <1>5. p \in Pair /\ HandSoundOf(a, p) /\ InHand(a, p)
    <2>1. p \in Pair /\ InHand(a, p)
      BY <1>1 DEF TaskSoundOf, InHand, Inside
    <2> QED BY <1>1, <2>1 DEF DispositionsInv, HandSound, HandSoundOf
  <1> HIDE DEF u
  <1>6. TypeOK'
    BY <1>2, <1>4, <1>5 DEF DispositionsInv, TypeOK
  <1>7. TaskSoundOf(a)'
    BY <1>1, <1>2, <1>3, <1>4, <1>5 DEF TaskSoundOf, Mutating
  <1>8. Grows /\ GoneWasDeleted'
    BY <1>2 DEF Grows, DispositionsInv, GoneWasDeleted
  <1>9. \A q \in Pair : Minds(a, q) => Minds(a, q)'
    BY <1>1, <1>3, <1>4 DEF Minds, Mutating
  <1>10. Tidy(a)
    BY <1>2, <1>9 DEF Tidy
  <1>11. CarriedSound'
    BY <1>2 DEF DispositionsInv, CarriedSound
  <1>12. ASSUME NEW q \in Pair PROVE HandSoundOf(a, q)'
    <2> SUFFICES ASSUME InHand(a, q)', q = p
                 PROVE  /\ pairs'[q] \notin {"none", "cached"}
                        /\ \A s \in Reviewer \ {a} : InHand(s, q)' => q \in doubtful'
                        /\ q \notin doubtful' =>
                             /\ task'[a].pc \in Mutating => pairs'[q] # "open"
                             /\ task'[a].pc \notin {"close", "answer"} => q \notin carried'
      BY <1>3, <1>4 DEF HandSoundOf, InHand
    <2>1. \A s \in Reviewer \ {a} : InHand(s, q)' => InHand(s, q)
      BY <1>4 DEF InHand
    <2>2. HandSoundOf(a, q) /\ InHand(a, q)
      BY <1>5
    <2>3. doubtful \subseteq doubtful'
      BY <1>2
    <2> QED BY <1>2, <1>3, <1>4, <2>1, <2>2, <2>3 DEF HandSoundOf
  <1>13. [Promise!Next]_promiseVars
    <2>1. CASE ~D
      BY <1>2, <2>1 DEF promiseVars
    <2>2. CASE D
      <3>1. Promise!Doubt(p)
        BY <1>2, <1>5, <2>2 DEF Promise!Doubt, HandSoundOf
      <3> QED BY <1>5, <3>1 DEF Promise!Next
    <2> QED BY <2>1, <2>2
  <1> QED BY <1>2, <1>4, <1>6, <1>7, <1>8, <1>10, <1>11, <1>12, <1>13 DEF Good, StepOf

LEMMA KilledGood ==
  ASSUME DispositionsInv, NEW a \in Actor, Killed(a)
  PROVE  Good(a)
  <1> DEFINE p == task[a].pair
             g == [task[a] EXCEPT !.client = "gone"]
  <1>1. /\ a \in Reviewer /\ a \notin Editor /\ TaskSoundOf(a)
        /\ task[a].pc \notin {"idle", "done"} \/ task[a].client = "reopens"
        /\ task[a].client # "gone"
    BY TaskFacts, DispositionsAssumption DEF Killed
  <1>2. /\ abandoned' = IF task[a].pc \in Mutating \/ task[a].client = "reopens"
                        THEN abandoned \cup {p} ELSE abandoned
        /\ UNCHANGED <<pairs, memory, past, check, carried, doubtful>>
    BY DEF Killed, storeVars
  <1>3. PICK u \in Task :
          /\ task' = [task EXCEPT ![a] = u]
          /\ \/ u.pc = "done" /\ u.client = "waits" /\ u.pair = NoPair
             \/ /\ task[a].pc \in Inside /\ u.pc = task[a].pc /\ u.client = "gone"
                /\ u.pair = p /\ u.m = task[a].m /\ u.text = task[a].text /\ u.act = task[a].act
    <2>1. CASE Become(a, Finished)
      <3>1. /\ Finished \in Task /\ Finished.pc = "done"
            /\ Finished.client = "waits" /\ Finished.pair = NoPair
        BY DEF Finished, NoTask, Task
      <3> QED BY <2>1, <3>1 DEF Become
    <2>2. CASE task[a].pc \in Inside /\ task' = [task EXCEPT ![a].client = "gone"]
      <3>1. g \in Task /\ task' = [task EXCEPT ![a] = g]
        BY <2>2, TaskFacts DEF Task
      <3>2. /\ g.pc = task[a].pc /\ g.client = "gone" /\ g.pair = p /\ g.m = task[a].m
            /\ g.text = task[a].text /\ g.act = task[a].act
        BY TaskFacts DEF Task
      <3> QED BY <2>2, <3>1, <3>2
    <2> QED BY <2>1, <2>2 DEF Killed
  <1>4. /\ task' \in [Actor -> Task] /\ task'[a] = u
        /\ \A b \in Actor \ {a} : task'[b] = task[b]
    BY <1>3, TaskFacts
  <1>5. p \in Pair /\ HandSoundOf(a, p) /\ InHand(a, p)
    <2>1. p \in Pair /\ InHand(a, p)
      BY <1>1 DEF TaskSoundOf, InHand
    <2> QED BY <1>1, <2>1 DEF DispositionsInv, HandSound, HandSoundOf
  <1>6. TypeOK'
    BY <1>2, <1>4, <1>5 DEF DispositionsInv, TypeOK
  <1>7. TaskSoundOf(a)'
    BY <1>1, <1>2, <1>3, <1>4, <1>5 DEF TaskSoundOf
  <1>8. Grows /\ GoneWasDeleted'
    BY <1>2 DEF Grows, DispositionsInv, GoneWasDeleted
  <1>9. \A q \in Pair : Minds(a, q) => q \in abandoned'
    BY <1>2 DEF Minds, Mutating
  <1>10. Tidy(a)
    BY <1>2, <1>9 DEF Tidy
  <1>11. CarriedSound'
    BY <1>2 DEF DispositionsInv, CarriedSound
  <1>12. ASSUME NEW q \in Pair PROVE HandSoundOf(a, q)'
    <2> SUFFICES ASSUME InHand(a, q)', q = p, u.pc = task[a].pc
                 PROVE  /\ pairs[q] \notin {"none", "cached"}
                        /\ \A s \in Reviewer \ {a} : InHand(s, q)' => q \in doubtful
                        /\ q \notin doubtful =>
                             /\ task[a].pc \in Mutating => pairs[q] # "open"
                             /\ task[a].pc \notin {"close", "answer"} => q \notin carried
      BY <1>2, <1>3, <1>4 DEF HandSoundOf, InHand
    <2>1. \A s \in Reviewer \ {a} : InHand(s, q)' => InHand(s, q)
      BY <1>4 DEF InHand
    <2>2. HandSoundOf(a, q) /\ InHand(a, q)
      BY <1>5
    <2> QED BY <2>1, <2>2 DEF HandSoundOf
  <1>13. [Promise!Next]_promiseVars
    BY <1>2 DEF promiseVars
  <1> QED BY <1>2, <1>4, <1>6, <1>7, <1>8, <1>10, <1>11, <1>12, <1>13 DEF Good, StepOf

-------------------------------------------------------------------------------
(* Stale checks *)

\* A check changes its own state and may put one judgment on record.
ChecksOnly ==
  /\ UNCHANGED <<memory, past, task, carried, doubtful, abandoned>>
  /\ check' \in [Checker -> Check]
  /\ \A k \in Checker : CheckSoundOf(k)'
  /\ \/ UNCHANGED pairs
     \/ \E p \in Pair, d \in {"open", "cached"} : record_judgment(p, d)

LEMMA ChecksKeep ==
  ASSUME DispositionsInv, ChecksOnly
  PROVE  DispositionsInv' /\ [Promise!Next]_promiseVars
  <1>1. pairs \in [Pair -> Disposition]
    BY DEF DispositionsInv, TypeOK
  <1>2. /\ pairs' \in [Pair -> Disposition]
        /\ \A p \in Pair : \/ pairs'[p] = pairs[p]
                           \/ pairs[p] = "none" /\ pairs'[p] \in {"open", "cached"}
    BY <1>1 DEF ChecksOnly, record_judgment, Judged, Disposition
  <1>3. TypeOK'
    BY <1>2 DEF DispositionsInv, TypeOK, ChecksOnly
  <1>4. TasksSound'
    <2>1. ASSUME NEW a \in Actor PROVE TaskSoundOf(a)'
      BY DEF ChecksOnly, DispositionsInv, TasksSound, TaskSoundOf
    <2> QED BY <2>1 DEF ChecksOnly, TasksSound
  <1>5. GoneWasDeleted'
    BY DEF ChecksOnly, DispositionsInv, GoneWasDeleted
  <1>6. ClosedForReason'
    BY <1>2 DEF ChecksOnly, DispositionsInv, ClosedForReason
  <1>7. NothingHalfDone'
    BY <1>2 DEF ChecksOnly, DispositionsInv, NothingHalfDone, Minds, Promise!Acted
  <1>8. HandSound'
    BY <1>2 DEF ChecksOnly, DispositionsInv, HandSound, InHand
  <1>9. CarriedSound'
    BY <1>2 DEF ChecksOnly, DispositionsInv, TypeOK, CarriedSound
  <1>10. [Promise!Next]_promiseVars
    <2>1. CASE UNCHANGED pairs
      BY <2>1 DEF ChecksOnly, promiseVars
    <2>2. CASE \E p \in Pair, d \in {"open", "cached"} : record_judgment(p, d)
      <3>1. PICK p \in Pair, d \in {"open", "cached"} : record_judgment(p, d)
        BY <2>2
      <3>2. CASE pairs[p] = "none"
        <4>1. Promise!Judge(p)
          BY <3>1, <3>2 DEF Promise!Judge, record_judgment, Judged, ChecksOnly
        <4> QED BY <4>1 DEF Promise!Next
      <3>3. CASE pairs[p] # "none"
        BY <3>1, <3>3 DEF record_judgment, Judged, ChecksOnly, promiseVars
      <3> QED BY <3>2, <3>3
    <2> QED BY <2>1, <2>2 DEF ChecksOnly
  <1> QED BY <1>3, <1>4, <1>5, <1>6, <1>7, <1>8, <1>9, <1>10 DEF DispositionsInv

LEMMA CheckFacts ==
  ASSUME DispositionsInv, NEW k \in Checker
  PROVE  check \in [Checker -> Check] /\ check[k] \in Check /\ CheckSoundOf(k)
  BY DEF DispositionsInv, TypeOK, TasksSound

\* A check moves to a sound state.
LEMMA CheckMoves ==
  ASSUME DispositionsInv, NEW k \in Checker, NEW c \in Check,
         check' = [check EXCEPT ![k] = c],
         c.pc \notin {"idle", "done"} => c.m \in Memory /\ c.text \in Text,
         \A x \in c.todo : x.id # c.m
  PROVE  check' \in [Checker -> Check] /\ \A j \in Checker : CheckSoundOf(j)'
  <1>1. check \in [Checker -> Check] /\ \A j \in Checker : CheckSoundOf(j)
    BY DEF DispositionsInv, TypeOK, TasksSound
  <1>2. check' \in [Checker -> Check] /\ check'[k] = c /\ \A j \in Checker \ {k} : check'[j] = check[j]
    BY <1>1
  <1> QED BY <1>1, <1>2 DEF CheckSoundOf

LEMMA ChecksGood ==
  ASSUME DispositionsInv, NEW k \in Checker, Checks(k)
  PROVE  DispositionsInv' /\ [Promise!Next]_promiseVars
  <1> USE DEF storeVars, historyVars
  <1>0. /\ check \in [Checker -> Check] /\ check[k] \in Check /\ CheckSoundOf(k)
        /\ memory \in [Memory -> Entry]
    BY CheckFacts DEF DispositionsInv, TypeOK
  <1>a. check[k].pc \notin {"idle", "done"} => check[k].m \in Memory /\ check[k].text \in Text
    BY <1>0 DEF CheckSoundOf
  <1>b. \A x \in check[k].todo : x.id # check[k].m
    BY <1>0 DEF CheckSoundOf
  <1>1. CASE run_stale_check(k)
    <2>1. PICK m \in Memory :
            check' = [check EXCEPT ![k] = [NoCheck EXCEPT !.pc = "self", !.m = m,
                                                          !.text = memory[m].text,
                                                          !.kinds = SelfKind]]
      BY <1>1 DEF run_stale_check, Active, Stored
    <2> DEFINE c == [NoCheck EXCEPT !.pc = "self", !.m = m, !.text = memory[m].text,
                                    !.kinds = SelfKind]
    <2>2. c \in Check /\ c.m \in Memory /\ c.text \in Text /\ c.todo = {}
      BY <1>0 DEF NoCheck, Check, Entry
    <2>3. check' = [check EXCEPT ![k] = c]
      BY <2>1
    <2> HIDE DEF c
    <2>4. ChecksOnly
      BY <1>1, <2>2, <2>3, CheckMoves DEF run_stale_check, ChecksOnly
    <2> QED BY <2>4, ChecksKeep
  <1>2. CASE SelfLook(k)
    <2>1. PICK c \in Check :
            /\ check' = [check EXCEPT ![k] = c]
            /\ c.m = check[k].m /\ c.text = check[k].text /\ c.todo = check[k].todo
      <3>1. CASE check[k].kinds = {}
        <4> DEFINE c == [check[k] EXCEPT !.pc = "search"]
        <4>1. /\ c \in Check /\ c.m = check[k].m /\ c.text = check[k].text
              /\ c.todo = check[k].todo /\ check' = [check EXCEPT ![k] = c]
          BY <1>0, <1>2, <3>1 DEF SelfLook, Check
        <4> QED BY <4>1
      <3>2. CASE check[k].kinds # {}
        <4>1. PICK kind \in check[k].kinds :
                check' = [check EXCEPT
                  ![k].kinds = IF Judged(Self(kind, check[k].m, check[k].text))
                               THEN @ \ {kind} ELSE @,
                  ![k].pc = IF Judged(Self(kind, check[k].m, check[k].text))
                            THEN "self" ELSE "ask"]
          BY <1>2, <3>2 DEF SelfLook
        <4> DEFINE J == Judged(Self(kind, check[k].m, check[k].text))
                   c == [check[k] EXCEPT !.kinds = IF J THEN @ \ {kind} ELSE @,
                                         !.pc = IF J THEN "self" ELSE "ask"]
        <4>2. check' = [check EXCEPT ![k] = c]
          BY <1>0, <4>1 DEF Check
        <4> HIDE DEF J
        <4>3. /\ c \in Check /\ c.m = check[k].m /\ c.text = check[k].text
              /\ c.todo = check[k].todo
          BY <1>0 DEF Check
        <4> QED BY <4>2, <4>3
      <3> QED BY <3>1, <3>2
    <2>2. check[k].pc = "self" /\ UNCHANGED <<pairs, memory, past, task, carried, doubtful, abandoned>>
      BY <1>2 DEF SelfLook
    <2>3. /\ c.m \in Memory /\ c.text \in Text
          /\ \A x \in c.todo : x.id # c.m
      BY <1>a, <1>b, <2>1, <2>2
    <2>4. check' \in [Checker -> Check] /\ \A j \in Checker : CheckSoundOf(j)'
      BY <2>1, <2>3, CheckMoves
    <2>5. ChecksOnly
      BY <2>2, <2>4 DEF ChecksOnly
    <2> QED BY <2>5, ChecksKeep
  <1>3. CASE SelfRecord(k)
    <2>1. PICK kind \in check[k].kinds, d \in {"open", "cached"} :
            /\ record_judgment(Self(kind, check[k].m, check[k].text), d)
            /\ check' = [check EXCEPT ![k].pc = "self", ![k].kinds = @ \ {kind}]
      BY <1>3 DEF SelfRecord
    <2>2. check[k].m \in Memory /\ check[k].text \in Text /\ kind \in SelfKind
      BY <1>0, <1>3 DEF SelfRecord, CheckSoundOf, Check
    <2>3. Self(kind, check[k].m, check[k].text) \in Pair
      BY <2>2 DEF Self, Pair, SelfKind
    <2> DEFINE c == [check[k] EXCEPT !.pc = "self", !.kinds = @ \ {kind}]
    <2>4. /\ c \in Check /\ c.m = check[k].m /\ c.text = check[k].text
          /\ c.todo = check[k].todo /\ check' = [check EXCEPT ![k] = c]
      BY <1>0, <2>1 DEF Check
    <2> HIDE DEF c
    <2>a. /\ c.m \in Memory /\ c.text \in Text
          /\ \A x \in c.todo : x.id # c.m
      BY <1>b, <2>2, <2>4
    <2>5. check' \in [Checker -> Check] /\ \A j \in Checker : CheckSoundOf(j)'
      BY <2>4, <2>a, CheckMoves
    <2>6. ChecksOnly
      BY <1>3, <2>1, <2>3, <2>5 DEF SelfRecord, ChecksOnly
    <2> QED BY <2>6, ChecksKeep
  <1>4. CASE Search(k)
    <2>1. PICK C \in SUBSET {[id |-> m, text |-> memory[m].text] : m \in Active \ {check[k].m}} :
            check' = [check EXCEPT ![k].pc = "judge", ![k].todo = C]
      BY <1>4 DEF Search
    <2>2. C \in SUBSET Candidate /\ \A x \in C : x.id # check[k].m
      <3>1. \A m \in Memory : memory[m].text \in Text
        BY <1>0 DEF Entry
      <3>2. ASSUME NEW x \in C
            PROVE  x \in Candidate /\ x.id # check[k].m
        <4>1. PICK m \in Active \ {check[k].m} : x = [id |-> m, text |-> memory[m].text]
          BY <2>1
        <4>2. m \in Memory /\ m # check[k].m
          BY <4>1 DEF Active, Stored
        <4> QED BY <3>1, <4>1, <4>2 DEF Candidate
      <3> QED BY <3>2
    <2> DEFINE c == [check[k] EXCEPT !.pc = "judge", !.todo = C]
    <2>3. /\ c \in Check /\ c.m = check[k].m /\ c.text = check[k].text
          /\ c.todo = C /\ check' = [check EXCEPT ![k] = c]
      BY <1>0, <2>1, <2>2 DEF Check
    <2> HIDE DEF c
    <2>4. check[k].pc = "search" /\ UNCHANGED <<pairs, memory, past, task, carried, doubtful, abandoned>>
      BY <1>4 DEF Search
    <2>5. /\ c.m \in Memory /\ c.text \in Text
          /\ \A x \in c.todo : x.id # c.m
      BY <1>a, <2>2, <2>3, <2>4
    <2>6. check' \in [Checker -> Check] /\ \A j \in Checker : CheckSoundOf(j)'
      BY <2>3, <2>5, CheckMoves
    <2>7. ChecksOnly
      BY <2>4, <2>6 DEF ChecksOnly
    <2> QED BY <2>7, ChecksKeep
  <1>5. CASE Judge(k)
    <2>1. PICK C \in SUBSET check[k].todo :
            check' = [check EXCEPT ![k].pc = "record", ![k].todo = C]
      BY <1>5 DEF Judge
    <2> DEFINE c == [check[k] EXCEPT !.pc = "record", !.todo = C]
    <2>2. /\ c \in Check /\ c.m = check[k].m /\ c.text = check[k].text
          /\ c.todo = C /\ check' = [check EXCEPT ![k] = c]
      BY <1>0, <2>1 DEF Check
    <2> HIDE DEF c
    <2>3. check[k].pc = "judge" /\ UNCHANGED <<pairs, memory, past, task, carried, doubtful, abandoned>>
      BY <1>5 DEF Judge
    <2>4. /\ c.m \in Memory /\ c.text \in Text
          /\ \A x \in c.todo : x.id # c.m
      BY <1>a, <1>b, <2>1, <2>2, <2>3
    <2>5. check' \in [Checker -> Check] /\ \A j \in Checker : CheckSoundOf(j)'
      BY <2>2, <2>4, CheckMoves
    <2>6. ChecksOnly
      BY <2>3, <2>5 DEF ChecksOnly
    <2> QED BY <2>6, ChecksKeep
  <1>6. CASE Record(k)
    <2>1. PICK x \in check[k].todo, d \in {"open", "cached"} :
            /\ record_judgment(Displacement(check[k].m, x.id, x.text), d)
            /\ check' = [check EXCEPT ![k].todo = @ \ {x}]
      BY <1>6 DEF Record
    <2>2. /\ check[k].m \in Memory /\ check[k].text \in Text
          /\ x \in Candidate /\ x.id # check[k].m
      BY <1>0, <1>6 DEF Record, CheckSoundOf, Check
    <2>3. Displacement(check[k].m, x.id, x.text) \in Pair
      BY <2>2, PairAssumption DEF Displacement, Pair, SelfKind, Candidate
    <2> DEFINE c == [check[k] EXCEPT !.todo = @ \ {x}]
    <2>4. /\ c \in Check /\ c.m = check[k].m /\ c.text = check[k].text
          /\ c.todo = check[k].todo \ {x} /\ check' = [check EXCEPT ![k] = c]
      BY <1>0, <2>1 DEF Check
    <2> HIDE DEF c
    <2>5. check' \in [Checker -> Check] /\ \A j \in Checker : CheckSoundOf(j)'
      BY <1>0, <2>2, <2>4, CheckMoves DEF CheckSoundOf
    <2>6. ChecksOnly
      BY <1>6, <2>1, <2>3, <2>5 DEF Record, ChecksOnly
    <2> QED BY <2>6, ChecksKeep
  <1>7. CASE EndCheck(k)
    <2> DEFINE c == [NoCheck EXCEPT !.pc = "done"]
    <2>1. c \in Check /\ c.pc = "done" /\ c.todo = {} /\ check' = [check EXCEPT ![k] = c]
      BY <1>7 DEF EndCheck, NoCheck, Check
    <2> HIDE DEF c
    <2>2. ChecksOnly
      BY <1>7, <2>1, CheckMoves DEF EndCheck, ChecksOnly
    <2> QED BY <2>2, ChecksKeep
  <1> QED BY <1>1, <1>2, <1>3, <1>4, <1>5, <1>6, <1>7 DEF Checks

-------------------------------------------------------------------------------
(* The specification *)

LEMMA InitKeeps ==
  ASSUME Init
  PROVE  DispositionsInv /\ Promise!Init
  <1> USE DEF Init, PairsInit
  <1>1. /\ \A p \in Pair : pairs[p] = "none"
        /\ \A a \in Actor : task[a] = NoTask
        /\ \A k \in Checker : check[k] = NoCheck
    OBVIOUS
  <1>2. NoTask \in Task /\ NoCheck \in Check
    BY DEF NoTask, NoCheck, Task, Check
  <1>3. /\ NoTask.pc = "idle" /\ NoTask.client = "waits" /\ NoTask.pair = NoPair
        /\ NoCheck.pc = "idle" /\ NoCheck.todo = {}
    BY DEF NoTask, NoCheck
  <1>4. memory \in [Memory -> Entry] /\ \A m \in Memory : memory[m].stored
    OBVIOUS
  <1>5. past \in [Memory -> Past]
    <2>1. \A m \in Memory : memory[m].text \in Text
      BY <1>4 DEF Entry
    <2> QED BY <2>1 DEF Past
  <1>6. TypeOK
    BY <1>2, <1>4, <1>5 DEF TypeOK, Disposition
  <1>7. TasksSound
    BY <1>1, <1>3 DEF TasksSound, CheckSoundOf, TaskSoundOf
  <1>8. GoneWasDeleted /\ ClosedForReason /\ NothingHalfDone
    BY <1>1, <1>4 DEF GoneWasDeleted, ClosedForReason, NothingHalfDone, Promise!Acted
  <1>9. HandSound /\ CarriedSound
    BY <1>1, <1>3 DEF HandSound, CarriedSound, InHand
  <1>10. Promise!Init
    BY DEF Promise!Init
  <1> QED BY <1>6, <1>7, <1>8, <1>9, <1>10 DEF DispositionsInv

LEMMA ActsGood ==
  ASSUME DispositionsInv, NEW a \in Actor, Acts(a)
  PROVE  Good(a)
  BY LoadOpenPairGood, DisposeGood, ReopenGood, invalidateGood, AcceptGood, WriteGood,
     CloseForOldGood, AnswerGood, reviveGood, ClearGood, updateGood, GetGood, ReadGood,
     UpsertGood, ExpireGood, deleteGood, DeletePointGood, ForgetGood, delete_allGood,
     FailGood, TimeOutGood, KilledGood
  DEF Acts

LEMMA NextKeeps ==
  ASSUME DispositionsInv, [Next]_vars
  PROVE  DispositionsInv' /\ [Promise!Next]_promiseVars
  <1>1. CASE UNCHANGED vars
    <2>1. ChecksOnly
      BY <1>1 DEF vars, ChecksOnly, DispositionsInv, TypeOK, TasksSound, CheckSoundOf
    <2> QED BY <2>1, ChecksKeep
  <1>2. CASE \E k \in Checker : Checks(k)
    BY <1>2, ChecksGood
  <1>3. CASE \E a \in Actor : Acts(a)
    BY <1>3, ActsGood, StepKeeps DEF Good
  <1> QED BY <1>1, <1>2, <1>3 DEF Next

\* In every behaviour, whatever the numbers of checks, reviewers and editors:
\* pairs close for a reason, and no decision is left half done.
THEOREM PairsAreSound == Spec => []DispositionsInv
  <1>1. Init => DispositionsInv
    BY InitKeeps
  <1>2. DispositionsInv /\ [Next]_vars => DispositionsInv'
    BY NextKeeps
  <1> QED BY <1>1, <1>2, PTL DEF Spec

\* Pairs that were closed without a decision had lost their object.
THEOREM ClosingHasAReason == Spec => []ClosedForReason
  <1>1. DispositionsInv => ClosedForReason
    BY DEF DispositionsInv
  <1> QED BY <1>1, PairsAreSound, PTL

\* _dispose_with_rollback leaves no decision behind whose change was not made,
\* unless the command was killed.
THEOREM RollbackIsComplete == Spec => []NothingHalfDone
  <1>1. DispositionsInv => NothingHalfDone
    BY DEF DispositionsInv
  <1> QED BY <1>1, PairsAreSound, PTL

\* Every step of the checks, reviews and edits is one that Suspicions allows.
THEOREM SuspicionsAreKept == Spec => KeepsSuspicions
  <1>1. Init => Promise!Init
    BY InitKeeps
  <1>2. DispositionsInv /\ [Next]_vars => [Promise!Next]_<<pairs, carried, doubtful>>
    BY NextKeeps DEF promiseVars
  <1> QED BY <1>1, <1>2, PairsAreSound, PTL DEF Spec, KeepsSuspicions, Promise!Spec
===============================================================================
