----------------------------- MODULE Dispositions -----------------------------
(***************************************************************************)
(* Suspicions and what becomes of them.  Stale checks judge memories and   *)
(* record pairs; reviewers load a pair, decide it, change the store, and   *)
(* take the decision back when that fails; editors update, invalidate,     *)
(* revive and delete the same memories meanwhile.                          *)
(*                                                                         *)
(* A step is one read or one write of the vector store or of the pair      *)
(* store.  Operations hold at most the shared side of the store gate, and  *)
(* a reviewer's steps outside the operations hold nothing, so all of them  *)
(* interleave; a reviewer asked for confirmation may take his time.  What  *)
(* invalidate reads before it writes is one step here, and apart in        *)
(* Supersession with the walk that may refuse it.  The bound: a checker, a *)
(* reviewer and an editor has one task.                                    *)
(***************************************************************************)
EXTENDS PairStore

CONSTANTS Checker, Reviewer, Editor, NoPair, NoMemory, NoText

ASSUME DispositionsAssumption ==
  /\ Reviewer \cap Editor = {}
  /\ NoPair \notin Pair
  /\ NoMemory \notin Memory
  /\ NoText \notin Text

Actor == Reviewer \cup Editor

VARIABLES
  memory,     \* the vector store
  task,       \* what each reviewer and editor is doing
  check,      \* the stale checks
  carried,    \* history: pairs whose decision changed the store
  doubtful,   \* history: pairs two reviewers had in hand, or without an answer
  abandoned,  \* history: pairs whose reviewer was killed
  past        \* history: what each memory has been

vars == <<pairs, memory, task, check, carried, doubtful, abandoned, past>>
storeVars == <<memory, past>>
historyVars == <<carried, doubtful, abandoned>>

\* "superseded" is the field superseded_by: absent, null, or successors.
Entry == [stored : BOOLEAN, text : Text, superseded : {"absent", "null", "yes"}]

Past == [texts : SUBSET Text, superseded : BOOLEAN, deleted : BOOLEAN]

Candidate == [id : Memory, text : Text]

\* "client" is the command that runs the task: when it has gone, or has had no
\* answer in time and takes its decision back, the daemon goes on.
Task == [pc : {"idle", "get", "read", "upsert", "expire", "dispose", "check", "write",
               "close", "answer", "clear", "delete", "forget", "done"},
         client : {"waits", "reopens", "gone"},
         pair : Pair \cup {NoPair},
         act : {"undecided", "dismissed", "confirmed", "ttl", "merged"},
         m : Memory \cup {NoMemory},    \* the memory the step is about
         by : Memory \cup {NoMemory},   \* what supersedes it; none for set_ttl
         text : Text \cup {NoText},     \* the new text
         seen : {"absent", "null", "yes"}]

Check == [pc : {"idle", "self", "ask", "search", "judge", "record", "done"},
          m : Memory \cup {NoMemory}, text : Text \cup {NoText},
          kinds : SUBSET SelfKind, todo : SUBSET Candidate]

TypeOK ==
  /\ pairs \in [Pair -> Disposition]
  /\ memory \in [Memory -> Entry]
  /\ task \in [Actor -> Task]
  /\ check \in [Checker -> Check]
  /\ carried \subseteq Pair
  /\ doubtful \subseteq Pair
  /\ abandoned \subseteq Pair
  /\ past \in [Memory -> Past]

NoTask == [pc |-> "idle", client |-> "waits", pair |-> NoPair, act |-> "undecided",
           m |-> NoMemory, by |-> NoMemory, text |-> NoText, seen |-> "absent"]
Finished == [NoTask EXCEPT !.pc = "done"]
NoCheck == [pc |-> "idle", m |-> NoMemory, text |-> NoText, kinds |-> {}, todo |-> {}]

\* A store that has been added to, and whose memories were never touched.
Init ==
  /\ PairsInit
  /\ memory \in [Memory -> {e \in Entry : e.stored /\ e.superseded = "absent"}]
  /\ task = [a \in Actor |-> NoTask]
  /\ check = [k \in Checker |-> NoCheck]
  /\ carried = {}
  /\ doubtful = {}
  /\ abandoned = {}
  /\ past = [m \in Memory |-> [texts |-> {memory[m].text}, superseded |-> FALSE, deleted |-> FALSE]]

Stored == {m \in Memory : memory[m].stored}
Active == {m \in Stored : memory[m].superseded # "yes"}

--------------------------------------------------------------------------------
(* run_stale_check *)

run_stale_check(k) ==
  /\ check[k].pc = "idle"
  /\ \E m \in Active :
       check' = [check EXCEPT ![k] = [NoCheck EXCEPT !.pc = "self", !.m = m,
                                                     !.text = memory[m].text,
                                                     !.kinds = SelfKind]]
  /\ UNCHANGED <<pairs, storeVars, task, historyVars>>

\* _run_self_checks, one kind after the other; no kind looks at another's rows.
SelfLook(k) ==
  /\ check[k].pc = "self"
  /\ check' \in
       IF check[k].kinds = {} THEN {[check EXCEPT ![k].pc = "search"]}
       ELSE {[check EXCEPT ![k].kinds = IF Judged(Self(kind, check[k].m, check[k].text))
                                        THEN @ \ {kind} ELSE @,
                           ![k].pc = IF Judged(Self(kind, check[k].m, check[k].text))
                                     THEN "self" ELSE "ask"] : kind \in check[k].kinds}
  /\ UNCHANGED <<pairs, storeVars, task, historyVars>>

SelfRecord(k) ==
  /\ check[k].pc = "ask"
  /\ \E kind \in check[k].kinds, d \in {"open", "cached"} :
       /\ record_judgment(Self(kind, check[k].m, check[k].text), d)
       /\ check' = [check EXCEPT ![k].pc = "self", ![k].kinds = @ \ {kind}]
  /\ UNCHANGED <<storeVars, task, historyVars>>

\* What is similar is left open.
Search(k) ==
  /\ check[k].pc = "search"
  /\ \E C \in SUBSET {[id |-> m, text |-> memory[m].text] : m \in Active \ {check[k].m}} :
       check' = [check EXCEPT ![k].pc = "judge", ![k].todo = C]
  /\ UNCHANGED <<pairs, storeVars, task, historyVars>>

\* The pairs that are known are left out, and the judge may leave out more.
Judge(k) ==
  /\ check[k].pc = "judge"
  /\ LET todo == check[k].todo \ judged_either(check[k].m, check[k].text, check[k].todo)
     IN \E C \in SUBSET todo : check' = [check EXCEPT ![k].pc = "record", ![k].todo = C]
  /\ UNCHANGED <<pairs, storeVars, task, historyVars>>

Record(k) ==
  /\ check[k].pc = "record"
  /\ \E c \in check[k].todo, d \in {"open", "cached"} :
       /\ record_judgment(Displacement(check[k].m, c.id, c.text), d)
       /\ check' = [check EXCEPT ![k].todo = @ \ {c}]
  /\ UNCHANGED <<storeVars, task, historyVars>>

\* It is finished, or a model call or the daemon fails.
EndCheck(k) ==
  /\ check[k].pc \in {"ask", "search", "judge", "record"}
  /\ check' = [check EXCEPT ![k] = [NoCheck EXCEPT !.pc = "done"]]
  /\ UNCHANGED <<pairs, storeVars, task, historyVars>>

--------------------------------------------------------------------------------
(* stale confirm, ttl, dismiss, merge *)

Become(a, t) == task' = [task EXCEPT ![a] = t]
Goto(a, pc) == task' = [task EXCEPT ![a].pc = pc]
\* A client that is about to take its decision back still does.
Finish(a) ==
  Become(a, IF task[a].client = "reopens"
            THEN [Finished EXCEPT !.client = "reopens", !.pair = task[a].pair] ELSE Finished)

\* A self-suspicion has no superseder.  That of kind "safety" is confirmed by an
\* invalidation of the memory by itself, which is refused.
SupersededBy(p) == IF p.kind = "necessity" THEN NoMemory ELSE p.new

InHand(r, p) ==
  /\ task[r].pair = p
  /\ task[r].pc \notin {"idle", "done"} \/ task[r].client = "reopens"

\* _load_open_pair and the kinds a command is for.  Who may decide which pair
\* is not modelled: --force lets anybody.
LoadOpenPair(r) ==
  /\ task[r].pc = "idle" /\ r \in Reviewer
  /\ \E p \in Open, act \in {"dismissed", "confirmed", "ttl", "merged"}, text \in Text :
       /\ act = "confirmed" => p.kind # "correctness"
       /\ act = "ttl" => p.kind = "necessity"
       /\ act = "merged" => p.kind = "displacement"
       /\ Become(r, [NoTask EXCEPT !.pc = IF act = "merged" THEN "get" ELSE "dispose",
                                   !.pair = p, !.act = act,
                                   !.text = IF act = "merged" THEN text ELSE NoText,
                                   !.m = IF act = "merged" THEN p.new ELSE p.old])
       /\ doubtful' = IF \E s \in Reviewer \ {r} : InHand(s, p)
                      THEN doubtful \cup {p} ELSE doubtful
  /\ UNCHANGED <<pairs, storeVars, check, carried, abandoned>>

\* Whether there was an open pair left to close is not looked at.
Dispose(r) ==
  /\ task[r].pc = "dispose"
  /\ LET t == task[r]
     IN /\ dispose(t.pair, t.act)
        /\ IF t.act = "dismissed" THEN Finish(r)
           ELSE Become(r, [NoTask EXCEPT !.pc = "check", !.pair = t.pair,
                                         !.m = t.pair.old, !.by = SupersededBy(t.pair)])
  /\ UNCHANGED <<storeVars, check, historyVars>>

\* The rollback, once the mutation is known, or thought, to have failed.
Reopen(r) ==
  /\ task[r].client = "reopens"
  /\ reopen(task[r].pair)
  /\ Become(r, IF task[r].pc = "done" THEN Finished ELSE [task[r] EXCEPT !.client = "gone"])
  /\ UNCHANGED <<storeVars, check, historyVars>>

--------------------------------------------------------------------------------
(* The changes of the store that a decision, or an editor, asks for *)

invalidate(e) ==
  /\ task[e].pc = "idle" /\ e \in Editor
  /\ \E m, by \in Memory : Become(e, [NoTask EXCEPT !.pc = "check", !.m = m, !.by = by])
  /\ UNCHANGED <<pairs, storeVars, check, historyVars>>

\* The checks of invalidate, or of set_ttl; what they refuse fails.
Accept(a) ==
  /\ task[a].pc = "check"
  /\ LET t == task[a]
     IN /\ t.m \in Stored
        /\ t.by # NoMemory => t.m \in Active /\ t.by \in Stored \ {t.m}
  /\ Goto(a, "write")
  /\ UNCHANGED <<pairs, storeVars, check, historyVars>>

\* A payload update: nothing is written when the memory is gone by now.
Write(a) ==
  /\ task[a].pc = "write"
  /\ LET t == task[a]
         written == {t.m} \cap Stored
     IN /\ IF t.by = NoMemory THEN UNCHANGED storeVars
           ELSE /\ memory' = [m \in Memory |-> IF m \in written
                               THEN [memory[m] EXCEPT !.superseded = "yes"] ELSE memory[m]]
                /\ past' = [m \in Memory |-> IF m \in written
                             THEN [past[m] EXCEPT !.superseded = TRUE] ELSE past[m]]
        /\ carried' = carried \cup ({t.pair} \ {NoPair})
        /\ Goto(a, IF t.by = NoMemory THEN "answer" ELSE "close")
  /\ UNCHANGED <<pairs, check, doubtful, abandoned>>

CloseForOld(a) ==
  /\ task[a].pc = "close"
  /\ close_for_old(task[a].m, "obsoleted")
  /\ IF a \in Reviewer THEN Goto(a, "answer") ELSE Finish(a)
  /\ UNCHANGED <<storeVars, check, historyVars>>

Answer(a) ==
  /\ task[a].pc = "answer"
  /\ Finish(a)
  /\ UNCHANGED <<pairs, storeVars, check, historyVars>>

revive(e) ==
  /\ task[e].pc = "idle" /\ e \in Editor
  /\ \E m \in Stored \ Active : Become(e, [NoTask EXCEPT !.pc = "clear", !.m = m])
  /\ UNCHANGED <<pairs, storeVars, check, historyVars>>

Clear(e) ==
  /\ task[e].pc = "clear"
  /\ memory' = [m \in Memory |-> IF m \in {task[e].m} \cap Stored
                                 THEN [memory[m] EXCEPT !.superseded = "null"] ELSE memory[m]]
  /\ Finish(e)
  /\ UNCHANGED <<pairs, check, historyVars, past>>

--------------------------------------------------------------------------------
(* update, and the update that stale merge begins with *)

update(e) ==
  /\ task[e].pc = "idle" /\ e \in Editor
  /\ \E m \in Stored, text \in Text :
       Become(e, [NoTask EXCEPT !.pc = "read", !.m = m, !.text = text,
                                !.seen = memory[m].superseded])
  /\ UNCHANGED <<pairs, storeVars, check, historyVars>>

Get(r) ==
  /\ task[r].pc = "get"
  /\ task[r].m \in Stored
  /\ Become(r, [task[r] EXCEPT !.pc = "read", !.seen = memory[task[r].m].superseded])
  /\ UNCHANGED <<pairs, storeVars, check, historyVars>>

\* The metadata the command read lies over what the engine reads.
Read(a) ==
  /\ task[a].pc = "read"
  /\ task[a].m \in Stored
  /\ Become(a, [task[a] EXCEPT !.pc = "upsert",
                               !.seen = IF @ = "absent" THEN memory[task[a].m].superseded ELSE @])
  /\ UNCHANGED <<pairs, storeVars, check, historyVars>>

Upsert(a) ==
  /\ task[a].pc = "upsert"
  /\ LET t == task[a]
     IN /\ memory' = [memory EXCEPT ![t.m] = [stored |-> TRUE, text |-> t.text,
                                              superseded |-> t.seen]]
        /\ past' = [past EXCEPT ![t.m].texts = @ \cup {t.text}]
        /\ Become(a, [t EXCEPT !.pc = "expire", !.seen = "absent"])
  /\ UNCHANGED <<pairs, check, historyVars>>

\* An error of the pair store is swallowed.
Expire(a) ==
  /\ task[a].pc = "expire"
  /\ close_for_updated_text(task[a].m, task[a].text) \/ UNCHANGED pairs
  /\ IF a \in Reviewer /\ task[a].client = "waits"
     THEN Become(a, [task[a] EXCEPT !.pc = "dispose", !.m = task[a].pair.old, !.text = NoText])
     ELSE Finish(a)
  /\ UNCHANGED <<storeVars, check, historyVars>>

--------------------------------------------------------------------------------
(* delete *)

\* What delete_guard finds superseded is kept, and expires instead.
delete(e) ==
  /\ task[e].pc = "idle" /\ e \in Editor
  /\ \E m \in Active : Become(e, [NoTask EXCEPT !.pc = "delete", !.m = m])
  /\ UNCHANGED <<pairs, storeVars, check, historyVars>>

Delete(M) ==
  /\ memory' = [m \in Memory |-> IF m \in M THEN [memory[m] EXCEPT !.stored = FALSE] ELSE memory[m]]
  /\ past' = [m \in Memory |-> IF m \in M THEN [past[m] EXCEPT !.deleted = TRUE] ELSE past[m]]

DeletePoint(e) ==
  /\ task[e].pc = "delete"
  /\ task[e].m \in Stored
  /\ Delete({task[e].m})
  /\ Goto(e, "forget")
  /\ UNCHANGED <<pairs, check, historyVars>>

\* The command does this, after the answer.
Forget(e) ==
  /\ task[e].pc = "forget"
  /\ close_for_deleted_memory(task[e].m)
  /\ Finish(e)
  /\ UNCHANGED <<storeVars, check, historyVars>>

\* Where a task is inside an operation of the store.
Inside == {"read", "upsert", "expire", "check", "write", "close", "answer", "clear", "delete"}

\* delete --all, alone in the store; M is what its scope matches, or what it got
\* to before it failed.  No pair is closed.
delete_all(e) ==
  /\ task[e].pc = "idle" /\ e \in Editor
  /\ \A a \in Actor : task[a].pc \notin Inside
  /\ \A k \in Checker : check[k].pc \in {"idle", "done"}
  /\ \E M \in SUBSET Stored : Delete(M)
  /\ Finish(e)
  /\ UNCHANGED <<pairs, check, historyVars>>

--------------------------------------------------------------------------------
(* What goes wrong *)

\* The decision is on record and its mutation runs.
Mutating == {"check", "write", "close", "answer"}

\* A store raises, an operation refuses, or the daemon dies.
Fail(a) ==
  /\ task[a].pc \notin {"idle", "done"}
  /\ IF a \in Reviewer /\ task[a].client = "waits" /\ task[a].pc \in Mutating
     THEN Become(a, [Finished EXCEPT !.client = "reopens", !.pair = task[a].pair])
     ELSE Finish(a)
  /\ doubtful' = IF a \in Reviewer /\ task[a].client = "waits" /\ task[a].pc \in {"close", "answer"}
                 THEN doubtful \cup {task[a].pair} ELSE doubtful
  /\ UNCHANGED <<pairs, storeVars, check, carried, abandoned>>

\* The command gets no answer, and the daemon goes on.
TimeOut(r) ==
  /\ r \in Reviewer
  /\ task[r].client = "waits" /\ task[r].pc \in Inside
  /\ task' = [task EXCEPT ![r].client = IF task[r].pc \in Mutating THEN "reopens" ELSE "gone"]
  /\ doubtful' = IF task[r].pc \in Mutating THEN doubtful \cup {task[r].pair} ELSE doubtful
  /\ UNCHANGED <<pairs, storeVars, check, carried, abandoned>>

\* The command is killed; what it asked of a daemon goes on.
Killed(r) ==
  /\ r \in Reviewer
  /\ task[r].client # "gone"
  /\ task[r].pc \notin {"idle", "done"} \/ task[r].client = "reopens"
  /\ \/ Become(r, Finished)
     \/ task[r].pc \in Inside /\ task' = [task EXCEPT ![r].client = "gone"]
  /\ abandoned' = IF task[r].pc \in Mutating \/ task[r].client = "reopens"
                  THEN abandoned \cup {task[r].pair} ELSE abandoned
  /\ UNCHANGED <<pairs, storeVars, check, carried, doubtful>>

--------------------------------------------------------------------------------

Checks(k) ==
  \/ run_stale_check(k) \/ SelfLook(k) \/ SelfRecord(k) \/ Search(k)
  \/ Judge(k) \/ Record(k) \/ EndCheck(k)

Acts(a) ==
  \/ LoadOpenPair(a) \/ Dispose(a) \/ Reopen(a)
  \/ invalidate(a) \/ Accept(a) \/ Write(a) \/ CloseForOld(a) \/ Answer(a)
  \/ revive(a) \/ Clear(a)
  \/ update(a) \/ Get(a) \/ Read(a) \/ Upsert(a) \/ Expire(a)
  \/ delete(a) \/ DeletePoint(a) \/ Forget(a) \/ delete_all(a)
  \/ Fail(a) \/ TimeOut(a) \/ Killed(a)

Next == (\E k \in Checker : Checks(k)) \/ (\E a \in Actor : Acts(a))

Spec == Init /\ [][Next]_vars

--------------------------------------------------------------------------------
(* Properties *)

Promise == INSTANCE Suspicions WITH disposition <- pairs

\* A suspicion is judged once, is decided or becomes moot while it is open, and
\* is final then; its decision is carried out while it is closed and comes back
\* only if it was not carried out.  Doubtful ones are excepted.
KeepsSuspicions == Promise!Spec

\* Pairs are closed without a decision only for a reason: the memory they would
\* displace was superseded or deleted, or had another text than the one judged,
\* or the memory that displaces it was deleted.
ClosedForReason ==
  \A p \in Pair :
    /\ pairs[p] = "obsoleted" => past[p.old].superseded \/ past[p.old].deleted
    /\ pairs[p] = "expired" => \/ \E text \in past[p.old].texts : text # p.text
                               \/ past[p.new].deleted

\* A reviewer who will make the change a decision asks for, or take it back.
Minds(r, p) ==
  /\ task[r].pair = p
  /\ \/ task[r].client = "waits" /\ task[r].pc \in {"check", "write"}
     \/ task[r].client = "reopens"

\* A decision on record whose change of the store was not made is in the hands
\* of a reviewer, or its reviewer was killed.
NothingHalfDone ==
  \A p \in Pair :
    pairs[p] \in Promise!Acted /\ p \notin carried =>
      p \in abandoned \/ \E r \in Reviewer : Minds(r, p)

\* What makes them inductive, and the steps those of Suspicions.

CheckSoundOf(k) ==
  LET c == check[k]
  IN /\ c.pc \notin {"idle", "done"} => c.m \in Memory /\ c.text \in Text
     /\ \A x \in c.todo : x.id # c.m

TaskSoundOf(a) ==
  LET t == task[a]
  IN /\ t.pc \notin {"idle", "done"} => t.m \in Memory
     /\ a \in Editor => t.pair = NoPair /\ t.client = "waits"
     /\ a \in Reviewer /\ (t.pc \notin {"idle", "done"} \/ t.client = "reopens") =>
          t.pair \in Pair
     /\ t.client # "waits" => t.pc \in Inside \cup {"done"}
     /\ t.client = "reopens" =>
          t.pc \in Mutating \cup {"done"} /\ (t.pc \in Mutating => t.pair \in doubtful)
     /\ t.pc \in {"clear", "delete", "forget"} => a \in Editor
     /\ t.pc = "dispose" => a \in Reviewer
     /\ a \in Reviewer /\ t.pc \in {"get", "read", "upsert", "expire", "dispose"} =>
          t.act # "undecided"
     /\ t.pc \in {"get", "read", "upsert", "expire"} => t.text \in Text
     /\ t.pc = "expire" => t.text \in past[t.m].texts
     /\ t.pc = "close" => past[t.m].superseded \/ past[t.m].deleted
     /\ t.pc = "forget" => past[t.m].deleted

TasksSound == (\A k \in Checker : CheckSoundOf(k)) /\ \A a \in Actor : TaskSoundOf(a)

GoneWasDeleted == \A m \in Memory : memory[m].stored \/ past[m].deleted

\* What the pair that a reviewer has in hand may be like.
HandSound ==
  \A r \in Reviewer, p \in Pair : InHand(r, p) =>
    /\ pairs[p] \notin {"none", "cached"}
    /\ \A s \in Reviewer \ {r} : InHand(s, p) => p \in doubtful
    /\ p \notin doubtful =>
         /\ task[r].pc \in Mutating => pairs[p] # "open"
         /\ task[r].pc \notin {"close", "answer"} => p \notin carried

CarriedSound ==
  \A p \in carried : /\ pairs[p] \notin {"none", "cached"}
                     /\ pairs[p] = "open" => p \in doubtful

DispositionsInv ==
  /\ TypeOK
  /\ TasksSound
  /\ GoneWasDeleted
  /\ ClosedForReason
  /\ NothingHalfDone
  /\ HandSound
  /\ CarriedSound
===============================================================================
