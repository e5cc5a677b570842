-------------------------------- MODULE Expiry --------------------------------
(***************************************************************************)
(* The life of a deadline (TTL): commands set, renew, clear or impose one; *)
(* the daemon's harvester stamps entries whose deadline has passed and     *)
(* opens a flag, so that somebody decides; reviewers accept or renew;      *)
(* updates and deletes of the same memories go on meanwhile.               *)
(*                                                                         *)
(* There is no clock: each deadline that is given to a memory is a number  *)
(* of its own, zero is none, and a step of its own lets one pass.  A step  *)
(* is one read or one write of the vector store or of the pair store, and  *)
(* all of them interleave: the operations hold at most the shared side of  *)
(* the store gate.  Bounds: an actor has one task, a memory is given       *)
(* MaxDeadlines deadlines, the harvest is cut short MaxFailures times.     *)
(***************************************************************************)
EXTENDS Integers, FiniteSetsExt

CONSTANTS Memory, Text, Actor,
          Chained,     \* memories that take part in a supersession
          Limit,       \* how many entries a scan returns
          MaxDeadlines, MaxFailures,
          NoMemory, NoPair, NoText

ASSUME ExpiryAssumption ==
  /\ Chained \subseteq Memory
  /\ Limit \in Nat \ {0} /\ MaxDeadlines \in Nat \ {0} /\ MaxFailures \in Nat
  /\ NoMemory \notin Memory /\ NoText \notin Text

Deadline == 1..MaxDeadlines

\* The text of an expiry flag is salted with the deadline; the other
\* suspicions here are those that a memory is not worth keeping.
Flag == [kind : {"ttl_expiry"}, m : Memory, text : Text, deadline : Deadline]
Doubt == [kind : {"necessity"}, m : Memory, text : Text, deadline : {0}]
Pair == Flag \cup Doubt

ASSUME NoPairAssumption == NoPair \notin Pair

VARIABLES
  memory,    \* the vector store
  given,     \* how many deadlines each memory has been given
  past,      \* the deadlines of each memory that have passed
  pairs,     \* the pair store, as in PairStore
  harvest,   \* the harvester
  failures,
  task,      \* what each command is doing
  imposed,   \* history: deadlines somebody imposed, to take effect at once
  updated,   \* history: memories that were updated
  stale,     \* history: a step acted on what was no longer so
  cut        \* history: an error cut off the steps that follow a write

vars == <<memory, given, past, pairs, harvest, failures, task, imposed, updated, stale, cut>>
historyVars == <<imposed, updated, stale, cut>>

\* The field ttl_expires_at, whether ttl_expired_at holds a date, and whether
\* the payload has the two keys at all.
Ttl == [deadline : 0..MaxDeadlines, stamped : BOOLEAN, known : BOOLEAN]
NoTtl == [deadline |-> 0, stamped |-> FALSE, known |-> FALSE]

Item == [m : Memory, text : Text, deadline : Deadline]
NoItem == [m |-> NoMemory, text |-> NoText, deadline |-> 0]
NoHarvest == [pc |-> "idle", item |-> NoItem, todo |-> {}]

\* "none" where there is no row; only stale merge, in Dispositions, merges.
Disposition == {"none", "open", "confirmed", "ttl", "dismissed", "obsoleted", "expired", "merged"}

Task == [pc : {"idle", "dispose", "check", "write", "close", "reopen", "read",
               "upsert", "expire", "forget", "done"},
         m : Memory \cup {NoMemory},
         act : {"none", "set", "clear", "impose", "confirm", "dismiss"},
         pair : Pair \cup {NoPair}, text : Text \cup {NoText}, seen : Ttl]

TypeOK ==
  /\ memory \in [Memory -> [stored : BOOLEAN, text : Text, ttl : Ttl]]
  /\ given \in [Memory -> 0..MaxDeadlines]
  /\ past \in [Memory -> SUBSET Deadline]
  /\ pairs \in [Pair -> Disposition]
  /\ harvest \in [pc : {"idle", "stamp", "close", "record"}, item : Item \cup {NoItem}, todo : SUBSET Item]
  /\ failures \in 0..MaxFailures
  /\ task \in [Actor -> Task]
  /\ imposed \in [Memory -> SUBSET Deadline]
  /\ updated \subseteq Memory /\ stale \subseteq Memory /\ cut \subseteq Memory

NoTask == [pc |-> "idle", m |-> NoMemory, act |-> "none", pair |-> NoPair,
           text |-> NoText, seen |-> NoTtl]
Finished == [NoTask EXCEPT !.pc = "done"]

\* A store some of whose memories have a deadline.
Init ==
  /\ memory \in [Memory -> [stored : {TRUE}, text : Text,
                            ttl : {NoTtl, [deadline |-> 1, stamped |-> FALSE, known |-> TRUE]}]]
  /\ given = [m \in Memory |-> memory[m].ttl.deadline]
  /\ past = [m \in Memory |-> {}]
  /\ pairs = [p \in Pair |-> "none"]
  /\ harvest = NoHarvest
  /\ failures = 0
  /\ task = [a \in Actor |-> NoTask]
  /\ imposed = [m \in Memory |-> {}]
  /\ updated = {} /\ stale = {} /\ cut = {}

Stored == {m \in Memory : memory[m].stored}
Open == {p \in Pair : pairs[p] = "open"}

\* is_ttl_expired
Expired(m) == memory[m].ttl.deadline \in past[m]

\* An entry is stamped, or is to be, for the deadline d.
Carries(m, d, stamped) ==
  memory[m].stored /\ memory[m].ttl.deadline = d /\ memory[m].ttl.stamped = stamped

\* The deadline of m passes.
Pass(m) ==
  /\ m \in Stored /\ memory[m].ttl.deadline \in Deadline \ past[m]
  /\ past' = [past EXCEPT ![m] = @ \cup {memory[m].ttl.deadline}]
  /\ UNCHANGED <<memory, given, pairs, harvest, failures, task, historyVars>>

--------------------------------------------------------------------------------
(* The pair store *)

CloseAll(P, d) == [p \in Pair |-> IF p \in P THEN d ELSE pairs[p]]

close_for_old(m, d) == CloseAll({p \in Open : p.m = m}, d)

\* Mutant: a renewal closes every suspicion but the flags.
close_flags_Others(m, d) == CloseAll({p \in Open : p.m = m /\ p.kind # "ttl_expiry"}, d)

\* close_for_old of one kind
close_flags(m, d) == CloseAll({p \in Open : p.m = m /\ p.kind = "ttl_expiry"}, d)

\* Mutant: the text of a flag is not salted.
record_judgment_Unsalted(p) ==
  LET row == IF p.kind = "ttl_expiry" THEN [p EXCEPT !.deadline = 1] ELSE p
  IN pairs' = [pairs EXCEPT ![row] = IF @ = "none" THEN "open" ELSE @]

\* INSERT OR IGNORE
record_judgment(p) == pairs' = [pairs EXCEPT ![p] = IF @ = "none" THEN "open" ELSE @]

\* The hash of a flag's text is never that of the memory's.
close_for_updated_text(m, text) ==
  CloseAll({p \in Open : p.m = m /\ (p.kind = "ttl_expiry" \/ p.text # text)}, "expired")

\* A stale check doubts that a memory is worth keeping.
Judge(m) ==
  /\ m \in Stored
  /\ LET p == [kind |-> "necessity", m |-> m, text |-> memory[m].text, deadline |-> 0]
     IN pairs[p] = "none" /\ record_judgment(p)
  /\ UNCHANGED <<memory, given, past, harvest, failures, task, historyVars>>

--------------------------------------------------------------------------------
(* harvest_expired, at the start of a daemon and now and then *)

Due(m) == m \in Stored /\ Expired(m) /\ ~memory[m].ttl.stamped

\* The scan counts the stamped entries too.
Scan ==
  /\ harvest.pc = "idle"
  /\ LET found == {m \in Stored : Expired(m)}
     IN \E M \in kSubset(Min({Limit, Cardinality(found)}), found) :
          harvest' = [pc |-> "stamp", item |-> NoItem,
                      todo |-> {[m |-> m, text |-> memory[m].text,
                                 deadline |-> memory[m].ttl.deadline] : m \in {x \in M : Due(x)}}]
  /\ harvest'.todo # {}  \* else nothing is done
  /\ UNCHANGED <<memory, given, past, pairs, failures, task, historyVars>>

\* What was due when the scan read it is stamped, whatever it is now.
Stamp ==
  /\ harvest.pc = "stamp"
  /\ \E i \in harvest.todo :
       /\ memory' = IF i.m \in Stored
                    THEN [memory EXCEPT ![i.m].ttl.stamped = TRUE] ELSE memory
       /\ harvest' = [pc |-> "close", item |-> i, todo |-> harvest.todo \ {i}]
       /\ stale' = IF Carries(i.m, i.deadline, FALSE) THEN stale ELSE stale \cup {i.m}
  /\ UNCHANGED <<given, past, pairs, failures, task, imposed, updated, cut>>

CloseOthers ==
  /\ harvest.pc = "close"
  /\ pairs' = close_for_old(harvest.item.m, "expired")
  /\ harvest' = [harvest EXCEPT !.pc = "record"]
  /\ UNCHANGED <<memory, given, past, failures, task, historyVars>>

NextItem == [pc |-> IF harvest.todo = {} THEN "idle" ELSE "stamp",
             item |-> NoItem, todo |-> harvest.todo]

RecordFlag ==
  /\ harvest.pc = "record"
  /\ LET i == harvest.item
     IN /\ record_judgment([kind |-> "ttl_expiry", m |-> i.m, text |-> i.text,
                            deadline |-> i.deadline])
        /\ stale' = IF Carries(i.m, i.deadline, TRUE) THEN stale ELSE stale \cup {i.m}
  /\ harvest' = NextItem
  /\ UNCHANGED <<memory, given, past, failures, task, imposed, updated, cut>>

\* What follows the stamp fails, which is swallowed.
FlagFails ==
  /\ harvest.pc \in {"close", "record"}
  /\ failures < MaxFailures /\ failures' = failures + 1
  /\ cut' = cut \cup {harvest.item.m}
  /\ harvest' = NextItem
  /\ UNCHANGED <<memory, given, past, pairs, task, imposed, updated, stale>>

\* Mutant: an error ends the loop.
HarvestEnds_ForGood ==
  /\ harvest.pc # "idle"
  /\ failures < MaxFailures /\ failures' = failures + 1
  /\ cut' = cut \cup ({harvest.item.m} \ {NoMemory})
  /\ harvest' = [NoHarvest EXCEPT !.pc = "stamp"]
  /\ UNCHANGED <<memory, given, past, pairs, task, imposed, updated, stale>>

\* The vector store raises, or the daemon ends and is started again.
HarvestEnds ==
  /\ harvest.pc # "idle"
  /\ failures < MaxFailures /\ failures' = failures + 1
  /\ cut' = cut \cup ({harvest.item.m} \ {NoMemory})
  /\ harvest' = NoHarvest
  /\ UNCHANGED <<memory, given, past, pairs, task, imposed, updated, stale>>

--------------------------------------------------------------------------------
(* set_ttl: the commands ttl and stale ttl, stale confirm of a doubt, and the *)
(* delete of a memory that takes part in a supersession                       *)

Become(a, t) == task' = [task EXCEPT ![a] = t]

ttl(a) ==
  /\ task[a].pc = "idle"
  /\ \E m \in Memory, act \in {"set", "clear"} :
       Become(a, [NoTask EXCEPT !.pc = "check", !.m = m, !.act = act])
  /\ UNCHANGED <<memory, given, past, pairs, harvest, failures, historyVars>>

CheckTtl(a) ==
  /\ task[a].pc = "check" /\ task[a].m \in Stored
  /\ Become(a, [task[a] EXCEPT !.pc = "write"])
  /\ UNCHANGED <<memory, given, past, pairs, harvest, failures, historyVars>>

\* Mutant: what is imposed is left to the harvester.
Patch_NoStamp(act, d) ==
  [deadline |-> IF act = "clear" THEN 0 ELSE d, stamped |-> FALSE, known |-> TRUE]

Patch(act, d) ==
  [deadline |-> IF act = "clear" THEN 0 ELSE d, stamped |-> act = "impose", known |-> TRUE]

\* Nothing is written when the memory is gone by now.
WriteTtl(a) ==
  /\ task[a].pc = "write"
  /\ LET m == task[a].m
         act == task[a].act
         d == given[m] + 1
     IN /\ act # "clear" => d <= MaxDeadlines
        /\ IF m \in Stored
           THEN /\ memory' = [memory EXCEPT ![m].ttl = Patch(act, d)]
                /\ given' = [given EXCEPT ![m] = IF act = "clear" THEN @ ELSE d]
                /\ past' = [past EXCEPT ![m] = IF act = "impose" THEN @ \cup {d} ELSE @]
                /\ imposed' = [imposed EXCEPT ![m] = IF act = "impose" THEN @ \cup {d} ELSE @]
           ELSE UNCHANGED <<memory, given, past, imposed>>
        /\ Become(a, [task[a] EXCEPT !.pc = "close"])
  /\ UNCHANGED <<pairs, harvest, failures, updated, stale, cut>>

\* An error is swallowed.  A flag that is not moot may be closed with the others.
CloseFlags(a) ==
  /\ task[a].pc = "close"
  /\ LET m == task[a].m
     IN \/ /\ pairs' = close_flags(m, "ttl")
           /\ stale' = IF \E p \in Open : p.m = m /\ p.kind = "ttl_expiry"
                                          /\ Carries(m, p.deadline, TRUE)
                       THEN stale \cup {m} ELSE stale
           /\ UNCHANGED cut
        \/ cut' = cut \cup {m} /\ UNCHANGED <<pairs, stale>>
  /\ Become(a, Finished)
  /\ UNCHANGED <<memory, given, past, harvest, failures, imposed, updated>>

--------------------------------------------------------------------------------
(* stale confirm, ttl and dismiss *)

\* _load_open_pair
LoadOpenPair(a) ==
  /\ task[a].pc = "idle"
  /\ \E p \in Open, act \in {"confirm", "set", "dismiss"} :
       Become(a, [NoTask EXCEPT !.pc = "dispose", !.m = p.m, !.pair = p, !.act = act])
  /\ UNCHANGED <<memory, given, past, pairs, harvest, failures, historyVars>>

Decision == [confirm |-> "confirmed", set |-> "ttl", dismiss |-> "dismissed"]

\* A flag that is confirmed asks for nothing more.
Asks(t) == IF t.act = "confirm" /\ t.pair.kind = "necessity" THEN "impose" ELSE t.act

\* _dispose_with_rollback: the decision first.
Dispose(a) ==
  /\ task[a].pc = "dispose"
  /\ LET t == task[a]
     IN /\ pairs' = CloseAll({t.pair} \cap Open, Decision[t.act])
        /\ Become(a, IF Asks(t) \in {"set", "impose"}
                     THEN [t EXCEPT !.pc = "check", !.act = Asks(t)] ELSE Finished)
  /\ UNCHANGED <<memory, given, past, harvest, failures, historyVars>>

\* Whether the pair still says what is so is not looked at.
Reopen(a) ==
  /\ task[a].pc = "reopen"
  /\ LET p == task[a].pair
     IN /\ pairs' = [pairs EXCEPT ![p] = IF @ \in {"confirmed", "ttl"} THEN "open" ELSE @]
        /\ stale' = IF p.kind = "ttl_expiry" /\ ~Carries(p.m, p.deadline, TRUE)
                    THEN stale \cup {p.m} ELSE stale
  /\ Become(a, Finished)
  /\ UNCHANGED <<memory, given, past, harvest, failures, imposed, updated, cut>>

--------------------------------------------------------------------------------
(* update and delete *)

\* The command reads the memory first.
update(a) ==
  /\ task[a].pc = "idle"
  /\ \E m \in Stored, text \in Text :
       Become(a, [NoTask EXCEPT !.pc = "read", !.m = m, !.text = text, !.seen = memory[m].ttl])
  /\ UNCHANGED <<memory, given, past, pairs, harvest, failures, historyVars>>

\* The metadata the command read lies over what the engine reads.
Read(a) ==
  /\ task[a].pc = "read" /\ task[a].m \in Stored
  /\ Become(a, [task[a] EXCEPT !.pc = "upsert",
                               !.seen = IF @.known THEN @ ELSE memory[task[a].m].ttl])
  /\ UNCHANGED <<memory, given, past, pairs, harvest, failures, historyVars>>

Upsert(a) ==
  /\ task[a].pc = "upsert"
  /\ LET t == task[a]
     IN /\ memory' = [memory EXCEPT ![t.m] = [stored |-> TRUE, text |-> t.text, ttl |-> t.seen]]
        /\ stale' = IF t.m \in Stored /\ memory[t.m].ttl = t.seen THEN stale
                    ELSE stale \cup {t.m}
        /\ updated' = updated \cup {t.m}
        /\ Become(a, [t EXCEPT !.pc = "expire", !.seen = NoTtl])
  /\ UNCHANGED <<given, past, pairs, harvest, failures, imposed, cut>>

\* An error is swallowed.
ExpirePairs(a) ==
  /\ task[a].pc = "expire"
  /\ pairs' \in {pairs, close_for_updated_text(task[a].m, task[a].text)}
  /\ Become(a, Finished)
  /\ UNCHANGED <<memory, given, past, harvest, failures, historyVars>>

\* delete_guard makes an expiry of a delete, unless its scan fails.
delete(a) ==
  /\ task[a].pc = "idle"
  /\ \E m \in Stored :
       \/ /\ m \in Chained
          /\ Become(a, [NoTask EXCEPT !.pc = "check", !.m = m, !.act = "impose"])
          /\ UNCHANGED memory
       \/ /\ memory' = [memory EXCEPT ![m].stored = FALSE]
          /\ Become(a, [NoTask EXCEPT !.pc = "forget", !.m = m])
  /\ UNCHANGED <<given, past, pairs, harvest, failures, historyVars>>

\* close_for_deleted_memory, by the command after the answer.
Forget(a) ==
  /\ task[a].pc = "forget"
  /\ pairs' = close_for_old(task[a].m, "obsoleted")
  /\ Become(a, Finished)
  /\ UNCHANGED <<memory, given, past, harvest, failures, historyVars>>

--------------------------------------------------------------------------------

\* An operation fails, the daemon ends, or the command is killed.  A reviewer who
\* is still there takes the decision back.
Fail(a) ==
  LET t == task[a]
  IN /\ t.pc \notin {"idle", "done"}
     /\ \/ /\ Become(a, Finished)
           /\ cut' = IF \/ t.pc \in {"close", "reopen", "forget"}
                        \/ t.pc \in {"check", "write"} /\ t.pair # NoPair
                     THEN cut \cup {t.m} ELSE cut
        \/ /\ t.pc \in {"check", "write", "close"} /\ t.pair # NoPair
           /\ Become(a, [t EXCEPT !.pc = "reopen"])
           /\ cut' = IF t.pc = "close" THEN cut \cup {t.m} ELSE cut
     /\ UNCHANGED <<memory, given, past, pairs, harvest, failures, imposed, updated, stale>>

Harvest == Scan \/ Stamp \/ CloseOthers \/ RecordFlag

Acts(a) ==
  \/ ttl(a) \/ CheckTtl(a) \/ WriteTtl(a) \/ CloseFlags(a)
  \/ LoadOpenPair(a) \/ Dispose(a) \/ Reopen(a)
  \/ update(a) \/ Read(a) \/ Upsert(a) \/ ExpirePairs(a)
  \/ delete(a) \/ Forget(a) \/ Fail(a)

Next ==
  \/ Harvest \/ FlagFails \/ HarvestEnds
  \/ \E m \in Memory : Pass(m) \/ Judge(m)
  \/ \E a \in Actor : Acts(a)

Spec == Init /\ [][Next]_vars

\* The harvester is a loop that goes on; nobody need ever run a command.
Fairness == WF_vars(Scan) /\ WF_vars(Stamp) /\ WF_vars(CloseOthers) /\ WF_vars(RecordFlag)

FairSpec == Spec /\ Fairness

--------------------------------------------------------------------------------
(* Properties.  They except the memories about which a step acted on what was *)
(* no longer so (a scan, a metadata read, a flag), or was cut off by an error.*)

Spoilt(m) == m \in stale \cup cut

\* An open flag is about the deadline that keeps its entry out of the pool: who
\* renews, clears, imposes or deletes leaves none behind (staleness.py:1229-1236).
FlagIsCurrent ==
  \A f \in Flag : pairs[f] = "open" =>
    \/ Carries(f.m, f.deadline, TRUE)
    \/ \E a \in Actor : task[a].m = f.m /\ task[a].pc \in {"close", "forget"}
    \/ Spoilt(f.m)

\* Who has decided to renew and has not done it yet.
Renews(a, f) == task[a].pair = f /\ task[a].pc \in {"check", "write", "reopen"}

\* An entry that was taken out of the pool was taken out by somebody, or is up
\* for review or was decided; only an update takes the flag away without a
\* decision (staleness.py:1249-1309).
NothingExpiresUnseen ==
  \A m \in Stored : memory[m].ttl.stamped =>
    \/ memory[m].ttl.deadline \in imposed[m]
    \/ harvest.item.m = m
    \/ \E f \in Flag :
         /\ f.m = m /\ f.deadline = memory[m].ttl.deadline
         /\ \/ pairs[f] \in {"open", "confirmed", "dismissed"}
            \/ pairs[f] = "ttl" /\ \E a \in Actor : Renews(a, f)
            \/ pairs[f] = "expired" /\ m \in updated
    \/ Spoilt(m)

\* A deadline is asked about at most once, and never when it is a decision that
\* somebody made (staleness.py:1197-1200, 1290-1292).
AskedOnce ==
  \A f \in Flag : pairs[f] # "none" =>
    /\ f.deadline \notin imposed[f.m]
    /\ \A g \in Flag : pairs[g] # "none" /\ g.m = f.m /\ g.deadline = f.deadline =>
         g = f \/ f.m \in stale

\* A deadline that has passed is asked about in the end, unless it is no longer
\* the entry's, when a scan has room for all entries that have expired.
EveryExpiryIsAsked ==
  \A m \in Memory, d \in Deadline :
    m \in Stored /\ memory[m].ttl.deadline = d /\ d \in past[m]
      ~> \/ \E f \in Flag : f.m = m /\ f.deadline = d /\ pairs[f] # "none"
         \/ ~(m \in Stored /\ memory[m].ttl.deadline = d)
         \/ d \in imposed[m] \/ Spoilt(m)

--------------------------------------------------------------------------------
(* What makes the first three inductive *)

\* No deadline has passed, was imposed or is the memory's that it was not given;
\* what is imposed is stamped from the start.
DeadlinesSound ==
  \A m \in Memory :
    /\ memory[m].ttl.deadline <= given[m]
    /\ past[m] \subseteq 1..given[m] /\ imposed[m] \subseteq 1..given[m]
    /\ memory[m].ttl.deadline \in imposed[m] => memory[m].ttl.stamped

TaskSound(a) ==
  LET t == task[a]
  IN /\ t.pc \notin {"idle", "done"} => t.m \in Memory
     /\ t.pc = "dispose" => t.pair \in Pair /\ t.act \in {"confirm", "set", "dismiss"}
     /\ t.pc = "reopen" => t.pair \in Pair
     /\ t.pair \in Pair => t.m = t.pair.m
     /\ t.pc \in {"read", "upsert"} =>
          /\ t.text \in Text /\ t.seen.deadline <= given[t.m]
          /\ t.seen.deadline \in imposed[t.m] => t.seen.stamped
     /\ t.pc = "expire" => t.text \in Text /\ t.m \in updated
     /\ t.pc = "forget" => t.m \notin Stored \/ t.m \in stale

\* The items of the harvest that have no flag yet.
Pending == harvest.todo \cup ({harvest.item} \cap Item)

HarvestSound ==
  /\ harvest.pc \in {"close", "record"} <=> harvest.item \in Item
  /\ \A i \in Pending : i.deadline <= given[i.m] /\ i.deadline \notin imposed[i.m]
  /\ \A i, j \in Pending : i.m = j.m => i = j
  /\ harvest.item \notin harvest.todo

\* A deadline that was asked about is not due again.
Asked ==
  \A f \in Flag : pairs[f] # "none" =>
    /\ f.deadline <= given[f.m]
    /\ f.m \notin stale =>
         /\ memory[f.m].ttl.deadline = f.deadline => memory[f.m].ttl.stamped
         /\ \A i \in Pending : ~(i.m = f.m /\ i.deadline = f.deadline)

\* The invariant of ExpiryProofs.
ExpiryInv ==
  /\ TypeOK /\ DeadlinesSound /\ (\A a \in Actor : TaskSound(a)) /\ HarvestSound /\ Asked
  /\ FlagIsCurrent /\ NothingExpiresUnseen /\ AskedOnce
===============================================================================
