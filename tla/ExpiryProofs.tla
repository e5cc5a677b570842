----------------------------- MODULE ExpiryProofs -----------------------------
(***************************************************************************)
(* Proofs about Expiry, for any memories, texts, commands and bounds.      *)
(***************************************************************************)
EXTENDS Expiry, TLAPS

USE DEF historyVars

--------------------------------------------------------------------------------
(* Flags and items *)

LEMMA FlagFields ==
  ASSUME NEW f \in Flag
  PROVE  /\ f \in Pair /\ f.kind = "ttl_expiry" /\ f.m \in Memory /\ f.text \in Text
         /\ f.deadline \in Deadline /\ f.deadline \in Nat \ {0}
  BY ExpiryAssumption DEF Flag, Pair, Deadline

LEMMA FlagsDiffer ==
  ASSUME NEW f \in Flag, NEW g \in Flag, f.m = g.m, f.text = g.text, f.deadline = g.deadline
  PROVE  f = g
  BY DEF Flag

LEMMA DoubtIsNoFlag ==
  /\ \A p \in Pair : p.kind = "ttl_expiry" => p \in Flag
  /\ \A p \in Pair : p.m \in Memory
  /\ \A p \in Doubt : p \notin Flag
  BY DEF Pair, Flag, Doubt

LEMMA ItemFields ==
  /\ \A i \in Item : i.m \in Memory /\ i.text \in Text /\ i.deadline \in Nat \ {0} /\ i.deadline \in Deadline
  /\ NoItem \notin Item /\ NoItem.m = NoMemory /\ NoMemory \notin Memory
  BY ExpiryAssumption DEF Item, NoItem, Deadline

LEMMA TaskFields ==
  ASSUME TypeOK, NEW a \in Actor
  PROVE  /\ task[a] \in Task /\ task[a].seen \in Ttl /\ task[a].m \in Memory \cup {NoMemory}
         /\ task[a].pair \in Pair \cup {NoPair} /\ task[a].text \in Text \cup {NoText}
  <1>1. task[a] \in Task
    BY DEF TypeOK
  <1> QED BY <1>1 DEF Task

LEMMA TtlFields ==
  ASSUME TypeOK, NEW m \in Memory
  PROVE  /\ memory[m].ttl \in Ttl /\ memory[m].ttl.deadline \in 0..MaxDeadlines
         /\ memory[m].ttl.stamped \in BOOLEAN /\ memory[m].stored \in BOOLEAN /\ given[m] \in Nat
         /\ memory[m].text \in Text
  <1>1. memory[m] \in [stored : BOOLEAN, text : Text, ttl : Ttl] /\ given[m] \in 0..MaxDeadlines
    BY DEF TypeOK
  <1> QED BY <1>1, ExpiryAssumption DEF Ttl

--------------------------------------------------------------------------------
(* What keeps each part of the invariant *)

\* Numbers of deadlines are used up, and what was noted stays noted.
Grows ==
  /\ \A m \in Memory : given[m] <= given'[m]
  /\ \A m \in Memory : imposed[m] \subseteq imposed'[m]
  /\ \A m \in Memory : \A d \in imposed'[m] : d \in imposed[m] \/ d > given[m]
  /\ stale \subseteq stale' /\ cut \subseteq cut' /\ updated \subseteq updated'
  /\ \A m \in Memory : memory'[m].stored /\ ~memory[m].stored => m \in stale'

LEMMA OtherKeeps ==
  ASSUME ExpiryInv, TypeOK', Grows, NEW b \in Actor, task'[b] = task[b]
  PROVE  TaskSound(b)'
  <1>1. TaskSound(b) /\ TypeOK
    BY DEF ExpiryInv
  <1>2. ASSUME task[b].pc \in {"read", "upsert"}
        PROVE  /\ task[b].seen.deadline <= given'[task[b].m]
               /\ task[b].seen.deadline \in imposed'[task[b].m] => task[b].seen.stamped
    <2>1. task[b].m \in Memory
      BY <1>1, <1>2 DEF TaskSound
    <2>2. task[b].seen.deadline \in Nat /\ given[task[b].m] \in Nat /\ given'[task[b].m] \in Nat
      BY <1>1, <2>1, TaskFields, TtlFields, ExpiryAssumption DEF TypeOK, Ttl
    <2> QED BY <1>1, <1>2, <2>1, <2>2 DEF TaskSound, Grows
  <1>3. task[b].pc = "expire" => task[b].m \in updated'
    BY <1>1 DEF TaskSound, Grows
  <1>4. task[b].pc = "forget" => task[b].m \notin Stored' \/ task[b].m \in stale'
    BY <1>1 DEF TaskSound, Grows, Stored
  <1> QED BY <1>1, <1>2, <1>3, <1>4 DEF TaskSound

LEMMA DeadlinesKeep ==
  ASSUME ExpiryInv, UNCHANGED <<memory, given, past, imposed>>
  PROVE  DeadlinesSound'
  BY DEF ExpiryInv, DeadlinesSound

LEMMA HarvestKeeps ==
  ASSUME ExpiryInv, TypeOK', Grows, harvest' = harvest
  PROVE  HarvestSound' /\ Pending' = Pending
  <1>1. HarvestSound /\ TypeOK
    BY DEF ExpiryInv
  <1>2. Pending' = Pending /\ Pending \subseteq Item
    BY <1>1 DEF Pending, TypeOK
  <1>3. ASSUME NEW i \in Pending
        PROVE  i.deadline <= given'[i.m] /\ i.deadline \notin imposed'[i.m]
    <2>1. i.m \in Memory /\ i.deadline \in Nat
      BY <1>2, ItemFields
    <2>2. given[i.m] \in Nat /\ given'[i.m] \in Nat
      BY <1>1, <2>1, ExpiryAssumption DEF TypeOK
    <2> QED BY <1>1, <2>1, <2>2 DEF HarvestSound, Grows
  <1> QED BY <1>1, <1>2, <1>3 DEF HarvestSound

\* No flag is recorded, no item is added, and no entry is due again.
LEMMA AskedKeeps ==
  ASSUME ExpiryInv, TypeOK', Grows, Pending' \subseteq Pending,
         \A f \in Flag : pairs'[f] # "none" => pairs[f] # "none",
         \A m \in Memory \ stale' :
           \/ memory'[m].ttl = memory[m].ttl
           \/ memory'[m].ttl.stamped
           \/ memory'[m].ttl.deadline = 0
           \/ memory'[m].ttl.deadline > given[m]
  PROVE  Asked' /\ AskedOnce'
  <1>1. TypeOK /\ Asked /\ AskedOnce
    BY DEF ExpiryInv
  <1>2. ASSUME NEW f \in Flag, pairs'[f] # "none"
        PROVE  /\ f.deadline <= given'[f.m] /\ f.deadline \notin imposed'[f.m]
               /\ f.m \notin stale' =>
                    /\ memory'[f.m].ttl.deadline = f.deadline => memory'[f.m].ttl.stamped
                    /\ \A i \in Pending' : ~(i.m = f.m /\ i.deadline = f.deadline)
    <2>1. f.m \in Memory /\ f.deadline \in Nat \ {0} /\ pairs[f] # "none"
      BY <1>2, FlagFields
    <2>2. given[f.m] \in Nat /\ given'[f.m] \in Nat
      BY <1>1, <2>1, ExpiryAssumption DEF TypeOK
    <2>3. f.deadline <= given[f.m] /\ f.deadline \notin imposed[f.m]
      BY <1>1, <2>1 DEF Asked, AskedOnce
    <2>4. f.deadline <= given'[f.m] /\ f.deadline \notin imposed'[f.m]
      BY <2>1, <2>2, <2>3 DEF Grows
    <2>5. ASSUME f.m \notin stale'
          PROVE  /\ memory'[f.m].ttl.deadline = f.deadline => memory'[f.m].ttl.stamped
                 /\ \A i \in Pending' : ~(i.m = f.m /\ i.deadline = f.deadline)
      BY <1>1, <2>1, <2>2, <2>3, <2>5 DEF Asked, Grows
    <2> QED BY <2>4, <2>5
  <1>3. ASSUME NEW f \in Flag, NEW g \in Flag, pairs'[f] # "none", pairs'[g] # "none",
               g.m = f.m, g.deadline = f.deadline
        PROVE  g = f \/ f.m \in stale'
    BY <1>1, <1>3 DEF AskedOnce, Grows
  <1> QED BY <1>2, <1>3 DEF Asked, AskedOnce

\* Somebody has written the deadline or deleted the memory, and is to close its flags.
Held(m) == \E a \in Actor : task[a].m = m /\ task[a].pc \in {"close", "forget"}

LEMMA CurrentKeeps ==
  ASSUME ExpiryInv, Grows,
         \A f \in Flag : pairs'[f] = "open" /\ f.m \notin stale' \cup cut' =>
           \/ Carries(f.m, f.deadline, TRUE)'
           \/ Held(f.m)'
           \/ /\ pairs[f] = "open" /\ ~Held(f.m)
              /\ ~Carries(f.m, f.deadline, TRUE)
  PROVE  FlagIsCurrent'
  <1> SUFFICES ASSUME NEW f \in Flag, pairs'[f] = "open", f.m \notin stale' \cup cut'
               PROVE  Carries(f.m, f.deadline, TRUE)' \/ Held(f.m)'
    BY DEF FlagIsCurrent, Spoilt, Held
  <1>1. pairs[f] = "open" => Carries(f.m, f.deadline, TRUE) \/ Held(f.m) \/ Spoilt(f.m)
    BY DEF ExpiryInv, FlagIsCurrent, Held
  <1>2. ~Spoilt(f.m)
    BY DEF Grows, Spoilt
  <1> QED BY <1>1, <1>2

\* The flag is up, or was decided.
Seen(f) ==
  \/ pairs[f] \in {"open", "confirmed", "dismissed"}
  \/ pairs[f] = "ttl" /\ \E a \in Actor : Renews(a, f)
  \/ pairs[f] = "expired" /\ f.m \in updated

Known(m) ==
  \/ memory[m].ttl.deadline \in imposed[m]
  \/ harvest.item.m = m
  \/ \E f \in Flag : f.m = m /\ f.deadline = memory[m].ttl.deadline /\ Seen(f)

LEMMA SeenIsKnown ==
  NothingExpiresUnseen <=> \A m \in Stored : memory[m].ttl.stamped => Known(m) \/ Spoilt(m)
  BY DEF NothingExpiresUnseen, Known, Seen

LEMMA SeenKeeps ==
  ASSUME ExpiryInv, Grows,
         \A m \in Memory : m \in Stored' /\ memory'[m].ttl.stamped /\ m \notin stale' \cup cut' =>
           \/ memory'[m].ttl.deadline \in imposed'[m]
           \/ harvest'.item.m = m
           \/ m \in Stored /\ memory'[m].ttl = memory[m].ttl /\ harvest.item.m # m
           \/ \E f \in Flag : f.m = m /\ f.deadline = memory'[m].ttl.deadline /\ Seen(f)',
         \A f \in Flag : /\ Carries(f.m, f.deadline, TRUE) /\ f.m \notin stale' \cup cut'
                        /\ memory'[f.m].ttl = memory[f.m].ttl
           => (Seen(f) => Seen(f)' \/ harvest'.item.m = f.m)
  PROVE  NothingExpiresUnseen'
  <1> SUFFICES ASSUME NEW m \in Stored', memory'[m].ttl.stamped, m \notin stale' \cup cut'
               PROVE  Known(m)'
    BY SeenIsKnown DEF NothingExpiresUnseen, Known, Seen, Spoilt
  <1>1. m \in Memory
    BY DEF Stored
  <1>2. SUFFICES ASSUME m \in Stored, memory'[m].ttl = memory[m].ttl, harvest.item.m # m
                 PROVE  Known(m)'
    BY <1>1 DEF Known
  <1>3. Known(m)
    BY <1>2, SeenIsKnown DEF ExpiryInv, Grows, Spoilt
  <1>4. CASE memory[m].ttl.deadline \in imposed[m]
    BY <1>1, <1>2, <1>4 DEF Known, Grows
  <1>5. CASE \E f \in Flag : f.m = m /\ f.deadline = memory[m].ttl.deadline /\ Seen(f)
    <2>1. PICK f \in Flag : f.m = m /\ f.deadline = memory[m].ttl.deadline /\ Seen(f)
      BY <1>5
    <2>2. Carries(f.m, f.deadline, TRUE)
      BY <1>2, <2>1 DEF Carries, Stored
    <2>3. Seen(f)' \/ harvest'.item.m = m
      BY <1>2, <2>1, <2>2
    <2> QED BY <1>2, <2>1, <2>3 DEF Known
  <1> QED BY <1>2, <1>3, <1>4, <1>5 DEF Known

--------------------------------------------------------------------------------
(* Steps that leave the vector store and the harvester alone *)

LEMMA QuietStep ==
  ASSUME ExpiryInv, UNCHANGED <<memory, given, imposed, updated>>, TypeOK',
         stale \subseteq stale', cut \subseteq cut',
         DeadlinesSound', HarvestSound', Asked', AskedOnce',
         \A b \in Actor : task'[b] = task[b] \/ TaskSound(b)',
         \A f \in Flag : pairs'[f] = "open" /\ f.m \notin stale' \cup cut' =>
           \/ Carries(f.m, f.deadline, TRUE)
           \/ pairs[f] = "open" /\ (Held(f.m) => Held(f.m)'),
         \A f \in Flag : Carries(f.m, f.deadline, TRUE) /\ f.m \notin stale' \cup cut' =>
           (Seen(f) => Seen(f)' \/ harvest'.item.m = f.m),
         \A m \in Memory : harvest.item.m = m /\ m \notin stale' \cup cut' =>
           \/ harvest'.item.m = m
           \/ \E f \in Flag : f.m = m /\ f.deadline = memory[m].ttl.deadline /\ Seen(f)'
  PROVE  ExpiryInv'
  <1>1. Grows
    <2>1. \A m \in Memory : given[m] \in Nat
      BY TtlFields DEF ExpiryInv
    <2> QED BY <2>1 DEF Grows
  <1>2. \A b \in Actor : TaskSound(b)'
    BY <1>1, OtherKeeps
  <1>3. FlagIsCurrent'
    <2>1. \A f \in Flag : Carries(f.m, f.deadline, TRUE)' <=> Carries(f.m, f.deadline, TRUE)
      BY DEF Carries
    <2> QED BY <1>1, <2>1, CurrentKeeps
  <1>4. NothingExpiresUnseen'
    <2>1. \A m \in Memory : m \in Stored' => m \in Stored
      BY DEF Stored
    <2> QED BY <1>1, <2>1, SeenKeeps
  <1> QED BY <1>2, <1>3, <1>4 DEF ExpiryInv

LEMMA PairStep ==
  ASSUME ExpiryInv, UNCHANGED <<memory, given, past, harvest, failures, imposed, updated>>,
         pairs' \in [Pair -> Disposition], task' \in [Actor -> Task],
         stale \subseteq stale', stale' \subseteq Memory, cut \subseteq cut', cut' \subseteq Memory,
         \A f \in Flag : pairs'[f] # "none" => pairs[f] # "none",
         \A b \in Actor : task'[b] = task[b] \/ TaskSound(b)',
         \A f \in Flag : pairs'[f] = "open" /\ f.m \notin stale' \cup cut' =>
           \/ Carries(f.m, f.deadline, TRUE)
           \/ pairs[f] = "open" /\ (Held(f.m) => Held(f.m)'),
         \A f \in Flag : Carries(f.m, f.deadline, TRUE) /\ f.m \notin stale' \cup cut' =>
           (Seen(f) => Seen(f)' \/ harvest.item.m = f.m)
  PROVE  ExpiryInv'
  <1>1. TypeOK'
    BY DEF ExpiryInv, TypeOK
  <1>2. Grows
    <2>1. \A m \in Memory : given[m] \in Nat
      BY TtlFields DEF ExpiryInv
    <2> QED BY <2>1 DEF Grows
  <1>3. HarvestSound' /\ Pending' = Pending
    BY <1>1, <1>2, HarvestKeeps
  <1>4. Asked' /\ AskedOnce'
    BY <1>1, <1>2, <1>3, AskedKeeps
  <1> QED BY <1>1, <1>3, <1>4, DeadlinesKeep, QuietStep

LEMMA BecomeTurns ==
  ASSUME TypeOK, NEW a \in Actor, NEW r \in Task, Become(a, r)
  PROVE  /\ task' \in [Actor -> Task] /\ task'[a] = r
         /\ \A b \in Actor : b # a => task'[b] = task[b]
  BY DEF Become, TypeOK

\* A command goes on, or is cut off.
LEMMA TaskStep ==
  ASSUME ExpiryInv, NEW a \in Actor, NEW r \in Task, Become(a, r),
         UNCHANGED <<memory, given, past, pairs, harvest, failures, imposed, updated, stale>>,
         cut \subseteq cut', cut' \subseteq Memory, TaskSound(a)',
         task[a].pc \in {"close", "forget"} =>
           task[a].m \in cut' \/ (r.m = task[a].m /\ r.pc \in {"close", "forget"}),
         task[a].pc \in {"check", "write", "reopen"} /\ task[a].pair \in Flag =>
           task[a].m \in cut' \/ (r.pair = task[a].pair /\ r.pc \in {"check", "write", "reopen"})
  PROVE  ExpiryInv'
  <1>1. TypeOK /\ TaskSound(a)
    BY DEF ExpiryInv
  <1>2. /\ task' \in [Actor -> Task] /\ task'[a] = r
        /\ \A b \in Actor : b # a => task'[b] = task[b]
    BY <1>1, BecomeTurns
  <1>3. pairs' \in [Pair -> Disposition] /\ stale' \subseteq Memory
    BY <1>1 DEF TypeOK
  <1>4. \A m \in Memory \ cut' : Held(m) => Held(m)'
    BY <1>2 DEF Held
  <1>5. ASSUME NEW f \in Flag, f.m \notin cut', NEW b \in Actor, Renews(b, f)
        PROVE  Renews(b, f)'
    <2>1. task[a].pair = f => task[a].m = f.m
      BY <1>1, FlagFields DEF TaskSound
    <2> QED BY <1>2, <1>5, <2>1 DEF Renews
  <1>6. ASSUME NEW f \in Flag, pairs'[f] = "open", f.m \notin stale' \cup cut'
        PROVE  pairs[f] = "open" /\ (Held(f.m) => Held(f.m)')
    BY <1>4, <1>6, FlagFields
  <1>7. ASSUME NEW f \in Flag, f.m \notin stale' \cup cut', Seen(f)
        PROVE  Seen(f)'
    BY <1>5, <1>7 DEF Seen
  <1>8. \A b \in Actor : task'[b] = task[b] \/ TaskSound(b)'
    BY <1>2
  <1> QED BY <1>2, <1>3, <1>6, <1>7, <1>8, PairStep

LEMMA NoTaskFields ==
  /\ NoTask \in Task /\ Finished \in Task
  /\ NoTask.pair \notin Pair /\ Finished.pair \notin Pair /\ Finished.pc = "done"
  <1>1. NoTtl \in Ttl
    BY ExpiryAssumption DEF NoTtl, Ttl
  <1>2. NoTask \in Task /\ NoTask.pair = NoPair
    BY <1>1 DEF NoTask, Task
  <1>3. Finished \in Task /\ Finished.pair = NoPair /\ Finished.pc = "done"
    BY <1>2 DEF Finished, NoTask, Task
  <1> QED BY <1>2, <1>3, NoPairAssumption

LEMMA ttlKeeps ==
  ASSUME ExpiryInv, NEW a \in Actor, ttl(a)
  PROVE  ExpiryInv'
  <1>1. PICK m \in Memory, act \in {"set", "clear"} :
          Become(a, [NoTask EXCEPT !.pc = "check", !.m = m, !.act = act])
    BY DEF ttl
  <1> DEFINE r == [NoTask EXCEPT !.pc = "check", !.m = m, !.act = act]
  <1>2. r \in Task /\ r.pc = "check" /\ r.m = m /\ r.pair = NoPair
    BY NoTaskFields DEF Task, NoTask
  <1> HIDE DEF r
  <1>3. TypeOK /\ Become(a, r) /\ task[a].pc = "idle"
    BY <1>1 DEF ExpiryInv, ttl, r
  <1>4. task'[a] = r
    BY <1>2, <1>3, BecomeTurns
  <1>5. TaskSound(a)'
    BY <1>2, <1>4, NoPairAssumption DEF TaskSound
  <1>6. cut' \subseteq Memory
    BY <1>3 DEF TypeOK, ttl
  <1> QED BY <1>2, <1>3, <1>5, <1>6, TaskStep DEF ttl

LEMMA CheckTtlKeeps ==
  ASSUME ExpiryInv, NEW a \in Actor, CheckTtl(a)
  PROVE  ExpiryInv'
  <1> DEFINE r == [task[a] EXCEPT !.pc = "write"]
  <1>1. TypeOK /\ TaskSound(a) /\ task[a] \in Task /\ Become(a, r) /\ task[a].pc = "check"
    BY TaskFields DEF ExpiryInv, CheckTtl
  <1>2. r \in Task /\ r.pc = "write" /\ r.m = task[a].m /\ r.pair = task[a].pair
    BY <1>1 DEF Task
  <1> HIDE DEF r
  <1>3. task'[a] = r
    BY <1>1, <1>2, BecomeTurns
  <1>4. TaskSound(a)'
    BY <1>1, <1>2, <1>3 DEF TaskSound
  <1>5. cut' \subseteq Memory
    BY <1>1 DEF TypeOK, CheckTtl
  <1> QED BY <1>1, <1>2, <1>4, <1>5, TaskStep DEF CheckTtl

LEMMA LoadOpenPairKeeps ==
  ASSUME ExpiryInv, NEW a \in Actor, LoadOpenPair(a)
  PROVE  ExpiryInv'
  <1>1. PICK p \in Open, act \in {"confirm", "set", "dismiss"} :
          Become(a, [NoTask EXCEPT !.pc = "dispose", !.m = p.m, !.pair = p, !.act = act])
    BY DEF LoadOpenPair
  <1> DEFINE r == [NoTask EXCEPT !.pc = "dispose", !.m = p.m, !.pair = p, !.act = act]
  <1>2. p \in Pair /\ p.m \in Memory
    BY DoubtIsNoFlag DEF Open
  <1>3. r \in Task /\ r.pc = "dispose" /\ r.m = p.m /\ r.pair = p /\ r.act = act
    BY <1>2, NoTaskFields DEF Task, NoTask
  <1> HIDE DEF r
  <1>4. TypeOK /\ Become(a, r) /\ task[a].pc = "idle"
    BY <1>1 DEF ExpiryInv, LoadOpenPair, r
  <1>5. task'[a] = r
    BY <1>3, <1>4, BecomeTurns
  <1>6. TaskSound(a)'
    BY <1>2, <1>3, <1>5 DEF TaskSound
  <1>7. cut' \subseteq Memory
    BY <1>4 DEF TypeOK, LoadOpenPair
  <1> QED BY <1>3, <1>4, <1>6, <1>7, TaskStep DEF LoadOpenPair

LEMMA updateKeeps ==
  ASSUME ExpiryInv, NEW a \in Actor, update(a)
  PROVE  ExpiryInv'
  <1>1. PICK m \in Stored, text \in Text :
          Become(a, [NoTask EXCEPT !.pc = "read", !.m = m, !.text = text, !.seen = memory[m].ttl])
    BY DEF update
  <1> DEFINE r == [NoTask EXCEPT !.pc = "read", !.m = m, !.text = text, !.seen = memory[m].ttl]
  <1>2. TypeOK /\ DeadlinesSound /\ m \in Memory /\ task[a].pc = "idle"
    BY DEF ExpiryInv, update, Stored
  <1>3. r \in Task /\ r.pc = "read" /\ r.m = m /\ r.pair = NoPair /\ r.text = text
        /\ r.seen = memory[m].ttl
    BY <1>2, NoTaskFields, TtlFields DEF Task, NoTask
  <1> HIDE DEF r
  <1>4. Become(a, r)
    BY <1>1 DEF r
  <1>5. task'[a] = r
    BY <1>2, <1>3, <1>4, BecomeTurns
  <1>6. TaskSound(a)'
    BY <1>2, <1>3, <1>5, NoPairAssumption DEF TaskSound, update, DeadlinesSound
  <1>7. cut' \subseteq Memory
    BY <1>2 DEF TypeOK, update
  <1> QED BY <1>2, <1>3, <1>4, <1>6, <1>7, TaskStep DEF update

LEMMA ReadKeeps ==
  ASSUME ExpiryInv, NEW a \in Actor, Read(a)
  PROVE  ExpiryInv'
  <1> DEFINE seen == IF task[a].seen.known THEN task[a].seen ELSE memory[task[a].m].ttl
             r == [task[a] EXCEPT !.pc = "upsert", !.seen = seen]
  <1>1. TypeOK /\ DeadlinesSound /\ TaskSound(a) /\ task[a] \in Task /\ task[a].pc = "read"
        /\ task[a].m \in Memory
    BY TaskFields DEF ExpiryInv, Read, Stored
  <1>2. /\ seen \in Ttl /\ seen.deadline <= given[task[a].m]
        /\ seen.deadline \in imposed[task[a].m] => seen.stamped
    BY <1>1, TaskFields, TtlFields DEF TaskSound, DeadlinesSound
  <1>3. r = [task[a] EXCEPT !.pc = "upsert",
                            !.seen = IF @.known THEN @ ELSE memory[task[a].m].ttl]
    BY <1>1 DEF Task
  <1> HIDE DEF seen
  <1>4. r \in Task /\ r.pc = "upsert" /\ r.m = task[a].m /\ r.pair = task[a].pair
        /\ r.text = task[a].text /\ r.seen = seen
    BY <1>1, <1>2 DEF Task
  <1>5. Become(a, r)
    BY <1>3 DEF Read
  <1> HIDE DEF r
  <1>6. task'[a] = r
    BY <1>1, <1>4, <1>5, BecomeTurns
  <1>7. TaskSound(a)'
    BY <1>1, <1>2, <1>4, <1>6 DEF TaskSound, Read
  <1>8. cut' \subseteq Memory
    BY <1>1 DEF TypeOK, Read
  <1> QED BY <1>1, <1>4, <1>5, <1>7, <1>8, TaskStep DEF Read

LEMMA FailKeeps ==
  ASSUME ExpiryInv, NEW a \in Actor, Fail(a)
  PROVE  ExpiryInv'
  <1>1. /\ TypeOK /\ TaskSound(a) /\ task[a] \in Task /\ task[a].pair \in Pair \cup {NoPair}
        /\ task[a].pc \notin {"idle", "done"} /\ task[a].m \in Memory
        /\ UNCHANGED <<memory, given, past, pairs, harvest, failures, imposed, updated, stale>>
    BY TaskFields DEF ExpiryInv, Fail, TaskSound
  <1>2. CASE /\ Become(a, Finished)
             /\ cut' = IF \/ task[a].pc \in {"close", "reopen", "forget"}
                          \/ task[a].pc \in {"check", "write"} /\ task[a].pair # NoPair
                       THEN cut \cup {task[a].m} ELSE cut
    <2>1. task'[a] = Finished
      BY <1>1, <1>2, NoTaskFields, BecomeTurns
    <2>2. TaskSound(a)'
      BY <2>1, NoTaskFields DEF TaskSound
    <2>3. cut \subseteq cut' /\ cut' \subseteq Memory
      BY <1>1, <1>2 DEF TypeOK
    <2>4. task[a].pair \in Flag => task[a].pair # NoPair
      BY NoPairAssumption, FlagFields
    <2> QED BY <1>1, <1>2, <2>2, <2>3, <2>4, NoTaskFields, TaskStep
  <1>3. CASE /\ task[a].pc \in {"check", "write", "close"} /\ task[a].pair # NoPair
             /\ Become(a, [task[a] EXCEPT !.pc = "reopen"])
             /\ cut' = IF task[a].pc = "close" THEN cut \cup {task[a].m} ELSE cut
    <2> DEFINE r == [task[a] EXCEPT !.pc = "reopen"]
    <2>1. r \in Task /\ r.pc = "reopen" /\ r.m = task[a].m /\ r.pair = task[a].pair
      BY <1>1 DEF Task
    <2>2. Become(a, r)
      BY <1>3
    <2> HIDE DEF r
    <2>3. task'[a] = r
      BY <1>1, <2>1, <2>2, BecomeTurns
    <2>4. TaskSound(a)'
      BY <1>1, <1>3, <2>1, <2>3 DEF TaskSound
    <2>5. cut \subseteq cut' /\ cut' \subseteq Memory
      BY <1>1, <1>3 DEF TypeOK
    <2> QED BY <1>1, <1>3, <2>1, <2>2, <2>4, <2>5, TaskStep
  <1> QED BY <1>2, <1>3 DEF Fail

--------------------------------------------------------------------------------
(* Steps on the pair store *)

LEMMA CloseAllTurns ==
  ASSUME TypeOK, NEW P, P \subseteq Open, NEW d \in Disposition \ {"none"}, pairs' = CloseAll(P, d)
  PROVE  /\ pairs' \in [Pair -> Disposition]
         /\ \A p \in Pair : pairs'[p] = IF p \in P THEN d ELSE pairs[p]
         /\ \A p \in Pair : pairs'[p] # "none" => pairs[p] # "none"
         /\ d # "open" => \A p \in Pair : pairs'[p] = "open" => p \notin P /\ pairs[p] = "open"
  BY DEF CloseAll, TypeOK, Open

LEMMA DisposeKeeps ==
  ASSUME ExpiryInv, NEW a \in Actor, Dispose(a)
  PROVE  ExpiryInv'
  <1> DEFINE t == task[a]
             r == IF Asks(t) \in {"set", "impose"} THEN [t EXCEPT !.pc = "check", !.act = Asks(t)]
                  ELSE Finished
  <1>1. /\ TypeOK /\ TaskSound(a) /\ t \in Task /\ t.pc = "dispose"
        /\ t.pair \in Pair /\ t.m = t.pair.m /\ t.m \in Memory /\ t.act \in {"confirm", "set", "dismiss"}
    BY TaskFields DEF ExpiryInv, Dispose, TaskSound
  <1>2. /\ r \in Task
        /\ \/ r = Finished
           \/ r.pc = "check" /\ r.m = t.m /\ r.pair = t.pair
        /\ t.act = "set" => r.pc = "check" /\ r.pair = t.pair
    BY <1>1, NoTaskFields DEF Task, Asks
  <1>3. pairs' = CloseAll({t.pair} \cap Open, Decision[t.act]) /\ Become(a, r)
        /\ UNCHANGED <<memory, given, past, harvest, failures, historyVars>>
    BY DEF Dispose
  <1>4. /\ Decision[t.act] \in {"confirmed", "ttl", "dismissed"}
        /\ Decision[t.act] = "ttl" => t.act = "set"
    BY <1>1 DEF Decision
  <1> HIDE DEF r, t
  <1>5. /\ task' \in [Actor -> Task] /\ task'[a] = r
        /\ \A b \in Actor : b # a => task'[b] = task[b]
    BY <1>1, <1>2, <1>3, BecomeTurns
  <1>6. /\ pairs' \in [Pair -> Disposition]
        /\ \A p \in Pair : pairs'[p] = IF p \in {t.pair} \cap Open THEN Decision[t.act] ELSE pairs[p]
        /\ \A p \in Pair : pairs'[p] # "none" => pairs[p] # "none"
        /\ \A p \in Pair : pairs'[p] = "open" => pairs[p] = "open"
    <2> DEFINE P == {t.pair} \cap Open
               d == Decision[t.act]
    <2>1. P \subseteq Open /\ d \in Disposition \ {"none"} /\ d # "open" /\ pairs' = CloseAll(P, d)
      BY <1>3, <1>4 DEF Disposition
    <2> HIDE DEF P, d
    <2>2. /\ pairs' \in [Pair -> Disposition]
          /\ \A p \in Pair : pairs'[p] = IF p \in P THEN d ELSE pairs[p]
          /\ \A p \in Pair : pairs'[p] # "none" => pairs[p] # "none"
          /\ \A p \in Pair : pairs'[p] = "open" => pairs[p] = "open"
      BY <1>1, <2>1, CloseAllTurns
    <2> QED BY <2>2 DEF P, d
  <1>7. TaskSound(a)'
    BY <1>1, <1>2, <1>5, NoTaskFields DEF TaskSound
  <1>8. \A m \in Memory : Held(m) => Held(m)'
    BY <1>1, <1>5 DEF Held, t
  <1>9. ASSUME NEW f \in Flag, Seen(f)
        PROVE  Seen(f)'
    <2>1. f \in Pair
      BY FlagFields
    <2>2. CASE f \in {t.pair} \cap Open
      BY <1>2, <1>4, <1>5, <1>6, <2>1, <2>2 DEF Seen, Renews
    <2>3. CASE f \notin {t.pair} \cap Open
      <3>1. \A b \in Actor : Renews(b, f) => Renews(b, f)'
        BY <1>1, <1>5 DEF Renews, t
      <3> QED BY <1>3, <1>6, <1>9, <2>1, <2>3, <3>1 DEF Seen
    <2> QED BY <2>2, <2>3
  <1>10. stale' \subseteq Memory /\ cut' \subseteq Memory
    BY <1>1, <1>3 DEF TypeOK
  <1> QED BY <1>3, <1>5, <1>6, <1>7, <1>8, <1>9, <1>10, FlagFields, PairStep

LEMMA CloseFlagsKeeps ==
  ASSUME ExpiryInv, NEW a \in Actor, CloseFlags(a)
  PROVE  ExpiryInv'
  <1> DEFINE m == task[a].m
             P == {p \in Open : p.m = m /\ p.kind = "ttl_expiry"}
  <1>1. TypeOK /\ TaskSound(a) /\ task[a].pc = "close" /\ m \in Memory
    BY DEF ExpiryInv, CloseFlags, TaskSound
  <1>2. /\ Become(a, Finished) /\ UNCHANGED <<memory, given, past, harvest, failures, imposed, updated>>
        /\ \/ /\ pairs' = CloseAll(P, "ttl")
              /\ stale' = IF \E p \in Open : p.m = m /\ p.kind = "ttl_expiry"
                                             /\ Carries(m, p.deadline, TRUE)
                          THEN stale \cup {m} ELSE stale
              /\ UNCHANGED cut
           \/ cut' = cut \cup {m} /\ UNCHANGED <<pairs, stale>>
    BY DEF CloseFlags, close_flags
  <1>3. /\ task' \in [Actor -> Task] /\ task'[a] = Finished
        /\ \A b \in Actor : b # a => task'[b] = task[b]
    BY <1>1, <1>2, NoTaskFields, BecomeTurns
  <1>4. TaskSound(a)'
    BY <1>3, NoTaskFields DEF TaskSound
  <1> HIDE DEF m
  <1>5. \A x \in Memory : x # m /\ Held(x) => Held(x)'
    BY <1>3 DEF Held, m
  <1>6. \A f \in Flag : \A b \in Actor : Renews(b, f) => Renews(b, f)'
    BY <1>1, <1>3 DEF Renews
  <1>7. CASE cut' = cut \cup {m} /\ UNCHANGED <<pairs, stale>>
    <2>1. /\ pairs' \in [Pair -> Disposition] /\ stale' \subseteq Memory /\ cut' \subseteq Memory
          /\ cut \subseteq cut'
      BY <1>1, <1>7 DEF TypeOK
    <2>2. \A f \in Flag : Seen(f) => Seen(f)'
      BY <1>2, <1>6, <1>7 DEF Seen
    <2>3. \A f \in Flag : f.m \notin stale' \cup cut' => (Held(f.m) => Held(f.m)')
      BY <1>5, <1>7, FlagFields
    <2> QED BY <1>2, <1>3, <1>4, <1>7, <2>1, <2>2, <2>3, PairStep
  <1>8. CASE /\ pairs' = CloseAll(P, "ttl")
             /\ stale' = IF \E p \in Open : p.m = m /\ p.kind = "ttl_expiry"
                                            /\ Carries(m, p.deadline, TRUE)
                         THEN stale \cup {m} ELSE stale
             /\ UNCHANGED cut
    <2>1. /\ pairs' \in [Pair -> Disposition]
          /\ \A p \in Pair : pairs'[p] = IF p \in P THEN "ttl" ELSE pairs[p]
          /\ \A p \in Pair : pairs'[p] # "none" => pairs[p] # "none"
          /\ \A p \in Pair : pairs'[p] = "open" => p \notin P /\ pairs[p] = "open"
      <3> DEFINE d == "ttl"
      <3>1. P \subseteq Open /\ d \in Disposition \ {"none"} /\ d # "open"
        BY DEF Disposition
      <3>2. pairs' = CloseAll(P, d)
        BY <1>8
      <3> HIDE DEF P, d
      <3>3. /\ pairs' \in [Pair -> Disposition]
            /\ \A p \in Pair : pairs'[p] = IF p \in P THEN d ELSE pairs[p]
            /\ \A p \in Pair : pairs'[p] # "none" => pairs[p] # "none"
            /\ \A p \in Pair : pairs'[p] = "open" => p \notin P /\ pairs[p] = "open"
        BY <1>1, <3>1, <3>2, CloseAllTurns
      <3> QED BY <3>3 DEF d
    <2>2. stale \subseteq stale' /\ stale' \subseteq Memory /\ cut' \subseteq Memory
      BY <1>1, <1>8 DEF TypeOK
    <2>3. ASSUME NEW f \in Flag, pairs'[f] = "open"
          PROVE  pairs[f] = "open" /\ (Held(f.m) => Held(f.m)')
      <3>1. f \in Pair /\ f.kind = "ttl_expiry" /\ f.m \in Memory
        BY FlagFields
      <3>2. pairs[f] = "open" /\ f.m # m
        BY <2>1, <2>3, <3>1 DEF Open
      <3> QED BY <1>5, <3>1, <3>2
    <2>4. ASSUME NEW f \in Flag, Carries(f.m, f.deadline, TRUE), f.m \notin stale', Seen(f)
          PROVE  Seen(f)'
      <3>1. f \in Pair /\ f.kind = "ttl_expiry"
        BY FlagFields
      <3>2. f \notin P
        BY <1>8, <2>4, <3>1
      <3> QED BY <1>2, <1>6, <2>1, <2>4, <3>1, <3>2 DEF Seen
    <2> QED BY <1>2, <1>3, <1>4, <1>8, <2>1, <2>2, <2>3, <2>4, FlagFields, PairStep
  <1> QED BY <1>2, <1>7, <1>8

LEMMA ReopenKeeps ==
  ASSUME ExpiryInv, NEW a \in Actor, Reopen(a)
  PROVE  ExpiryInv'
  <1> DEFINE p == task[a].pair
  <1>1. TypeOK /\ TaskSound(a) /\ task[a].pc = "reopen" /\ p \in Pair /\ p.m \in Memory
    BY DoubtIsNoFlag DEF ExpiryInv, Reopen, TaskSound
  <1>2. /\ pairs' = [pairs EXCEPT ![p] = IF @ \in {"confirmed", "ttl"} THEN "open" ELSE @]
        /\ stale' = IF p.kind = "ttl_expiry" /\ ~Carries(p.m, p.deadline, TRUE)
                    THEN stale \cup {p.m} ELSE stale
        /\ Become(a, Finished)
        /\ UNCHANGED <<memory, given, past, harvest, failures, imposed, updated, cut>>
    BY DEF Reopen
  <1>3. /\ task' \in [Actor -> Task] /\ task'[a] = Finished
        /\ \A b \in Actor : b # a => task'[b] = task[b]
    BY <1>1, <1>2, NoTaskFields, BecomeTurns
  <1>4. TaskSound(a)'
    BY <1>3, NoTaskFields DEF TaskSound
  <1>5. \A x \in Memory : Held(x) => Held(x)'
    BY <1>1, <1>3 DEF Held
  <1>6. \A f \in Flag \ {p} : \A b \in Actor : Renews(b, f) => Renews(b, f)'
    BY <1>3 DEF Renews
  <1> HIDE DEF p
  <1>7. /\ pairs' \in [Pair -> Disposition]
        /\ pairs'[p] = IF pairs[p] \in {"confirmed", "ttl"} THEN "open" ELSE pairs[p]
        /\ \A q \in Pair \ {p} : pairs'[q] = pairs[q]
    BY <1>1, <1>2 DEF TypeOK, Disposition
  <1>8. \A f \in Flag : pairs'[f] # "none" => pairs[f] # "none"
    BY <1>7, FlagFields
  <1>9. stale \subseteq stale' /\ stale' \subseteq Memory /\ cut' \subseteq Memory
    BY <1>1, <1>2 DEF TypeOK
  <1>10. ASSUME NEW f \in Flag, pairs'[f] = "open", f.m \notin stale'
         PROVE  \/ Carries(f.m, f.deadline, TRUE)
                \/ pairs[f] = "open" /\ (Held(f.m) => Held(f.m)')
    BY <1>2, <1>5, <1>7, <1>10, FlagFields
  <1>11. ASSUME NEW f \in Flag, Seen(f)
         PROVE  Seen(f)'
    <2>1. f \in Pair
      BY FlagFields
    <2>2. CASE f = p
      BY <1>2, <1>7, <1>11, <2>2 DEF Seen
    <2>3. CASE f # p
      BY <1>2, <1>6, <1>7, <1>11, <2>1, <2>3 DEF Seen
    <2> QED BY <2>2, <2>3
  <1> QED BY <1>2, <1>3, <1>4, <1>7, <1>8, <1>9, <1>10, <1>11, PairStep

LEMMA ExpirePairsKeeps ==
  ASSUME ExpiryInv, NEW a \in Actor, ExpirePairs(a)
  PROVE  ExpiryInv'
  <1> DEFINE m == task[a].m
             P == {p \in Open : p.m = m /\ (p.kind = "ttl_expiry" \/ p.text # task[a].text)}
  <1>1. TypeOK /\ TaskSound(a) /\ task[a].pc = "expire" /\ m \in Memory /\ m \in updated
    BY DEF ExpiryInv, ExpirePairs, TaskSound
  <1>2. /\ pairs' = pairs \/ pairs' = CloseAll(P, "expired")
        /\ Become(a, Finished)
        /\ UNCHANGED <<memory, given, past, harvest, failures, historyVars>>
    BY DEF ExpirePairs, close_for_updated_text
  <1>3. /\ task' \in [Actor -> Task] /\ task'[a] = Finished
        /\ \A b \in Actor : b # a => task'[b] = task[b]
    BY <1>1, <1>2, NoTaskFields, BecomeTurns
  <1>4. TaskSound(a)'
    BY <1>3, NoTaskFields DEF TaskSound
  <1>5. \A x \in Memory : Held(x) => Held(x)'
    BY <1>1, <1>3 DEF Held
  <1>6. \A f \in Flag : \A b \in Actor : Renews(b, f) => Renews(b, f)'
    BY <1>1, <1>3 DEF Renews
  <1>7. /\ pairs' \in [Pair -> Disposition]
        /\ \A p \in Pair : pairs'[p] # pairs[p] => pairs'[p] = "expired" /\ p.m = m /\ pairs[p] = "open"
    <2>1. P \subseteq Open /\ \A p \in P : p.m = m /\ pairs[p] = "open"
      BY DEF Open
    <2>2. CASE pairs' = CloseAll(P, "expired")
      <3> HIDE DEF P, m
      <3>1. "expired" \in Disposition \ {"none"}
        BY DEF Disposition
      <3>2. /\ pairs' \in [Pair -> Disposition]
            /\ \A p \in Pair : pairs'[p] = IF p \in P THEN "expired" ELSE pairs[p]
        BY <1>1, <2>1, <2>2, <3>1, CloseAllTurns
      <3> QED BY <2>1, <3>2
    <2>3. CASE pairs' = pairs
      BY <1>1, <2>3 DEF TypeOK
    <2> QED BY <1>2, <2>2, <2>3
  <1> HIDE DEF m
  <1>8. \A f \in Flag : pairs'[f] # "none" => pairs[f] # "none"
    BY <1>7, FlagFields
  <1>9. stale' \subseteq Memory /\ cut' \subseteq Memory
    BY <1>1, <1>2 DEF TypeOK
  <1>10. \A f \in Flag : pairs'[f] = "open" => pairs[f] = "open" /\ (Held(f.m) => Held(f.m)')
    BY <1>5, <1>7, FlagFields
  <1>11. ASSUME NEW f \in Flag, Seen(f)
         PROVE  Seen(f)'
    <2>1. f \in Pair
      BY FlagFields
    <2> QED BY <1>1, <1>2, <1>6, <1>7, <1>11, <2>1 DEF Seen
  <1> QED BY <1>2, <1>3, <1>4, <1>7, <1>8, <1>9, <1>10, <1>11, PairStep

\* The memory is gone, or came back from what an update had read.
LEMMA ForgetKeeps ==
  ASSUME ExpiryInv, NEW a \in Actor, Forget(a)
  PROVE  ExpiryInv'
  <1> DEFINE m == task[a].m
             P == {p \in Open : p.m = m}
  <1>1. /\ TypeOK /\ TaskSound(a) /\ task[a].pc = "forget" /\ m \in Memory
        /\ m \notin Stored \/ m \in stale
    BY DEF ExpiryInv, Forget, TaskSound
  <1>2. /\ pairs' = CloseAll(P, "obsoleted")
        /\ Become(a, Finished)
        /\ UNCHANGED <<memory, given, past, harvest, failures, historyVars>>
    BY DEF Forget, close_for_old
  <1>3. /\ task' \in [Actor -> Task] /\ task'[a] = Finished
        /\ \A b \in Actor : b # a => task'[b] = task[b]
    BY <1>1, <1>2, NoTaskFields, BecomeTurns
  <1>4. TaskSound(a)'
    BY <1>3, NoTaskFields DEF TaskSound
  <1>5. \A x \in Memory : x # m /\ Held(x) => Held(x)'
    BY <1>3 DEF Held
  <1>6. \A f \in Flag : \A b \in Actor : Renews(b, f) => Renews(b, f)'
    BY <1>1, <1>3 DEF Renews
  <1>7. /\ pairs' \in [Pair -> Disposition]
        /\ \A p \in Pair : pairs'[p] = IF p \in P THEN "obsoleted" ELSE pairs[p]
        /\ \A p \in Pair : pairs'[p] # "none" => pairs[p] # "none"
        /\ \A p \in Pair : pairs'[p] = "open" => p \notin P /\ pairs[p] = "open"
    <2> DEFINE d == "obsoleted"
    <2>1. P \subseteq Open /\ d \in Disposition \ {"none"} /\ d # "open"
      BY DEF Disposition
    <2>2. pairs' = CloseAll(P, d)
      BY <1>2
    <2> HIDE DEF P, d
    <2>3. /\ pairs' \in [Pair -> Disposition]
          /\ \A p \in Pair : pairs'[p] = IF p \in P THEN d ELSE pairs[p]
          /\ \A p \in Pair : pairs'[p] # "none" => pairs[p] # "none"
          /\ \A p \in Pair : pairs'[p] = "open" => p \notin P /\ pairs[p] = "open"
      BY <1>1, <2>1, <2>2, CloseAllTurns
    <2> QED BY <2>3 DEF d
  <1>8. stale' \subseteq Memory /\ cut' \subseteq Memory
    BY <1>1, <1>2 DEF TypeOK
  <1> HIDE DEF m
  <1>9. ASSUME NEW f \in Flag, pairs'[f] = "open"
        PROVE  pairs[f] = "open" /\ (Held(f.m) => Held(f.m)')
    <2>1. f \in Pair /\ f.m \in Memory
      BY FlagFields
    <2>2. pairs[f] = "open" /\ f.m # m
      BY <1>7, <1>9, <2>1 DEF Open
    <2> QED BY <1>5, <2>1, <2>2
  <1>10. ASSUME NEW f \in Flag, Carries(f.m, f.deadline, TRUE), f.m \notin stale', Seen(f)
         PROVE  Seen(f)'
    <2>1. f \in Pair /\ f.m \in Memory
      BY FlagFields
    <2>2. f.m # m
      BY <1>1, <1>2, <1>10, <2>1 DEF Carries, Stored
    <2> QED BY <1>2, <1>6, <1>7, <1>10, <2>1, <2>2 DEF Seen
  <1> QED BY <1>2, <1>3, <1>4, <1>7, <1>8, <1>9, <1>10, FlagFields, PairStep

LEMMA JudgeKeeps ==
  ASSUME ExpiryInv, NEW m \in Memory, Judge(m)
  PROVE  ExpiryInv'
  <1> DEFINE p == [kind |-> "necessity", m |-> m, text |-> memory[m].text, deadline |-> 0]
  <1>1. TypeOK
    BY DEF ExpiryInv
  <1>2. p \in Doubt
    BY <1>1, TtlFields DEF Doubt
  <1>3. p \in Pair /\ p \notin Flag
    BY <1>2, DoubtIsNoFlag DEF Pair
  <1>4. /\ pairs' = [pairs EXCEPT ![p] = IF @ = "none" THEN "open" ELSE @]
        /\ UNCHANGED <<memory, given, past, harvest, failures, task, historyVars>>
    BY DEF Judge, record_judgment
  <1> HIDE DEF p
  <1>5. pairs' \in [Pair -> Disposition] /\ \A f \in Flag : pairs'[f] = pairs[f]
    BY <1>1, <1>3, <1>4, FlagFields DEF TypeOK, Disposition
  <1>6. task' \in [Actor -> Task] /\ stale' \subseteq Memory /\ cut' \subseteq Memory
    BY <1>1, <1>4 DEF TypeOK
  <1>7. \A f \in Flag : Seen(f) => Seen(f)'
    BY <1>4, <1>5 DEF Seen, Renews
  <1>8. \A f \in Flag : Held(f.m) => Held(f.m)'
    BY <1>4 DEF Held
  <1> QED BY <1>4, <1>5, <1>6, <1>7, <1>8, PairStep

--------------------------------------------------------------------------------
(* The harvester *)

LEMMA HarvestFields ==
  ASSUME ExpiryInv
  PROVE  /\ harvest.pc \in {"idle", "stamp", "close", "record"} /\ harvest.todo \in SUBSET Item
         /\ harvest.item \in Item \cup {NoItem} /\ Pending \subseteq Item
         /\ harvest.item.m \in Memory => harvest.item \in Item
  BY ItemFields DEF ExpiryInv, TypeOK, Pending

LEMMA HarvestTyped ==
  ASSUME ExpiryInv, UNCHANGED <<memory, given, past, task, imposed, updated>>,
         harvest' \in [pc : {"idle", "stamp", "close", "record"}, item : Item \cup {NoItem},
                       todo : SUBSET Item],
         pairs' \in [Pair -> Disposition], failures' \in 0..MaxFailures,
         stale' \subseteq Memory, cut' \subseteq Memory
  PROVE  TypeOK'
  BY DEF ExpiryInv, TypeOK

LEMMA CloseOthersKeeps ==
  ASSUME ExpiryInv, CloseOthers
  PROVE  ExpiryInv'
  <1> DEFINE i == harvest.item
             P == {p \in Open : p.m = i.m}
  <1>1. TypeOK /\ HarvestSound /\ harvest.pc = "close" /\ i \in Item /\ i.m \in Memory
    BY ItemFields DEF ExpiryInv, CloseOthers, HarvestSound
  <1>2. /\ pairs' = CloseAll(P, "expired")
        /\ UNCHANGED <<memory, given, past, failures, task, historyVars>>
        /\ harvest' = [harvest EXCEPT !.pc = "record"]
    BY DEF CloseOthers, close_for_old
  <1>3. harvest'.item = i /\ harvest'.todo = harvest.todo /\ harvest'.pc = "record"
        /\ harvest' \in [pc : {"idle", "stamp", "close", "record"}, item : Item \cup {NoItem},
                         todo : SUBSET Item]
    BY <1>1, <1>2 DEF TypeOK
  <1> HIDE DEF i
  <1>4. /\ pairs' \in [Pair -> Disposition]
        /\ \A p \in Pair : pairs'[p] = IF p \in P THEN "expired" ELSE pairs[p]
        /\ \A p \in Pair : pairs'[p] # "none" => pairs[p] # "none"
        /\ \A p \in Pair : pairs'[p] = "open" => p \notin P /\ pairs[p] = "open"
    <2> DEFINE d == "expired"
    <2>1. P \subseteq Open /\ d \in Disposition \ {"none"} /\ d # "open"
      BY DEF Disposition
    <2>2. pairs' = CloseAll(P, d)
      BY <1>2
    <2> HIDE DEF P, d
    <2>3. /\ pairs' \in [Pair -> Disposition]
          /\ \A p \in Pair : pairs'[p] = IF p \in P THEN d ELSE pairs[p]
          /\ \A p \in Pair : pairs'[p] # "none" => pairs[p] # "none"
          /\ \A p \in Pair : pairs'[p] = "open" => p \notin P /\ pairs[p] = "open"
      BY <1>1, <2>1, <2>2, CloseAllTurns
    <2> QED BY <2>3 DEF d
  <1>5. TypeOK'
    BY <1>1, <1>2, <1>3, <1>4, HarvestTyped DEF TypeOK
  <1>6. Grows
    <2>1. \A m \in Memory : given[m] \in Nat
      BY <1>1, TtlFields
    <2> QED BY <1>2, <2>1 DEF Grows
  <1>7. Pending' = Pending
    BY <1>3 DEF Pending, i
  <1>8. HarvestSound'
    BY <1>1, <1>2, <1>3, <1>7 DEF HarvestSound, i
  <1>9. Asked' /\ AskedOnce'
    BY <1>2, <1>4, <1>5, <1>6, <1>7, FlagFields, AskedKeeps
  <1>10. \A f \in Flag : pairs'[f] = "open" => pairs[f] = "open" /\ (Held(f.m) => Held(f.m)')
    BY <1>2, <1>4, FlagFields DEF Held
  <1>11. ASSUME NEW f \in Flag, Seen(f), f.m # i.m
         PROVE  Seen(f)'
    BY <1>2, <1>4, <1>11, FlagFields DEF Seen, Renews
  <1> USE DEF i
  <1> QED BY <1>2, <1>3, <1>5, <1>8, <1>9, <1>10, <1>11, DeadlinesKeep, QuietStep

\* What was not flagged is noted as cut off.
LEMMA HarvestStops ==
  ASSUME ExpiryInv, UNCHANGED <<memory, given, past, pairs, task, imposed, updated, stale>>,
         failures' \in 0..MaxFailures, NEW r,
         r \in [pc : {"idle", "stamp", "close", "record"}, item : {NoItem}, todo : SUBSET Item],
         harvest' = r, r.pc \in {"idle", "stamp"}, r.todo \subseteq harvest.todo,
         cut \subseteq cut', cut' \subseteq Memory,
         harvest.item.m \in Memory => harvest.item.m \in cut'
  PROVE  ExpiryInv'
  <1>1. TypeOK /\ HarvestSound
    BY DEF ExpiryInv
  <1>2. harvest'.item = NoItem /\ harvest'.todo = r.todo /\ harvest'.pc \in {"idle", "stamp"}
    OBVIOUS
  <1>3. TypeOK'
    BY <1>1, HarvestTyped DEF TypeOK
  <1>4. Pending' \subseteq Pending /\ Pending' = r.todo
    BY <1>2, ItemFields DEF Pending
  <1>5. HarvestSound'
    <2>1. Pending \subseteq Item
      BY HarvestFields
    <2> QED BY <1>1, <1>2, <1>4, <2>1, ItemFields DEF HarvestSound
  <1>6. Grows
    <2>1. \A m \in Memory : given[m] \in Nat
      BY <1>1, TtlFields
    <2> QED BY <2>1 DEF Grows
  <1>7. Asked' /\ AskedOnce'
    BY <1>3, <1>4, <1>6, AskedKeeps
  <1>8. \A f \in Flag : Seen(f) => Seen(f)'
    BY DEF Seen, Renews
  <1>9. \A f \in Flag : Held(f.m) => Held(f.m)'
    BY DEF Held
  <1> QED BY <1>3, <1>5, <1>7, <1>8, <1>9, DeadlinesKeep, QuietStep

LEMMA HarvestFailsKeeps ==
  ASSUME ExpiryInv, FlagFails \/ HarvestEnds
  PROVE  ExpiryInv'
  <1>1. TypeOK /\ HarvestSound
    BY DEF ExpiryInv
  <1>2. failures' \in 0..MaxFailures
    BY <1>1, ExpiryAssumption DEF TypeOK, FlagFails, HarvestEnds
  <1>3. CASE FlagFails
    <2> DEFINE r == [pc |-> IF harvest.todo = {} THEN "idle" ELSE "stamp",
                     item |-> NoItem, todo |-> harvest.todo]
    <2>1. /\ r \in [pc : {"idle", "stamp", "close", "record"}, item : {NoItem}, todo : SUBSET Item]
          /\ r.pc \in {"idle", "stamp"} /\ r.todo = harvest.todo
      BY HarvestFields
    <2>2. harvest' = r /\ cut' = cut \cup {harvest.item.m}
      BY <1>3 DEF FlagFails, NextItem
    <2> HIDE DEF r
    <2>3. harvest.item.m \in Memory
      BY <1>1, <1>3, ItemFields DEF FlagFails, HarvestSound
    <2>4. cut \subseteq cut' /\ cut' \subseteq Memory
      BY <1>1, <2>2, <2>3 DEF TypeOK
    <2> QED BY <1>2, <1>3, <2>1, <2>2, <2>4, HarvestStops DEF FlagFails
  <1>4. CASE HarvestEnds
    <2> DEFINE r == NoHarvest
    <2>1. /\ r \in [pc : {"idle", "stamp", "close", "record"}, item : {NoItem}, todo : SUBSET Item]
          /\ r.pc \in {"idle", "stamp"} /\ r.todo \subseteq harvest.todo
      BY DEF NoHarvest
    <2>2. harvest' = r /\ cut' = cut \cup ({harvest.item.m} \ {NoMemory})
      BY <1>4 DEF HarvestEnds
    <2> HIDE DEF r
    <2>3. harvest.item.m \in Memory \cup {NoMemory}
      BY HarvestFields, ItemFields
    <2>4. cut \subseteq cut' /\ cut' \subseteq Memory /\ (harvest.item.m \in Memory => harvest.item.m \in cut')
      BY <1>1, <2>2, <2>3, ItemFields DEF TypeOK
    <2> QED BY <1>2, <1>4, <2>1, <2>2, <2>4, HarvestStops DEF HarvestEnds
  <1> QED BY <1>3, <1>4

LEMMA ScanKeeps ==
  ASSUME ExpiryInv, Scan
  PROVE  ExpiryInv'
  <1> DEFINE found == {m \in Stored : Expired(m)}
  <1>1. PICK M \in kSubset(Min({Limit, Cardinality(found)}), found) :
          harvest' = [pc |-> "stamp", item |-> NoItem,
                      todo |-> {[m |-> m, text |-> memory[m].text,
                                 deadline |-> memory[m].ttl.deadline] : m \in {x \in M : Due(x)}}]
    BY DEF Scan
  <1> DEFINE T == {[m |-> m, text |-> memory[m].text, deadline |-> memory[m].ttl.deadline] :
                     m \in {x \in M : Due(x)}}
  <1>2. TypeOK /\ DeadlinesSound /\ HarvestSound /\ Asked /\ AskedOnce /\ harvest.pc = "idle"
        /\ UNCHANGED <<memory, given, past, pairs, failures, task, historyVars>>
    BY DEF ExpiryInv, Scan
  <1>3. /\ harvest'.pc = "stamp" /\ harvest'.item = NoItem /\ harvest'.todo = T
        /\ harvest'= [pc |-> "stamp", item |-> NoItem, todo |-> T]
    BY <1>1
  <1>4. ASSUME NEW i \in T
        PROVE  /\ i \in Item /\ i.deadline <= given[i.m] /\ i.deadline \notin imposed[i.m]
               /\ i.text = memory[i.m].text
               /\ i.deadline = memory[i.m].ttl.deadline /\ ~memory[i.m].ttl.stamped
    <2>1. PICK m \in M : /\ Due(m)
                         /\ i = [m |-> m, text |-> memory[m].text, deadline |-> memory[m].ttl.deadline]
      BY <1>4
    <2>2. m \in Memory /\ Expired(m) /\ ~memory[m].ttl.stamped
      BY <2>1 DEF Due, Stored
    <2>3. memory[m].ttl.deadline \in Deadline /\ memory[m].text \in Text
      BY <1>2, <2>2, TtlFields DEF Expired, TypeOK
    <2>4. memory[m].ttl.deadline <= given[m] /\ memory[m].ttl.deadline \notin imposed[m]
      BY <1>2, <2>2 DEF DeadlinesSound
    <2>5. i \in Item /\ i.m = m /\ i.text = memory[m].text /\ i.deadline = memory[m].ttl.deadline
      BY <2>1, <2>2, <2>3 DEF Item
    <2> QED BY <2>2, <2>4, <2>5
  <1>5. \A i, j \in T : i.m = j.m => i = j
    BY <1>4, FlagFields DEF Item
  <1> HIDE DEF T
  <1>6. TypeOK'
    <2>1. harvest' \in [pc : {"idle", "stamp", "close", "record"}, item : Item \cup {NoItem},
                        todo : SUBSET Item]
      BY <1>3, <1>4
    <2> QED BY <1>2, <2>1, HarvestTyped DEF TypeOK
  <1>7. Pending' = T
    BY <1>3, ItemFields DEF Pending
  <1>8. HarvestSound'
    BY <1>2, <1>3, <1>4, <1>5, <1>7, ItemFields DEF HarvestSound
  <1>9. Asked' /\ AskedOnce'
    <2>1. AskedOnce'
      BY <1>2 DEF AskedOnce
    <2>2. Asked'
      BY <1>2, <1>4, <1>7 DEF Asked
    <2> QED BY <2>1, <2>2
  <1>10. DeadlinesSound'
    BY <1>2, DeadlinesKeep
  <1>11. harvest.item.m \notin Memory
    BY <1>2, HarvestFields DEF HarvestSound
  <1>12. \A f \in Flag : (Seen(f) => Seen(f)') /\ (Held(f.m) => Held(f.m)')
    BY <1>2 DEF Seen, Renews, Held
  <1> QED BY <1>2, <1>6, <1>8, <1>9, <1>10, <1>11, <1>12, QuietStep

\* A flag of this deadline can only have been recorded for a memory that is spoilt.
LEMMA RecordFlagKeeps ==
  ASSUME ExpiryInv, RecordFlag
  PROVE  ExpiryInv'
  <1> DEFINE i == harvest.item
             g == [kind |-> "ttl_expiry", m |-> i.m, text |-> i.text, deadline |-> i.deadline]
  <1>1. /\ TypeOK /\ HarvestSound /\ Asked /\ AskedOnce /\ harvest.pc = "record"
        /\ i \in Item /\ i.m \in Memory /\ i \in Pending
    BY ItemFields DEF ExpiryInv, RecordFlag, HarvestSound, Pending
  <1>2. g \in Flag /\ g.m = i.m /\ g.deadline = i.deadline /\ g \in Pair
    <2>1. g \in Flag /\ g.m = i.m /\ g.deadline = i.deadline
      BY <1>1, ItemFields DEF Flag
    <2> QED BY <2>1, FlagFields
  <1>3. /\ pairs' = [pairs EXCEPT ![g] = IF @ = "none" THEN "open" ELSE @]
        /\ stale' = IF Carries(i.m, i.deadline, TRUE) THEN stale ELSE stale \cup {i.m}
        /\ harvest' = NextItem
        /\ UNCHANGED <<memory, given, past, failures, task, imposed, updated, cut>>
    BY DEF RecordFlag, record_judgment
  <1> HIDE DEF g, i
  <1>4. /\ pairs' \in [Pair -> Disposition] /\ \A f \in Pair \ {g} : pairs'[f] = pairs[f]
        /\ pairs'[g] = IF pairs[g] = "none" THEN "open" ELSE pairs[g]
    BY <1>1, <1>2, <1>3 DEF TypeOK, Disposition
  <1>5. /\ harvest'.item = NoItem /\ harvest'.todo = harvest.todo /\ harvest'.pc \in {"idle", "stamp"}
        /\ harvest' \in [pc : {"idle", "stamp", "close", "record"}, item : Item \cup {NoItem},
                         todo : SUBSET Item]
    BY <1>3, HarvestFields DEF NextItem
  <1>6. stale \subseteq stale' /\ stale' \subseteq Memory /\ cut' \subseteq Memory
    BY <1>1, <1>3 DEF TypeOK
  <1>7. TypeOK'
    BY <1>1, <1>3, <1>4, <1>5, <1>6, HarvestTyped DEF TypeOK
  <1>8. Pending' = harvest.todo /\ Pending' \subseteq Pending /\ \A j \in Pending' : j.m # i.m
    BY <1>1, <1>5, ItemFields DEF Pending, HarvestSound, i
  <1>9. HarvestSound'
    BY <1>1, <1>3, <1>5, <1>8, ItemFields, HarvestFields DEF HarvestSound
  <1>10. i.m \notin stale' => Carries(i.m, i.deadline, TRUE)
    BY <1>3
  <1>11. i.m \notin stale => \A f \in Flag : f.m = i.m /\ f.deadline = i.deadline => pairs[f] = "none"
    BY <1>1 DEF Asked
  <1>12. Asked'
    <2> SUFFICES ASSUME NEW f \in Flag, pairs'[f] # "none"
                 PROVE  /\ f.deadline <= given[f.m]
                        /\ f.m \notin stale' =>
                             /\ memory[f.m].ttl.deadline = f.deadline => memory[f.m].ttl.stamped
                             /\ \A j \in Pending' : ~(j.m = f.m /\ j.deadline = f.deadline)
      BY <1>3 DEF Asked
    <2>1. f \in Pair
      BY FlagFields
    <2>2. CASE f = g
      BY <1>1, <1>2, <1>8, <1>10, <2>2 DEF HarvestSound, Carries
    <2>3. CASE f # g
      BY <1>1, <1>4, <1>6, <1>8, <2>1, <2>3 DEF Asked
    <2> QED BY <2>2, <2>3
  <1>13. AskedOnce'
    <2>1. ASSUME NEW f \in Flag, pairs'[f] # "none"
          PROVE  f.deadline \notin imposed[f.m]
      <3>1. CASE f = g
        BY <1>1, <1>2, <3>1 DEF HarvestSound
      <3>2. CASE f # g
        BY <1>1, <1>4, <2>1, <3>2, FlagFields DEF AskedOnce
      <3> QED BY <3>1, <3>2
    <2>2. ASSUME NEW f \in Flag, NEW h \in Flag, pairs'[f] # "none", pairs'[h] # "none",
                 h.m = f.m, h.deadline = f.deadline
          PROVE  h = f \/ f.m \in stale'
      <3>1. f \in Pair /\ h \in Pair
        BY FlagFields
      <3>2. CASE f # g /\ h # g
        BY <1>1, <1>4, <1>6, <2>2, <3>1, <3>2 DEF AskedOnce
      <3>3. CASE f = g \/ h = g
        BY <1>2, <1>4, <1>6, <1>11, <2>2, <3>1, <3>3
      <3> QED BY <3>2, <3>3
    <2> QED BY <1>3, <2>1, <2>2 DEF AskedOnce
  <1>14. DeadlinesSound'
    BY <1>3, DeadlinesKeep
  <1>15. ASSUME NEW f \in Flag, pairs'[f] = "open", f.m \notin stale'
         PROVE  Carries(f.m, f.deadline, TRUE) \/ (pairs[f] = "open" /\ (Held(f.m) => Held(f.m)'))
    <2>1. CASE f = g
      BY <1>2, <1>10, <1>15, <2>1
    <2>2. CASE f # g
      BY <1>3, <1>4, <1>15, <2>2, FlagFields DEF Held
    <2> QED BY <2>1, <2>2
  <1>16. ASSUME NEW f \in Flag, Seen(f)
         PROVE  Seen(f)'
    <2>1. f \in Pair /\ (\A a \in Actor : Renews(a, f) => Renews(a, f)')
      BY <1>3, FlagFields DEF Renews
    <2>2. pairs'[f] = pairs[f]
      BY <1>4, <1>16, <2>1 DEF Seen
    <2> QED BY <1>3, <1>16, <2>1, <2>2 DEF Seen
  <1>17. ASSUME NEW m \in Memory, harvest.item.m = m, m \notin stale'
         PROVE  \E f \in Flag : f.m = m /\ f.deadline = memory[m].ttl.deadline /\ Seen(f)'
    <2>1. m = i.m /\ memory[m].ttl.deadline = i.deadline
      BY <1>10, <1>17 DEF i, Carries
    <2>2. pairs'[g] = "open"
      BY <1>2, <1>4, <1>6, <1>11, <1>17, <2>1
    <2> QED BY <1>2, <2>1, <2>2 DEF Seen
  <1> QED BY <1>3, <1>6, <1>7, <1>9, <1>12, <1>13, <1>14, <1>15, <1>16, <1>17, QuietStep

LEMMA PassKeeps ==
  ASSUME ExpiryInv, NEW m \in Memory, Pass(m)
  PROVE  ExpiryInv'
  <1>1. /\ TypeOK /\ DeadlinesSound /\ HarvestSound /\ Asked /\ AskedOnce
        /\ memory[m].ttl.deadline \in Deadline
        /\ past' = [past EXCEPT ![m] = @ \cup {memory[m].ttl.deadline}]
        /\ UNCHANGED <<memory, given, pairs, harvest, failures, task, historyVars>>
    BY DEF ExpiryInv, Pass
  <1>2. past' \in [Memory -> SUBSET Deadline]
    BY <1>1 DEF TypeOK
  <1>3. TypeOK'
    BY <1>1, <1>2 DEF TypeOK
  <1>4. DeadlinesSound'
    <2>1. memory[m].ttl.deadline \in 1..given[m]
      BY <1>1, TtlFields DEF DeadlinesSound, Deadline
    <2> QED BY <1>1, <2>1 DEF DeadlinesSound, TypeOK
  <1>5. HarvestSound' /\ Asked' /\ AskedOnce'
    BY <1>1 DEF HarvestSound, Asked, AskedOnce, Pending
  <1>6. \A f \in Flag : (Seen(f) => Seen(f)') /\ (Held(f.m) => Held(f.m)')
    BY <1>1 DEF Seen, Renews, Held
  <1> QED BY <1>1, <1>3, <1>4, <1>5, <1>6, QuietStep

--------------------------------------------------------------------------------
(* Steps on the vector store *)

\* What was due is stamped, or it is noted that it no longer was.
LEMMA StampKeeps ==
  ASSUME ExpiryInv, Stamp
  PROVE  ExpiryInv'
  <1>1. /\ TypeOK /\ DeadlinesSound /\ HarvestSound /\ harvest.pc = "stamp"
        /\ UNCHANGED <<given, past, pairs, failures, task, imposed, updated, cut>>
    BY DEF ExpiryInv, Stamp
  <1>2. PICK i \in harvest.todo :
          /\ memory' = IF i.m \in Stored THEN [memory EXCEPT ![i.m].ttl.stamped = TRUE] ELSE memory
          /\ harvest' = [pc |-> "close", item |-> i, todo |-> harvest.todo \ {i}]
          /\ stale' = IF Carries(i.m, i.deadline, FALSE) THEN stale ELSE stale \cup {i.m}
    BY DEF Stamp
  <1>3. i \in Item /\ i.m \in Memory /\ harvest.todo \subseteq Item
    BY HarvestFields, ItemFields
  <1>4. /\ memory' \in [Memory -> [stored : BOOLEAN, text : Text, ttl : Ttl]]
        /\ \A m \in Memory :
             /\ memory'[m].stored = memory[m].stored
             /\ memory'[m].ttl.deadline = memory[m].ttl.deadline
             /\ memory[m].ttl.stamped => memory'[m].ttl.stamped
             /\ \/ memory'[m].ttl = memory[m].ttl
                \/ m = i.m /\ memory'[m].ttl.stamped
    <2> DEFINE R == [stored : BOOLEAN, text : Text, ttl : Ttl]
               y == memory[i.m]
               z == [y EXCEPT !.ttl.stamped = TRUE]
    <2>1. memory \in [Memory -> R] /\ y \in R
      BY <1>1, <1>3 DEF TypeOK
    <2>2. /\ z \in R /\ z.stored = y.stored /\ z.ttl.deadline = y.ttl.deadline /\ z.ttl.stamped
      <3>1. y.ttl \in Ttl
        BY <2>1
      <3>2. [y.ttl EXCEPT !.stamped = TRUE] \in Ttl
        BY <3>1 DEF Ttl
      <3>3. z = [y EXCEPT !.ttl = [y.ttl EXCEPT !.stamped = TRUE]]
        BY <2>1
      <3> QED BY <2>1, <3>1, <3>2, <3>3 DEF Ttl
    <2>3. CASE memory' = memory
      BY <2>1, <2>3
    <2>4. CASE memory' = [memory EXCEPT ![i.m] = z]
      <3> HIDE DEF R, z
      <3>1. memory' \in [Memory -> R] /\ memory'[i.m] = z
        BY <1>3, <2>1, <2>2, <2>4
      <3>2. \A m \in Memory \ {i.m} : memory'[m] = memory[m]
        BY <2>1, <2>4
      <3>3. /\ z.stored = memory[i.m].stored /\ z.ttl.deadline = memory[i.m].ttl.deadline
            /\ z.ttl.stamped
        BY <2>2
      <3> QED BY <3>1, <3>2, <3>3 DEF R
    <2>5. memory' = memory \/ memory' = [memory EXCEPT ![i.m] = z]
      BY <1>2
    <2> QED BY <2>3, <2>4, <2>5
  <1>5. /\ harvest'.pc = "close" /\ harvest'.item = i /\ harvest'.todo = harvest.todo \ {i}
        /\ harvest' \in [pc : {"idle", "stamp", "close", "record"}, item : Item \cup {NoItem},
                         todo : SUBSET Item]
    BY <1>2, <1>3
  <1>6. stale \subseteq stale' /\ stale' \subseteq Memory
    BY <1>1, <1>2, <1>3 DEF TypeOK
  <1>7. TypeOK'
    BY <1>1, <1>4, <1>5, <1>6 DEF TypeOK
  <1>8. Grows
    BY <1>1, <1>4, <1>6, TtlFields DEF Grows
  <1>9. DeadlinesSound'
    BY <1>1, <1>4 DEF DeadlinesSound
  <1>10. Pending' = Pending
    BY <1>1, <1>3, <1>5 DEF Pending, HarvestSound
  <1>11. HarvestSound'
    BY <1>1, <1>3, <1>5, <1>10 DEF HarvestSound
  <1>12. Asked' /\ AskedOnce'
    BY <1>1, <1>4, <1>7, <1>8, <1>10, AskedKeeps
  <1>13. \A b \in Actor : TaskSound(b)'
    BY <1>1, <1>7, <1>8, OtherKeeps
  <1>14. FlagIsCurrent'
    <2>1. \A f \in Flag : Carries(f.m, f.deadline, TRUE) => Carries(f.m, f.deadline, TRUE)'
      BY <1>4, <1>7, FlagFields, TtlFields DEF Carries, TypeOK, Ttl
    <2>2. \A f \in Flag : Held(f.m) => Held(f.m)'
      BY <1>1 DEF Held
    <2> QED BY <1>1, <1>8, <2>1, <2>2, CurrentKeeps
  <1>15. NothingExpiresUnseen'
    <2>1. \A f \in Flag : Seen(f) => Seen(f)'
      BY <1>1 DEF Seen, Renews
    <2>2. \A m \in Memory : m \in Stored' => m \in Stored
      BY <1>4 DEF Stored
    <2>3. harvest.item.m \notin Memory
      BY <1>1, HarvestFields DEF HarvestSound
    <2> QED BY <1>4, <1>5, <1>8, <2>1, <2>2, <2>3, SeenKeeps
  <1> QED BY <1>7, <1>9, <1>11, <1>12, <1>13, <1>14, <1>15 DEF ExpiryInv

\* The new deadline was never passed, imposed or asked about; whoever wrote it closes
\* the flags of the old one next.
LEMMA WriteTtlKeeps ==
  ASSUME ExpiryInv, NEW a \in Actor, WriteTtl(a)
  PROVE  ExpiryInv'
  <1> DEFINE m == task[a].m
             act == task[a].act
             d == given[m] + 1
             r == [task[a] EXCEPT !.pc = "close"]
  <1>1. /\ TypeOK /\ DeadlinesSound /\ TaskSound(a) /\ task[a].pc = "write" /\ m \in Memory
        /\ task[a] \in Task /\ given[m] \in Nat /\ d \in Nat
    BY TaskFields, TtlFields DEF ExpiryInv, WriteTtl, TaskSound
  <1>2. /\ act # "clear" => d <= MaxDeadlines
        /\ IF m \in Stored
           THEN /\ memory' = [memory EXCEPT ![m].ttl = Patch(act, d)]
                /\ given' = [given EXCEPT ![m] = IF act = "clear" THEN @ ELSE d]
                /\ past' = [past EXCEPT ![m] = IF act = "impose" THEN @ \cup {d} ELSE @]
                /\ imposed' = [imposed EXCEPT ![m] = IF act = "impose" THEN @ \cup {d} ELSE @]
           ELSE UNCHANGED <<memory, given, past, imposed>>
        /\ Become(a, r)
        /\ UNCHANGED <<pairs, harvest, failures, updated, stale, cut>>
    BY DEF WriteTtl
  <1>3. r \in Task /\ r.pc = "close" /\ r.m = m /\ r.pair = task[a].pair
    BY <1>1 DEF Task
  <1> HIDE DEF r
  <1>4. /\ task' \in [Actor -> Task] /\ task'[a] = r
        /\ \A b \in Actor : b # a => task'[b] = task[b]
    BY <1>1, <1>2, <1>3, BecomeTurns
  <1> DEFINE p == Patch(act, d)
  <1>5. /\ p.deadline = (IF act = "clear" THEN 0 ELSE d) /\ p.stamped = (act = "impose")
        /\ p \in Ttl /\ p.deadline \in Nat
    BY <1>1, <1>2, ExpiryAssumption DEF Patch, Ttl
  <1> HIDE DEF p, d, act, m
  <1>6. /\ memory' \in [Memory -> [stored : BOOLEAN, text : Text, ttl : Ttl]]
        /\ \A x \in Memory : /\ memory'[x].stored = memory[x].stored
                             /\ memory'[x].ttl = IF x = m /\ m \in Stored THEN p ELSE memory[x].ttl
    <2>1. CASE m \notin Stored
      BY <1>1, <1>2, <2>1 DEF TypeOK
    <2>2. CASE m \in Stored
      <3>1. memory' = [memory EXCEPT ![m].ttl = p]
        BY <1>2, <2>2 DEF p
      <3> QED BY <1>1, <1>5, <2>2, <3>1 DEF TypeOK
    <2> QED BY <2>1, <2>2
  <1>7. /\ given' \in [Memory -> 0..MaxDeadlines] /\ past' \in [Memory -> SUBSET Deadline]
        /\ imposed' \in [Memory -> SUBSET Deadline]
        /\ \A x \in Memory : /\ x # m \/ m \notin Stored =>
                                  given'[x] = given[x] /\ past'[x] = past[x] /\ imposed'[x] = imposed[x]
                             /\ x = m /\ m \in Stored =>
                                  /\ given'[x] = IF act = "clear" THEN given[x] ELSE d
                                  /\ past'[x] = IF act = "impose" THEN past[x] \cup {d} ELSE past[x]
                                  /\ imposed'[x] = IF act = "impose" THEN imposed[x] \cup {d} ELSE imposed[x]
    <2>1. act # "clear" => d \in Deadline /\ d \in 0..MaxDeadlines
      BY <1>1, <1>2, ExpiryAssumption DEF Deadline, d
    <2>2. CASE m \notin Stored
      BY <1>1, <1>2, <2>2 DEF TypeOK
    <2>3. CASE m \in Stored
      <3>1. given' \in [Memory -> 0..MaxDeadlines]
        BY <1>1, <1>2, <2>1, <2>3 DEF TypeOK
      <3>2. past' \in [Memory -> SUBSET Deadline]
        BY <1>1, <1>2, <2>1, <2>3 DEF TypeOK
      <3>3. imposed' \in [Memory -> SUBSET Deadline]
        BY <1>1, <1>2, <2>1, <2>3 DEF TypeOK
      <3> QED BY <1>1, <1>2, <2>3, <3>1, <3>2, <3>3 DEF TypeOK
    <2> QED BY <2>2, <2>3
  <1>8. TypeOK'
    BY <1>1, <1>2, <1>4, <1>6, <1>7 DEF TypeOK
  <1>9. d = given[m] + 1 /\ d > given[m] /\ d \in Nat /\ given[m] \in Nat
    BY <1>1 DEF d
  <1>10. Grows
    <2>1. \A x \in Memory : given[x] \in Nat
      BY <1>1, TtlFields
    <2> QED BY <1>2, <1>6, <1>7, <1>9, <2>1 DEF Grows
  <1>11. DeadlinesSound'
    <2> SUFFICES ASSUME NEW x \in Memory
                 PROVE  /\ memory'[x].ttl.deadline <= given'[x]
                        /\ past'[x] \subseteq 1..given'[x] /\ imposed'[x] \subseteq 1..given'[x]
                        /\ memory'[x].ttl.deadline \in imposed'[x] => memory'[x].ttl.stamped
      BY DEF DeadlinesSound
    <2>1. CASE x # m \/ m \notin Stored
      BY <1>1, <1>6, <1>7, <2>1 DEF DeadlinesSound
    <2>2. CASE x = m /\ m \in Stored
      <3>1. past[m] \subseteq 1..given[m] /\ imposed[m] \subseteq 1..given[m]
        BY <1>1, <2>2 DEF DeadlinesSound
      <3>2. memory'[x].ttl = p
        BY <1>6, <2>2
      <3>3. memory'[x].ttl.deadline <= given'[x]
        BY <1>5, <1>7, <1>9, <2>2, <3>2
      <3>4. past'[x] \subseteq 1..given'[x] /\ imposed'[x] \subseteq 1..given'[x]
        BY <1>7, <1>9, <2>2, <3>1
      <3>5. memory'[x].ttl.deadline \in imposed'[x] => memory'[x].ttl.stamped
        <4>1. CASE act = "impose"
          BY <1>5, <3>2, <4>1
        <4>2. CASE act # "impose"
          <5>1. imposed'[x] = imposed[m]
            BY <1>7, <2>2, <4>2
          <5>2. p.deadline \notin 1..given[m]
            BY <1>5, <1>9
          <5> QED BY <3>1, <3>2, <5>1, <5>2
        <4> QED BY <4>1, <4>2
      <3> QED BY <3>3, <3>4, <3>5
    <2> QED BY <2>1, <2>2
  <1>12. HarvestSound' /\ Pending' = Pending
    BY <1>2, <1>8, <1>10, HarvestKeeps
  <1>13. Asked' /\ AskedOnce'
    <2>1. \A x \in Memory : \/ memory'[x].ttl = memory[x].ttl
                            \/ memory'[x].ttl.deadline = 0
                            \/ memory'[x].ttl.deadline > given[x]
      BY <1>5, <1>6, <1>9
    <2> QED BY <1>2, <1>8, <1>10, <1>12, <2>1, AskedKeeps
  <1>14. TaskSound(a)'
    BY <1>1, <1>3, <1>4 DEF TaskSound, m
  <1>15. \A b \in Actor : TaskSound(b)'
    BY <1>4, <1>8, <1>10, <1>14, OtherKeeps
  <1>16. FlagIsCurrent'
    <2>1. \A f \in Flag : f.m = m => Held(f.m)'
      BY <1>3, <1>4 DEF Held
    <2>2. \A x \in Memory : Held(x) => Held(x)'
      BY <1>1, <1>4 DEF Held
    <2>3. \A f \in Flag : f.m # m => (Carries(f.m, f.deadline, TRUE) => Carries(f.m, f.deadline, TRUE)')
      BY <1>6, FlagFields DEF Carries
    <2> QED BY <1>2, <1>10, <2>1, <2>2, <2>3, FlagFields, CurrentKeeps
  <1>17. NothingExpiresUnseen'
    <2>1. ASSUME NEW x \in Memory, x \in Stored', memory'[x].ttl.stamped
          PROVE  \/ memory'[x].ttl.deadline \in imposed'[x]
                 \/ x \in Stored /\ memory'[x].ttl = memory[x].ttl
      <3>1. x \in Stored
        BY <1>6, <2>1 DEF Stored
      <3>2. CASE x = m
        <4>1. memory'[x].ttl = p
          BY <1>6, <3>1, <3>2
        <4>2. act = "impose" /\ p.deadline = d
          BY <1>5, <2>1, <4>1
        <4> QED BY <1>7, <3>1, <3>2, <4>1, <4>2
      <3>3. CASE x # m
        BY <1>6, <3>1, <3>3
      <3> QED BY <3>2, <3>3
    <2>2. ASSUME NEW f \in Flag, Carries(f.m, f.deadline, TRUE), memory'[f.m].ttl = memory[f.m].ttl, Seen(f)
          PROVE  Seen(f)'
      <3>1. f.m \in Memory /\ f.m \in Stored /\ memory[f.m].ttl.deadline = f.deadline /\ f.deadline # 0
        BY <2>2, FlagFields DEF Carries, Stored
      <3>2. f.m # m
        BY <1>1, <1>5, <1>6, <1>9, <2>2, <3>1 DEF DeadlinesSound
      <3>3. task[a].pair # f
        BY <1>1, <3>2, FlagFields DEF TaskSound, m
      <3>4. \A b \in Actor : Renews(b, f) => Renews(b, f)'
        BY <1>4, <3>3 DEF Renews
      <3> QED BY <1>2, <2>2, <3>4 DEF Seen
    <2> QED BY <1>2, <1>10, <2>1, <2>2, SeenKeeps
  <1> QED BY <1>8, <1>11, <1>12, <1>13, <1>15, <1>16, <1>17 DEF ExpiryInv

\* What the command writes is what it read, which was the memory's once.
LEMMA UpsertKeeps ==
  ASSUME ExpiryInv, NEW a \in Actor, Upsert(a)
  PROVE  ExpiryInv'
  <1> DEFINE t == task[a]
             m == task[a].m
             y == [stored |-> TRUE, text |-> t.text, ttl |-> t.seen]
             r == [t EXCEPT !.pc = "expire", !.seen = NoTtl]
  <1>1. /\ TypeOK /\ DeadlinesSound /\ TaskSound(a) /\ t.pc = "upsert" /\ m \in Memory
        /\ t \in Task /\ t.seen \in Ttl /\ t.text \in Text /\ given[m] \in Nat
        /\ t.seen.deadline <= given[m]
        /\ t.seen.deadline \in imposed[m] => t.seen.stamped
    BY TaskFields, TtlFields DEF ExpiryInv, Upsert, TaskSound
  <1>2. /\ memory' = [memory EXCEPT ![m] = y]
        /\ stale' = IF m \in Stored /\ memory[m].ttl = t.seen THEN stale ELSE stale \cup {m}
        /\ updated' = updated \cup {m}
        /\ Become(a, r)
        /\ UNCHANGED <<given, past, pairs, harvest, failures, imposed, cut>>
    BY DEF Upsert
  <1>3. r \in Task /\ r.pc = "expire" /\ r.m = m /\ r.pair = t.pair /\ r.text = t.text
    <2>1. NoTtl \in Ttl
      BY ExpiryAssumption DEF NoTtl, Ttl
    <2> QED BY <1>1, <2>1 DEF Task
  <1>4. y \in [stored : BOOLEAN, text : Text, ttl : Ttl] /\ y.stored /\ y.ttl = t.seen
    BY <1>1
  <1> HIDE DEF r, y
  <1>5. /\ task' \in [Actor -> Task] /\ task'[a] = r
        /\ \A b \in Actor : b # a => task'[b] = task[b]
    BY <1>1, <1>2, <1>3, BecomeTurns
  <1>6. /\ memory' \in [Memory -> [stored : BOOLEAN, text : Text, ttl : Ttl]]
        /\ \A x \in Memory : memory'[x] = IF x = m THEN y ELSE memory[x]
    BY <1>1, <1>2, <1>4 DEF TypeOK
  <1>7. stale' \subseteq Memory /\ updated' \subseteq Memory /\ stale \subseteq stale' /\ m \in updated'
    BY <1>1, <1>2 DEF TypeOK
  <1>8. TypeOK'
    BY <1>1, <1>2, <1>5, <1>6, <1>7 DEF TypeOK
  <1>9. \A x \in Memory \ stale' : memory'[x].ttl = memory[x].ttl /\ (x \in Stored' <=> x \in Stored)
    BY <1>2, <1>4, <1>6 DEF Stored
  <1>10. Grows
    <2>1. \A x \in Memory : given[x] \in Nat
      BY <1>1, TtlFields
    <2>2. \A x \in Memory : memory'[x].stored /\ ~memory[x].stored => x \in stale'
      BY <1>9 DEF Stored
    <2> QED BY <1>2, <1>7, <2>1, <2>2 DEF Grows
  <1>11. DeadlinesSound'
    BY <1>1, <1>2, <1>4, <1>6 DEF DeadlinesSound
  <1>12. HarvestSound' /\ Pending' = Pending
    BY <1>2, <1>8, <1>10, HarvestKeeps
  <1>13. Asked' /\ AskedOnce'
    BY <1>2, <1>8, <1>9, <1>10, <1>12, AskedKeeps
  <1>14. TaskSound(a)'
    BY <1>1, <1>3, <1>5, <1>7 DEF TaskSound
  <1>15. \A b \in Actor : TaskSound(b)'
    BY <1>5, <1>8, <1>10, <1>14, OtherKeeps
  <1>16. FlagIsCurrent'
    <2>1. \A x \in Memory : Held(x) => Held(x)'
      BY <1>1, <1>5 DEF Held
    <2>2. \A f \in Flag : f.m \notin stale' =>
            (Carries(f.m, f.deadline, TRUE) => Carries(f.m, f.deadline, TRUE)')
      BY <1>9, FlagFields DEF Carries, Stored
    <2> QED BY <1>2, <1>10, <2>1, <2>2, FlagFields, CurrentKeeps
  <1>17. NothingExpiresUnseen'
    <2>1. \A f \in Flag : Seen(f) => Seen(f)'
      <3>1. \A b \in Actor, f \in Flag : Renews(b, f) => Renews(b, f)'
        BY <1>1, <1>5 DEF Renews
      <3> QED BY <1>2, <1>7, <3>1 DEF Seen
    <2> QED BY <1>2, <1>9, <1>10, <2>1, SeenKeeps
  <1> QED BY <1>8, <1>11, <1>12, <1>13, <1>15, <1>16, <1>17 DEF ExpiryInv

\* A memory that is gone has no open flag but for the one who deletes it.
LEMMA deleteKeeps ==
  ASSUME ExpiryInv, NEW a \in Actor, delete(a)
  PROVE  ExpiryInv'
  <1>1. PICK m \in Stored :
          \/ /\ Become(a, [NoTask EXCEPT !.pc = "check", !.m = m, !.act = "impose"])
             /\ UNCHANGED memory
          \/ /\ memory' = [memory EXCEPT ![m].stored = FALSE]
             /\ Become(a, [NoTask EXCEPT !.pc = "forget", !.m = m])
    BY DEF delete
  <1>2. /\ TypeOK /\ DeadlinesSound /\ task[a].pc = "idle" /\ m \in Memory
        /\ UNCHANGED <<given, past, pairs, harvest, failures, historyVars>>
    BY <1>1 DEF ExpiryInv, delete, Stored
  <1>3. CASE /\ Become(a, [NoTask EXCEPT !.pc = "check", !.m = m, !.act = "impose"])
             /\ UNCHANGED memory
    <2> DEFINE r == [NoTask EXCEPT !.pc = "check", !.m = m, !.act = "impose"]
    <2>1. r \in Task /\ r.pc = "check" /\ r.m = m /\ r.pair = NoPair
      BY <1>2, NoTaskFields DEF Task, NoTask
    <2>2. Become(a, r)
      BY <1>3
    <2> HIDE DEF r
    <2>3. task'[a] = r
      BY <1>2, <2>1, <2>2, BecomeTurns
    <2>4. TaskSound(a)'
      BY <1>2, <2>1, <2>3, NoPairAssumption DEF TaskSound
    <2>5. cut' \subseteq Memory
      BY <1>2 DEF TypeOK
    <2> QED BY <1>2, <1>3, <2>1, <2>2, <2>4, <2>5, TaskStep
  <1>4. CASE /\ memory' = [memory EXCEPT ![m].stored = FALSE]
             /\ Become(a, [NoTask EXCEPT !.pc = "forget", !.m = m])
    <2> DEFINE r == [NoTask EXCEPT !.pc = "forget", !.m = m]
    <2>1. r \in Task /\ r.pc = "forget" /\ r.m = m /\ r.pair = NoPair
      BY <1>2, NoTaskFields DEF Task, NoTask
    <2>2. Become(a, r)
      BY <1>4
    <2> HIDE DEF r
    <2>3. /\ task' \in [Actor -> Task] /\ task'[a] = r
          /\ \A b \in Actor : b # a => task'[b] = task[b]
      BY <1>2, <2>1, <2>2, BecomeTurns
    <2>4. /\ memory' \in [Memory -> [stored : BOOLEAN, text : Text, ttl : Ttl]]
          /\ \A x \in Memory : /\ memory'[x].ttl = memory[x].ttl
                               /\ memory'[x].stored = IF x = m THEN FALSE ELSE memory[x].stored
      BY <1>2, <1>4 DEF TypeOK
    <2>5. TypeOK'
      BY <1>2, <2>3, <2>4 DEF TypeOK
    <2>6. Grows
      <3>1. \A x \in Memory : given[x] \in Nat
        BY <1>2, TtlFields
      <3>2. UNCHANGED <<given, imposed, stale, cut, updated>>
        BY <1>2
      <3>3. \A x \in Memory : memory'[x].stored => memory[x].stored
        BY <2>4
      <3> QED BY <3>1, <3>2, <3>3 DEF Grows
    <2>7. DeadlinesSound'
      BY <1>2, <2>4 DEF DeadlinesSound
    <2>8. HarvestSound' /\ Pending' = Pending
      BY <1>2, <2>5, <2>6, HarvestKeeps
    <2>9. Asked' /\ AskedOnce'
      BY <1>2, <2>4, <2>5, <2>6, <2>8, AskedKeeps
    <2>10. m \notin Stored'
      BY <2>4 DEF Stored
    <2>11. TaskSound(a)'
      BY <1>2, <2>1, <2>3, <2>10, NoPairAssumption DEF TaskSound
    <2>12. \A b \in Actor : TaskSound(b)'
      BY <2>3, <2>5, <2>6, <2>11, OtherKeeps
    <2>13. FlagIsCurrent'
      <3>1. \A f \in Flag : f.m = m => Held(f.m)'
        BY <2>1, <2>3 DEF Held
      <3>2. \A x \in Memory : Held(x) => Held(x)'
        BY <1>2, <2>3 DEF Held
      <3>3. \A f \in Flag : f.m # m =>
              (Carries(f.m, f.deadline, TRUE) => Carries(f.m, f.deadline, TRUE)')
        BY <2>4, FlagFields DEF Carries
      <3> QED BY <1>2, <2>6, <3>1, <3>2, <3>3, FlagFields, CurrentKeeps
    <2>14. NothingExpiresUnseen'
      <3>1. \A f \in Flag : Seen(f) => Seen(f)'
        <4>1. \A b \in Actor, f \in Flag : Renews(b, f) => Renews(b, f)'
          BY <1>2, <2>3 DEF Renews
        <4> QED BY <1>2, <4>1 DEF Seen
      <3>2. \A x \in Memory : x \in Stored' => x \in Stored
        BY <2>4 DEF Stored
      <3> QED BY <1>2, <2>4, <2>6, <3>1, <3>2, SeenKeeps
    <2> QED BY <2>5, <2>7, <2>8, <2>9, <2>12, <2>13, <2>14 DEF ExpiryInv
  <1> QED BY <1>1, <1>3, <1>4

--------------------------------------------------------------------------------
(* The theorems *)

LEMMA InitHolds ==
  ASSUME Init
  PROVE  ExpiryInv
  <1> DEFINE T == {NoTtl, [deadline |-> 1, stamped |-> FALSE, known |-> TRUE]}
             R == [stored : {TRUE}, text : Text, ttl : T]
  <1>1. \A u \in T : u \in Ttl /\ ~u.stamped /\ u.deadline \in {0, 1}
    <2> DEFINE u1 == [deadline |-> 1, stamped |-> FALSE, known |-> TRUE]
    <2>1. NoTtl \in Ttl /\ ~NoTtl.stamped /\ NoTtl.deadline = 0
      BY ExpiryAssumption DEF NoTtl, Ttl
    <2>2. u1 \in Ttl /\ ~u1.stamped /\ u1.deadline = 1
      BY ExpiryAssumption DEF Ttl
    <2> QED BY <2>1, <2>2
  <1>2. memory \in [Memory -> R]
    BY DEF Init
  <1>3. \A m \in Memory : /\ memory[m].text \in Text /\ memory[m].stored = TRUE /\ memory[m].ttl \in T
                          /\ memory[m] \in [stored : BOOLEAN, text : Text, ttl : Ttl]
    BY <1>1, <1>2
  <1>4. memory \in [Memory -> [stored : BOOLEAN, text : Text, ttl : Ttl]]
    BY <1>2, <1>3
  <1> HIDE DEF T, R
  <1>5. \A m \in Memory : /\ memory[m].ttl.deadline \in {0, 1} /\ ~memory[m].ttl.stamped
                          /\ given[m] = memory[m].ttl.deadline
    BY <1>1, <1>3 DEF Init
  <1>6. given \in [Memory -> 0..MaxDeadlines]
    BY <1>5, ExpiryAssumption DEF Init
  <1>7. \A a \in Actor : task[a] = NoTask
    BY DEF Init
  <1>8. task \in [Actor -> Task] /\ NoTask.pc = "idle" /\ NoTask.pair \notin Pair
    BY NoTaskFields DEF Init, NoTask
  <1>9. /\ harvest = NoHarvest /\ harvest.item = NoItem /\ harvest.todo = {} /\ harvest.pc = "idle"
        /\ harvest \in [pc : {"idle", "stamp", "close", "record"}, item : Item \cup {NoItem},
                        todo : SUBSET Item]
    BY DEF Init, NoHarvest
  <1>10. \A p \in Pair : pairs[p] = "none"
    BY DEF Init
  <1>11. TypeOK
    <2>1. pairs \in [Pair -> Disposition]
      BY DEF Init, Disposition
    <2> QED BY <1>4, <1>6, <1>8, <1>9, <2>1, ExpiryAssumption DEF Init, TypeOK
  <1>12. DeadlinesSound
    BY <1>5 DEF Init, DeadlinesSound
  <1>13. \A a \in Actor : TaskSound(a)
    BY <1>7, <1>8 DEF TaskSound
  <1>14. HarvestSound
    <2>1. Pending = {}
      BY <1>9, ItemFields DEF Pending
    <2> QED BY <1>9, <2>1, ItemFields DEF HarvestSound
  <1>15. \A f \in Flag : pairs[f] = "none"
    BY <1>10, FlagFields
  <1> QED BY <1>5, <1>11, <1>12, <1>13, <1>14, <1>15
          DEF ExpiryInv, Asked, AskedOnce, FlagIsCurrent, NothingExpiresUnseen, Stored

LEMMA NextKeeps ==
  ASSUME ExpiryInv, [Next]_vars
  PROVE  ExpiryInv'
  <1>1. CASE Harvest
    BY <1>1, ScanKeeps, StampKeeps, CloseOthersKeeps, RecordFlagKeeps DEF Harvest
  <1>2. CASE FlagFails \/ HarvestEnds
    BY <1>2, HarvestFailsKeeps
  <1>3. CASE \E m \in Memory : Pass(m) \/ Judge(m)
    BY <1>3, PassKeeps, JudgeKeeps
  <1>4. ASSUME NEW a \in Actor, Acts(a)
        PROVE  ExpiryInv'
    BY <1>4, ttlKeeps, CheckTtlKeeps, WriteTtlKeeps, CloseFlagsKeeps, LoadOpenPairKeeps,
       DisposeKeeps, ReopenKeeps, updateKeeps, ReadKeeps, UpsertKeeps, ExpirePairsKeeps,
       deleteKeeps, ForgetKeeps, FailKeeps DEF Acts
  <1>5. CASE UNCHANGED vars
    BY <1>5 DEF vars, ExpiryInv, TypeOK, DeadlinesSound, TaskSound, HarvestSound, Pending, Asked,
                FlagIsCurrent, Carries, NothingExpiresUnseen, Renews, AskedOnce, Spoilt, Stored
  <1> QED BY <1>1, <1>2, <1>3, <1>4, <1>5 DEF Next

\* The inductive invariant holds of every store of memories, whatever commands run and
\* wherever the harvest is cut short (staleness.py, the TTL part).
THEOREM ExpiryIsSound == Spec => []ExpiryInv
  BY InitHolds, NextKeeps, PTL DEF Spec

\* Every variable keeps its type.
THEOREM TypeCorrect == Spec => []TypeOK
  <1>1. ExpiryInv => TypeOK
    BY DEF ExpiryInv
  <1> QED BY <1>1, ExpiryIsSound, PTL

\* A flag that is open is about the deadline that keeps its entry out of the pool
\* (staleness.py:1229-1236).
THEOREM FlagsAreCurrent == Spec => []FlagIsCurrent
  <1>1. ExpiryInv => FlagIsCurrent
    BY DEF ExpiryInv
  <1> QED BY <1>1, ExpiryIsSound, PTL

\* No entry leaves the pool without somebody's word or a flag (staleness.py:1249-1309).
THEOREM NoExpiryIsUnseen == Spec => []NothingExpiresUnseen
  <1>1. ExpiryInv => NothingExpiresUnseen
    BY DEF ExpiryInv
  <1> QED BY <1>1, ExpiryIsSound, PTL

\* A deadline is asked about once, and never when somebody imposed it
\* (staleness.py:1197-1200, 1290-1292).
THEOREM NobodyIsAskedTwice == Spec => []AskedOnce
  <1>1. ExpiryInv => AskedOnce
    BY DEF ExpiryInv
  <1> QED BY <1>1, ExpiryIsSound, PTL

===============================================================================
