------------------------------ MODULE WikiCompile ------------------------------
(***************************************************************************)
(* One compile run of the wiki, from the store to the cursor.  `wiki plan` *)
(* reads every memory a page at a time and cuts what moved since the       *)
(* cursor into batches; `wiki profile` reads the store again and leaves    *)
(* one artifact per batch in the run's directory; `wiki close-run`         *)
(* advances the cursor.  Meanwhile the store changes, calls fail or are    *)
(* refused, commands die, and the operator plans or profiles again in the  *)
(* same directory.                                                         *)
(*                                                                         *)
(* One operator runs one command at a time, and closes a run only after a  *)
(* pass without failures, with the moment the plan recorded.  A new run    *)
(* profiles into a new directory.                                          *)
(***************************************************************************)
EXTENDS Integers, Sequences, FiniteSets

CONSTANTS Memories,       \* the ids are 1..Memories, in the order the store lists them
          SessionOf,      \* [memory |-> its session, or NoSession]
          NoSession,
          Existing,       \* the memories the store holds at first
          PageSize, MaxMemories, PackThreshold, Concurrency,
          MaxTime,        \* bound on the clock, in seconds
          MaxWrites,      \* bound on adds, updates and deletes
          MaxRuns         \* bound on closed runs

Memory == 1..Memories

ASSUME WikiCompileAssumption ==
    /\ DOMAIN SessionOf = Memory /\ Existing \subseteq Memory
    /\ {Memories, PageSize, MaxMemories, PackThreshold, Concurrency, MaxRuns}
           \subseteq Nat \ {0}
    /\ {MaxTime, MaxWrites} \subseteq Nat

VARIABLES
    now,        \* the clock; every stamp has this resolution
    row,        \* [memory |-> its row, Unwritten or Deleted]
    cursor,     \* state/compile.json: [run, at]
    reader,     \* read_all_memories of the command that is running
    plan,       \* plan.json of the run, [readAt, batches], or NoPlan
    pass,       \* the profiling pass that is running: [texts, todo, failed]
    finished,   \* the last pass over this plan reported no failure
    art,        \* [batch id |-> the artifact under it], of those that exist
    kept,       \* the superseded artifacts: {<<batch id, covers>>}
    \* History.
    writes,     \* changes made to the store so far
    selected,   \* what the plan was made from: ids, one per row read
    fresh,      \* memories the plan read and nobody has changed since
    retired,    \* memories whose present content a closed run planned
    excused,    \* [reason |-> memories it took out of a reader's sight]
    answered    \* every <<batch id, covers>> the endpoint profiled in this run

storeVars == <<now, row, writes>>
diskVars == <<cursor, plan, art, kept>>
compileVars == <<now, row, cursor, reader, plan, pass, finished, art, kept,
                 writes, selected, fresh, retired, excused, answered>>

Never == -1
Unwritten == [born |-> Never, touched |-> Never]
Deleted == [born |-> Never, touched |-> MaxTime + 1]
NoPlan == [readAt |-> Never, batches |-> <<>>]
Idle == [cmd |-> "none", began |-> Never, start |-> 0, rows |-> {}, fresh |-> {}]
NoPass == [texts |-> {}, todo |-> {}, failed |-> FALSE]
Empty == [run |-> 1, at |-> Never]

Live == {m \in Memory : row[m].born # Never}

(***************************************************************************)
(* The store as `list` returns it, by position, and one page of it.  A row *)
(* read is known by its id and by where its page starts: a row that the    *)
(* store's growth pushes onto a second page is read twice.  A page is      *)
(* short when no row is left for its last place.                           *)
(***************************************************************************)
RowOf(m, start) == [id |-> m, page |-> start, born |-> row[m].born, touched |-> row[m].touched]

Store == {RowOf(m, 0) : m \in Live}

Position(m) == Cardinality({x \in Live : x <= m})

Listed(start) == {m \in Live : start < Position(m) /\ Position(m) <= start + PageSize}

Page == {RowOf(m, reader.start) : m \in Listed(reader.start)}

LastPage == Cardinality(Live) < reader.start + PageSize

(***************************************************************************)
(* Planning.  The groups of plan_batches are sets of rows, in the order    *)
(* that their first rows have.                                             *)
(***************************************************************************)
Before(a, b) ==
    \/ a.born < b.born
    \/ a.born = b.born /\ a.id < b.id
    \/ a.born = b.born /\ a.id = b.id /\ a.page < b.page

First(rows) == CHOOSE r \in rows : \A x \in rows : x = r \/ Before(r, x)

GroupOf(rows, s) == {r \in rows : SessionOf[r.id] = s}

(* touched_at(m) >= since compares text: the stamp is cut to the second    *)
(* and the cursor carries its UTC offset, so a stamp of the cursor's own   *)
(* second is a proper prefix of it and compares as smaller.                *)
Moved(r, since) == r.touched > since

SelectSince_Piecemeal(rows, since) ==
    IF since = Never THEN rows ELSE {r \in rows : Moved(r, since)}

(* A session of which anything moved is selected whole; a memory without a *)
(* session is selected by itself.                                          *)
SelectSince(rows, since) ==
    IF since = Never THEN rows
    ELSE {r \in rows : \/ Moved(r, since)
                       \/ /\ SessionOf[r.id] # NoSession
                          /\ \E x \in GroupOf(rows, SessionOf[r.id]) : Moved(x, since)}

Ids(rows) == {<<r.id, r.page>> : r \in rows}

Batch(kind, rows) == [kind |-> kind, ids |-> Ids(rows)]

Ordinal(rows, r) == Cardinality({x \in rows : Before(x, r)})

Chunks(kind, rows) ==
    [n \in 1..((Cardinality(rows) + MaxMemories - 1) \div MaxMemories) |->
        Batch(kind, {r \in rows : Ordinal(rows, r) \div MaxMemories = n - 1})]

Flush(p) ==
    IF p.pending = {} THEN p
    ELSE [p EXCEPT !.done = Append(@, Batch(IF Cardinality(p.pending) > 1 THEN "pack"
                                            ELSE "session", UNION p.pending)),
                   !.pending = {}]

(* One session more: parts when it is too long, a call of its own when it  *)
(* is long enough, otherwise a place in the pack it still fits into.       *)
Place(p, group) ==
    IF Cardinality(group) > MaxMemories
    THEN [Flush(p) EXCEPT !.done = @ \o Chunks("session-part", group)]
    ELSE IF Cardinality(group) >= PackThreshold
    THEN Flush([Flush(p) EXCEPT !.pending = {group}])
    ELSE LET room == IF Cardinality(UNION p.pending) + Cardinality(group) > MaxMemories
                     THEN Flush(p) ELSE p
         IN  [room EXCEPT !.pending = @ \cup {group}]

(* The session of the first row that has no place yet.                     *)
PlaceNext(p) ==
    IF p.left = {} THEN p
    ELSE LET group == GroupOf(p.left, SessionOf[First(p.left).id])
         IN  Place([p EXCEPT !.left = @ \ group], group)

Placed(rows) ==
    LET f[n \in Nat] == IF n = 0 THEN [done |-> <<>>, pending |-> {}, left |-> rows]
                        ELSE PlaceNext(f[n - 1])
    IN  f[Cardinality(rows)]

PlanBatches_LastPackLost(rows, since) ==
    LET chosen == SelectSince(rows, since)
        ledger == GroupOf(chosen, NoSession)
    IN  Placed(chosen \ ledger).done \o Chunks("ledger", ledger)

PlanBatches(rows, since) ==
    LET chosen == SelectSince(rows, since)
        ledger == GroupOf(chosen, NoSession)
    IN  Flush(Placed(chosen \ ledger)).done \o Chunks("ledger", ledger)

(***************************************************************************)
(* A store that already holds memories, and a wiki never compiled.         *)
(***************************************************************************)
CompileInit ==
    /\ now = 0 /\ writes = 0
    /\ row = [m \in Memory |-> IF m \in Existing THEN [born |-> 0, touched |-> 0]
                                                 ELSE Unwritten]
    /\ cursor = Empty /\ reader = Idle /\ plan = NoPlan /\ pass = NoPass
    /\ finished = FALSE /\ art = <<>>
    /\ kept = {} /\ selected = {} /\ fresh = {} /\ retired = {}
    /\ excused = [reason \in {"plan", "profile", "second"} |-> {}]
    /\ answered = {}

Quiet == reader = Idle /\ pass = NoPass

(***************************************************************************)
(* The rest of the system: somebody adds, updates or deletes a memory.     *)
(***************************************************************************)
Tick == /\ now < MaxTime /\ now' = now + 1
        /\ UNCHANGED <<row, cursor, reader, plan, pass, finished, art, kept,
                       writes, selected, fresh, retired, excused, answered>>

Changes(m) == /\ writes < MaxWrites /\ writes' = writes + 1
              /\ reader' = [reader EXCEPT !.fresh = @ \ {m}]
              /\ fresh' = fresh \ {m} /\ retired' = retired \ {m}
              /\ UNCHANGED <<now, cursor, plan, pass, finished, art, kept,
                             selected, answered>>

Write(m) ==
    /\ row[m] # Deleted
    /\ row' = [row EXCEPT ![m] = [born |-> IF @.born = Never THEN now ELSE @.born,
                                  touched |-> now]]
    /\ excused' = [excused EXCEPT !["plan"] = @ \ {m},
                                  !["second"] = IF now = cursor.at THEN @ \cup {m} ELSE @ \ {m}]
    /\ Changes(m)

(* The rows after a deleted one move up, and the first one a reader has    *)
(* not reached moves onto a page it has already read.                      *)
Delete(m) ==
    /\ m \in Live
    /\ row' = [row EXCEPT ![m] = Deleted]
    /\ LET moved == {x \in Live : Position(x) = reader.start + 1 /\ m < x}
       IN  excused' = [why \in DOMAIN excused |->
                          (excused[why] \ {m}) \cup IF why = reader.cmd THEN moved ELSE {}]
    /\ Changes(m)

(***************************************************************************)
(* read_all_memories: the moment it began (which only `plan` goes on to    *)
(* use), then page after page.                                             *)
(***************************************************************************)
Start(cmd) ==
    /\ Quiet
    /\ \/ cmd = "plan" /\ cursor.run <= MaxRuns
       \/ cmd = "profile" /\ plan # NoPlan
    /\ reader' = [Idle EXCEPT !.cmd = cmd, !.began = IF cmd = "plan" THEN now ELSE Never]
    /\ UNCHANGED <<storeVars, diskVars, pass, finished, selected, fresh, retired,
                   excused, answered>>

AllRows == reader.rows \cup Page

AllFresh == reader.fresh \cup Listed(reader.start)

NextPage ==
    /\ reader.cmd # "none" /\ ~LastPage
    /\ reader' = [reader EXCEPT !.start = @ + PageSize, !.rows = AllRows, !.fresh = AllFresh]
    /\ UNCHANGED <<storeVars, diskVars, pass, finished, selected, fresh, retired,
                   excused, answered>>

(***************************************************************************)
(* wiki plan.                                                              *)
(***************************************************************************)
WritePlan_StampsTheEnd ==
    /\ reader.cmd = "plan" /\ LastPage
    /\ plan' = [readAt |-> now, batches |-> PlanBatches(AllRows, cursor.at)]
    /\ selected' = Ids(SelectSince(AllRows, cursor.at)) /\ fresh' = AllFresh
    /\ reader' = Idle /\ finished' = FALSE
    /\ UNCHANGED <<storeVars, cursor, art, kept, pass, retired, excused, answered>>

WritePlan ==
    /\ reader.cmd = "plan" /\ LastPage
    /\ plan' = [readAt |-> reader.began, batches |-> PlanBatches(AllRows, cursor.at)]
    /\ selected' = Ids(SelectSince(AllRows, cursor.at)) /\ fresh' = AllFresh
    /\ reader' = Idle /\ finished' = FALSE
    /\ UNCHANGED <<storeVars, cursor, art, kept, pass, retired, excused, answered>>

(***************************************************************************)
(* wiki profile.                                                           *)
(***************************************************************************)
(* The ids a batch names, and how often each: what the hash is taken of.   *)
Named(ids) == {i[1] : i \in ids}

CoverageDigest(batch) == [m \in Memory |-> Cardinality({i \in batch.ids : i[1] = m})]

(* A refused record carries no `covers`: no batch has this digest.         *)
Unknown == [m \in Memory |-> 0]

Candidates(p) == {s \in DOMAIN p.batches : p.batches[s].kind # "ledger"}

NeedsProfiling_ById(p, s) == s \notin DOMAIN art

NeedsProfiling(p, s) ==
    s \in DOMAIN art => art[s].covers # CoverageDigest(p.batches[s])

Superseded_Never(s) == FALSE

(* An answer about other memories moves to a name made from what it        *)
(* covers, unless that name is taken.                                      *)
Superseded(s) == s \in DOMAIN art /\ <<s, art[s].covers>> \notin kept

Without(batches) == [s \in DOMAIN art \ batches |-> art[s]]

StartPass ==
    /\ reader.cmd = "profile" /\ LastPage
    /\ LET todo == {s \in Candidates(plan) : NeedsProfiling(plan, s)}
           moved == {s \in todo : Superseded(s)}
       IN  /\ pass' = IF todo = {} THEN NoPass
                      ELSE [texts |-> {r.id : r \in AllRows}, todo |-> todo, failed |-> FALSE]
           /\ finished' = (todo = {})
           /\ kept' = kept \cup {<<s, art[s].covers>> : s \in moved}
           /\ art' = Without(moved)
    /\ reader' = Idle
    /\ UNCHANGED <<storeVars, cursor, plan, selected, fresh, retired, excused, answered>>

(* The pool takes the batches in order: the calls in flight are those of   *)
(* the first Concurrency batches that have no answer yet.                  *)
InFlight == {s \in pass.todo : Cardinality({t \in pass.todo : t < s}) < Concurrency}

Leave(s, failed) ==
    LET rest == pass.todo \ {s}
    IN  IF rest # {} THEN /\ pass' = [pass EXCEPT !.todo = rest, !.failed = failed]
                          /\ UNCHANGED finished
        ELSE pass' = NoPass /\ finished' = ~failed

Keep(s, record) ==
    /\ art' = [t \in DOMAIN art \cup {s} |-> IF t = s THEN record ELSE art[t]]
    /\ Leave(s, pass.failed)

Profiled(s) ==
    /\ s \in InFlight
    /\ LET batch == plan.batches[s]
       IN  /\ Keep(s, [status |-> "ok", covers |-> CoverageDigest(batch),
                       blank |-> Named(batch.ids) \ pass.texts])
           /\ answered' = answered \cup {<<s, CoverageDigest(batch)>>}
    /\ UNCHANGED <<storeVars, cursor, plan, kept, reader, selected, fresh, retired, excused>>

Refused(s) ==
    /\ s \in InFlight
    /\ Keep(s, [status |-> "refused", covers |-> Unknown, blank |-> {}])
    /\ UNCHANGED <<storeVars, cursor, plan, kept, reader, selected, fresh, retired,
                   excused, answered>>

Failed_Recorded(s) ==
    /\ s \in InFlight
    /\ Keep(s, [status |-> "failed", covers |-> Unknown, blank |-> {}])
    /\ UNCHANGED <<storeVars, cursor, plan, kept, reader, selected, fresh, retired,
                   excused, answered>>

(* A failure leaves no artifact: that is what makes a rerun retry it.      *)
Failed(s) ==
    /\ s \in InFlight /\ Leave(s, TRUE)
    /\ UNCHANGED <<storeVars, diskVars, reader, selected, fresh, retired, excused, answered>>

(***************************************************************************)
(* wiki close-run, with the moment the plan recorded.  It reads the store  *)
(* once more, for boundary_memory_ids, which nothing reads: left out.      *)
(***************************************************************************)
NewRun == /\ plan' = NoPlan /\ finished' = FALSE /\ selected' = {} /\ fresh' = {}
          /\ art' = <<>> /\ kept' = {} /\ answered' = {}

CloseRun ==
    /\ Quiet /\ finished
    /\ cursor' = [run |-> cursor.run + 1, at |-> plan.readAt]
    /\ retired' = retired \cup (fresh \cap Named(selected))
    /\ excused' = [excused EXCEPT !["second"] =
                      @ \cup {m \in Live \ retired' : row[m].touched = plan.readAt}]
    /\ NewRun
    /\ UNCHANGED <<storeVars, reader, pass>>

(* The command dies.  A file it was writing is cut short: an artifact or a *)
(* plan that does not parse is no artifact and no plan, and a cursor that  *)
(* does not parse reads as a missing one.                                  *)
Crash ==
    /\ ~Quiet
    /\ \/ UNCHANGED <<art, plan, finished, selected, fresh>>
       \/ /\ \E s \in InFlight : art' = Without({s})
          /\ UNCHANGED <<plan, finished, selected, fresh>>
       \/ /\ reader.cmd = "plan" /\ LastPage
          /\ plan' = NoPlan /\ finished' = FALSE /\ selected' = {} /\ fresh' = {}
          /\ UNCHANGED art
    /\ reader' = Idle /\ pass' = NoPass
    /\ UNCHANGED <<storeVars, cursor, kept, retired, excused, answered>>

CrashInClose ==
    /\ Quiet /\ finished
    /\ cursor' = Empty /\ NewRun
    /\ UNCHANGED <<storeVars, reader, pass, retired, excused>>

CompileNext ==
    \/ Tick
    \/ \E m \in Memory : Write(m) \/ Delete(m)
    \/ \E cmd \in {"plan", "profile"} : Start(cmd)
    \/ NextPage \/ WritePlan \/ StartPass
    \/ \E s \in pass.todo : Profiled(s) \/ Refused(s) \/ Failed(s)
    \/ CloseRun \/ Crash \/ CrashInClose

CompileSpec == CompileInit /\ [][CompileNext]_compileVars

--------------------------------------------------------------------------------
(***************************************************************************)
(* What a run promises.                                                    *)
(***************************************************************************)
Stamp == Never..(MaxTime + 1)
RowRead == [id : Memory, page : Nat, born : Stamp, touched : Stamp]
RowIds == Memory \X Nat
BatchType == [kind : {"session", "session-part", "pack", "ledger"}, ids : SUBSET RowIds]
Digest == [Memory -> Nat]
Artifact == [status : {"ok", "refused"}, covers : Digest, blank : SUBSET Memory]

CompileTypeOK ==
    /\ now \in 0..MaxTime /\ writes \in 0..MaxWrites
    /\ row \in [Memory -> [born : Stamp, touched : Stamp]]
    /\ cursor \in [run : Nat \ {0}, at : Stamp]
    /\ reader \in [cmd : {"none", "plan", "profile"}, began : Stamp, start : Nat,
                   rows : SUBSET RowRead, fresh : SUBSET Memory]
    /\ plan \in [readAt : Stamp, batches : Seq(BatchType)]
    /\ pass \in [texts : SUBSET Memory, todo : SUBSET DOMAIN plan.batches, failed : BOOLEAN]
    /\ finished \in BOOLEAN
    /\ DOMAIN art \subseteq Nat /\ \A s \in DOMAIN art : art[s] \in Artifact
    /\ kept \cup answered \subseteq Nat \X Digest
    /\ selected \subseteq RowIds /\ fresh \cup retired \subseteq Memory
    /\ excused \in [{"plan", "profile", "second"} -> SUBSET Memory]

(* A plan is a partition of what it was made from: no memory is dropped or *)
(* put into two batches (the one exception, a row that the store's growth  *)
(* pushed onto a second page, is read twice and placed as often), and no   *)
(* batch is longer than the ceiling (plan_batches).                        *)
PlanIsAPartition ==
    /\ UNION {plan.batches[s].ids : s \in DOMAIN plan.batches} = selected
    /\ \A s, t \in DOMAIN plan.batches :
          s # t => plan.batches[s].ids \cap plan.batches[t].ids = {}
    /\ \A s \in DOMAIN plan.batches : Cardinality(plan.batches[s].ids) \in 1..MaxMemories

(* A session is planned whole or not at all, and only a part or a ledger   *)
(* chunk is cut out of something longer: a session that continued after    *)
(* the cursor comes back with the memories it had before it (select_since).*)
SessionsAreWhole ==
    \A m \in fresh \cap Live, s \in DOMAIN plan.batches :
        (\E x \in Named(plan.batches[s].ids) :
            SessionOf[x] # NoSession /\ SessionOf[x] = SessionOf[m])
        => \E t \in DOMAIN plan.batches :
              /\ m \in Named(plan.batches[t].ids)
              /\ s = t \/ plan.batches[s].kind = "session-part"

(* What the cursor retires has been read: a memory whose present content   *)
(* no closed run has planned is in the next incremental plan.  Two things  *)
(* are outside the promise, and nothing else is: a memory touched in the   *)
(* very second of a cursor, which Moved compares as earlier, and a row     *)
(* that a deletion moved behind the reader while the plan was read.        *)
CursorSkipsNothing ==
    cursor.at # Never =>
        \A m \in Live : \/ m \in retired
                        \/ m \in Named(Ids(SelectSince(Store, cursor.at)))
                        \/ m \in excused["second"] \cup excused["plan"]

(* A run the operator may close has an answer for each of its batches: a   *)
(* refusal, or a profile of exactly the memories the batch names, whatever *)
(* failed, died or was planned again under the same batch ids before.  A   *)
(* memory that a profile names without having seen its text was deleted,   *)
(* or moved behind the reader, after the plan.                             *)
FinishedIsProfiled ==
    finished => \A s \in Candidates(plan) :
        /\ s \in DOMAIN art
        /\ \/ art[s].status = "refused"
           \/ /\ art[s].covers = CoverageDigest(plan.batches[s])
              /\ art[s].blank \cap Live \subseteq excused["profile"]

(* Every answer is kept: what the endpoint once said about a set of        *)
(* memories under a batch id stays on disk, as the batch's artifact or     *)
(* beside it as a superseded one (profile.py), across replans and crashes. *)
EveryReadingIsKept ==
    \A a \in answered : \/ a \in kept
                        \/ /\ a[1] \in DOMAIN art
                           /\ art[a[1]].status = "ok" /\ art[a[1]].covers = a[2]

================================================================================
