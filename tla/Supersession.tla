----------------------------- MODULE Supersession ------------------------------
(***************************************************************************)
(* Which memory supersedes which: the superseded_by field of every stored  *)
(* memory, the protection from displacement judging beside it, and the     *)
(* operations that read them, decide, and write them back.                 *)
(* They all run under the shared side of the store gate, so the reads and  *)
(* the writes of two of them interleave freely.                            *)
(*                                                                         *)
(* A step is one read or one write of the vector store.  Of a payload only *)
(* superseded_by and displacement_protected_until are kept; lists of ids   *)
(* are sets, because neither their order nor a duplicate in them decides   *)
(* anything.  An operation that is refused changes nothing and has no step.*)
(***************************************************************************)
EXTENDS Naturals, FiniteSets

CONSTANTS
  Memory,           \* memory ids; a uuid, so none is ever used twice
  Process,          \* request threads, event workers, and their callers
  Writer,           \* those asked to invalidate, update or protect
  Deleter,          \* those asked to delete
  Dismissed,        \* memories whose displacement pairs reviewers dismiss
  MAX_CHAIN_DEPTH,
  NoMemory

ASSUME SupersessionAssumption ==
  /\ MAX_CHAIN_DEPTH \in Nat
  /\ Writer \subseteq Process
  /\ Deleter \subseteq Process
  /\ Dismissed \subseteq Memory
  /\ NoMemory \notin Memory

VARIABLES
  payload,          \* payload[m]: what the vector store holds for m
  born,             \* the ids handed out so far
  proc              \* proc[p]: an operation under way and its local variables

vars == <<payload, born, proc>>

\* "keyed": the key superseded_by is there, be it null.  "shield" is the
\* protection, whose keys may be absent or null, too.
Payload ==
  {v \in [stored : BOOLEAN, succ : SUBSET Memory, keyed : BOOLEAN,
          shield : {"absent", "null", "set"}] :
     v.succ # {} => v.stored /\ v.keyed}

New == [stored |-> TRUE, succ |-> {}, keyed |-> FALSE, shield |-> "absent"]

Gone == [stored |-> FALSE, succ |-> {}, keyed |-> FALSE, shield |-> "absent"]

PC == {"idle", "check", "walk", "write", "revive", "got", "upsert", "delete",
       "protect", "updated", "unprotect"}

Local == [pc : PC, target : Memory \cup {NoMemory}, by : SUBSET Memory,
          todo : SUBSET Memory, next : SUBSET Memory, visited : SUBSET Memory,
          depth : Nat, read : Payload]

At(pc, m) == [pc |-> pc, target |-> m, by |-> {}, todo |-> {}, next |-> {},
              visited |-> {}, depth |-> 0, read |-> Gone]

Idle == At("idle", NoMemory)

Stored == {m \in Memory : payload[m].stored}

TypeOK ==
  /\ payload \in [Memory -> Payload]
  /\ born \subseteq Memory
  /\ Stored \subseteq born
  /\ proc \in [Process -> Local]
  /\ \A p \in Process : proc[p].pc # "idle" => proc[p].target \in born
  /\ \A p \in Process : proc[p].pc \in {"got", "upsert"} => proc[p].read.stored

Init ==
  /\ payload = [m \in Memory |-> Gone]
  /\ born = {}
  /\ proc = [p \in Process |-> Idle]

Become(p, local) == proc' = [proc EXCEPT ![p] = local]

Return(p) == Become(p, Idle)

-------------------------------------------------------------------------------

add(p) ==
  /\ proc[p].pc = "idle"
  /\ \E m \in Memory \ born :
       /\ born' = born \cup {m}
       /\ payload' = [payload EXCEPT ![m] = New]
  /\ UNCHANGED proc

(* invalidate(memory_id, by_ids) *)

invalidate(p) ==
  /\ proc[p].pc = "idle" /\ p \in Writer
  /\ \E m \in Stored, by \in SUBSET Memory \ {{}} :
       /\ m \notin by
       /\ payload[m].succ = {}
       /\ Become(p, [At("check", m) EXCEPT !.by = by])
  /\ UNCHANGED <<payload, born>>

FindSuperseders(p) ==
  /\ proc[p].pc = "check"
  /\ IF proc[p].by \subseteq Stored
       THEN Become(p, [proc[p] EXCEPT !.pc = "walk", !.todo = proc[p].by])
       ELSE Return(p)
  /\ UNCHANGED <<payload, born>>

\* Mutant: the successors of a node are not walked to.
Walk_OneLevel(p) ==
  /\ proc[p].pc = "walk"
  /\ proc[p].depth < MAX_CHAIN_DEPTH
  /\ \E m \in proc[p].todo :
       IF m = proc[p].target
         THEN Return(p)
         ELSE Become(p, [proc[p] EXCEPT !.todo = @ \ {m}, !.visited = @ \cup {m}])
  /\ UNCHANGED <<payload, born>>

\* _assert_no_cycle visits one node of the frontier; a node it has been to
\* before is passed over, the target is a cycle.
Walk(p) ==
  /\ proc[p].pc = "walk"
  /\ proc[p].depth < MAX_CHAIN_DEPTH
  /\ \E m \in proc[p].todo :
       IF m = proc[p].target
         THEN Return(p)
         ELSE Become(p, [proc[p] EXCEPT
                !.todo = @ \ {m},
                !.visited = @ \cup {m},
                !.next = IF m \in proc[p].visited THEN @ ELSE @ \cup payload[m].succ])
  /\ UNCHANGED <<payload, born>>

\* The frontier is done with: on to the next one, or to the write.
NextFrontier(p) ==
  /\ proc[p].pc = "walk"
  /\ proc[p].todo = {}
  /\ Become(p, [proc[p] EXCEPT !.pc = IF proc[p].next = {} THEN "write" ELSE "walk",
                               !.todo = proc[p].next, !.next = {}, !.depth = @ + 1])
  /\ UNCHANGED <<payload, born>>

TooDeep(p) ==
  /\ proc[p].pc = "walk"
  /\ proc[p].todo # {} /\ proc[p].depth >= MAX_CHAIN_DEPTH
  /\ Return(p)
  /\ UNCHANGED <<payload, born>>

\* set_payload on a point that is gone changes nothing.
SetFields(m, by, shield) ==
  payload' = IF payload[m].stored
               THEN [payload EXCEPT ![m].succ = by, ![m].keyed = TRUE,
                                    ![m].shield = shield]
               ELSE payload

\* Mutant: what protects the memory stays where it is.
WriteEdges_KeepsShield(p) ==
  /\ proc[p].pc = "write"
  /\ SetFields(proc[p].target, proc[p].by, payload[proc[p].target].shield)
  /\ Return(p)
  /\ UNCHANGED born

\* Pool exit ends the protection, in the same write.
WriteEdges(p) ==
  /\ proc[p].pc = "write"
  /\ SetFields(proc[p].target, proc[p].by, "null")
  /\ Return(p)
  /\ UNCHANGED born

(* revive(memory_id) *)

revive(p) ==
  /\ proc[p].pc = "idle"
  /\ \E m \in Stored : payload[m].succ # {} /\ Become(p, At("revive", m))
  /\ UNCHANGED <<payload, born>>

ClearEdges(p) ==
  /\ proc[p].pc = "revive"
  /\ SetFields(proc[p].target, {}, payload[proc[p].target].shield)
  /\ Return(p)
  /\ UNCHANGED born

(* set_displacement_protection(memory_id) *)

\* Three independent suspicions against this text, the latest ones, all
\* dismissed: whether the pair store holds them is left open.
Evidence(m) == m \in Dismissed

\* That an expired memory is refused, too, is left open.
Protectable(m) == payload[m].succ = {} /\ Evidence(m)

protect(p) ==
  /\ proc[p].pc = "idle" /\ p \in Writer
  /\ \E m \in Stored : Protectable(m) /\ Become(p, At("protect", m))
  /\ UNCHANGED <<payload, born>>

SetShield(m, shield) ==
  payload' = IF payload[m].stored THEN [payload EXCEPT ![m].shield = shield]
                                  ELSE payload

WriteProtection(p) ==
  /\ proc[p].pc = "protect"
  /\ SetShield(proc[p].target, "set")
  /\ Return(p)
  /\ UNCHANGED born

(* clear_displacement_protection(memory_id): nothing is written where nothing *)
(* is set.                                                                    *)

Protected == {m \in Stored : payload[m].shield = "set"}

unprotect(p) ==
  /\ proc[p].pc = "idle"
  /\ \E m \in Protected : Become(p, At("unprotect", m))
  /\ UNCHANGED <<payload, born>>

ClearProtection(p) ==
  /\ proc[p].pc = "unprotect"
  /\ SetShield(proc[p].target, "null")
  /\ Return(p)
  /\ UNCHANGED born

(* update(memory_id, text, metadata): the caller fetches the memory and hands *)
(* its metadata back, the engine fetches the payload, lays the metadata over  *)
(* it, embeds the text, and writes the whole payload.  The protection of      *)
(* another text is cleared afterwards.                                        *)

update(p) ==
  /\ proc[p].pc = "idle" /\ p \in Writer
  /\ \E m \in Stored : Become(p, [At("got", m) EXCEPT !.read = payload[m]])
  /\ UNCHANGED <<payload, born>>

Overlay(read, now) ==
  [stored |-> TRUE,
   succ   |-> IF read.keyed THEN read.succ ELSE now.succ,
   keyed  |-> read.keyed \/ now.keyed,
   shield |-> IF read.shield # "absent" THEN read.shield ELSE now.shield]

UpdateRead(p) ==
  /\ proc[p].pc = "got"
  /\ LET now == payload[proc[p].target]
     IN IF now.stored
          THEN Become(p, [proc[p] EXCEPT !.pc = "upsert", !.read = Overlay(@, now)])
          ELSE Return(p)
  /\ UNCHANGED <<payload, born>>

\* An upsert: a memory that was deleted in between is stored again.
UpdateWrite(p) ==
  /\ proc[p].pc = "upsert"
  /\ payload' = [payload EXCEPT ![proc[p].target] = proc[p].read]
  /\ Return(p) \/ Become(p, At("updated", proc[p].target))
  /\ UNCHANGED born

\* Only a text that changed brings an update here.
CheckProtection(p) ==
  /\ proc[p].pc = "updated"
  /\ IF proc[p].target \in Protected
       THEN Become(p, At("unprotect", proc[p].target))
       ELSE Return(p)
  /\ UNCHANGED <<payload, born>>

(* delete(memory_id) *)

\* delete_guard: a superseded memory is kept and expired instead, which is no
\* change here.  The scan for memories that point to this one asks get_all
\* without a scope key, which raises, and the guard fails open.
delete(p) ==
  /\ proc[p].pc = "idle" /\ p \in Deleter
  /\ \E m \in Stored : payload[m].succ = {} /\ Become(p, At("delete", m))
  /\ UNCHANGED <<payload, born>>

DeletePoint(p) ==
  /\ proc[p].pc = "delete"
  /\ payload' = [payload EXCEPT ![proc[p].target] = Gone]
  /\ Return(p)
  /\ UNCHANGED born

\* delete --all holds the exclusive side of the gate, so nothing else is under
\* way in the store, and it asks no guard; S is what its scope matches.
delete_all(p) ==
  /\ proc[p].pc = "idle" /\ p \in Deleter
  /\ \A q \in Process : proc[q].pc \in {"idle", "got"}
  /\ \E S \in SUBSET Stored :
       payload' = [m \in Memory |-> IF m \in S THEN Gone ELSE payload[m]]
  /\ UNCHANGED <<born, proc>>

\* The process ends, or the vector store raises.
Abort(p) ==
  /\ proc[p].pc # "idle"
  /\ Return(p)
  /\ UNCHANGED <<payload, born>>

-------------------------------------------------------------------------------

Step(p) ==
  \/ add(p)
  \/ invalidate(p) \/ FindSuperseders(p) \/ Walk(p) \/ NextFrontier(p) \/ TooDeep(p)
  \/ WriteEdges(p)
  \/ revive(p) \/ ClearEdges(p)
  \/ protect(p) \/ WriteProtection(p) \/ unprotect(p) \/ ClearProtection(p)
  \/ update(p) \/ UpdateRead(p) \/ UpdateWrite(p) \/ CheckProtection(p)
  \/ delete(p) \/ DeletePoint(p) \/ delete_all(p)
  \/ Abort(p)

Next == \E p \in Process : Step(p)

Spec == Init /\ [][Next]_vars

-------------------------------------------------------------------------------
(* resolve_head *)

succ == [m \in Memory |-> payload[m].succ]

\* Mutant: the last frontier is not visited.
Hops_OneLess == 0..(MAX_CHAIN_DEPTH - 1)

\* Frontiers are visited while hops <= MAX_CHAIN_DEPTH.
Hops == 0..MAX_CHAIN_DEPTH

Frontier(m) ==
  LET f[n \in Nat] == IF n = 0 THEN {m} ELSE UNION {payload[x].succ : x \in f[n - 1]}
  IN f

resolve_head(m) ==
  {x \in UNION {Frontier(m)[n] : n \in Hops} : payload[x].stored /\ payload[x].succ = {}}

-------------------------------------------------------------------------------
(* Properties *)

Closed(graph, C) == \A m \in C : graph[m] \subseteq C

AcyclicGraph(graph) ==
  \A m \in Memory : \E C \in SUBSET Memory :
    m \notin C /\ graph[m] \subseteq C /\ Closed(graph, C)

\* All invalidations, updates and protections come from one process at a time; nothing in the
\* code makes sure of it.
OneWriter == \A p, q \in Writer : p = q

\* No memory supersedes itself, however long the way around: invalidate walks
\* the chain in many steps and writes after the walk, while other operations
\* remove edges, delete nodes, or store an old payload again.
Acyclic == AcyclicGraph(succ)

\* What makes it inductive: a walk has seen, or is about to see, everything the
\* superseders lead to, the target is not among what it has seen, and laying an
\* update's payload over the present one closes no cycle.
WalkSoundOf(p) ==
  LET l == proc[p]
      reached == l.visited \cup l.todo \cup l.next
  IN l.pc \in {"check", "walk", "write"} =>
       /\ l.target \notin l.by
       /\ l.pc = "check" => l.visited = {} /\ l.next = {}
       /\ l.pc # "check" =>
            /\ l.by \subseteq reached
            /\ l.target \notin l.visited
            /\ \A x \in l.visited : succ[x] \subseteq reached
       /\ l.pc = "write" => l.todo = {} /\ l.next = {}

WalkSound == \A p \in Process : WalkSoundOf(p)

UpdateSoundOf(p) ==
  proc[p].pc \in {"got", "upsert"} =>
    AcyclicGraph([succ EXCEPT ![proc[p].target] = proc[p].read.succ])

UpdateSound == \A p \in Process : UpdateSoundOf(p)

\* A memory that left the pool is not protected, so a revival brings back no
\* protection granted for an old lifecycle state: set_displacement_protection
\* refuses such a memory in one step and writes in another, and an update lays
\* what it read before over what is there.
SupersededIsUnprotected ==
  \A m \in Memory : payload[m].succ # {} => payload[m].shield # "set"

\* What makes it inductive: nobody takes the memory out of the pool between the
\* two steps of a protection, and neither the payload an update has read nor the
\* one it lays it over pairs the edges of one with the protection of the other.
ShieldSoundOf(p) ==
  LET l == proc[p]
      now == payload[l.target]
  IN /\ l.pc = "protect" => now.succ = {}
     /\ l.pc = "got" /\ (l.read.succ # {} \/ now.succ # {}) =>
          l.read.shield # "set" /\ now.shield # "set"
     /\ l.pc = "upsert" /\ l.read.succ # {} => l.read.shield # "set"

ShieldSound == \A p \in Process : ShieldSoundOf(p)

OnlyWriters ==
  \A p \in Process :
    proc[p].pc \in {"check", "walk", "write", "got", "upsert", "protect"} => p \in Writer

SupersessionInv ==
  /\ TypeOK
  /\ Acyclic
  /\ WalkSound
  /\ UpdateSound
  /\ SupersededIsUnprotected
  /\ ShieldSound
  /\ OnlyWriters

\* Everything one gets to from m by following superseded_by.
Reach(m) ==
  {x \in Memory : \A C \in SUBSET Memory : m \in C /\ Closed(succ, C) => x \in C}

\* While nothing m leads to was deleted and the chain is no longer than
\* MAX_CHAIN_DEPTH, resolve_head finds every active memory at its end, and
\* there is one.
HeadsAreComplete ==
  \A m \in Stored :
    Reach(m) \subseteq Stored /\ Cardinality(Reach(m)) <= MAX_CHAIN_DEPTH + 1 =>
      /\ resolve_head(m) = {x \in Reach(m) : payload[x].succ = {}}
      /\ resolve_head(m) # {}
===============================================================================
