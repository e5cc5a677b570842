-------------------------- MODULE SupersessionProofs ---------------------------
(***************************************************************************)
(* One writer at a time keeps the supersession relation acyclic and its    *)
(* members unprotected, for any number of memories and processes and any   *)
(* MAX_CHAIN_DEPTH.                                                        *)
(*                                                                         *)
(* A relation is acyclic when every memory has a closed set around what it *)
(* points to that leaves the memory itself out; removing edges keeps those *)
(* sets, and a finished walk is one for the new edges.                     *)
(*                                                                         *)
(* resolve_head finds what it should because each of its frontiers adds a  *)
(* memory or there is nothing more to be found, and because a finite       *)
(* closed set of an acyclic relation has an end.                           *)
(***************************************************************************)
EXTENDS Supersession, FiniteSetTheorems, WellFoundedInduction, TLAPS

Graph == [Memory -> SUBSET Memory]

\* Removing edges closes no cycle.
LEMMA ShrinkAcyclic ==
  ASSUME NEW g \in Graph, NEW h \in Graph, \A m \in Memory : h[m] \subseteq g[m],
         AcyclicGraph(g)
  PROVE  AcyclicGraph(h)
<1> SUFFICES ASSUME NEW m \in Memory
             PROVE \E C \in SUBSET Memory :
                     m \notin C /\ h[m] \subseteq C /\ Closed(h, C)
  BY DEF AcyclicGraph
<1>1. PICK C \in SUBSET Memory : m \notin C /\ g[m] \subseteq C /\ Closed(g, C)
  BY DEF AcyclicGraph
<1>2. h[m] \subseteq C /\ Closed(h, C)
  BY <1>1 DEF Closed
<1> QED BY <1>1, <1>2

\* New edges from t into a closed set without t close no cycle.
LEMMA AddEdgesAcyclic ==
  ASSUME NEW g \in Graph, AcyclicGraph(g),
         NEW t \in Memory, NEW by \in SUBSET Memory,
         NEW C \in SUBSET Memory, by \subseteq C, t \notin C, Closed(g, C)
  PROVE  AcyclicGraph([g EXCEPT ![t] = by])
<1> DEFINE h == [g EXCEPT ![t] = by]
<1>h. h[t] = by /\ \A x \in Memory : x # t => h[x] = g[x]
  BY DEF Graph
<1> HIDE DEF h
<1> SUFFICES ASSUME NEW m \in Memory
             PROVE \E D \in SUBSET Memory :
                     m \notin D /\ h[m] \subseteq D /\ Closed(h, D)
  BY DEF AcyclicGraph, h
<1>1. Closed(h, C)
  BY <1>h DEF Closed
<1>2. CASE m = t
  BY <1>1, <1>2, <1>h
<1>3. CASE m # t
  <2>1. PICK D \in SUBSET Memory : m \notin D /\ g[m] \subseteq D /\ Closed(g, D)
    BY DEF AcyclicGraph
  <2>2. CASE t \notin D
    <3>1. Closed(h, D)
      BY <2>1, <2>2, <1>h DEF Closed
    <3> QED BY <2>1, <3>1, <1>3, <1>h
  <2>3. CASE m \in C
    <3>1. m \notin C \cap D /\ h[m] \subseteq C \cap D
      BY <2>1, <2>3, <1>3, <1>h DEF Closed
    <3>2. Closed(h, C \cap D)
      BY <2>1, <1>h DEF Closed
    <3> QED BY <3>1, <3>2
  <2>4. CASE m \notin C
    <3>1. m \notin C \cup D /\ h[m] \subseteq C \cup D
      BY <2>1, <2>4, <1>3, <1>h
    <3>2. Closed(h, C \cup D)
      BY <2>1, <1>h DEF Closed
    <3> QED BY <3>1, <3>2
  <2> QED BY <2>2, <2>3, <2>4
<1> QED BY <1>2, <1>3

-------------------------------------------------------------------------------
(* Types *)

LEMMA AtType ==
  ASSUME NEW pc \in PC, NEW m \in Memory \cup {NoMemory}
  PROVE  At(pc, m) \in Local /\ At(pc, m).pc = pc /\ At(pc, m).target = m
<1>1. Gone \in Payload
  BY DEF Gone, Payload
<1> QED BY <1>1 DEF At, Local

LEMMA IdleType == Idle \in Local /\ Idle.pc = "idle"
  BY AtType DEF Idle, PC

\* What TypeOK asks of one process.
ProcOK(l, ids) ==
  /\ l \in Local
  /\ l.pc # "idle" => l.target \in ids
  /\ l.pc \in {"got", "upsert"} => l.read.stored

LEMMA IdleOK == ASSUME NEW ids PROVE ProcOK(Idle, ids)
  BY IdleType DEF ProcOK

LEMMA TypeByParts ==
  ASSUME payload \in [Memory -> Payload], born \subseteq Memory, Stored \subseteq born,
         proc \in [Process -> Local], \A p \in Process : ProcOK(proc[p], born)
  PROVE  TypeOK
  BY DEF TypeOK, ProcOK

\* A step that only gives p other local variables.
LEMMA BecomeType ==
  ASSUME TypeOK, NEW p \in Process, NEW l, ProcOK(l, born), Become(p, l),
         UNCHANGED <<payload, born>>
  PROVE  TypeOK'
  BY DEF TypeOK, Become, ProcOK, Stored

\* A step that also stores a payload.
LEMMA StoreType ==
  ASSUME TypeOK, NEW p \in Process, NEW l, ProcOK(l, born), Become(p, l), born' = born,
         NEW m \in born, NEW v \in Payload, payload' = [payload EXCEPT ![m] = v]
  PROVE  TypeOK'
<1>2. payload' \in [Memory -> Payload]
  BY DEF TypeOK
<1>3. Stored' \subseteq born
  BY DEF TypeOK, Stored
<1>4. proc' \in [Process -> Local]
  BY DEF TypeOK, Become, ProcOK
<1>5. \A q \in Process : ProcOK(proc[q], born)'
  BY DEF TypeOK, Become, ProcOK
<1> QED BY <1>2, <1>3, <1>4, <1>5 DEF TypeOK, ProcOK

Shield == {"absent", "null", "set"}

LEMMA SetFieldsType ==
  ASSUME TypeOK, NEW m \in Memory, NEW by \in SUBSET Memory, NEW shield \in Shield,
         SetFields(m, by, shield)
  PROVE  \/ payload' = payload
         \/ m \in born /\ \E v \in Payload :
              v.succ = by /\ v.shield = shield /\ payload' = [payload EXCEPT ![m] = v]
<1>1. CASE ~payload[m].stored
  BY <1>1 DEF SetFields
<1>2. CASE payload[m].stored
  <2> DEFINE v == [payload[m] EXCEPT !.succ = by, !.keyed = TRUE, !.shield = shield]
  <2>1. payload[m] \in [stored : BOOLEAN, succ : SUBSET Memory, keyed : BOOLEAN,
                        shield : Shield]
    BY DEF TypeOK, Payload, Shield
  <2>2. /\ v \in [stored : BOOLEAN, succ : SUBSET Memory, keyed : BOOLEAN,
                  shield : Shield]
        /\ v.succ = by
        /\ v.shield = shield
        /\ v.keyed
        /\ v.stored
    BY <1>2, <2>1
  <2>3. payload' = [payload EXCEPT ![m] = v]
    BY <1>2 DEF SetFields, TypeOK
  <2> HIDE DEF v
  <2>4. v \in Payload
    BY <2>2 DEF Payload, Shield
  <2> QED BY <1>2, <2>2, <2>3, <2>4 DEF TypeOK, Stored
<1> QED BY <1>1, <1>2

LEMMA SetShieldType ==
  ASSUME TypeOK, NEW m \in Memory, NEW shield \in Shield, SetShield(m, shield)
  PROVE  \/ payload' = payload
         \/ m \in born /\ \E v \in Payload :
              /\ v.succ = payload[m].succ /\ v.shield = shield
              /\ payload' = [payload EXCEPT ![m] = v]
<1>1. CASE ~payload[m].stored
  BY <1>1 DEF SetShield
<1>2. CASE payload[m].stored
  <2> DEFINE v == [payload[m] EXCEPT !.shield = shield]
  <2>1. payload[m] \in Payload
    BY DEF TypeOK
  <2>2. v \in Payload /\ v.succ = payload[m].succ /\ v.shield = shield
    BY <2>1 DEF Payload, Shield
  <2>3. payload' = [payload EXCEPT ![m] = v]
    BY <1>2 DEF SetShield, TypeOK
  <2> HIDE DEF v
  <2> QED BY <1>2, <2>2, <2>3 DEF TypeOK, Stored
<1> QED BY <1>1, <1>2

\* Setting fields by set_payload and returning.
LEMMA SetStep ==
  ASSUME TypeOK, NEW p \in Process, proc[p].pc # "idle", Return(p), born' = born,
         NEW by \in SUBSET Memory, NEW shield \in Shield,
         SetFields(proc[p].target, by, shield) \/ SetShield(proc[p].target, shield)
  PROVE  TypeOK'
<1>1. proc[p].target \in born /\ proc[p].target \in Memory
  BY DEF TypeOK
<1>2. CASE payload' = payload
  BY <1>2, IdleOK, BecomeType DEF Return
<1>3. ProcOK(Idle, born)
  BY IdleOK
<1>4. \/ payload' = payload
      \/ \E v \in Payload : payload' = [payload EXCEPT ![proc[p].target] = v]
  <2>1. CASE SetFields(proc[p].target, by, shield)
    <3>1. \/ payload' = payload
          \/ \E v \in Payload :
               v.succ = by /\ v.shield = shield
               /\ payload' = [payload EXCEPT ![proc[p].target] = v]
      BY <1>1, <2>1, SetFieldsType, SMTT(60)
    <3> QED BY <3>1
  <2>2. CASE SetShield(proc[p].target, shield)
    BY <1>1, <2>2, SetShieldType
  <2> QED BY <2>1, <2>2
<1> QED BY <1>1, <1>2, <1>3, <1>4, StoreType DEF Return

LEMMA OverlayType ==
  ASSUME NEW read \in Payload, NEW now \in Payload
  PROVE  Overlay(read, now) \in Payload /\ Overlay(read, now).stored
  BY DEF Overlay, Payload

LEMMA TypeInductive == TypeOK /\ [Next]_vars => TypeOK'
<1> SUFFICES ASSUME TypeOK, [Next]_vars PROVE TypeOK'
  OBVIOUS
<1>1. CASE UNCHANGED vars
  BY <1>1 DEF TypeOK, vars, Stored
<1>2. ASSUME NEW p \in Process, Step(p) PROVE TypeOK'
  <2>t. proc[p] \in Local /\ ProcOK(proc[p], born)
    BY DEF TypeOK, ProcOK
  <2>1. CASE add(p)
    <3>1. PICK m \in Memory \ born : born' = born \cup {m}
                                     /\ payload' = [payload EXCEPT ![m] = New]
      BY <2>1 DEF add
    <3>2. New \in Payload
      BY DEF New, Payload
    <3>3. payload' \in [Memory -> Payload] /\ born' \subseteq Memory
      BY <3>1, <3>2 DEF TypeOK
    <3>4. Stored' \subseteq born'
      BY <3>1 DEF TypeOK, Stored
    <3> QED BY <2>1, <3>1, <3>3, <3>4 DEF TypeOK, add
  <2>2. CASE invalidate(p)
    <3>1. PICK m \in Stored, by \in SUBSET Memory \ {{}} :
             Become(p, [At("check", m) EXCEPT !.by = by])
      BY <2>2 DEF invalidate
    <3>2. m \in Memory /\ m \in born
      BY DEF Stored, TypeOK
    <3>3. At("check", m) \in Local /\ At("check", m).pc = "check"
          /\ At("check", m).target = m
      BY <3>2, AtType DEF PC
    <3>4. ProcOK([At("check", m) EXCEPT !.by = by], born)
      BY <3>2, <3>3 DEF Local, ProcOK
    <3> QED BY <2>2, <3>1, <3>4, BecomeType DEF invalidate
  <2>3. CASE FindSuperseders(p)
    <3>1. ProcOK([proc[p] EXCEPT !.pc = "walk", !.todo = proc[p].by], born)
      BY <2>3, <2>t DEF FindSuperseders, ProcOK, Local, PC
    <3> QED BY <2>3, <3>1, BecomeType, IdleOK DEF FindSuperseders, Return
  <2>4. CASE Walk(p)
    <3>1. PICK m \in proc[p].todo : IF m = proc[p].target THEN Return(p)
             ELSE Become(p, [proc[p] EXCEPT
                    !.todo = @ \ {m}, !.visited = @ \cup {m},
                    !.next = IF m \in proc[p].visited THEN @ ELSE @ \cup payload[m].succ])
      BY <2>4 DEF Walk
    <3>2. m \in Memory /\ payload[m].succ \subseteq Memory
      BY <2>t DEF Local, TypeOK, Payload
    <3> DEFINE l == [proc[p] EXCEPT
                    !.todo = @ \ {m}, !.visited = @ \cup {m},
                    !.next = IF m \in proc[p].visited THEN @ ELSE @ \cup payload[m].succ]
    <3>3. ProcOK(l, born)
      BY <2>4, <3>2, <2>t DEF Local, ProcOK, Walk
    <3> HIDE DEF l
    <3>4. Return(p) \/ Become(p, l)
      BY <3>1 DEF l
    <3> QED BY <2>4, <3>3, <3>4, BecomeType, IdleOK DEF Return, Walk
  <2>5. CASE NextFrontier(p)
    <3> DEFINE l == [proc[p] EXCEPT !.pc = IF proc[p].next = {} THEN "write" ELSE "walk",
                               !.todo = proc[p].next, !.next = {}, !.depth = @ + 1]
    <3>3. (IF proc[p].next = {} THEN "write" ELSE "walk") \in {"write", "walk"}
      OBVIOUS
    <3>4. proc[p].pc = "walk" /\ proc[p].next \in SUBSET Memory /\ proc[p].depth + 1 \in Nat
      BY <2>5, <2>t DEF NextFrontier, Local
    <3>5. l \in Local /\ l.pc \in {"write", "walk"} /\ l.target = proc[p].target
      BY <2>t, <3>3, <3>4 DEF Local, PC
    <3>1. ProcOK(l, born)
      BY <2>t, <3>4, <3>5 DEF ProcOK
    <3>2. Become(p, l) /\ UNCHANGED <<payload, born>>
      BY <2>5 DEF NextFrontier
    <3> HIDE DEF l
    <3> QED BY <3>1, <3>2, BecomeType
  <2>6. CASE TooDeep(p)
    BY <2>6, BecomeType, IdleOK DEF TooDeep, Return
  <2>7. CASE WriteEdges(p)
    <3>1. proc[p].by \in SUBSET Memory
      BY <2>t DEF Local
    <3> QED BY <2>7, <3>1, SetStep DEF WriteEdges, Shield
  <2>8. CASE revive(p)
    <3>1. PICK m \in Stored : Become(p, At("revive", m))
      BY <2>8 DEF revive
    <3>2. m \in Memory /\ m \in born
      BY DEF Stored, TypeOK
    <3>3. ProcOK(At("revive", m), born)
      BY <3>2, AtType DEF PC, ProcOK
    <3> QED BY <2>8, <3>1, <3>3, BecomeType DEF revive
  <2>9. CASE ClearEdges(p)
    <3>1. payload[proc[p].target].shield \in Shield
      BY <2>9, <2>t DEF ClearEdges, TypeOK, ProcOK, Payload, Shield
    <3> QED BY <2>9, <3>1, SetStep DEF ClearEdges
  <2>10. CASE update(p)
    <3>1. PICK m \in Stored : Become(p, [At("got", m) EXCEPT !.read = payload[m]])
      BY <2>10 DEF update
    <3>2. m \in Memory /\ m \in born /\ payload[m] \in Payload /\ payload[m].stored
      BY DEF Stored, TypeOK
    <3>3. At("got", m) \in Local /\ At("got", m).target = m
      BY <3>2, AtType DEF PC
    <3>4. ProcOK([At("got", m) EXCEPT !.read = payload[m]], born)
      BY <3>2, <3>3 DEF Local, ProcOK
    <3> QED BY <2>10, <3>1, <3>4, BecomeType DEF update
  <2>11. CASE UpdateRead(p)
    <3> DEFINE now == payload[proc[p].target]
    <3> DEFINE l == [proc[p] EXCEPT !.pc = "upsert", !.read = Overlay(@, now)]
    <3>1. now \in Payload
      BY <2>11, <2>t DEF UpdateRead, TypeOK, ProcOK
    <3>2. CASE now.stored
      <4>1. Overlay(proc[p].read, now) \in Payload /\ Overlay(proc[p].read, now).stored
        BY <3>1, <2>t, OverlayType DEF Local
      <4>3. ProcOK(l, born)
        BY <2>11, <4>1, <2>t DEF UpdateRead, ProcOK, Local, PC
      <4>2. Become(p, l) /\ UNCHANGED <<payload, born>>
        BY <2>11, <3>2 DEF UpdateRead
      <4> HIDE DEF l
      <4> QED BY <4>2, <4>3, BecomeType
    <3>3. CASE ~now.stored
      BY <2>11, <3>3, BecomeType, IdleOK DEF UpdateRead, Return
    <3> QED BY <3>2, <3>3
  <2>12. CASE UpdateWrite(p)
    <3>1. proc[p].target \in born /\ proc[p].read \in Payload
      BY <2>12, <2>t DEF UpdateWrite, ProcOK, Local
    <3>2. ProcOK(Idle, born) /\ ProcOK(At("updated", proc[p].target), born)
      BY <3>1, AtType, IdleOK DEF ProcOK, PC, TypeOK
    <3> QED BY <2>12, <3>1, <3>2, StoreType DEF UpdateWrite, Return
  <2>13. CASE delete(p)
    <3>1. PICK m \in Stored : Become(p, At("delete", m))
      BY <2>13 DEF delete
    <3>2. m \in Memory /\ m \in born
      BY DEF Stored, TypeOK
    <3>3. ProcOK(At("delete", m), born)
      BY <3>2, AtType DEF PC, ProcOK
    <3> QED BY <2>13, <3>1, <3>3, BecomeType DEF delete
  <2>14. CASE DeletePoint(p)
    <3>1. proc[p].target \in born /\ Gone \in Payload
      BY <2>14, <2>t DEF DeletePoint, ProcOK, Gone, Payload
    <3> QED BY <2>14, <3>1, IdleOK, StoreType DEF DeletePoint, Return
  <2>15. CASE delete_all(p)
    <3>1. PICK S \in SUBSET Stored :
            payload' = [m \in Memory |-> IF m \in S THEN Gone ELSE payload[m]]
      BY <2>15 DEF delete_all
    <3>2. Gone \in Payload /\ ~Gone.stored
      BY DEF Gone, Payload
    <3> QED BY <2>15, <3>1, <3>2 DEF TypeOK, delete_all, Stored
  <2>16. CASE Abort(p)
    BY <2>16, BecomeType, IdleOK DEF Abort, Return
  <2>17. CASE protect(p) \/ unprotect(p)
    <3>1. PICK m \in Stored, pc \in {"protect", "unprotect"} : Become(p, At(pc, m))
      BY <2>17 DEF protect, unprotect, Protected
    <3>2. m \in Memory /\ m \in born
      BY DEF Stored, TypeOK
    <3>3. ProcOK(At(pc, m), born)
      BY <3>2, AtType DEF PC, ProcOK
    <3> QED BY <2>17, <3>1, <3>3, BecomeType DEF protect, unprotect
  <2>18. CASE WriteProtection(p) \/ ClearProtection(p)
    BY <2>18, SetStep DEF WriteProtection, ClearProtection, Shield
  <2>19. CASE CheckProtection(p)
    <3>1. proc[p].target \in Memory /\ proc[p].target \in born
      BY <2>19 DEF CheckProtection, TypeOK
    <3>2. ProcOK(At("unprotect", proc[p].target), born)
      BY <3>1, AtType DEF PC, ProcOK
    <3> QED BY <2>19, <3>2, IdleOK, BecomeType DEF CheckProtection, Return
  <2> QED
    BY <1>2, <2>1, <2>2, <2>3, <2>4, <2>5, <2>6, <2>7, <2>8, <2>9, <2>10, <2>11,
       <2>12, <2>13, <2>14, <2>15, <2>16, <2>17, <2>18, <2>19 DEF Step
<1> QED BY <1>1, <1>2 DEF Next

-------------------------------------------------------------------------------

LEMMA InitType == Init => TypeOK
<1>1. Gone \in Payload /\ ~Gone.stored
  BY DEF Gone, Payload
<1> QED BY <1>1, IdleType DEF Init, TypeOK, Stored

\* TypeOK: payloads, ids and local variables stay well-formed through every
\* operation of memline on the store.
THEOREM TypeCorrect == Spec => []TypeOK
  BY InitType, TypeInductive, PTL DEF Spec

-------------------------------------------------------------------------------
(* One writer *)

LEMMA SuccType == TypeOK => succ \in Graph /\ \A m \in Memory : succ[m] = payload[m].succ
  BY DEF TypeOK, Payload, succ, Graph

SoundOf(p) == WalkSoundOf(p) /\ UpdateSoundOf(p) /\ ShieldSoundOf(p)

\* Where an operation owes nothing to the invariant.
Plain == {"idle", "revive", "delete", "updated", "unprotect"}

LEMMA PlainIsSound ==
  ASSUME NEW p \in Process, proc[p].pc \in Plain
  PROVE  SoundOf(p)
  BY DEF Plain, SoundOf, WalkSoundOf, UpdateSoundOf, ShieldSoundOf

LEMMA PlainIsSoundAfter ==
  ASSUME NEW p \in Process, proc'[p].pc \in Plain
  PROVE  SoundOf(p)'
  BY DEF Plain, SoundOf, WalkSoundOf, UpdateSoundOf, ShieldSoundOf

\* Neither an edge nor a protection is added.
Shrinks ==
  \A m \in Memory :
    /\ succ'[m] \subseteq succ[m]
    /\ payload'[m].shield = "set" => payload[m].shield = "set"

\* An operation under way does not mind that edges and protections are removed.
LEMMA OthersKeep ==
  ASSUME SupersessionInv, TypeOK', Shrinks, NEW q \in Process, proc'[q] = proc[q]
  PROVE  SoundOf(q)'
<1>1. succ \in Graph /\ succ' \in Graph
  BY SuccType DEF SupersessionInv, TypeOK, succ, Graph, Payload
<1>2. proc[q] \in Local
  BY DEF SupersessionInv, TypeOK
<1>3. WalkSoundOf(q)'
  BY <1>2 DEF SupersessionInv, WalkSound, WalkSoundOf, Shrinks, Local
<1>4. UpdateSoundOf(q)'
  <2>1. SUFFICES ASSUME proc[q].pc \in {"got", "upsert"}
                 PROVE AcyclicGraph([succ' EXCEPT ![proc[q].target] = proc[q].read.succ])
    BY DEF UpdateSoundOf, AcyclicGraph, Closed
  <2> DEFINE t == proc[q].target
             s == proc[q].read.succ
             g == [succ EXCEPT ![t] = s]
             h == [succ' EXCEPT ![t] = s]
  <2>2. s \in SUBSET Memory /\ t \in Memory
    BY <1>2, <2>1 DEF Local, Payload, SupersessionInv, TypeOK
  <2>3. g \in Graph /\ h \in Graph /\ \A m \in Memory : h[m] \subseteq g[m]
    BY <1>1, <2>2 DEF Graph, Shrinks
  <2>4. AcyclicGraph(g)
    BY <2>1 DEF SupersessionInv, UpdateSound, UpdateSoundOf
  <2> HIDE DEF g, h
  <2>5. AcyclicGraph(h)
    BY <2>3, <2>4, ShrinkAcyclic
  <2> QED BY <2>5 DEF h
<1>5. ShieldSoundOf(q)'
  <2> DEFINE t == proc[q].target
  <2>1. SUFFICES ASSUME proc[q].pc \in {"protect", "got", "upsert"} PROVE ShieldSoundOf(q)'
    BY DEF ShieldSoundOf
  <2>2. t \in Memory
    BY <2>1, <1>2 DEF SupersessionInv, TypeOK
  <2>3. /\ payload'[t].succ # {} => payload[t].succ # {}
        /\ payload'[t].shield = "set" => payload[t].shield = "set"
    BY <2>2 DEF Shrinks, succ
  <2>4. ShieldSoundOf(q)
    BY DEF SupersessionInv, ShieldSound
  <2> QED BY <2>1, <2>3, <2>4 DEF ShieldSoundOf
<1> QED BY <1>3, <1>4, <1>5 DEF SoundOf

\* A step of p that adds no edge keeps the invariant if p's own part of it holds.
LEMMA ShrinkStep ==
  ASSUME SupersessionInv, TypeOK', Shrinks, NEW p \in Process,
         \A q \in Process : q # p => proc'[q] = proc[q],
         SoundOf(p)',
         proc'[p].pc \in {"check", "walk", "write", "got", "upsert", "protect"} => p \in Writer
  PROVE  SupersessionInv'
<1>1. Acyclic'
  <2>1. succ \in Graph /\ succ' \in Graph
    BY SuccType DEF SupersessionInv, TypeOK, succ, Graph, Payload
  <2>2. AcyclicGraph(succ')
    BY <2>1, ShrinkAcyclic DEF Shrinks, SupersessionInv, Acyclic
  <2> QED BY <2>2 DEF Acyclic, AcyclicGraph, Closed
<1>2. WalkSound' /\ UpdateSound' /\ ShieldSound'
  BY OthersKeep DEF SoundOf, WalkSound, UpdateSound, ShieldSound
<1>3. OnlyWriters'
  BY DEF SupersessionInv, OnlyWriters
<1>4. SupersededIsUnprotected'
  BY DEF Shrinks, succ, SupersessionInv, SupersededIsUnprotected
<1> QED BY <1>1, <1>2, <1>3, <1>4 DEF SupersessionInv

\* A step of nobody's operation that adds no edge.
LEMMA QuietStep ==
  ASSUME SupersessionInv, TypeOK', Shrinks, UNCHANGED proc
  PROVE  SupersessionInv'
<1>1. succ \in Graph /\ succ' \in Graph
  BY SuccType DEF SupersessionInv, TypeOK, succ, Graph, Payload
<1>2. AcyclicGraph(succ')
  BY <1>1, ShrinkAcyclic DEF Shrinks, SupersessionInv, Acyclic
<1>3. Acyclic'
  BY <1>2 DEF Acyclic, AcyclicGraph, Closed
<1>4. WalkSound' /\ UpdateSound' /\ ShieldSound'
  BY OthersKeep DEF SoundOf, WalkSound, UpdateSound, ShieldSound
<1>5. OnlyWriters'
  BY DEF SupersessionInv, OnlyWriters
<1>6. SupersededIsUnprotected'
  BY DEF Shrinks, succ, SupersessionInv, SupersededIsUnprotected
<1> QED BY <1>3, <1>4, <1>5, <1>6 DEF SupersessionInv

\* A step to a plain place that adds neither an edge nor a protection.
LEMMA PlainStep ==
  ASSUME SupersessionInv, TypeOK', Shrinks, NEW p \in Process, NEW l, l.pc \in Plain,
         Become(p, l)
  PROVE  SupersessionInv'
<1>1. proc'[p] = l /\ \A q \in Process : q # p => proc'[q] = proc[q]
  BY DEF Become, SupersessionInv, TypeOK
<1>2. SoundOf(p)'
  BY <1>1, PlainIsSoundAfter
<1> QED BY <1>1, <1>2, ShrinkStep DEF Plain

LEMMA ReturnStep ==
  ASSUME SupersessionInv, TypeOK', Shrinks, NEW p \in Process, Return(p)
  PROVE  SupersessionInv'
  BY IdleType, PlainStep DEF Return, Plain

\* A writer that adds edges or a protection is the only one with an operation
\* that reads them.
LEMMA WriterStep ==
  ASSUME OneWriter, SupersessionInv, TypeOK', NEW p \in Writer, NEW l, l.pc \in Plain,
         Become(p, l), AcyclicGraph(succ'), SupersededIsUnprotected'
  PROVE  SupersessionInv'
<1>p. p \in Process
  BY SupersessionAssumption
<1>1. \A q \in Process :
        proc'[q].pc \notin {"check", "walk", "write", "got", "upsert", "protect"}
  <2> TAKE q \in Process
  <2>1. CASE q = p
    BY <2>1, <1>p DEF Plain, Become, SupersessionInv, TypeOK
  <2>2. CASE q # p
    <3>1. proc'[q] = proc[q]
      BY <2>2 DEF Become, SupersessionInv, TypeOK
    <3>2. q \notin Writer
      BY <2>2 DEF OneWriter
    <3> QED BY <3>1, <3>2 DEF SupersessionInv, OnlyWriters
  <2> QED BY <2>1, <2>2
<1>2. WalkSound' /\ UpdateSound' /\ OnlyWriters'
  BY <1>1 DEF WalkSound, WalkSoundOf, UpdateSound, UpdateSoundOf, OnlyWriters
<1>4. ShieldSound'
  BY <1>1 DEF ShieldSound, ShieldSoundOf
<1>3. Acyclic'
  BY DEF Acyclic, AcyclicGraph, Closed
<1> QED BY <1>2, <1>3, <1>4 DEF SupersessionInv

\* A step of p that leaves the store alone.
LEMMA LocalStep ==
  ASSUME SupersessionInv, TypeOK', UNCHANGED payload, NEW p \in Process, NEW l, Become(p, l),
         proc'[p] = l => SoundOf(p)',
         l.pc \in {"check", "walk", "write", "got", "upsert", "protect"} => p \in Writer
  PROVE  SupersessionInv'
<1>1. Shrinks
  BY DEF Shrinks, succ
<1>2. proc'[p] = l /\ \A q \in Process : q # p => proc'[q] = proc[q]
  BY DEF Become, SupersessionInv, TypeOK
<1> QED BY <1>1, <1>2, ShrinkStep

LEMMA LocalPlain ==
  ASSUME SupersessionInv, TypeOK', UNCHANGED payload, NEW p \in Process, NEW l,
         l.pc \in Plain, Become(p, l)
  PROVE  SupersessionInv'
<1>1. Shrinks
  BY DEF Shrinks, succ
<1> QED BY <1>1, PlainStep

LEMMA LocalReturn ==
  ASSUME SupersessionInv, TypeOK', UNCHANGED payload, NEW p \in Process, Return(p)
  PROVE  SupersessionInv'
  BY IdleType, LocalPlain DEF Return, Plain

LEMMA WalkKeeps ==
  ASSUME SupersessionInv, TypeOK', NEW p \in Process, Walk(p)
  PROVE  SupersessionInv'
<1>1. PICK m \in proc[p].todo : IF m = proc[p].target THEN Return(p)
         ELSE Become(p, [proc[p] EXCEPT
                !.todo = @ \ {m}, !.visited = @ \cup {m},
                !.next = IF m \in proc[p].visited THEN @ ELSE @ \cup payload[m].succ])
  BY DEF Walk
<1> DEFINE l == [proc[p] EXCEPT
                !.todo = @ \ {m}, !.visited = @ \cup {m},
                !.next = IF m \in proc[p].visited THEN @ ELSE @ \cup payload[m].succ]
<1>t. proc[p] \in Local /\ m \in Memory /\ succ[m] = payload[m].succ /\ succ' = succ
  BY DEF SupersessionInv, TypeOK, Local, succ, Walk
<1>2. CASE m = proc[p].target
  BY <1>1, <1>2, LocalReturn DEF Walk
<1>3. CASE m # proc[p].target
  <2>1. Become(p, l)
    BY <1>1, <1>3
  <2>2. /\ l.pc = "walk" /\ l.target = proc[p].target /\ l.by = proc[p].by
        /\ l.todo = proc[p].todo \ {m} /\ l.visited = proc[p].visited \cup {m}
        /\ m \in proc[p].visited => l.next = proc[p].next
        /\ m \notin proc[p].visited => l.next = proc[p].next \cup succ[m]
    BY <1>t DEF Walk, Local
  <2> HIDE DEF l
  <2> DEFINE reached == proc[p].visited \cup proc[p].todo \cup proc[p].next
  <2>3. /\ proc[p].target \notin proc[p].by
        /\ proc[p].by \subseteq reached
        /\ proc[p].target \notin proc[p].visited
        /\ \A x \in proc[p].visited : succ[x] \subseteq reached
    BY DEF Walk, SupersessionInv, WalkSound, WalkSoundOf
  <2>4. reached \subseteq l.visited \cup l.todo \cup l.next
    BY <2>2
  <2>5. \A x \in l.visited : succ[x] \subseteq l.visited \cup l.todo \cup l.next
    BY <2>2, <2>3, <2>4
  <2>6. proc'[p] = l => SoundOf(p)'
    BY <1>t, <1>3, <2>2, <2>3, <2>4, <2>5 DEF SoundOf, ShieldSoundOf, WalkSoundOf, UpdateSoundOf
  <2>7. p \in Writer
    BY DEF Walk, SupersessionInv, OnlyWriters
  <2> QED BY <2>1, <2>6, <2>7, LocalStep DEF Walk
<1> QED BY <1>2, <1>3

LEMMA NextFrontierKeeps ==
  ASSUME SupersessionInv, TypeOK', NEW p \in Process, NextFrontier(p)
  PROVE  SupersessionInv'
<1> DEFINE l == [proc[p] EXCEPT !.pc = IF proc[p].next = {} THEN "write" ELSE "walk",
                           !.todo = proc[p].next, !.next = {}, !.depth = @ + 1]
<1>t. proc[p] \in Local /\ succ' = succ
  BY DEF SupersessionInv, TypeOK, succ, NextFrontier
<1>1. Become(p, l)
  BY DEF NextFrontier
<1>2. /\ l.target = proc[p].target /\ l.by = proc[p].by
      /\ l.todo = proc[p].next /\ l.visited = proc[p].visited /\ l.next = {}
      /\ proc[p].next = {} => l.pc = "write"
      /\ proc[p].next # {} => l.pc = "walk"
  BY <1>t DEF Local
<1> HIDE DEF l
<1>3. proc'[p] = l => SoundOf(p)'
  BY <1>t, <1>2 DEF NextFrontier, SupersessionInv, WalkSound, SoundOf, WalkSoundOf,
     UpdateSoundOf, ShieldSoundOf
<1>4. p \in Writer
  BY DEF NextFrontier, SupersessionInv, OnlyWriters
<1> QED BY <1>1, <1>3, <1>4, LocalStep DEF NextFrontier

\* The write of a finished walk: what it visited is closed and leaves the target out.
LEMMA WriteEdgesKeeps ==
  ASSUME OneWriter, SupersessionInv, TypeOK', NEW p \in Process, WriteEdges(p)
  PROVE  SupersessionInv'
<1> DEFINE t == proc[p].target
           by == proc[p].by
           C == proc[p].visited
<1>1. t \in Memory /\ by \in SUBSET Memory /\ C \in SUBSET Memory
  BY DEF WriteEdges, SupersessionInv, TypeOK, Local
<1>2. by \subseteq C /\ t \notin C /\ Closed(succ, C)
  BY DEF WriteEdges, SupersessionInv, WalkSound, WalkSoundOf, Closed
<1>3. succ \in Graph /\ p \in Writer /\ AcyclicGraph(succ)
  BY SuccType DEF WriteEdges, SupersessionInv, OnlyWriters, Acyclic
<1>4. CASE payload' = payload
  BY <1>4, LocalReturn DEF WriteEdges
<1>5. CASE payload' # payload
  <2>1. PICK v \in Payload :
          v.succ = by /\ v.shield = "null" /\ payload' = [payload EXCEPT ![t] = v]
    BY <1>1, <1>5, SetFieldsType DEF WriteEdges, SupersessionInv, Shield
  <2>2. succ' = [succ EXCEPT ![t] = by]
    BY <2>1, <1>1 DEF succ, SupersessionInv, TypeOK
  <2>3. AcyclicGraph([succ EXCEPT ![t] = by])
    BY <1>1, <1>2, <1>3, AddEdgesAcyclic
  <2>4. SupersededIsUnprotected'
    BY <2>1 DEF SupersededIsUnprotected, SupersessionInv, TypeOK
  <2>5. AcyclicGraph(succ')
    BY <2>2, <2>3
  <2> QED BY <1>3, <2>4, <2>5, IdleType, WriterStep DEF WriteEdges, Return, Plain
<1> QED BY <1>4, <1>5

\* The write of a protection, to a memory nobody else takes out of the pool.
LEMMA WriteProtectionKeeps ==
  ASSUME OneWriter, SupersessionInv, TypeOK', NEW p \in Process, WriteProtection(p)
  PROVE  SupersessionInv'
<1> DEFINE t == proc[p].target
<1>1. t \in Memory /\ p \in Writer /\ payload[t].succ = {}
  BY DEF WriteProtection, SupersessionInv, TypeOK, OnlyWriters, ShieldSound, ShieldSoundOf
<1>2. CASE payload' = payload
  BY <1>2, LocalReturn DEF WriteProtection
<1>3. CASE payload' # payload
  <2>1. PICK v \in Payload :
          v.succ = payload[t].succ /\ payload' = [payload EXCEPT ![t] = v]
    BY <1>1, <1>3, SetShieldType DEF WriteProtection, SupersessionInv, Shield
  <2>2. succ' = succ
    BY <2>1, <1>1 DEF succ, SupersessionInv, TypeOK
  <2>3. SupersededIsUnprotected'
    BY <2>1, <1>1 DEF SupersededIsUnprotected, SupersessionInv, TypeOK
  <2>4. AcyclicGraph(succ')
    BY <2>2 DEF SupersessionInv, Acyclic
  <2> QED BY <1>1, <2>3, <2>4, IdleType, WriterStep DEF WriteProtection, Return, Plain
<1> QED BY <1>2, <1>3

\* An update that has read m's payload may write it back: m's edges of now, or
\* those it is to be given, close no cycle.
LEMMA UpdateKeeps ==
  ASSUME SupersessionInv, TypeOK', NEW p \in Process, update(p)
  PROVE  SupersessionInv'
<1>1. PICK m \in Stored : Become(p, [At("got", m) EXCEPT !.read = payload[m]])
  BY DEF update
<1> DEFINE l == [At("got", m) EXCEPT !.read = payload[m]]
<1>2. m \in Memory
  BY DEF Stored
<1>3. At("got", m) \in Local /\ At("got", m).pc = "got" /\ At("got", m).target = m
  BY <1>2, AtType DEF PC
<1>4. l.pc = "got" /\ l.target = m /\ l.read = payload[m]
  BY <1>3 DEF Local
<1>5. succ' = succ /\ [succ EXCEPT ![m] = payload[m].succ] = succ
  BY <1>2 DEF update, succ
<1>6. Become(p, l)
  BY <1>1
<1> HIDE DEF l
<1>7. proc'[p] = l => WalkSoundOf(p)'
  BY <1>4 DEF WalkSoundOf
<1>9. proc'[p] = l => ShieldSoundOf(p)'
  BY <1>2, <1>4 DEF update, ShieldSoundOf, SupersessionInv, SupersededIsUnprotected
<1>8. proc'[p] = l => UpdateSoundOf(p)'
  BY <1>4, <1>5 DEF UpdateSoundOf, SupersessionInv, Acyclic, AcyclicGraph, Closed
<1> QED BY <1>4, <1>6, <1>7, <1>8, <1>9, LocalStep DEF update, SoundOf

LEMMA UpdateReadKeeps ==
  ASSUME SupersessionInv, TypeOK', NEW p \in Process, UpdateRead(p)
  PROVE  SupersessionInv'
<1> DEFINE t == proc[p].target
           now == payload[t]
           l == [proc[p] EXCEPT !.pc = "upsert", !.read = Overlay(@, now)]
<1>1. t \in Memory /\ proc[p] \in Local /\ p \in Writer
  BY DEF UpdateRead, SupersessionInv, TypeOK, OnlyWriters
<1>2. CASE ~now.stored
  BY <1>2, LocalReturn DEF UpdateRead
<1>3. CASE now.stored
  <2>1. Become(p, l)
    BY <1>3 DEF UpdateRead
  <2>2. l.pc = "upsert" /\ l.target = t /\ l.read = Overlay(proc[p].read, now)
    BY <1>1 DEF Local
  <2>8. /\ l.read.succ \in {proc[p].read.succ, now.succ}
        /\ l.read.shield \in {proc[p].read.shield, now.shield}
    BY <2>2 DEF Overlay
  <2> HIDE DEF l
  <2>3. succ' = succ /\ [succ EXCEPT ![t] = now.succ] = succ
    BY <1>1 DEF UpdateRead, succ
  <2>4. proc'[p] = l => WalkSoundOf(p)'
    BY <2>2 DEF WalkSoundOf
  <2>5. AcyclicGraph([succ EXCEPT ![t] = proc[p].read.succ]) /\ AcyclicGraph(succ)
    BY DEF UpdateRead, SupersessionInv, UpdateSound, UpdateSoundOf, Acyclic
  <2>6. AcyclicGraph([succ EXCEPT ![t] = l.read.succ])
    BY <2>8, <2>3, <2>5
  <2>9. proc'[p] = l => ShieldSoundOf(p)'
    BY <2>2, <2>8 DEF UpdateRead, ShieldSoundOf, ShieldSound, SupersessionInv
  <2>7. proc'[p] = l => UpdateSoundOf(p)'
    BY <2>2, <2>3, <2>6 DEF UpdateSoundOf, AcyclicGraph, Closed
  <2> QED BY <1>1, <2>1, <2>4, <2>7, <2>9, LocalStep DEF UpdateRead, SoundOf
<1> QED BY <1>2, <1>3

LEMMA UpdateWriteKeeps ==
  ASSUME OneWriter, SupersessionInv, TypeOK', NEW p \in Process, UpdateWrite(p)
  PROVE  SupersessionInv'
<1> DEFINE t == proc[p].target
<1>1. t \in Memory /\ p \in Writer
  BY DEF UpdateWrite, SupersessionInv, TypeOK, OnlyWriters
<1>2. succ' = [succ EXCEPT ![t] = proc[p].read.succ]
  BY <1>1 DEF UpdateWrite, succ, SupersessionInv, TypeOK
<1>3. AcyclicGraph([succ EXCEPT ![t] = proc[p].read.succ])
  BY DEF UpdateWrite, SupersessionInv, UpdateSound, UpdateSoundOf
<1>4. SupersededIsUnprotected'
  BY <1>1 DEF UpdateWrite, SupersededIsUnprotected, SupersessionInv, TypeOK, ShieldSound,
     ShieldSoundOf
<1>5. At("updated", t).pc \in Plain /\ Idle.pc \in Plain
  BY IdleType DEF At, Plain
<1> QED BY <1>1, <1>2, <1>3, <1>4, <1>5, WriterStep DEF UpdateWrite, Return

LEMMA InvariantInductive ==
  ASSUME OneWriter
  PROVE  SupersessionInv /\ [Next]_vars => SupersessionInv'
<1> SUFFICES ASSUME SupersessionInv, [Next]_vars PROVE SupersessionInv'
  OBVIOUS
<1>t. TypeOK /\ TypeOK'
  BY TypeInductive DEF SupersessionInv
<1>1. CASE UNCHANGED vars
  <2>1. Shrinks /\ UNCHANGED proc
    BY <1>1 DEF vars, Shrinks, succ
  <2> QED BY <1>t, <2>1, QuietStep
<1>2. ASSUME NEW p \in Process, Step(p) PROVE SupersessionInv'
  <2>1. CASE add(p)
    <3>1. PICK m \in Memory \ born : payload' = [payload EXCEPT ![m] = New]
      BY <2>1 DEF add
    <3>2. payload[m].succ = {} /\ New.succ = {} /\ New.shield = "absent"
      BY <1>t DEF TypeOK, Stored, Payload, New
    <3>3. Shrinks
      BY <3>1, <3>2, <1>t DEF Shrinks, succ, TypeOK
    <3> QED BY <1>t, <2>1, <3>3, QuietStep DEF add
  <2>2. CASE invalidate(p)
    <3>1. PICK m \in Stored, by \in SUBSET Memory \ {{}} :
            m \notin by /\ Become(p, [At("check", m) EXCEPT !.by = by])
      BY <2>2 DEF invalidate
    <3> DEFINE l == [At("check", m) EXCEPT !.by = by]
    <3>2. /\ l.pc = "check" /\ l.target = m /\ l.by = by
          /\ l.visited = {} /\ l.next = {}
      BY DEF At
    <3>3. Become(p, l)
      BY <3>1
    <3> HIDE DEF l
    <3>4. proc'[p] = l => SoundOf(p)'
      BY <3>1, <3>2 DEF SoundOf, ShieldSoundOf, WalkSoundOf, UpdateSoundOf
    <3> QED BY <1>t, <2>2, <3>2, <3>3, <3>4, LocalStep DEF invalidate
  <2>3. CASE FindSuperseders(p)
    <3> DEFINE l == [proc[p] EXCEPT !.pc = "walk", !.todo = proc[p].by]
    <3>1. CASE ~(proc[p].by \subseteq Stored)
      BY <1>t, <2>3, <3>1, LocalReturn DEF FindSuperseders
    <3>2. CASE proc[p].by \subseteq Stored
      <4>1. Become(p, l)
        BY <2>3, <3>2 DEF FindSuperseders
      <4>2. /\ l.pc = "walk" /\ l.target = proc[p].target /\ l.by = proc[p].by
            /\ l.todo = proc[p].by /\ l.visited = proc[p].visited /\ l.next = proc[p].next
        BY <1>t DEF TypeOK, Local
      <4> HIDE DEF l
      <4>3. proc'[p] = l => SoundOf(p)'
        BY <2>3, <4>2 DEF FindSuperseders, SupersessionInv, WalkSound, SoundOf,
           WalkSoundOf, UpdateSoundOf, ShieldSoundOf
      <4>4. p \in Writer
        BY <2>3 DEF FindSuperseders, SupersessionInv, OnlyWriters
      <4> QED BY <1>t, <2>3, <4>1, <4>3, <4>4, LocalStep DEF FindSuperseders
    <3> QED BY <3>1, <3>2
  <2>4. CASE Walk(p)
    BY <1>t, <2>4, WalkKeeps
  <2>5. CASE NextFrontier(p)
    BY <1>t, <2>5, NextFrontierKeeps
  <2>6. CASE TooDeep(p)
    BY <1>t, <2>6, LocalReturn DEF TooDeep
  <2>7. CASE WriteEdges(p)
    BY <1>t, <2>7, WriteEdgesKeeps
  <2>8. CASE revive(p)
    <3>1. PICK m \in Stored : Become(p, At("revive", m))
      BY <2>8 DEF revive
    <3>2. At("revive", m).pc \in Plain
      BY DEF At, Plain
    <3> QED BY <1>t, <2>8, <3>1, <3>2, LocalPlain DEF revive
  <2>9. CASE ClearEdges(p)
    <3>1. proc[p].target \in Memory
      BY <1>t, <2>9 DEF ClearEdges, TypeOK
    <3>3. payload[proc[p].target].shield \in Shield
      BY <1>t, <3>1 DEF TypeOK, Payload, Shield
    <3>2. Shrinks
      BY <1>t, <2>9, <3>1, <3>3, SetFieldsType DEF ClearEdges, Shrinks, succ, TypeOK
    <3> QED BY <1>t, <2>9, <3>2, ReturnStep DEF ClearEdges
  <2>10. CASE update(p)
    BY <1>t, <2>10, UpdateKeeps
  <2>11. CASE UpdateRead(p)
    BY <1>t, <2>11, UpdateReadKeeps
  <2>12. CASE UpdateWrite(p)
    BY <1>t, <2>12, UpdateWriteKeeps
  <2>13. CASE delete(p)
    <3>1. PICK m \in Stored : Become(p, At("delete", m))
      BY <2>13 DEF delete
    <3>2. At("delete", m).pc \in Plain
      BY DEF At, Plain
    <3> QED BY <1>t, <2>13, <3>1, <3>2, LocalPlain DEF delete
  <2>14. CASE DeletePoint(p)
    <3>1. Shrinks
      BY <1>t, <2>14 DEF DeletePoint, Shrinks, succ, TypeOK, Gone
    <3> QED BY <1>t, <2>14, <3>1, ReturnStep DEF DeletePoint
  <2>15. CASE delete_all(p)
    <3>1. Shrinks
      BY <1>t, <2>15 DEF delete_all, Shrinks, succ, TypeOK, Gone
    <3> QED BY <1>t, <2>15, <3>1, QuietStep DEF delete_all
  <2>16. CASE Abort(p)
    BY <1>t, <2>16, LocalReturn DEF Abort
  <2>17. CASE protect(p)
    <3>1. PICK m \in Stored : payload[m].succ = {} /\ Become(p, At("protect", m))
      BY <2>17 DEF protect, Protectable
    <3>2. At("protect", m).pc = "protect" /\ At("protect", m).target = m
      BY DEF At
    <3>3. proc'[p] = At("protect", m) => SoundOf(p)'
      BY <2>17, <3>1, <3>2 DEF protect, SoundOf, WalkSoundOf, UpdateSoundOf, ShieldSoundOf
    <3> QED BY <1>t, <2>17, <3>1, <3>2, <3>3, LocalStep DEF protect
  <2>18. CASE WriteProtection(p)
    BY <1>t, <2>18, WriteProtectionKeeps
  <2>19. CASE unprotect(p)
    <3>1. PICK m \in Stored : Become(p, At("unprotect", m))
      BY <2>19 DEF unprotect, Protected
    <3>2. At("unprotect", m).pc \in Plain
      BY DEF At, Plain
    <3> QED BY <1>t, <2>19, <3>1, <3>2, LocalPlain DEF unprotect
  <2>20. CASE ClearProtection(p)
    <3>1. proc[p].target \in Memory
      BY <1>t, <2>20 DEF ClearProtection, TypeOK
    <3>2. Shrinks
      BY <1>t, <2>20, <3>1, SetShieldType DEF ClearProtection, Shrinks, succ, TypeOK, Shield
    <3> QED BY <1>t, <2>20, <3>2, ReturnStep DEF ClearProtection
  <2>21. CASE CheckProtection(p)
    <3>1. At("unprotect", proc[p].target).pc \in Plain /\ Idle.pc \in Plain
      BY IdleType DEF At, Plain
    <3> QED BY <1>t, <2>21, <3>1, LocalPlain DEF CheckProtection, Return
  <2> QED
    BY <1>2, <2>1, <2>2, <2>3, <2>4, <2>5, <2>6, <2>7, <2>8, <2>9, <2>10, <2>11,
       <2>12, <2>13, <2>14, <2>15, <2>16, <2>17, <2>18, <2>19, <2>20, <2>21 DEF Step
<1> QED BY <1>1, <1>2 DEF Next

LEMMA InitInvariant == Init => SupersessionInv
<1> SUFFICES ASSUME Init PROVE SupersessionInv
  OBVIOUS
<1>1. \A m \in Memory : succ[m] = {}
  BY DEF Init, succ, Gone
<1>2. Acyclic
  BY <1>1 DEF Acyclic, AcyclicGraph, Closed
<1>3. WalkSound /\ UpdateSound /\ OnlyWriters
  BY IdleType DEF Init, WalkSound, WalkSoundOf, UpdateSound, UpdateSoundOf, OnlyWriters
<1>4. SupersededIsUnprotected /\ ShieldSound
  BY IdleType DEF Init, Gone, SupersededIsUnprotected, ShieldSound, ShieldSoundOf
<1> QED BY <1>2, <1>3, <1>4, InitType DEF SupersessionInv

\* SupersessionInv: with one writer at a time, no interleaving of its operations
\* with reviving, deleting and adding leads a walk or an update astray.
THEOREM OneWriterIsSound ==
  ASSUME OneWriter
  PROVE  Spec => []SupersessionInv
<1>1. SupersessionInv /\ [Next]_vars => SupersessionInv'
  BY InvariantInductive
<1> QED BY <1>1, InitInvariant, PTL DEF Spec

\* Acyclic: with one writer at a time, no memory ever supersedes itself, directly
\* or through others.
THEOREM NoCycles ==
  ASSUME OneWriter
  PROVE  Spec => []Acyclic
<1>1. SupersessionInv => Acyclic
  BY DEF SupersessionInv
<1>2. Spec => []SupersessionInv
  BY OneWriterIsSound
<1> QED BY <1>1, <1>2, PTL
\* SupersededIsUnprotected: with one writer at a time, no memory is out of the
\* pool and protected from displacement judging at once, so a revival brings
\* back no protection of before.
THEOREM ExitEndsProtection ==
  ASSUME OneWriter
  PROVE  Spec => []SupersededIsUnprotected
<1>1. SupersessionInv => SupersededIsUnprotected
  BY DEF SupersessionInv
<1>2. Spec => []SupersessionInv
  BY OneWriterIsSound
<1> QED BY <1>1, <1>2, PTL
-------------------------------------------------------------------------------
(* Recursion and induction on numbers *)

\* A set of numbers has a least one: induction by the least counterexample.
LEMMA LeastOf ==
  ASSUME NEW T \in SUBSET Nat, T # {}
  PROVE  \E x \in T : \A y \in T : x <= y
<1> DEFINE R == OpToRel(<, Nat)
<1>1. IsWellFoundedOn(R, Nat)
  BY NatLessThanWellFounded
<1>2. \A x, y \in Nat : <<x, y>> \in R <=> x < y
  BY DEF OpToRel
<1> HIDE DEF R
<1>3. PICK x \in T : \A y \in T : ~(<<y, x>> \in R)
  BY <1>1, WFMin
<1>4. \A y \in T : x <= y
  <2> TAKE y \in T
  <2>1. ~(<<y, x>> \in R) /\ x \in Nat /\ y \in Nat
    BY <1>3
  <2>2. ~(y < x)
    BY <1>2, <2>1
  <2> QED BY <2>2, <2>1, SMT
<1> QED BY <1>4

\* The first n steps from a.
IsRun(g, n, S, a, step) ==
  g \in [0..n -> S] /\ g[0] = a /\ \A k \in 0..(n - 1) : g[k + 1] = step[g[k]]

LEMMA RunsExist ==
  ASSUME NEW S, NEW a \in S, NEW step \in [S -> S], NEW n \in Nat
  PROVE  \E g : IsRun(g, n, S, a, step)
<1> DEFINE T == {k \in Nat : ~ \E g : IsRun(g, k, S, a, step)}
<1> SUFFICES ASSUME T # {} PROVE FALSE
  OBVIOUS
<1>1. PICK k \in T : \A j \in T : k <= j
  BY LeastOf
<1>2. CASE k = 0
  <2> DEFINE g == [j \in 0..0 |-> a]
  <2>1. IsRun(g, 0, S, a, step)
    BY DEF IsRun
  <2> QED BY <1>2, <2>1
<1>3. CASE k # 0
  <2>1. k \in Nat /\ k - 1 \in Nat /\ k - 1 \notin T
    BY <1>1, <1>3
  <2>2. PICK g : IsRun(g, k - 1, S, a, step)
    BY <2>1
  <2> DEFINE h == [j \in 0..k |-> IF j = k THEN step[g[k - 1]] ELSE g[j]]
  <2>3. g \in [0..(k - 1) -> S] /\ k - 1 \in 0..(k - 1)
    BY <2>1, <2>2 DEF IsRun
  <2>4. h \in [0..k -> S]
    BY <2>1, <2>3
  <2>5. h[0] = a
    BY <1>3, <2>1, <2>2 DEF IsRun
  <2>6. \A j \in 0..(k - 1) : h[j + 1] = step[h[j]]
    <3> TAKE j \in 0..(k - 1)
    <3>1. j \in 0..k /\ j + 1 \in 0..k /\ j # k /\ h[j] = g[j]
      BY <2>1
    <3>2. CASE j = k - 1
      BY <2>1, <3>1, <3>2
    <3>3. CASE j # k - 1
      <4>1. j \in 0..(k - 1 - 1) /\ j + 1 # k
        BY <2>1, <3>3
      <4>2. g[j + 1] = step[g[j]]
        BY <2>2, <4>1 DEF IsRun
      <4> QED BY <3>1, <4>1, <4>2
    <3> QED BY <3>2, <3>3
  <2> HIDE DEF h
  <2>7. IsRun(h, k, S, a, step)
    BY <2>4, <2>5, <2>6 DEF IsRun
  <2> QED BY <2>7
<1> QED BY <1>2, <1>3

\* Two runs agree as far as both go.
LEMMA RunsAgree ==
  ASSUME NEW S, NEW a, NEW step, NEW n \in Nat, NEW g, NEW h,
         IsRun(g, n, S, a, step), IsRun(h, n + 1, S, a, step)
  PROVE  g[n] = h[n]
<1> DEFINE T == {k \in 0..n : g[k] # h[k]}
<1> SUFFICES ASSUME T # {} PROVE FALSE
  OBVIOUS
<1>1. T \in SUBSET Nat
  OBVIOUS
<1>2. PICK k \in T : \A j \in T : k <= j
  BY <1>1, LeastOf
<1>3. k # 0
  BY DEF IsRun
<1>4. k - 1 \in 0..n /\ k - 1 \notin T /\ k - 1 \in 0..(n - 1) /\ k - 1 \in 0..(n + 1 - 1)
  BY <1>2, <1>3
<1>5. g[k - 1] = h[k - 1]
  BY <1>4
<1>6. g[k - 1 + 1] = step[g[k - 1]] /\ h[k - 1 + 1] = step[h[k - 1]] /\ k - 1 + 1 = k
  BY <1>4 DEF IsRun
<1> QED BY <1>5, <1>6

\* A function that begins with a and goes on with step exists.
LEMMA Recursion ==
  ASSUME NEW S, NEW a \in S, NEW step \in [S -> S]
  PROVE  \E f \in [Nat -> S] : f[0] = a /\ \A n \in Nat : f[n + 1] = step[f[n]]
<1> DEFINE run == [n \in Nat |-> CHOOSE g : IsRun(g, n, S, a, step)]
           f == [n \in Nat |-> run[n][n]]
<1>1. \A n \in Nat : IsRun(run[n], n, S, a, step)
  BY RunsExist
<1> HIDE DEF run
<1>2. \A n \in Nat : run[n][n] \in S
  BY <1>1 DEF IsRun
<1>3. f \in [Nat -> S]
  BY <1>2
<1>4. f[0] = a
  BY <1>1 DEF IsRun
<1>5. ASSUME NEW n \in Nat PROVE f[n + 1] = step[f[n]]
  <2>1. n + 1 \in Nat /\ n \in 0..(n + 1 - 1)
    OBVIOUS
  <2>2. IsRun(run[n], n, S, a, step) /\ IsRun(run[n + 1], n + 1, S, a, step)
    BY <1>1, <2>1
  <2>3. run[n][n] = run[n + 1][n]
    BY <2>2, RunsAgree
  <2>4. run[n + 1][n + 1] = step[run[n + 1][n]]
    BY <2>1, <2>2 DEF IsRun
  <2> QED BY <2>1, <2>3, <2>4
<1> QED BY <1>3, <1>4, <1>5

-------------------------------------------------------------------------------
(* resolve_head *)

\* The next frontier of resolve_head.
Beyond(F) == UNION {payload[x].succ : x \in F}

\* What resolve_head computes: the memory itself, then frontier after frontier.
LEMMA FrontierSteps ==
  ASSUME TypeOK, NEW m \in Memory
  PROVE  /\ Frontier(m)[0] = {m}
         /\ \A n \in Nat : /\ Frontier(m)[n] \in SUBSET Memory
                           /\ Frontier(m)[n + 1] = Beyond(Frontier(m)[n])
<1> DEFINE step == [F \in SUBSET Memory |-> Beyond(F)]
           Body(f) == [n \in Nat |-> IF n = 0 THEN {m}
                                     ELSE UNION {payload[x].succ : x \in f[n - 1]}]
<1>1. \A x \in Memory : payload[x].succ \subseteq Memory
  BY DEF TypeOK, Payload
<1>2. \A F \in SUBSET Memory : Beyond(F) \in SUBSET Memory
  BY <1>1 DEF Beyond
<1>3. step \in [SUBSET Memory -> SUBSET Memory] /\ {m} \in SUBSET Memory
  BY <1>2
<1> DEFINE S == SUBSET Memory
           a == {m}
<1> HIDE DEF step, S, a
<1>11. step \in [S -> S] /\ a \in S
  BY <1>3 DEF S, a
<1>12. \E f \in [Nat -> S] : f[0] = a /\ \A n \in Nat : f[n + 1] = step[f[n]]
  BY <1>11, Recursion
<1>4. PICK f \in [Nat -> SUBSET Memory] :
        f[0] = {m} /\ \A n \in Nat : f[n + 1] = step[f[n]]
  BY <1>12 DEF S, a
<1>5. ASSUME NEW n \in Nat PROVE f[n] = Body(f)[n]
  <2>1. CASE n = 0
    BY <1>4, <2>1
  <2>2. CASE n # 0
    <3>1. n - 1 \in Nat /\ n - 1 + 1 = n
      BY <2>2
    <3>2. f[n - 1] \in SUBSET Memory
      BY <1>4, <3>1
    <3>3. f[n] = Beyond(f[n - 1])
      BY <1>4, <3>1, <3>2 DEF step
    <3> QED BY <2>2, <3>3 DEF Beyond
  <2> QED BY <2>1, <2>2
<1>6. f = Body(f)
  <2>1. DOMAIN f = Nat /\ f = [n \in Nat |-> f[n]]
    BY <1>4
  <2> QED BY <1>5, <2>1, Zenon
<1>7. Frontier(m) = CHOOSE g : g = Body(g)
  BY DEF Frontier
<1>8. Frontier(m) = Body(Frontier(m))
  BY <1>6, <1>7, Zenon
<1> DEFINE F == Frontier(m)
<1>9. F[0] = {m} /\ \A n \in Nat : F[n + 1] = Beyond(F[n])
  <2> HIDE DEF F
  <2>1. F = [n \in Nat |-> IF n = 0 THEN {m}
                           ELSE UNION {payload[x].succ : x \in F[n - 1]}]
    BY <1>8 DEF F
  <2>2. F[0] = {m}
    BY <2>1
  <2>3. ASSUME NEW n \in Nat PROVE F[n + 1] = Beyond(F[n])
    <3>1. n + 1 \in Nat /\ n + 1 # 0 /\ n + 1 - 1 = n
      OBVIOUS
    <3>2. F[n + 1] = UNION {payload[x].succ : x \in F[n + 1 - 1]}
      BY <2>1, <3>1
    <3> QED BY <3>1, <3>2 DEF Beyond
  <2> QED BY <2>2, <2>3
<1>10. \A n \in Nat : F[n] \in SUBSET Memory
  <2> HIDE DEF F
  <2> DEFINE T == {n \in Nat : F[n] \notin SUBSET Memory}
  <2> SUFFICES ASSUME T # {} PROVE FALSE
    OBVIOUS
  <2>1. PICK n \in T : \A k \in T : n <= k
    BY LeastOf
  <2>2. n # 0
    BY <1>9
  <2>3. n - 1 \in Nat /\ n - 1 + 1 = n /\ n - 1 \notin T
    BY <2>1, <2>2
  <2>4. F[n - 1] \in SUBSET Memory
    BY <2>3
  <2> QED BY <1>2, <1>9, <2>3, <2>4
<1> QED BY <1>9, <1>10
\* What the first frontiers hold, up to the n-th.
Within(m, n) == UNION {Frontier(m)[k] : k \in 0..n}

LEMMA WithinGrows ==
  ASSUME TypeOK, NEW m \in Memory, NEW n \in Nat
  PROVE  /\ Within(m, 0) = {m}
         /\ m \in Within(m, n) /\ Within(m, n) \in SUBSET Memory
         /\ Within(m, n + 1) = Within(m, n) \cup Beyond(Within(m, n))
<1> DEFINE F == Frontier(m)
<1>1. F[0] = {m} /\ \A k \in Nat : F[k] \in SUBSET Memory /\ F[k + 1] = Beyond(F[k])
  BY FrontierSteps
<1>2. \A k \in Nat : Within(m, k) = UNION {F[j] : j \in 0..k}
  BY DEF Within
<1> HIDE DEF F
<1>3. Within(m, 0) = {m}
  BY <1>1, <1>2
<1>4. m \in Within(m, n) /\ Within(m, n) \in SUBSET Memory
  <2>1. 0 \in 0..n /\ 0..n \subseteq Nat
    OBVIOUS
  <2> QED BY <1>1, <1>2, <2>1
<1>5. Within(m, n + 1) \subseteq Within(m, n) \cup Beyond(Within(m, n))
  <2> SUFFICES ASSUME NEW x \in Within(m, n + 1)
               PROVE x \in Within(m, n) \cup Beyond(Within(m, n))
    OBVIOUS
  <2>1. PICK k \in 0..(n + 1) : x \in F[k]
    BY <1>2
  <2>2. CASE k = 0
    BY <1>1, <1>4, <2>1, <2>2
  <2>3. CASE k # 0
    <3>1. k - 1 \in 0..n /\ k - 1 + 1 = k /\ k - 1 \in Nat
      BY <2>3
    <3>2. x \in Beyond(F[k - 1])
      BY <1>1, <2>1, <3>1
    <3>3. F[k - 1] \subseteq Within(m, n)
      BY <1>2, <3>1
    <3> QED BY <3>2, <3>3 DEF Beyond
  <2> QED BY <2>2, <2>3
<1>6. Within(m, n) \subseteq Within(m, n + 1)
  <2>1. 0..n \subseteq 0..(n + 1)
    OBVIOUS
  <2> QED BY <1>2, <2>1
<1>7. Beyond(Within(m, n)) \subseteq Within(m, n + 1)
  <2> SUFFICES ASSUME NEW y \in Within(m, n), NEW x \in payload[y].succ
               PROVE x \in Within(m, n + 1)
    BY DEF Beyond
  <2>1. PICK k \in 0..n : y \in F[k]
    BY <1>2
  <2>2. k \in Nat /\ k + 1 \in 0..(n + 1)
    OBVIOUS
  <2>3. x \in F[k + 1]
    BY <1>1, <2>1, <2>2 DEF Beyond
  <2> QED BY <1>2, <2>2, <2>3
<1> QED BY <1>3, <1>4, <1>5, <1>6, <1>7

\* Reach(m) is the least closed set around m.
LEMMA ReachIsClosed ==
  ASSUME TypeOK, NEW m \in Memory
  PROVE  /\ m \in Reach(m) /\ Reach(m) \in SUBSET Memory /\ Closed(succ, Reach(m))
         /\ \A C \in SUBSET Memory : m \in C /\ Closed(succ, C) => Reach(m) \subseteq C
<1>1. \A x \in Memory : succ[x] \subseteq Memory
  BY DEF succ, TypeOK, Payload
<1>2. Closed(succ, Reach(m))
  <2> SUFFICES ASSUME NEW x \in Reach(m), NEW y \in succ[x] PROVE y \in Reach(m)
    BY DEF Closed
  <2>1. x \in Memory /\ y \in Memory
    BY <1>1 DEF Reach
  <2> SUFFICES ASSUME NEW C \in SUBSET Memory, m \in C, Closed(succ, C) PROVE y \in C
    BY <2>1 DEF Reach
  <2> QED BY DEF Reach, Closed
<1> QED BY <1>2 DEF Reach

LEMMA WithinIsReached ==
  ASSUME TypeOK, NEW m \in Memory, NEW n \in Nat
  PROVE  Within(m, n) \subseteq Reach(m)
<1> DEFINE T == {k \in Nat : ~(Within(m, k) \subseteq Reach(m))}
<1> SUFFICES ASSUME T # {} PROVE FALSE
  OBVIOUS
<1>1. PICK k \in T : \A j \in T : k <= j
  BY LeastOf
<1>2. CASE k = 0
  BY <1>2, WithinGrows, ReachIsClosed
<1>3. CASE k # 0
  <2>1. k - 1 \in Nat /\ k - 1 + 1 = k /\ k - 1 \notin T
    BY <1>1, <1>3
  <2>2. Within(m, k - 1) \subseteq Reach(m)
    BY <2>1
  <2>3. Within(m, k - 1 + 1) = Within(m, k - 1) \cup Beyond(Within(m, k - 1))
    BY <2>1, WithinGrows
  <2>4. Within(m, k) = Within(m, k - 1) \cup Beyond(Within(m, k - 1))
    BY <2>1, <2>3
  <2>5. Closed(succ, Reach(m)) /\ Reach(m) \in SUBSET Memory
    BY ReachIsClosed
  <2>6. Beyond(Within(m, k - 1)) \subseteq Reach(m)
    BY <2>2, <2>5 DEF Beyond, Closed, succ
  <2> QED BY <2>2, <2>4, <2>6
<1> QED BY <1>2, <1>3

\* Each frontier adds a memory, or there is nothing more to be found.
LEMMA FrontiersAdvance ==
  ASSUME TypeOK, NEW m \in Memory, IsFiniteSet(Reach(m)), NEW n \in Nat
  PROVE  Closed(succ, Within(m, n)) \/ Cardinality(Within(m, n + 1)) >= n + 2
<1> DEFINE W(k) == Within(m, k)
           T == {k \in Nat : ~(Closed(succ, W(k)) \/ Cardinality(W(k + 1)) >= k + 2)}
<1>1. ASSUME NEW k \in Nat
      PROVE /\ W(k) \in SUBSET Memory /\ W(k + 1) = W(k) \cup Beyond(W(k))
            /\ IsFiniteSet(W(k)) /\ Cardinality(W(k)) \in Nat
  <2>1. W(k) \in SUBSET Reach(m)
    BY WithinIsReached
  <2>2. IsFiniteSet(W(k))
    BY <2>1, FS_Subset
  <2> QED BY <2>2, WithinGrows, FS_CardinalityType
<1>2. ASSUME NEW k \in Nat, ~Closed(succ, W(k))
      PROVE Cardinality(W(k + 1)) >= Cardinality(W(k)) + 1
  <2>1. PICK x \in W(k) : ~(succ[x] \subseteq W(k))
    BY <1>2 DEF Closed
  <2>2. PICK y \in succ[x] : y \notin W(k)
    BY <2>1
  <2>3. x \in Memory /\ W(k + 1) = W(k) \cup Beyond(W(k))
    BY <1>1
  <2>4. y \in Beyond(W(k))
    BY <2>3 DEF Beyond, succ
  <2>5. k + 1 \in Nat
    OBVIOUS
  <2>6. IsFiniteSet(W(k)) /\ IsFiniteSet(W(k + 1)) /\ Cardinality(W(k)) \in Nat
        /\ Cardinality(W(k + 1)) \in Nat
    BY <1>1, <2>5
  <2> DEFINE V == W(k) \cup {y}
  <2>7. Cardinality(V) = Cardinality(W(k)) + 1
    BY <2>2, <2>6, FS_AddElement
  <2>8. V \in SUBSET W(k + 1)
    BY <2>3, <2>4
  <2> HIDE DEF V
  <2>9. Cardinality(V) <= Cardinality(W(k + 1))
    BY <2>6, <2>8, FS_Subset
  <2> QED BY <2>6, <2>7, <2>9
<1> SUFFICES ASSUME T # {} PROVE FALSE
  OBVIOUS
<1>3. PICK k \in T : \A j \in T : k <= j
  BY LeastOf
<1>4. k \in Nat /\ ~Closed(succ, W(k)) /\ ~(Cardinality(W(k + 1)) >= k + 2)
  BY <1>3
<1>5. Cardinality(W(k + 1)) >= Cardinality(W(k)) + 1
  BY <1>2, <1>4
<1>6. Cardinality(W(k)) \in Nat /\ k + 1 \in Nat /\ Cardinality(W(k + 1)) \in Nat
  BY <1>1, <1>4
<1>7. CASE k = 0
  <2>1. W(k) = {m}
    BY <1>7, WithinGrows
  <2>2. Cardinality(W(k)) = 1
    BY <2>1, FS_Singleton
  <2> QED BY <1>4, <1>5, <1>6, <1>7, <2>2
<1>8. CASE k # 0
  <2>1. k - 1 \in Nat /\ k - 1 + 1 = k /\ k - 1 + 2 = k + 1 /\ k - 1 \notin T
    BY <1>3, <1>8
  <2>2. Closed(succ, W(k - 1)) \/ Cardinality(W(k - 1 + 1)) >= k - 1 + 2
    BY <2>1
  <2>3. CASE Closed(succ, W(k - 1))
    <3>1. W(k - 1 + 1) = W(k - 1) \cup Beyond(W(k - 1)) /\ W(k - 1) \in SUBSET Memory
      BY <1>1, <2>1
    <3>2. Beyond(W(k - 1)) \subseteq W(k - 1)
      BY <2>3, <3>1 DEF Beyond, Closed, succ
    <3>3. W(k - 1 + 1) = W(k - 1)
      BY <3>1, <3>2
    <3>4. W(k) = W(k - 1)
      BY <2>1, <3>3
    <3> QED BY <1>4, <2>3, <3>4
  <2>4. CASE Cardinality(W(k - 1 + 1)) >= k - 1 + 2
    <3>1. Cardinality(W(k)) >= k + 1
      BY <2>1, <2>4
    <3> QED BY <1>4, <1>5, <1>6, <3>1
  <2> QED BY <2>2, <2>3, <2>4
<1> QED BY <1>7, <1>8

\* A closed set of an acyclic relation has an end.
LEMMA EndsExist ==
  ASSUME TypeOK, Acyclic, NEW R \in SUBSET Memory, IsFiniteSet(R), R # {}, Closed(succ, R)
  PROVE  \E x \in R : succ[x] = {}
<1> DEFINE T == {C \in SUBSET R : C # {} /\ Closed(succ, C)}
           Sizes == {Cardinality(C) : C \in T}
<1> SUFFICES ASSUME \A x \in R : succ[x] # {} PROVE FALSE
  OBVIOUS
<1>1. \A C \in T : IsFiniteSet(C) /\ Cardinality(C) \in Nat
  BY FS_Subset, FS_CardinalityType
<1>2. Sizes \in SUBSET Nat /\ Cardinality(R) \in Sizes
  BY <1>1
<1> HIDE DEF Sizes
<1>3. PICK n \in Sizes : \A k \in Sizes : n <= k
  BY <1>2, LeastOf
<1>4. PICK C \in T : \A D \in T : Cardinality(C) <= Cardinality(D)
  BY <1>3 DEF Sizes
<1>5. PICK x \in C : x \in R /\ x \in Memory
  OBVIOUS
<1>6. PICK D \in SUBSET Memory : x \notin D /\ succ[x] \subseteq D /\ Closed(succ, D)
  BY <1>5 DEF Acyclic, AcyclicGraph
<1> DEFINE E == C \cap D
<1>7. E \in SUBSET R /\ Closed(succ, E) /\ succ[x] \subseteq E /\ succ[x] # {}
  BY <1>5, <1>6 DEF Closed
<1>8. E \in T /\ E \in SUBSET C /\ E # C
  BY <1>5, <1>6, <1>7
<1>9. Cardinality(C) <= Cardinality(E)
  BY <1>4, <1>8
<1> HIDE DEF E
<1>10. IsFiniteSet(C) /\ Cardinality(C) \in Nat /\ Cardinality(E) \in Nat
  BY <1>1, <1>8
<1>11. Cardinality(E) <= Cardinality(C) /\ (Cardinality(C) = Cardinality(E) => C = E)
  BY <1>8, <1>10, FS_Subset
<1> QED BY <1>8, <1>9, <1>10, <1>11

LEMMA HeadsFollow ==
  ASSUME TypeOK, Acyclic, IsFiniteSet(born)
  PROVE  HeadsAreComplete
<1> SUFFICES ASSUME NEW m \in Stored, Reach(m) \subseteq Stored,
                    Cardinality(Reach(m)) <= MAX_CHAIN_DEPTH + 1
             PROVE  /\ resolve_head(m) = {x \in Reach(m) : payload[x].succ = {}}
                    /\ resolve_head(m) # {}
  BY DEF HeadsAreComplete
<1>1. m \in Memory /\ Reach(m) \in SUBSET born
  BY DEF Stored, TypeOK
<1>2. IsFiniteSet(Reach(m)) /\ Cardinality(Reach(m)) \in Nat
  BY <1>1, FS_Subset, FS_CardinalityType
<1>3. MAX_CHAIN_DEPTH \in Nat
  BY SupersessionAssumption
<1> DEFINE n == MAX_CHAIN_DEPTH
           W == Within(m, n)
<1>4. Closed(succ, W)
  <2> SUFFICES ASSUME ~Closed(succ, W) PROVE FALSE
    OBVIOUS
  <2>1. Cardinality(Within(m, n + 1)) >= n + 2
    BY <1>1, <1>2, <1>3, FrontiersAdvance
  <2>2. Within(m, n + 1) \in SUBSET Reach(m)
    BY <1>1, <1>3, WithinIsReached
  <2>3. Cardinality(Within(m, n + 1)) <= Cardinality(Reach(m))
    BY <1>2, <2>2, FS_Subset
  <2>4. IsFiniteSet(Within(m, n + 1))
    BY <1>2, <2>2, FS_Subset
  <2>5. Cardinality(Within(m, n + 1)) \in Nat
    BY <2>4, FS_CardinalityType
  <2> QED BY <1>2, <1>3, <2>1, <2>3, <2>5
<1>5. W = Reach(m)
  <2>1. W \subseteq Reach(m)
    BY <1>1, <1>3, WithinIsReached
  <2>2. W \in SUBSET Memory /\ m \in W
    BY <1>1, <1>3, WithinGrows
  <2>3. Reach(m) \subseteq W
    BY <1>1, <1>4, <2>2, ReachIsClosed
  <2> QED BY <2>1, <2>3
<1>6. UNION {Frontier(m)[k] : k \in Hops} = Reach(m)
  BY <1>5 DEF Within, Hops
<1>7. resolve_head(m) = {x \in Reach(m) : payload[x].succ = {}}
  <2>1. \A x \in Reach(m) : payload[x].stored
    BY DEF Stored
  <2> QED BY <1>6, <2>1 DEF resolve_head
<1>8. PICK x \in Reach(m) : succ[x] = {}
  BY <1>1, <1>2, ReachIsClosed, EndsExist
<1>9. x \in Memory /\ payload[x].succ = {}
  BY <1>1, <1>8 DEF succ, TypeOK
<1> QED BY <1>7, <1>8, <1>9

LEMMA FinitelyMany == Spec => []IsFiniteSet(born)
<1>1. Init => IsFiniteSet(born)
  BY FS_EmptySet DEF Init
<1>2. IsFiniteSet(born) /\ [Next]_vars => IsFiniteSet(born)'
  <2> SUFFICES ASSUME IsFiniteSet(born), [Next]_vars PROVE IsFiniteSet(born')
    OBVIOUS
  <2>1. born' = born \/ \E m \in Memory : born' = born \cup {m}
    BY DEF Next, Step, vars, add, invalidate, FindSuperseders, Walk, NextFrontier, TooDeep,
       WriteEdges, revive, ClearEdges, protect, WriteProtection, unprotect,
       ClearProtection, update, UpdateRead, UpdateWrite, CheckProtection, delete,
       DeletePoint, delete_all, Abort
  <2> QED BY <2>1, FS_AddElement
<1> QED BY <1>1, <1>2, PTL DEF Spec

\* HeadsAreComplete: with one writer at a time, resolve_head finds all active
\* memories at the end of a chain of which nothing was deleted and which is no
\* longer than MAX_CHAIN_DEPTH, and there is one.
THEOREM HeadsAreFound ==
  ASSUME OneWriter
  PROVE  Spec => []HeadsAreComplete
<1>1. SupersessionInv => TypeOK /\ Acyclic
  BY DEF SupersessionInv
<1>2. TypeOK /\ Acyclic /\ IsFiniteSet(born) => HeadsAreComplete
  BY HeadsFollow
<1>3. Spec => []SupersessionInv
  BY OneWriterIsSound
<1> QED BY <1>1, <1>2, <1>3, FinitelyMany, PTL
===============================================================================
