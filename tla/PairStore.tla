------------------------------- MODULE PairStore ------------------------------
(***************************************************************************)
(* The suspicion pairs of staleness.PairStore: one SQLite row for each     *)
(* judgment of one version of a memory's text.  A row is named by the      *)
(* columns its UNIQUE constraint names, so that it is a function from them *)
(* to its disposition, and "none" says that there is no row.  Every method *)
(* is one transaction, so one step.  A text stands for its hash.           *)
(***************************************************************************)
CONSTANTS Memory, Text,
          Kind     \* the kinds of suspicion an instance looks at

ASSUME PairAssumption ==
  /\ Kind \subseteq {"displacement", "necessity", "correctness", "safety"}
  /\ "displacement" \in Kind

SelfKind == Kind \ {"displacement"}

\* Self-suspicions are pairs of a memory with itself.
Pair == {p \in [kind : Kind, new : Memory, old : Memory, text : Text] :
           p.new = p.old <=> p.kind \in SelfKind}

Disposition == {"none", "cached", "open", "confirmed", "merged", "ttl",
                "dismissed", "obsoleted", "expired"}

VARIABLE pairs

PairsInit == pairs = [p \in Pair |-> "none"]

Displacement(new, old, text) == [kind |-> "displacement", new |-> new, old |-> old, text |-> text]

\* A memory is judged on its own.
Self(kind, m, text) == [kind |-> kind, new |-> m, old |-> m, text |-> text]

Judged(p) == pairs[p] # "none"

\* INSERT OR IGNORE; d says whether verdict and confidence open a suspicion.
record_judgment(p, d) == pairs' = IF Judged(p) THEN pairs ELSE [pairs EXCEPT ![p] = d]

\* The entries of C judged against the probe m in either direction.
judged_either(m, text, C) ==
  {c \in C : \/ Judged(Displacement(m, c.id, c.text))
             \/ Judged(Displacement(c.id, m, text))}

Open == {p \in Pair : pairs[p] = "open"}

Close(P, d) == pairs' = [p \in Pair |-> IF p \in P THEN d ELSE pairs[p]]

dispose(p, d) == Close({p} \cap Open, d)

\* Mutant: whatever was decided is open again.
reopen_Any(p) == pairs' = [pairs EXCEPT ![p] = "open"]

\* Mutant: nothing is rolled back.
reopen_Not(p) == UNCHANGED pairs

reopen(p) ==
  pairs' = IF pairs[p] \in {"confirmed", "merged", "ttl"}
           THEN [pairs EXCEPT ![p] = "open"] ELSE pairs

\* Mutant: the pairs that the memory displaces are closed.
close_for_old_New(m, d) == Close({p \in Open : p.new = m}, d)

close_for_old(m, d) == Close({p \in Open : p.old = m}, d)

close_for_deleted_memory(m) ==
  pairs' = [p \in Pair |-> IF p \notin Open THEN pairs[p]
                           ELSE IF p.old = m THEN "obsoleted"
                           ELSE IF p.new = m THEN "expired" ELSE pairs[p]]

close_for_updated_text(m, text) ==
  Close({p \in Open : p.old = m /\ p.text # text}, "expired")
===============================================================================
