---------------------------- MODULE DispositionsMC ----------------------------
(* Instances of Dispositions for TLC. *)
EXTENDS Dispositions, FiniteSets, Naturals, TLC

\* No definition tells one of these from another of its set.
Symmetry == Permutations(Memory) \cup Permutations(Text) \cup Permutations(Reviewer) \cup Permutations(Checker)

\* Bound: two suspicions are raised, or one that suffers from failures.
Bounded ==
  Cardinality({p \in Pair : pairs[p] \notin {"none", "cached"}})
    + Cardinality(doubtful \cup abandoned) <= 2
===============================================================================
