----------------------------- MODULE MCFixCache -----------------------------
(* FixCache with processes, skills and fresh rows interchangeable: *)
(* all its properties are about safety.                                      *)
EXTENDS FixCache, TLC

Symmetric ==
  Permutations(Procs) \cup Permutations(Skills) \cup Permutations(Entries \ Seed)
=============================================================================
