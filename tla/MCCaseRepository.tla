--------------------------- MODULE MCCaseRepository ---------------------------
(* CaseRepository on small instances: two requirement ids of which the       *)
(* profile may declare fewer, instants 0 and 1, revisions up to a small      *)
(* MaxSafeInteger.                                                           *)
EXTENDS CaseRepository, TLC

MCTime == 0 .. 1

Symmetry == Permutations(Writer) \cup Permutations(Material)
=============================================================================
