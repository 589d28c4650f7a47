-------------------------- MODULE MCCaseVerification --------------------------
(* CaseVerification with one writer, so that every race is one between the   *)
(* writer and the verifiers, and plans of one and of two checks.             *)
EXTENDS CaseVerification, TLC

CONSTANTS k1, k2

MCTime == 0 .. 1
MCIds == 1 .. 2
OneCheck == <<k1>>
TwoChecks == <<k1, k2>>

Symmetry == Permutations(Verifier) \cup Permutations(Material)
=============================================================================
