--------------------------- MODULE EvidenceStoreMC ---------------------------
(***************************************************************************)
(* EvidenceStore for TLC: small sets of processes, runs and findings.      *)
(***************************************************************************)
EXTENDS EvidenceStore, TLC

\* Processes, runs and findings are interchangeable (safety runs only).
Symmetry ==
  Permutations(Committers) \cup Permutations(RunIds) \cup Permutations(Findings)
==============================================================================
