----------------------------- MODULE StrictCheckMC -----------------------------
(***************************************************************************)
(* StrictCheck for TLC.                                                    *)
(***************************************************************************)
EXTENDS StrictCheck, TLC

\* The files are interchangeable.
Symmetry == Permutations(Files)
==============================================================================
