---------------------------- MODULE MutationRunMC ----------------------------
(***************************************************************************)
(* MutationRun for TLC.                                                    *)
(***************************************************************************)
EXTENDS MutationRun
==============================================================================
