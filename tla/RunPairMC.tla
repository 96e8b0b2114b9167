------------------------------ MODULE RunPairMC ------------------------------
(***************************************************************************)
(* RunPair for TLC. The two jobs are fixed by the code; the configurations *)
(* choose what the environment may do.                                     *)
(***************************************************************************)
EXTENDS RunPair
==============================================================================
