--------------------------- MODULE ToolAdapterMC ----------------------------
(***************************************************************************)
(* Instances of ToolAdapter: the user interrupts up to three times, once   *)
(* for each of the places that handle an interrupt differently.            *)
(***************************************************************************)
EXTENDS ToolAdapter
==============================================================================
