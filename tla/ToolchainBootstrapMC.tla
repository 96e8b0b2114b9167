------------------------ MODULE ToolchainBootstrapMC -------------------------
(***************************************************************************)
(* ToolchainBootstrap for TLC: launchers and files are interchangeable.    *)
(***************************************************************************)
EXTENDS ToolchainBootstrap, TLC

Symmetry == Permutations(Launchers) \cup Permutations(Files)
==============================================================================
