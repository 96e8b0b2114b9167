---------------------------- MODULE QualityRunMC ----------------------------
(***************************************************************************)
(* QualityRun for TLC. The limits are met exactly by some runs: a callable *)
(* without any decision scores 1 if covered and 2 if not, one mutant of    *)
(* two is half of them.                                                    *)
(***************************************************************************)
EXTENDS QualityRun

Text(whole, decimals) == [whole |-> whole, decimals |-> decimals]

MCCrapMaxTexts == {Text(1, <<2, 5>>), Text(2, <<5, 0>>)}

MCMutationMinTexts == {Text(50, << >>), Text(99, <<9, 5>>)}
==============================================================================
