--------------------------- MODULE MCAnalysisChain ---------------------------
(***************************************************************************)
(* Values for checking AnalysisChain with a context window of two hours.   *)
(* The differences between two acceptance times are negative (the clock    *)
(* was set back), zero, at the end of a recent window of one hour and just *)
(* behind it, and just behind the context window; with the end times they  *)
(* are at the very end of the context window.                              *)
(***************************************************************************)
EXTENDS AnalysisTurns, TLC

MCTimes == {0, 3600, 7201}
MCEndTimes == {0, 7200}

MCSymmetry == Permutations(Systems)
==============================================================================
