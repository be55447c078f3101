--------------------------- MODULE MCAlertAnalysis ---------------------------
(* Three alerts of one node, and one query of a chat user. *)
EXTENDS AlertAnalysis

MCTimes == {0}
MCCallers == 1 .. 4
==============================================================================
