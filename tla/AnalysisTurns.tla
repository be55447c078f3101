---------------------------- MODULE AnalysisTurns ----------------------------
(***************************************************************************)
(* The chains of analyses implement TurnQueue: the queue of a node holds   *)
(* the running tasks that have joined the node's chain, and a client's     *)
(* turn is its model call and its sends.                                   *)
(***************************************************************************)
EXTENDS AnalysisChain

FailedBefore(a) == {b \in earlier[a] : phase[b] = "failed"}

Members == [s \in Systems |-> {a \in Alerts : node[a] = s /\ Alive(a)}]
Ahead ==
  [a \in Alerts |-> IF Alive(a) THEN {b \in earlier[a] : Alive(b)} ELSE {}]
Serving == {a \in Alerts : phase[a] \in {"asking", "sending"}}
Gone == {a \in Alerts : Joined(a) /\ ~Alive(a)}
Excused == {a \in Alerts : Alive(a) /\ FailedBefore(a) # {}}
Broken == {s \in Systems : \E a \in Alerts : node[a] = s /\ phase[a] = "failed"}

Turns == INSTANCE TurnQueue WITH
  Clients <- Alerts,
  Queues  <- Systems,
  members <- Members,
  ahead   <- Ahead,
  serving <- Serving,
  gone    <- Gone,
  excused <- Excused,
  broken  <- Broken,
  closed  <- Closed

(***************************************************************************)
(* Joining the chain through one tail per node, waiting for the previous   *)
(* task alone and cleaning up one's own entry alone amount to a queue per  *)
(* node in which nobody overtakes.                                         *)
(***************************************************************************)
TurnsImplemented == Turns!Spec
==============================================================================
