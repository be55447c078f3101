----------------------------- MODULE SystemReads -----------------------------
(***************************************************************************)
(* list_systems implements OrderedReads: its calls are reads of the Hub's  *)
(* list, in order when caching is on.                                      *)
(***************************************************************************)
EXTENDS SystemList

CallsPending == {c \in Callers : call[c] \in {"queued", "fetching"}}
CallsDone == {c \in Callers : call[c] \in Returned}
CallsAhead ==
  [c \in Callers |-> IF c \in CallsPending THEN before[c] \cap CallsPending ELSE {}]
LeastFloor == [c \in Callers |-> IF c \in CallsPending THEN floor[c] ELSE 0]
NewestList == CHOOSE v \in Versions : IsNewest(v)

Reads == INSTANCE OrderedReads WITH
  Readers <- Callers,
  pending <- CallsPending,
  done    <- CallsDone,
  ahead   <- CallsAhead,
  least   <- LeastFloor,
  newest  <- NewestList,
  world   <- hub,
  inOrder <- caching

(***************************************************************************)
(* Cache, time to live, the second look under the lock and its hand-over   *)
(* amount to reads that return in turn and never go back: with caching on  *)
(* what calls return is one history of the Hub's list, in their order.     *)
(***************************************************************************)
ReadsImplemented == Reads!Spec
=============================================================================
