------------------------------ MODULE TurnQueue ------------------------------
(***************************************************************************)
(* What the chains of analyses promise, without tasks, tails, prompts or   *)
(* cancellation: clients line up in queues, a client has its turn when     *)
(* nobody is ahead of it, and nobody leaves out of turn while the service  *)
(* is open.  A client that breaks down before its turn excuses those       *)
(* behind it from waiting.                                                 *)
(***************************************************************************)
CONSTANTS Clients, Queues

VARIABLES
  members,   \* the clients in each queue
  ahead,     \* whom a client in a queue still has to wait for
  serving,   \* clients whose turn has come
  gone,      \* clients that were in a queue and have left
  excused,   \* clients in a queue, some predecessor of which broke down
  broken,    \* queues in which a client broke down
  closed

queueVars == <<members, ahead, serving, gone, excused, broken, closed>>

Init ==
  /\ members = [q \in Queues |-> {}]
  /\ ahead = [c \in Clients |-> {}]
  /\ serving = {}
  /\ gone = {}
  /\ excused = {}
  /\ broken = {}
  /\ closed = FALSE

Join(c, q) ==
  /\ \A p \in Queues : c \notin members[p]
  /\ c \notin gone
  /\ members' = [members EXCEPT ![q] = @ \cup {c}]
  /\ ahead' = [ahead EXCEPT ![c] = members[q]]
  /\ excused' = IF q \in broken THEN excused \cup {c} ELSE excused
  /\ UNCHANGED <<serving, gone, broken, closed>>

ItsTurn(c) == ahead[c] = {} \/ c \in excused

Begin(c, q) ==
  /\ ~closed
  /\ c \in members[q] \ serving
  /\ ItsTurn(c)
  /\ serving' = serving \cup {c}
  /\ UNCHANGED <<members, ahead, gone, excused, broken, closed>>

Remove(c, q) ==
  /\ members' = [members EXCEPT ![q] = @ \ {c}]
  /\ ahead' = [d \in Clients |-> IF d = c THEN {} ELSE ahead[d] \ {c}]
  /\ serving' = serving \ {c}
  /\ gone' = gone \cup {c}
  /\ UNCHANGED closed

Leave(c, q) ==
  /\ c \in members[q]
  /\ c \in serving \/ ItsTurn(c) \/ closed
  /\ Remove(c, q)
  /\ excused' = excused \ {c}
  /\ UNCHANGED broken

BreakDown(c, q) ==
  /\ c \in members[q] \ serving
  /\ Remove(c, q)
  /\ excused' = (excused \ {c}) \cup {d \in Clients : c \in ahead[d]}
  /\ broken' = broken \cup {q}

Close ==
  /\ ~closed
  /\ closed' = TRUE
  /\ UNCHANGED <<members, ahead, serving, gone, excused, broken>>

Next ==
  \/ \E c \in Clients, q \in Queues :
       Join(c, q) \/ Begin(c, q) \/ Leave(c, q) \/ BreakDown(c, q)
  \/ Close

Spec == Init /\ [][Next]_queueVars
==============================================================================
