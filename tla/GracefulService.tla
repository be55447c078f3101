--------------------------- MODULE GracefulService ---------------------------
(***************************************************************************)
(* What the plugin promises about being stopped, without HTTP, settings,   *)
(* tasks or cancellation: a service that can be taken down at any moment.  *)
(* While it is open clients arrive, and each may leave jobs behind, which  *)
(* borrow a resource.  It first stops admitting clients; it closes when    *)
(* nobody is served any more, giving up on those it has waited for long    *)
(* enough; while it closes nothing begins, and it is down when nothing     *)
(* runs.  Only then the resource is taken away.                            *)
(***************************************************************************)
CONSTANTS Clients, Kinds

VARIABLES
  stage,     \* "down", "open", "draining" or "closing"
  ready,     \* the resource is there
  seen,      \* clients that have arrived, in this life or an earlier one
  served,    \* clients that are being served
  lost,      \* clients that were given up on and are not aware of it
  jobs,      \* what is running, of which client
  borrowed   \* the clients whose jobs have borrowed the resource

serviceVars == <<stage, ready, seen, served, lost, jobs, borrowed>>

Init ==
  /\ stage = "down"
  /\ ready = FALSE
  /\ seen = {}
  /\ served = {}
  /\ lost = {}
  /\ jobs = {}
  /\ borrowed = {}

GetReady ==
  /\ ~ready
  /\ ready' = TRUE
  /\ UNCHANGED <<stage, seen, served, lost, jobs, borrowed>>

Open ==
  /\ stage = "down" /\ ready
  /\ stage' = "open"
  /\ UNCHANGED <<ready, seen, served, lost, jobs, borrowed>>

(* A client is admitted, or turned away at the door. *)
Arrive(c) ==
  /\ stage = "open"
  /\ c \notin seen
  /\ seen' = seen \cup {c}
  /\ served' \in {served, served \cup {c}}
  /\ UNCHANGED <<stage, ready, lost, jobs, borrowed>>

Work(c, new) ==
  /\ c \in served
  /\ stage \in {"open", "draining"}
  /\ new \subseteq {c} \X Kinds
  /\ jobs' = jobs \cup new
  /\ UNCHANGED <<stage, ready, seen, served, lost, borrowed>>

Finish(c) ==
  /\ c \in served \cup lost
  /\ served' = served \ {c}
  /\ lost' = lost \ {c}
  /\ UNCHANGED <<stage, ready, seen, jobs, borrowed>>

Borrow(c) ==
  /\ stage # "closing"
  /\ \E k \in Kinds : <<c, k>> \in jobs
  /\ borrowed' = borrowed \cup {c}
  /\ UNCHANGED <<stage, ready, seen, served, lost, jobs>>

GiveBack(c) ==
  /\ c \in borrowed
  /\ borrowed' = borrowed \ {c}
  /\ UNCHANGED <<stage, ready, seen, served, lost, jobs>>

EndJob(j) ==
  /\ j \in jobs
  /\ jobs' = jobs \ {j}
  /\ UNCHANGED <<stage, ready, seen, served, lost, borrowed>>

StopAdmitting ==
  /\ stage = "open"
  /\ stage' = "draining"
  /\ UNCHANGED <<ready, seen, served, lost, jobs, borrowed>>

(* One that could not be opened is closed too. *)
Close ==
  /\ stage \in {"down", "draining"} /\ ready
  /\ stage' = "closing"
  /\ served' = {}
  /\ lost' = lost \cup served
  /\ UNCHANGED <<ready, seen, jobs, borrowed>>

GoDown ==
  /\ stage = "closing"
  /\ jobs = {} /\ borrowed = {}
  /\ stage' = "down"
  /\ UNCHANGED <<ready, seen, served, lost, jobs, borrowed>>

TakeAway ==
  /\ stage = "down" /\ ready
  /\ served = {} /\ jobs = {} /\ borrowed = {}
  /\ ready' = FALSE
  /\ UNCHANGED <<stage, seen, served, lost, jobs, borrowed>>

Crash ==
  /\ stage' = "down"
  /\ ready' = FALSE
  /\ served' = {} /\ lost' = {} /\ jobs' = {} /\ borrowed' = {}
  /\ UNCHANGED seen

Next ==
  \/ GetReady \/ Open \/ StopAdmitting \/ Close \/ GoDown \/ TakeAway \/ Crash
  \/ \E c \in Clients :
       \/ Arrive(c)
       \/ \E new \in SUBSET ({c} \X Kinds) : Work(c, new)
       \/ Finish(c)
       \/ Borrow(c)
       \/ GiveBack(c)
       \/ \E k \in Kinds : EndJob(<<c, k>>)

Spec == Init /\ [][Next]_serviceVars
=============================================================================
