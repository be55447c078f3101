---------------------------- MODULE OrderedReads ----------------------------
(***************************************************************************)
(* What list_systems promises its callers, without cache, clock, lock or   *)
(* queue: reads of a changing world.  A read returns a state the world has *)
(* been in, no older than what any reader had been told when it called.    *)
(* Where reads are in order, they return in the order of the calls, and    *)
(* what they return never gets older at all.                               *)
(***************************************************************************)
EXTENDS Naturals

CONSTANT Readers

VARIABLES
  pending,  \* readers that have called and not returned
  done,     \* readers that have
  ahead,    \* the pending readers that called before it
  least,    \* the newest state returned when a pending reader called
  newest,   \* the newest state returned
  world,    \* the state of the world, as the number of its changes
  inOrder

readVars == <<pending, done, ahead, least, newest, world, inOrder>>

Init ==
  /\ pending = {}
  /\ done = {}
  /\ ahead = [r \in Readers |-> {}]
  /\ least = [r \in Readers |-> 0]
  /\ newest = 0
  /\ world = 0
  /\ inOrder \in BOOLEAN

Call(r) ==
  /\ r \notin pending \cup done
  /\ pending' = pending \cup {r}
  /\ ahead' = [ahead EXCEPT ![r] = pending]
  /\ least' = [least EXCEPT ![r] = newest]
  /\ UNCHANGED <<done, newest, world, inOrder>>

(* A reader that need not wait calls and returns in one step. *)
AheadOf(r) == IF r \in pending THEN ahead[r] ELSE pending
LeastFor(r) == IF r \in pending THEN least[r] ELSE newest

Leave(r) ==
  /\ pending' = pending \ {r}
  /\ done' = done \cup {r}
  /\ ahead' = [p \in Readers |-> IF p = r THEN {} ELSE ahead[p] \ {r}]
  /\ least' = [least EXCEPT ![r] = 0]
  /\ UNCHANGED <<world, inOrder>>

Return(r, state) ==
  /\ r \notin done
  /\ state \in LeastFor(r) .. world
  /\ inOrder => AheadOf(r) = {} /\ newest <= state
  /\ newest' = IF newest < state THEN state ELSE newest
  /\ Leave(r)

GiveUp(r) ==
  /\ r \in pending
  /\ Leave(r)
  /\ UNCHANGED newest

Change ==
  /\ world' = world + 1
  /\ UNCHANGED <<pending, done, ahead, least, newest, inOrder>>

Next ==
  \/ \E r \in Readers :
       \/ Call(r)
       \/ \E state \in 0 .. world : Return(r, state)
       \/ GiveUp(r)
  \/ Change

Spec == Init /\ [][Next]_readVars
=============================================================================
