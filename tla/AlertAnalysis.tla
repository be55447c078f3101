---------------------------- MODULE AlertAnalysis ----------------------------
(***************************************************************************)
(* The analysis tasks of the webhook delivery and the list of systems they *)
(* all ask for first: _resolve_system awaits QueryService.list_systems and *)
(* goes on, without another suspension, to join the chain of its node.     *)
(* Queries of chat users contend for the same list.  Accepted alerts reach *)
(* a chain in the order their calls of list_systems return.                *)
(***************************************************************************)
EXTENDS AnalysisChain, SystemList

(* An alert's task makes the call of its own number; users make the others. *)
ASSUME CallersAssumption == Alerts \subseteq Callers

alertVars == <<vars, listVars>>

AlertInit == Init /\ ListInit

(* The task has been created and has not run yet. *)
NotStarted(a) == phase[a] = "resolving" /\ call[a] = "idle"

(* The event loop starts tasks in the order they were created. *)
IsNextToStart(a) ==
  /\ NotStarted(a)
  /\ a \notin cancelPending
  /\ \A b \in Alerts : NotStarted(b) => a <= b

(* attach_history finds the alert's node among the systems, or does not. *)
Attach(a) == ResolveNothing(a) \/ \E s \in Systems : JoinChain(a, s)

(***************************************************************************)
(* The first step of a task: the list comes from the cache and the task    *)
(* goes straight on, or it waits for the list.                             *)
(***************************************************************************)
TaskStarts(a) ==
  /\ IsNextToStart(a)
  /\ \/ CallHits(a) /\ Attach(a)
     \/ (CallFetches(a) \/ CallQueues(a)) /\ UNCHANGED vars

(* A task that queued for the cache gets the lock. *)
TaskGetsLock(a) ==
  /\ a \notin cancelPending
  /\ \/ ResumeHits(a) /\ Attach(a)
     \/ ResumeFetches(a) /\ UNCHANGED vars

(* A task's own fetch ends; an error is logged and the alert has no node. *)
TaskFetched(a) ==
  \/ \E list \in Versions : FetchReturns(a, list) /\ Attach(a)
  \/ FetchRaises(a) /\ ResolveNothing(a)

(* A cancelled task gives up its call of list_systems first. *)
TaskCancelled(a) ==
  /\ Cancelled(a)
  /\ IF call[a] \in {"queued", "fetching"}
       THEN CallCancelled(a)
       ELSE UNCHANGED listVars

(* The rest of a task, see AnalysisChain. *)
TaskGoesOn(a) ==
  /\ \/ \E t \in Times : Accept(a, t)
     \/ \E prompt \in BOOLEAN : Gathered(a, prompt)
     \/ ExtractRaises(a)
     \/ PreviousEnded(a)
     \/ NoReply(a)
     \/ Reply(a)
     \/ SendReturned(a)
  /\ UNCHANGED listVars

(* A chat user's query asks for the list. *)
UserQuery(c) ==
  /\ \/ CallHits(c)
     \/ CallFetches(c)
     \/ CallQueues(c)
     \/ ResumeHits(c)
     \/ ResumeFetches(c)
     \/ \E list \in Versions : FetchReturns(c, list)
     \/ FetchRaises(c)
     \/ CallCancelled(c)
  /\ UNCHANGED vars

AlertNext ==
  \/ \E a \in Alerts :
       \/ TaskStarts(a)
       \/ TaskGetsLock(a)
       \/ TaskFetched(a)
       \/ TaskCancelled(a)
       \/ TaskGoesOn(a)
  \/ \E c \in Callers \ Alerts : UserQuery(c)
  \/ (Close \/ CloseReturns \/ Unloaded) /\ UNCHANGED listVars
  \/ (Tick \/ HubChanges) /\ UNCHANGED vars

AlertSpec == AlertInit /\ [][AlertNext]_alertVars
-----------------------------------------------------------------------------
(***************************************************************************)
(* "Analyses of one node finish in acceptance order, so a later alert such *)
(* as a recovery can include the diagnosis of an earlier one": when a task *)
(* has had its turn, every alert of its node that was accepted before it   *)
(* has been dealt with (unless a task of that chain failed on its prompt). *)
(***************************************************************************)
FinishInAcceptanceOrder ==
  \A a, b \in Alerts :
    a < b /\ node[a] = node[b] /\ HadTurn(b) /\ Undisturbed(b)
      => phase[a] \in Ended
==============================================================================
