---------------------------- MODULE AnalysisChain ----------------------------
(***************************************************************************)
(* The AI-analysis branch of the webhook delivery (core/webhook/delivery): *)
(* one asyncio task per accepted alert.  A task resolves the node its      *)
(* alert names, joins that node's chain of analyses (_analysis_tails),     *)
(* collects monitoring data, waits for the analysis before it in the       *)
(* chain, asks the chat model with the node's earlier diagnoses as         *)
(* context, records its own diagnosis and sends it to every target.        *)
(* close() cancels every task that is still running.                       *)
(*                                                                         *)
(* One action is the code a task runs between two suspension points of the *)
(* event loop.  Alerts are numbered in the order deliver() accepted them.  *)
(***************************************************************************)
EXTENDS AnalysisHistory, FiniteSets

CONSTANTS
  N,            \* number of alerts that request an analysis
  Systems,      \* Beszel systems an alert can name
  NoSystem,     \* history_system_id is None
  TargetCount,  \* len(config.target_umos)
  Times         \* readings of datetime.now(UTC), in seconds

ASSUME ChainAssumption ==
  /\ N \in Nat
  /\ NoSystem \notin Systems
  /\ TargetCount \in Nat \ {0}
  /\ Times \subseteq Nat

Alerts == 1 .. N
NoTask == 0     \* no entry in _analysis_tails

Ended == {"done", "failed", "cancelled"}
Phases == {"idle", "resolving", "gathering", "waiting", "asking", "sending"}
            \cup Ended

VARIABLES
  closing,        \* how far close() has got: "open", "draining", "closed"
  pending,        \* the tasks close() found running and waits for
  phase,          \* where each alert's analysis task is suspended
  cancelPending,  \* tasks close() has cancelled and that have not noticed yet
  refTime,        \* acceptance time T of each alert
  node,           \* the system each task has joined the chain of
  previous,       \* previous_task of each task
  hasPrompt,      \* user_prompt is not None
  context,        \* records put into the prompt
  target,         \* index of the target being sent to; 0 before the first
  tails,          \* _analysis_tails
  records,        \* _analysis_records
  earlier         \* history variable: tasks that joined the chain before

vars == <<closing, pending, phase, cancelPending, refTime, node, previous,
          hasPrompt, context, target, tails, records, earlier>>

closeVars == <<closing, pending>>

taskVars == <<refTime, node, previous, hasPrompt, context, target, earlier>>

Records == [alert : Alerts, time : Nat]

Init ==
  /\ closing = "open"
  /\ pending = {}
  /\ phase = [a \in Alerts |-> "idle"]
  /\ cancelPending = {}
  /\ refTime = [a \in Alerts |-> 0]
  /\ node = [a \in Alerts |-> NoSystem]
  /\ previous = [a \in Alerts |-> NoTask]
  /\ hasPrompt = [a \in Alerts |-> FALSE]
  /\ context = [a \in Alerts |-> {}]
  /\ target = [a \in Alerts |-> 0]
  /\ tails = [s \in Systems |-> NoTask]
  /\ records = [s \in Systems |-> << >>]
  /\ earlier = [a \in Alerts |-> {}]

Closed == closing # "open"
Alive(a) == phase[a] \notin Ended \cup {"idle"}

(* Faulty variant: deliver() without its test of _closed. *)
AcceptUnchecked(a, t) ==
  /\ phase[a] = "idle"
  /\ \A b \in 1 .. a - 1 : phase[b] # "idle"
  /\ phase' = [phase EXCEPT ![a] = "resolving"]
  /\ refTime' = [refTime EXCEPT ![a] = t]
  /\ UNCHANGED <<closeVars, cancelPending, node, previous, hasPrompt, context,
                 target, tails, records, earlier>>

(***************************************************************************)
(* deliver() spawns the task and captures T from the wall clock, which may *)
(* have been set back.  A closed delivery accepts nothing.                 *)
(***************************************************************************)
Accept(a, t) ==
  /\ ~Closed
  /\ phase[a] = "idle"
  /\ \A b \in 1 .. a - 1 : phase[b] # "idle"
  /\ phase' = [phase EXCEPT ![a] = "resolving"]
  /\ refTime' = [refTime EXCEPT ![a] = t]
  /\ UNCHANGED <<closeVars, cancelPending, node, previous, hasPrompt, context,
                 target, tails, records, earlier>>

(***************************************************************************)
(* The alert names no known system, or the system list is unavailable.     *)
(***************************************************************************)
ResolveNothing(a) ==
  /\ phase[a] = "resolving"
  /\ a \notin cancelPending
  /\ phase' = [phase EXCEPT ![a] = "done"]
  /\ UNCHANGED <<closeVars, cancelPending, taskVars, tails, records>>

(* Faulty variant: the tail is replaced before the old one is read. *)
JoinOwnChain(a, s) ==
  /\ phase[a] = "resolving"
  /\ a \notin cancelPending
  /\ phase' = [phase EXCEPT ![a] = "gathering"]
  /\ node' = [node EXCEPT ![a] = s]
  /\ tails' = [tails EXCEPT ![s] = a]
  /\ previous' = [previous EXCEPT ![a] = tails'[s]]
  /\ earlier' = [earlier EXCEPT ![a] = {b \in Alerts : node[b] = s}]
  /\ UNCHANGED <<closeVars, cancelPending, refTime, hasPrompt, context, target,
                 records>>

(***************************************************************************)
(* The alert names system s: the task becomes the tail of s's chain.       *)
(***************************************************************************)
JoinChain(a, s) ==
  /\ phase[a] = "resolving"
  /\ a \notin cancelPending
  /\ phase' = [phase EXCEPT ![a] = "gathering"]
  /\ node' = [node EXCEPT ![a] = s]
  /\ previous' = [previous EXCEPT ![a] = tails[s]]
  /\ tails' = [tails EXCEPT ![s] = a]
  /\ earlier' = [earlier EXCEPT ![a] = {b \in Alerts : node[b] = s}]
  /\ UNCHANGED <<closeVars, cancelPending, refTime, hasPrompt, context, target,
                 records>>

(* Faulty variants: no cleanup, and a cleanup that forgets whose entry it is. *)
StayInChain(a) == UNCHANGED tails

LeaveChainUnchecked(a) == tails' = [tails EXCEPT ![node[a]] = NoTask]

(***************************************************************************)
(* The finally block: a task that is still its chain's tail removes the    *)
(* entry; a task that is not leaves its successor's entry alone.           *)
(***************************************************************************)
LeaveChain(a) ==
  tails' = [tails EXCEPT ![node[a]] = IF @ = a THEN NoTask ELSE @]

Finish(a, how) ==
  /\ phase' = [phase EXCEPT ![a] = how]
  /\ LeaveChain(a)

(***************************************************************************)
(* The turn has come: read the node's earlier diagnoses and call the model.*)
(***************************************************************************)
StartAsking(a) ==
  /\ phase' = [phase EXCEPT ![a] = "asking"]
  /\ context' = [context EXCEPT
                   ![a] = SelectHistory(records[node[a]], refTime[a])]
  /\ tails' = tails

(* Faulty variant: a task without a prompt returns before its turn. *)
GatheredSkipsWait(a, prompt) ==
  /\ phase[a] = "gathering"
  /\ a \notin cancelPending
  /\ hasPrompt' = [hasPrompt EXCEPT ![a] = prompt]
  /\ \/ /\ ~prompt
        /\ Finish(a, "done")
        /\ UNCHANGED context
     \/ /\ prompt
        /\ previous[a] # NoTask
        /\ phase' = [phase EXCEPT ![a] = "waiting"]
        /\ UNCHANGED <<context, tails>>
     \/ /\ prompt
        /\ previous[a] = NoTask
        /\ StartAsking(a)
  /\ UNCHANGED <<closeVars, cancelPending, refTime, node, previous, target,
                 records, earlier>>

(***************************************************************************)
(* Detail, history and health have been read, each perhaps in vain.        *)
(* extract_analysis_context returns a prompt, or None when there is no     *)
(* usable metric, or raises: encoding the prompt fails on an unpaired      *)
(* surrogate in the alert text.                                            *)
(***************************************************************************)
Gathered(a, prompt) ==
  /\ phase[a] = "gathering"
  /\ a \notin cancelPending
  /\ hasPrompt' = [hasPrompt EXCEPT ![a] = prompt]
  /\ \/ /\ previous[a] # NoTask
        /\ phase' = [phase EXCEPT ![a] = "waiting"]
        /\ UNCHANGED <<context, tails>>
     \/ /\ previous[a] = NoTask
        /\ prompt
        /\ StartAsking(a)
     \/ /\ previous[a] = NoTask
        /\ ~prompt
        /\ Finish(a, "done")
        /\ UNCHANGED context
  /\ UNCHANGED <<closeVars, cancelPending, refTime, node, previous, target,
                 records, earlier>>

ExtractRaises(a) ==
  /\ phase[a] = "gathering"
  /\ a \notin cancelPending
  /\ Finish(a, "failed")
  /\ UNCHANGED <<closeVars, cancelPending, taskVars, records>>

(***************************************************************************)
(* asyncio.wait([previous_task]) returns.  A task without a prompt leaves  *)
(* only now, so that its successors wait for its predecessors too.         *)
(***************************************************************************)
PreviousEnded(a) ==
  /\ phase[a] = "waiting"
  /\ a \notin cancelPending
  /\ phase[previous[a]] \in Ended
  /\ \/ /\ hasPrompt[a]
        /\ StartAsking(a)
     \/ /\ ~hasPrompt[a]
        /\ Finish(a, "done")
        /\ UNCHANGED context
  /\ UNCHANGED <<closeVars, cancelPending, refTime, node, previous, hasPrompt,
                 target, records, earlier>>

(***************************************************************************)
(* The model call ends without a usable reply: no provider, a timeout, an  *)
(* error, an empty text.  A persona or provider lookup that raises ends    *)
(* the task too and frees its place in the chain just the same.            *)
(***************************************************************************)
NoReply(a) ==
  /\ phase[a] = "asking"
  /\ Finish(a, "done")
  /\ cancelPending' = cancelPending \ {a}
  /\ UNCHANGED <<closeVars, taskVars, records>>

(***************************************************************************)
(* The model replied.  The provider may have swallowed a cancellation to   *)
(* get here, hence the test of _closed.                                    *)
(***************************************************************************)
Reply(a) ==
  /\ phase[a] = "asking"
  /\ cancelPending' = cancelPending \ {a}
  /\ \/ /\ Closed
        /\ Finish(a, "done")
        /\ UNCHANGED <<records, target>>
     \/ /\ ~Closed
        /\ records' = IF ContextHours = 0 THEN records
                      ELSE [records EXCEPT ![node[a]] = KeepRecord(@,
                              [alert |-> a, time |-> refTime[a]])]
        /\ phase' = [phase EXCEPT ![a] = "sending"]
        /\ target' = [target EXCEPT ![a] = 1]
        /\ UNCHANGED tails
  /\ UNCHANGED <<closeVars, refTime, node, previous, hasPrompt, context,
                 earlier>>

(* Faulty variant: no test of _closed between two targets. *)
SendAfterClose(a) ==
  /\ phase[a] = "sending"
  /\ cancelPending' = cancelPending \ {a}
  /\ \/ /\ target[a] < TargetCount
        /\ target' = [target EXCEPT ![a] = @ + 1]
        /\ UNCHANGED <<phase, tails>>
     \/ /\ target[a] = TargetCount
        /\ Finish(a, "done")
        /\ UNCHANGED target
  /\ UNCHANGED <<closeVars, refTime, node, previous, hasPrompt, context,
                 records, earlier>>

(***************************************************************************)
(* send_message returned or raised (the code treats both alike); the       *)
(* platform adapter may have swallowed a cancellation.                     *)
(***************************************************************************)
SendReturned(a) ==
  /\ phase[a] = "sending"
  /\ cancelPending' = cancelPending \ {a}
  /\ \/ /\ target[a] < TargetCount
        /\ ~Closed
        /\ target' = [target EXCEPT ![a] = @ + 1]
        /\ UNCHANGED <<phase, tails>>
     \/ /\ target[a] = TargetCount \/ Closed
        /\ Finish(a, "done")
        /\ UNCHANGED target
  /\ UNCHANGED <<closeVars, refTime, node, previous, hasPrompt, context,
                 records, earlier>>

(***************************************************************************)
(* CancelledError is raised at the await the task is suspended at.  A task *)
(* that has not joined a chain is outside the try block.                   *)
(***************************************************************************)
Cancelled(a) ==
  /\ a \in cancelPending
  /\ cancelPending' = cancelPending \ {a}
  /\ phase' = [phase EXCEPT ![a] = "cancelled"]
  /\ \/ /\ phase[a] = "resolving"
        /\ UNCHANGED tails
     \/ /\ phase[a] # "resolving"
        /\ LeaveChain(a)
  /\ UNCHANGED <<closeVars, taskVars, records>>

(* Faulty variant: close() waits for its tasks without cancelling them. *)
CloseWithoutCancel ==
  /\ closing = "open"
  /\ closing' = "draining"
  /\ pending' = {a \in Alerts : Alive(a)}
  /\ UNCHANGED <<cancelPending, phase, taskVars, tails, records>>

Close ==
  /\ closing = "open"
  /\ closing' = "draining"
  /\ pending' = {a \in Alerts : Alive(a)}
  /\ cancelPending' = pending'
  /\ UNCHANGED <<phase, taskVars, tails, records>>

CloseReturns ==
  /\ closing = "draining"
  /\ \A a \in pending : phase[a] \in Ended
  /\ closing' = "closed"
  /\ UNCHANGED <<pending, phase, cancelPending, taskVars, tails, records>>

(* The plugin is unloaded; nothing more happens. *)
Unloaded ==
  /\ closing = "closed"
  /\ UNCHANGED vars

Next ==
  \/ \E a \in Alerts :
       \/ \E t \in Times : Accept(a, t)
       \/ ResolveNothing(a)
       \/ \E s \in Systems : JoinChain(a, s)
       \/ \E prompt \in BOOLEAN : Gathered(a, prompt)
       \/ ExtractRaises(a)
       \/ PreviousEnded(a)
       \/ NoReply(a)
       \/ Reply(a)
       \/ SendReturned(a)
       \/ Cancelled(a)
  \/ Close
  \/ CloseReturns
  \/ Unloaded

Spec == Init /\ [][Next]_vars

(***************************************************************************)
(* The event loop runs every task that can run, client and model calls     *)
(* have timeouts, and a cancelled task is resumed.  send_message has no    *)
(* timeout: nothing is assumed of it.                                      *)
(***************************************************************************)
Resume(a) ==
  \/ ResolveNothing(a)
  \/ \E s \in Systems : JoinChain(a, s)
  \/ \E prompt \in BOOLEAN : Gathered(a, prompt)
  \/ PreviousEnded(a)
  \/ NoReply(a)
  \/ Cancelled(a)

Fairness ==
  /\ \A a \in Alerts : WF_vars(Resume(a))
  /\ WF_vars(CloseReturns)

FairSpec == Spec /\ Fairness
-----------------------------------------------------------------------------
(* Every variable has the type its declaration says. *)
TypeOK ==
  /\ closing \in {"open", "draining", "closed"}
  /\ pending \subseteq Alerts
  /\ phase \in [Alerts -> Phases]
  /\ cancelPending \subseteq Alerts
  /\ refTime \in [Alerts -> Nat]
  /\ node \in [Alerts -> Systems \cup {NoSystem}]
  /\ previous \in [Alerts -> Alerts \cup {NoTask}]
  /\ hasPrompt \in [Alerts -> BOOLEAN]
  /\ context \in [Alerts -> SUBSET Records]
  /\ target \in [Alerts -> 0 .. TargetCount]
  /\ tails \in [Systems -> Alerts \cup {NoTask}]
  /\ records \in [Systems -> Seq(Records)]
  /\ earlier \in [Alerts -> SUBSET Alerts]

Joined(a) == node[a] # NoSystem

(***************************************************************************)
(* _analysis_tails names only the newest task of a node, and only while    *)
(* that task runs: every finally block cleans up after its own task.       *)
(***************************************************************************)
TailIsLive ==
  \A s \in Systems :
    tails[s] # NoTask =>
      /\ node[tails[s]] = s
      /\ Alive(tails[s])
      /\ \A a \in Alerts : node[a] = s => a \in earlier[tails[s]] \cup {tails[s]}

(* a has had its turn in the chain of its node. *)
HadTurn(a) == Joined(a) /\ phase[a] \in {"asking", "sending", "done"}

(***************************************************************************)
(* "Analyses of one node finish in acceptance order": whenever a task asks *)
(* the model, sends or is done, every task that joined the node's chain    *)
(* before it has ended.                                                    *)
(***************************************************************************)
AnalysesInOrder ==
  \A a \in Alerts : HadTurn(a) => \A b \in earlier[a] : phase[b] \in Ended

(* No task that joined a's chain before a ended by an exception. *)
Undisturbed(a) == \A b \in earlier[a] : phase[b] # "failed"

(***************************************************************************)
(* What the chain does guarantee: the order holds for a task as long as    *)
(* none of the tasks before it ended by an exception while preparing its   *)
(* prompt.                                                                 *)
(***************************************************************************)
OrderUnlessOneFails ==
  \A a \in Alerts :
    HadTurn(a) /\ Undisturbed(a) => \A b \in earlier[a] : phase[b] \in Ended

(* The earlier tasks of a's chain that produced a diagnosis; the newest    *)
(* MaxRecords of them; those inside a's context window.                    *)
Diagnosed(a) == {b \in earlier[a] : ContextHours > 0 /\ target[b] > 0}

Remembered(a) ==
  {b \in Diagnosed(a) :
     Cardinality({c \in Diagnosed(a) : b \in earlier[c]}) < MaxRecords}

InWindow(a) ==
  {b \in Remembered(a) : refTime[a] - refTime[b] \in 0 .. ContextSeconds}

(***************************************************************************)
(* The prompt of an analysis carries exactly the diagnoses it should:      *)
(* among the newest MaxRecords earlier ones of its node, all those of the  *)
(* recent window, or else the newest one of the context window.  A         *)
(* recovery therefore sees the diagnosis of the alert it ends, even when   *)
(* that was still being written as the recovery arrived.  (While no task   *)
(* of the node has overtaken another, see OrderUnlessOneFails.)            *)
(***************************************************************************)
PromptSeesEarlierDiagnoses ==
  \A a \in Alerts :
    /\ phase[a] \in {"asking", "sending"} \/ target[a] > 0
    /\ \A b \in Alerts : node[b] = node[a] /\ (b = a \/ target[b] > 0)
                          => Undisturbed(b)
    =>
      LET recent == {b \in InWindow(a) : refTime[a] - refTime[b] < RecentSeconds}
          newest == {b \in InWindow(a) : InWindow(a) \subseteq earlier[b] \cup {b}}
      IN  {r.alert : r \in context[a]} = IF recent # {} THEN recent ELSE newest

(* Once close() has begun no task starts another send. *)
NoSendAfterClose ==
  [][Closed => target' = target]_vars

(* When close() has returned no analysis task is left running. *)
NothingRunsAfterClose ==
  closing = "closed" => \A a \in Alerts : ~Alive(a)

(***************************************************************************)
(* close() terminates, however the tasks wait for each other and even if   *)
(* a send never returns of itself.                                         *)
(***************************************************************************)
CloseTerminates == (closing = "draining") ~> (closing = "closed")

(***************************************************************************)
(* Every accepted alert's analysis ends, unless it or an analysis of its   *)
(* node is for ever in a send, which has no timeout: tasks that wait for   *)
(* each other are never stuck for any other reason.                        *)
(***************************************************************************)
StuckInSend(a) ==
  \E b \in Alerts : [](phase[b] = "sending" /\ node[b] = node[a])

EveryAnalysisEnds == \A a \in Alerts : Alive(a) ~> (~Alive(a) \/ StuckInSend(a))
-----------------------------------------------------------------------------
(***************************************************************************)
(* The inductive invariant behind the safety properties.                   *)
(***************************************************************************)

(* close() has cancelled every task that has not yet had its turn. *)
CancelInv ==
  /\ \A a \in cancelPending : Alive(a)
  /\ ~Closed => \A a \in Alerts : phase[a] # "cancelled" /\ a \notin cancelPending
  /\ Closed =>
       \A a \in Alerts :
         phase[a] \in {"resolving", "gathering", "waiting"} => a \in cancelPending

(* Which tasks have joined a chain, and whom they can have met there. *)
NodeInv ==
  \A a \in Alerts :
    /\ phase[a] \in {"idle", "resolving"} => ~Joined(a)
    /\ phase[a] \in {"gathering", "waiting", "asking", "sending", "failed"}
         => Joined(a)
    /\ \A b \in earlier[a] : b # a /\ Joined(a) /\ node[b] = node[a]

(* A chain without an entry has no running task, unless one has failed. *)
FreeChainInv ==
  ~Closed =>
    \A s \in Systems :
      /\ tails[s] = NoTask
      /\ \A a \in Alerts : node[a] = s => phase[a] # "failed"
      => \A a \in Alerts : node[a] = s => phase[a] \in Ended

(* The previous task stands for all the tasks that joined earlier. *)
PreviousInv ==
  \A a \in Alerts :
    Joined(a) =>
      /\ previous[a] = NoTask /\ Undisturbed(a)
           => \A b \in earlier[a] : phase[b] \in Ended
      /\ previous[a] # NoTask
           => /\ previous[a] \in earlier[a]
              /\ earlier[a] = earlier[previous[a]] \cup {previous[a]}

ChainInv ==
  /\ TypeOK
  /\ CancelInv
  /\ NodeInv
  /\ TailIsLive
  /\ FreeChainInv
  /\ PreviousInv
  /\ OrderUnlessOneFails

(* close() waits for every task that still runs. *)
CloseInv ==
  /\ closing = "draining" => \A a \in Alerts : Alive(a) => a \in pending
  /\ NothingRunsAfterClose
=============================================================================
