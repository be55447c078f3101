------------------------ MODULE AlertAnalysis_proofs ------------------------
(***************************************************************************)
(* The composition does what its two parts promise: every behaviour of     *)
(* AlertAnalysis is one of AnalysisChain and one of SystemList.  What is   *)
(* proved of a part holds in the composition.  What neither part can say,  *)
(* that analyses finish in acceptance order, needs an invariant of its own *)
(* (AlertInv), which ties a task to its call of list_systems.              *)
(***************************************************************************)
EXTENDS AlertAnalysis, AnalysisChain_proofs, SystemList_proofs

(* Each step of the composition is a step of the chain, or leaves it alone. *)
THEOREM AnalysisRefined == AlertSpec => Spec
<1>1. AlertInit => Init
  BY DEF AlertInit
<1>2. [AlertNext]_alertVars => [Next]_vars
  <2> SUFFICES ASSUME [AlertNext]_alertVars
               PROVE  [Next]_vars
    OBVIOUS
  <2>1. ASSUME NEW a \in Alerts,
               TaskStarts(a) \/ TaskGetsLock(a) \/ TaskFetched(a)
        PROVE  [Next]_vars
    BY <2>1 DEF TaskStarts, TaskGetsLock, TaskFetched, Attach, Next
  <2>2. ASSUME NEW a \in Alerts, TaskCancelled(a) \/ TaskGoesOn(a)
        PROVE  [Next]_vars
    BY <2>2 DEF TaskCancelled, TaskGoesOn, Next
  <2>3. ASSUME NEW c \in Callers \ Alerts, UserQuery(c)
        PROVE  [Next]_vars
    BY <2>3 DEF UserQuery
  <2>4. CASE (Close \/ CloseReturns \/ Unloaded) /\ UNCHANGED listVars
    BY <2>4 DEF Next
  <2>5. CASE (Tick \/ HubChanges) /\ UNCHANGED vars
    BY <2>5
  <2>6. CASE UNCHANGED alertVars
    BY <2>6 DEF alertVars
  <2> QED
    BY <2>1, <2>2, <2>3, <2>4, <2>5, <2>6 DEF AlertNext
<1> QED
  BY <1>1, <1>2, PTL DEF AlertSpec, Spec

(* Each step of the composition is a step of the list, or leaves it alone. *)
THEOREM ListRefined == AlertSpec => ListSpec
<1>1. AlertInit => ListInit
  BY DEF AlertInit
<1>2. [AlertNext]_alertVars => [ListNext]_listVars
  <2> SUFFICES ASSUME [AlertNext]_alertVars
               PROVE  [ListNext]_listVars
    OBVIOUS
  <2> USE CallersAssumption
  <2>1. ASSUME NEW a \in Alerts,
               TaskStarts(a) \/ TaskGetsLock(a) \/ TaskFetched(a) \/ TaskCancelled(a)
        PROVE  [ListNext]_listVars
    BY <2>1 DEF TaskStarts, TaskGetsLock, TaskFetched, TaskCancelled, ListNext
  <2>2. ASSUME NEW a \in Alerts, TaskGoesOn(a)
        PROVE  [ListNext]_listVars
    BY <2>2 DEF TaskGoesOn
  <2>3. ASSUME NEW c \in Callers \ Alerts, UserQuery(c)
        PROVE  [ListNext]_listVars
    BY <2>3 DEF UserQuery, ListNext
  <2>4. CASE (Close \/ CloseReturns \/ Unloaded) /\ UNCHANGED listVars
    BY <2>4
  <2>5. CASE (Tick \/ HubChanges) /\ UNCHANGED vars
    BY <2>5 DEF ListNext
  <2>6. CASE UNCHANGED alertVars
    BY <2>6 DEF alertVars
  <2> QED
    BY <2>1, <2>2, <2>3, <2>4, <2>5, <2>6 DEF AlertNext
<1> QED
  BY <1>1, <1>2, PTL DEF AlertSpec, ListSpec

(***************************************************************************)
(* In the composition too, analyses of one node take their turns in the    *)
(* order they joined its chain unless one before them failed.              *)
(***************************************************************************)
THEOREM AlertsTakeTurns == AlertSpec => []OrderUnlessOneFails
BY AnalysisRefined, AnalysesTakeTurns, PTL
-----------------------------------------------------------------------------
(* Where a task is, and where its call of list_systems is. *)
CallInv ==
  \A a \in Alerts :
    /\ phase[a] = "idle" => call[a] = "idle"
    /\ phase[a] = "resolving" => call[a] \notin Returned
    /\ call[a] \in {"queued", "fetching"} => phase[a] = "resolving"
    /\ Joined(a) => call[a] = "answered"

(***************************************************************************)
(* Tasks are created and call list_systems in acceptance order; a task     *)
(* that was overtaken there has been cancelled before it ran.              *)
(***************************************************************************)
StartInv ==
  \A a, b \in Alerts :
    a < b =>
      /\ phase[b] # "idle" => phase[a] # "idle"
      /\ call[b] # "idle" =>
           a \in before[b] \/ (call[a] = "idle" /\ phase[a] # "resolving")

(* With caching on the chain of a node is joined in acceptance order.       *)
JoinInv ==
  caching =>
    \A a, b \in Alerts :
      a < b /\ node[a] = node[b] /\ Joined(b) => a \in earlier[b]

AlertInv == CallInv /\ StartInv /\ JoinInv

(* The steps of one call of list_systems. *)
CallSteps(c) ==
  \/ CallHits(c)
  \/ CallFetches(c)
  \/ CallQueues(c)
  \/ ResumeHits(c)
  \/ ResumeFetches(c)
  \/ \E list \in Versions : FetchReturns(c, list)
  \/ FetchRaises(c)
  \/ CallCancelled(c)

(***************************************************************************)
(* A step of one call leaves the other calls alone, and a call knows the   *)
(* calls made before it from its first step on (list_systems).             *)
(***************************************************************************)
LEMMA CallsAreApart ==
  ASSUME ListTypeOK, QueueInv, NEW c \in Callers, CallSteps(c)
  PROVE  /\ ttl' = ttl
         /\ \A d \in Callers \ {c} : call'[d] = call[d] /\ before'[d] = before[d]
         /\ call'[c] \in CallStates \ {"idle"}
         /\ call[c] = "idle" => before'[c] = {b \in Callers : call[b] # "idle"}
         /\ call[c] # "idle" => before'[c] = before[c]
<1>1. CASE CallHits(c) \/ CallFetches(c) \/ CallQueues(c)
  <2>1. /\ call[c] = "idle" /\ ttl' = ttl
        /\ before' = [before EXCEPT ![c] = {b \in Callers : call[b] # "idle"}]
    BY <1>1 DEF CallHits, CallFetches, CallQueues, Begin, worldVars
  <2>2. \E s \in {"answered", "fetching", "queued"} : call' = [call EXCEPT ![c] = s]
    BY <1>1 DEF CallHits, CallFetches, CallQueues, Answer, StartFetch
  <2> QED
    BY <2>1, <2>2 DEF ListTypeOK, CallStates, Returned
<1>2. CASE ~(CallHits(c) \/ CallFetches(c) \/ CallQueues(c))
  <2>1. call[c] # "idle"
    BY <1>2, WokenIsQueued
       DEF CallSteps, ResumeHits, ResumeFetches, FetchReturns, FetchRaises, CallCancelled
  <2>2. ttl' = ttl /\ before' = before
    BY <1>2 DEF CallSteps, ResumeHits, ResumeFetches, FetchReturns, FetchRaises,
                CallCancelled, worldVars, historyVars
  <2>3. \E s \in {"answered", "fetching", "raised", "cancelled"} :
          call' = [call EXCEPT ![c] = s]
    BY <1>2 DEF CallSteps, ResumeHits, ResumeFetches, FetchReturns, FetchRaises,
                CallCancelled, Answer, StartFetch
  <2> QED
    BY <2>1, <2>2, <2>3 DEF ListTypeOK, CallStates, Returned
<1> QED
  BY <1>1, <1>2

(***************************************************************************)
(* A step that touches neither the list nor which tasks are idle, resolve  *)
(* or have joined, changes nothing between the parts.                      *)
(***************************************************************************)
LEMMA Apart ==
  ASSUME AlertInv, UNCHANGED <<ttl, node, earlier>>,
         \A a \in Alerts :
           /\ call'[a] = call[a] /\ before'[a] = before[a]
           /\ phase'[a] = "idle" <=> phase[a] = "idle"
           /\ phase'[a] = "resolving" <=> phase[a] = "resolving"
  PROVE  AlertInv'
BY DEF AlertInv, CallInv, StartInv, JoinInv, Joined, caching

(***************************************************************************)
(* A task's step in which list_systems is called, or the lock is taken:    *)
(* only the first is news, and tasks start in creation order.              *)
(***************************************************************************)
LEMMA WaitingStep ==
  ASSUME AlertInv, ListTypeOK, QueueInv, TypeOK, NEW a \in Alerts,
         CallSteps(a), call'[a] \in {"queued", "fetching"}, UNCHANGED vars,
         phase[a] = "resolving",
         call[a] = "idle" => IsNextToStart(a)
  PROVE  AlertInv'
<1> USE CallersAssumption DEF AlertInv
<1>1. /\ ttl' = ttl
      /\ \A d \in Alerts \ {a} : call'[d] = call[d] /\ before'[d] = before[d]
      /\ call[a] = "idle" => before'[a] = {b \in Callers : call[b] # "idle"}
      /\ call[a] # "idle" => before'[a] = before[a]
  BY CallsAreApart
<1>2. phase' = phase /\ node' = node /\ earlier' = earlier
  BY DEF vars, taskVars
<1>3. CallInv'
  BY <1>1, <1>2 DEF CallInv, Joined, Returned
<1>4. StartInv'
  <2> SUFFICES ASSUME NEW b \in Alerts, NEW d \in Alerts, b < d, call'[d] # "idle"
               PROVE  b \in before'[d] \/ (call'[b] = "idle" /\ phase[b] # "resolving")
    BY <1>2 DEF StartInv
  <2>1. CASE d = a /\ call[a] = "idle"
    <3>1. phase[b] # "idle" /\ ~NotStarted(b)
      BY <2>1 DEF IsNextToStart, StartInv, Alerts
    <3> QED
      BY <1>1, <2>1, <3>1 DEF NotStarted, Alerts
  <2>2. CASE d # a \/ call[a] # "idle"
    <3>1. call[d] # "idle" /\ before'[d] = before[d]
      BY <1>1, <2>2
    <3>2. b = a => call[a] = "idle" \/ b \in before[d]
      BY <3>1 DEF StartInv
    <3> QED
      BY <1>1, <3>1, <3>2 DEF StartInv
  <2> QED
    BY <2>1, <2>2
<1>5. JoinInv'
  BY <1>1, <1>2 DEF JoinInv, Joined, caching
<1> QED
  BY <1>3, <1>4, <1>5

(***************************************************************************)
(* A task's step in which list_systems returns to it: no task after it has *)
(* joined a chain already, since with caching on its call would have had   *)
(* to return first.                                                        *)
(***************************************************************************)
LEMMA AttachStep ==
  ASSUME AlertInv, ChainInv, ListInv, NEW a \in Alerts,
         CallSteps(a), call'[a] \in {"answered", "raised"}, phase[a] = "resolving",
         call[a] = "idle" => IsNextToStart(a),
         ResolveNothing(a) \/ (call'[a] = "answered" /\ \E s \in Systems : JoinChain(a, s))
  PROVE  AlertInv'
<1> USE CallersAssumption DEF AlertInv
<1>1. /\ ttl' = ttl
      /\ \A d \in Alerts \ {a} : call'[d] = call[d] /\ before'[d] = before[d]
      /\ call[a] = "idle" => before'[a] = {b \in Callers : call[b] # "idle"}
      /\ call[a] # "idle" => before'[a] = before[a]
  BY CallsAreApart DEF ListInv
<1>2. /\ phase'[a] \in {"done", "gathering"}
      /\ \A b \in Alerts \ {a} : phase'[b] = phase[b]
      /\ \A b \in Alerts \ {a} : node'[b] = node[b] /\ earlier'[b] = earlier[b]
      /\ node'[a] \in Systems => call'[a] = "answered" /\ earlier'[a] = {b \in Alerts : node[b] = node'[a]}
  <2>1. CASE ResolveNothing(a)
    <3>1. ~Joined(a)
      BY DEF ChainInv, NodeInv
    <3> QED
      BY <2>1, <3>1, ChainAssumption DEF ResolveNothing, taskVars, ChainInv, TypeOK, Joined
  <2>2. ASSUME NEW s \in Systems, call'[a] = "answered", JoinChain(a, s)
        PROVE  /\ phase'[a] \in {"done", "gathering"}
               /\ \A b \in Alerts \ {a} : phase'[b] = phase[b]
               /\ \A b \in Alerts \ {a} : node'[b] = node[b] /\ earlier'[b] = earlier[b]
               /\ node'[a] \in Systems => call'[a] = "answered" /\ earlier'[a] = {b \in Alerts : node[b] = node'[a]}
    BY <2>2 DEF JoinChain, ChainInv, TypeOK
  <2> QED
    BY <2>1, <2>2
<1>3. node'[a] \in Systems \cup {NoSystem}
  BY DEF ChainInv, TypeOK, NodeInv, Joined, ResolveNothing, taskVars, JoinChain
<1>4. CallInv'
  BY <1>1, <1>2, <1>3 DEF CallInv, Joined
<1>5. StartInv'
  <2> SUFFICES ASSUME NEW b \in Alerts, NEW d \in Alerts, b < d
               PROVE  /\ phase'[d] # "idle" => phase'[b] # "idle"
                      /\ call'[d] # "idle" =>
                           b \in before'[d] \/ (call'[b] = "idle" /\ phase'[b] # "resolving")
    BY DEF StartInv
  <2>1. CASE d = a
    <3>1. phase[b] # "idle" /\ b # a
      BY <2>1 DEF StartInv, Alerts
    <3>2. CASE call[a] = "idle"
      <4>1. ~NotStarted(b)
        BY <2>1, <3>2 DEF IsNextToStart, Alerts
      <4> QED
        BY <1>1, <1>2, <2>1, <3>1, <3>2, <4>1 DEF NotStarted, Alerts
    <3>3. CASE call[a] # "idle"
      BY <1>1, <1>2, <2>1, <3>1, <3>3 DEF StartInv
    <3> QED
      BY <3>2, <3>3
  <2>2. CASE d # a
    <3>1. b = a => (call[d] # "idle" => b \in before[d])
      BY DEF StartInv
    <3> QED
      BY <1>1, <1>2, <2>2, <3>1 DEF StartInv
  <2> QED
    BY <2>1, <2>2
<1>6. JoinInv'
  <2> SUFFICES ASSUME caching, NEW b \in Alerts, NEW d \in Alerts, b < d,
                      node'[b] = node'[d], Joined(d)'
               PROVE  b \in earlier'[d]
    BY <1>1 DEF JoinInv, caching
  <2>1. call'[d] = "answered"
    BY <1>4 DEF CallInv
  <2>3. CASE d = a
    <3>1. b # a /\ phase[b] = phase'[b] /\ node[b] = node'[b] /\ node'[a] \in Systems
      BY <1>2, <1>3, <2>3 DEF Alerts, Joined
    <3> QED
      BY <1>2, <2>3, <3>1
  <2>4. CASE b = a
    <3>1. d # a /\ call[d] = "answered" /\ before'[d] = before[d]
      BY <1>1, <2>1, <2>4 DEF Alerts
    <3>2. a \in before[d]
      BY <2>4, <3>1 DEF StartInv
    <3>3. call[a] \in Returned
      BY <3>1, <3>2 DEF ListInv, OrderInv
    <3> QED
      BY <3>3 DEF CallInv
  <2>5. CASE b # a /\ d # a
    BY <1>2, <2>5 DEF JoinInv, Joined
  <2> QED
    BY <2>3, <2>4, <2>5
<1> QED
  BY <1>4, <1>5, <1>6

(* The rest of a task, in which list_systems has long returned. *)
LEMMA GoesOnStep ==
  ASSUME AlertInv, ChainInv, NEW a \in Alerts, TaskGoesOn(a)
  PROVE  AlertInv'
<1> USE DEF ChainInv
<1>1. ttl' = ttl /\ call' = call /\ before' = before
  BY DEF TaskGoesOn, listVars
<1>2. ASSUME NEW t \in Times, Accept(a, t)
      PROVE  AlertInv'
  <2>1. /\ phase'[a] = "resolving" /\ \A b \in Alerts \ {a} : phase'[b] = phase[b]
        /\ phase[a] = "idle" /\ \A b \in 1 .. a - 1 : phase[b] # "idle"
        /\ node' = node /\ earlier' = earlier
    BY <1>2 DEF Accept, TypeOK
  <2>2. CallInv'
    BY <1>1, <2>1 DEF AlertInv, CallInv, Joined, Returned
  <2>3. StartInv'
    <3> SUFFICES ASSUME NEW b \in Alerts, NEW d \in Alerts, b < d
                 PROVE  /\ phase'[d] # "idle" => phase'[b] # "idle"
                        /\ call[d] # "idle" =>
                             b \in before[d] \/ (call[b] = "idle" /\ phase'[b] # "resolving")
      BY <1>1 DEF StartInv
    <3>1. phase'[d] # "idle" => phase'[b] # "idle"
      BY <2>1 DEF AlertInv, StartInv, Alerts
    <3>2. b = a => call[d] = "idle"
      BY <2>1 DEF AlertInv, StartInv, CallInv
    <3> QED
      BY <2>1, <3>1, <3>2 DEF AlertInv, StartInv
  <2>4. JoinInv'
    BY <1>1, <2>1 DEF AlertInv, JoinInv, Joined, caching
  <2> QED
    BY <2>2, <2>3, <2>4 DEF AlertInv
<1>3. ASSUME \/ \E prompt \in BOOLEAN : Gathered(a, prompt)
             \/ ExtractRaises(a)
             \/ PreviousEnded(a)
             \/ NoReply(a)
             \/ Reply(a)
             \/ SendReturned(a)
      PROVE  AlertInv'
  <2>1. PICK how \in {"waiting", "asking", "sending", "done", "failed"} :
          /\ Moves(a, how)
          /\ phase[a] \in {"gathering", "waiting", "asking", "sending"}
    BY <1>3, TaskSteps
  <2>2. /\ phase'[a] = how /\ \A b \in Alerts \ {a} : phase'[b] = phase[b]
        /\ node' = node /\ earlier' = earlier
    BY <2>1 DEF Moves, TypeOK
  <2> QED
    BY <1>1, <2>1, <2>2, Apart
<1> QED
  BY <1>2, <1>3 DEF TaskGoesOn

(***************************************************************************)
(* A cancelled task: if its call of list_systems is under way it ends too; *)
(* a task that never ran will not call.                                    *)
(***************************************************************************)
LEMMA CancelledStep ==
  ASSUME AlertInv, ChainInv, ListInv, NEW a \in Alerts, TaskCancelled(a)
  PROVE  AlertInv'
<1> USE CallersAssumption DEF ChainInv
<1>1. /\ phase'[a] = "cancelled" /\ \A b \in Alerts \ {a} : phase'[b] = phase[b]
      /\ node' = node /\ earlier' = earlier /\ phase[a] # "idle"
  BY DEF TaskCancelled, Cancelled, taskVars, TypeOK, CancelInv, Alive
<1>2. CASE call[a] \in {"queued", "fetching"}
  <2>1. CallSteps(a) /\ call'[a] = "cancelled"
    BY <1>2 DEF TaskCancelled, CallSteps, CallCancelled, ListInv, ListTypeOK
  <2>2. /\ ttl' = ttl
        /\ \A d \in Alerts : before'[d] = before[d]
        /\ \A d \in Alerts \ {a} : call'[d] = call[d]
    BY <1>2, <2>1, CallsAreApart DEF ListInv
  <2>3. CallInv'
    BY <1>1, <1>2, <2>1, <2>2 DEF AlertInv, CallInv, Joined
  <2>4. StartInv'
    BY <1>1, <1>2, <2>1, <2>2 DEF AlertInv, StartInv
  <2>5. JoinInv'
    BY <1>1, <2>2 DEF AlertInv, JoinInv, Joined, caching
  <2> QED
    BY <2>3, <2>4, <2>5 DEF AlertInv
<1>3. CASE call[a] \notin {"queued", "fetching"}
  <2>1. UNCHANGED <<ttl, call, before>>
    BY <1>3 DEF TaskCancelled, listVars
  <2>2. CallInv'
    BY <1>1, <1>3, <2>1 DEF AlertInv, CallInv, Joined
  <2>3. StartInv'
    BY <1>1, <2>1 DEF AlertInv, StartInv
  <2>4. JoinInv'
    BY <1>1, <2>1 DEF AlertInv, JoinInv, Joined, caching
  <2> QED
    BY <2>2, <2>3, <2>4 DEF AlertInv
<1> QED
  BY <1>2, <1>3

(* The invariant that ties the tasks to their calls is preserved. *)
LEMMA AlertStep ==
  AlertInv /\ ChainInv /\ ListInv /\ [AlertNext]_alertVars => AlertInv'
<1> SUFFICES ASSUME AlertInv, ChainInv, ListInv, [AlertNext]_alertVars
             PROVE  AlertInv'
  OBVIOUS
<1> USE CallersAssumption
<1>1. ASSUME NEW a \in Alerts, TaskStarts(a)
      PROVE  AlertInv'
  <2>1. phase[a] = "resolving" /\ call[a] = "idle" /\ IsNextToStart(a)
    BY <1>1 DEF TaskStarts, IsNextToStart, NotStarted
  <2>2. CASE CallHits(a) /\ Attach(a)
    <3>1. CallSteps(a) /\ call'[a] = "answered"
      BY <2>2 DEF CallSteps, CallHits, Answer, ListInv, ListTypeOK
    <3> QED
      BY <2>1, <2>2, <3>1, AttachStep DEF Attach
  <2>3. CASE (CallFetches(a) \/ CallQueues(a)) /\ UNCHANGED vars
    <3>1. CallSteps(a) /\ call'[a] \in {"queued", "fetching"}
      BY <2>3 DEF CallSteps, CallFetches, CallQueues, StartFetch, ListInv, ListTypeOK
    <3> QED
      BY <2>1, <2>3, <3>1, WaitingStep DEF ListInv, ChainInv
  <2> QED
    BY <1>1, <2>2, <2>3 DEF TaskStarts
<1>2. ASSUME NEW a \in Alerts, TaskGetsLock(a)
      PROVE  AlertInv'
  <2>1. call[a] = "queued" /\ phase[a] = "resolving"
    BY <1>2, WokenIsQueued
       DEF TaskGetsLock, ResumeHits, ResumeFetches, ListInv, AlertInv, CallInv
  <2>2. CASE ResumeHits(a) /\ Attach(a)
    <3>1. CallSteps(a) /\ call'[a] = "answered"
      BY <2>2 DEF CallSteps, ResumeHits, Answer, ListInv, ListTypeOK
    <3> QED
      BY <2>1, <2>2, <3>1, AttachStep DEF Attach
  <2>3. CASE ResumeFetches(a) /\ UNCHANGED vars
    <3>1. CallSteps(a) /\ call'[a] \in {"queued", "fetching"}
      BY <2>3 DEF CallSteps, ResumeFetches, StartFetch, ListInv, ListTypeOK
    <3> QED
      BY <2>1, <2>3, <3>1, WaitingStep DEF ListInv, ChainInv
  <2> QED
    BY <1>2, <2>2, <2>3 DEF TaskGetsLock
<1>3. ASSUME NEW a \in Alerts, TaskFetched(a)
      PROVE  AlertInv'
  <2>1. call[a] = "fetching" /\ phase[a] = "resolving"
    BY <1>3 DEF TaskFetched, FetchReturns, FetchRaises, AlertInv, CallInv
  <2>2. ASSUME NEW list \in Versions, FetchReturns(a, list), Attach(a)
        PROVE  AlertInv'
    <3>1. CallSteps(a) /\ call'[a] = "answered"
      BY <2>2 DEF CallSteps, FetchReturns, Answer, ListInv, ListTypeOK
    <3> QED
      BY <2>1, <2>2, <3>1, AttachStep DEF Attach
  <2>3. CASE FetchRaises(a) /\ ResolveNothing(a)
    <3>1. CallSteps(a) /\ call'[a] = "raised"
      BY <2>3 DEF CallSteps, FetchRaises, ListInv, ListTypeOK
    <3> QED
      BY <2>1, <2>3, <3>1, AttachStep
  <2> QED
    BY <1>3, <2>2, <2>3 DEF TaskFetched
<1>4. ASSUME NEW c \in Callers \ Alerts, UserQuery(c)
      PROVE  AlertInv'
  <2>1. CallSteps(c) /\ UNCHANGED <<phase, node, earlier>>
    BY <1>4 DEF UserQuery, CallSteps, vars, taskVars
  <2>2. ttl' = ttl /\ \A a \in Alerts : call'[a] = call[a] /\ before'[a] = before[a]
    BY <2>1, CallsAreApart DEF ListInv
  <2> QED
    BY <2>1, <2>2, Apart
<1>5. CASE (Close \/ CloseReturns \/ Unloaded) /\ UNCHANGED listVars
  <2>1. UNCHANGED <<phase, node, earlier, ttl, call, before>>
    BY <1>5 DEF Close, CloseReturns, Unloaded, vars, taskVars, listVars
  <2> QED
    BY <2>1, Apart
<1>6. CASE (Tick \/ HubChanges) /\ UNCHANGED vars
  <2>1. UNCHANGED <<phase, node, earlier, ttl, call, before>>
    BY <1>6 DEF Tick, HubChanges, vars, taskVars, historyVars
  <2> QED
    BY <2>1, Apart
<1>7. CASE UNCHANGED alertVars
  <2>1. UNCHANGED <<phase, node, earlier, ttl, call, before>>
    BY <1>7 DEF alertVars, vars, listVars
  <2> QED
    BY <2>1, Apart
<1> QED
  BY <1>1, <1>2, <1>3, <1>4, <1>5, <1>6, <1>7, GoesOnStep, CancelledStep DEF AlertNext

(***************************************************************************)
(* Tasks call list_systems and join their chains in acceptance order.      *)
(***************************************************************************)
THEOREM AlertInvariant == AlertSpec => []AlertInv
<1>1. AlertInit => AlertInv
  BY CallersAssumption, ChainAssumption
     DEF AlertInit, Init, ListInit, AlertInv, CallInv, StartInv, JoinInv, Joined, Returned
<1> QED
  BY <1>1, AlertStep, AnalysisRefined, ListRefined, ChainInvariant, ListInvariant, PTL
     DEF AlertSpec

(***************************************************************************)
(* With caching on "analyses of one node finish in acceptance order": when *)
(* a task has had its turn, every alert of its node accepted before it has *)
(* been dealt with, unless a task of that chain failed on its prompt.      *)
(***************************************************************************)
THEOREM AlertsFinishInOrder == AlertSpec => [](caching => FinishInAcceptanceOrder)
<1>1. AlertInv /\ ChainInv => (caching => FinishInAcceptanceOrder)
  BY DEF AlertInv, JoinInv, ChainInv, OrderUnlessOneFails, FinishInAcceptanceOrder, HadTurn
<1> QED
  BY <1>1, AlertInvariant, AnalysisRefined, ChainInvariant, PTL

(***************************************************************************)
(* What is proved of the cached list holds for the alerts' calls too: one  *)
(* fetch serves all who call while it runs, and calls return in order.     *)
(***************************************************************************)
THEOREM AlertsShareTheList == AlertSpec => [](OneFetchAtATime /\ AnswersInCallOrder)
BY ListRefined, FetchesAreSingle, CallsReturnInOrder, PTL

(* Alerts and chat users together read one history of the Hub's list: the   *)
(* composition implements OrderedReads (list_systems).                     *)
THEOREM AlertsReadOneHistory == AlertSpec => ReadsImplemented
BY ListRefined, ReadsAreImplemented, PTL
=============================================================================
