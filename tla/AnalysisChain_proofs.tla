------------------------ MODULE AnalysisChain_proofs ------------------------
(***************************************************************************)
(* Proofs about AnalysisChain, for every number of alerts, systems and     *)
(* targets and every setting of the history.                               *)
(***************************************************************************)
EXTENDS AnalysisTurns, FiniteSetTheorems, TLAPS

(***************************************************************************)
(* Appending to the deque of a node's diagnoses keeps it a sequence of     *)
(* records.                                                                *)
(***************************************************************************)
LEMMA KeepRecordType ==
  ASSUME NEW kept \in Seq(Records), NEW record \in Records
  PROVE  KeepRecord(kept, record) \in Seq(Records)
<1>1. CASE Len(kept) < MaxRecords
  BY <1>1 DEF KeepRecord
<1>2. CASE ~(Len(kept) < MaxRecords)
  <2>1. kept # << >>
    BY <1>2, HistoryAssumption
  <2>2. Tail(kept) \in Seq(Records)
    BY <2>1
  <2> QED
    BY <1>2, <2>2 DEF KeepRecord
<1> QED
  BY <1>1, <1>2

(* A prompt carries only records of the node. *)
LEMMA SelectHistoryType ==
  ASSUME NEW kept \in Seq(Records), NEW t \in Nat
  PROVE  SelectHistory(kept, t) \subseteq Records
BY DEF SelectHistory

(***************************************************************************)
(* Every step keeps the types (deliver, the steps of a task, close()).     *)
(***************************************************************************)
LEMMA TypeStep == TypeOK /\ NodeInv /\ [Next]_vars => TypeOK'
<1> SUFFICES ASSUME TypeOK, NodeInv, [Next]_vars
             PROVE  TypeOK'
  OBVIOUS
<1> USE ChainAssumption
<1>1. ASSUME NEW a \in Alerts, NEW t \in Times, Accept(a, t)
      PROVE  TypeOK'
  BY <1>1 DEF TypeOK, Accept, closeVars, Phases
<1>2. ASSUME NEW a \in Alerts, ResolveNothing(a)
      PROVE  TypeOK'
  BY <1>2 DEF TypeOK, ResolveNothing, closeVars, taskVars, Phases, Ended
<1>3. ASSUME NEW a \in Alerts, NEW s \in Systems, JoinChain(a, s)
      PROVE  TypeOK'
  BY <1>3 DEF TypeOK, JoinChain, closeVars, Phases
<1>4. ASSUME NEW a \in Alerts, NEW prompt \in BOOLEAN, Gathered(a, prompt)
      PROVE  TypeOK'
  <2>1. SelectHistory(records[node[a]], refTime[a]) \in SUBSET Records
    BY <1>4, SelectHistoryType DEF TypeOK, NodeInv, Joined, Gathered
  <2>2. phase' \in [Alerts -> Phases] /\ hasPrompt' \in [Alerts -> BOOLEAN]
    BY <1>4, ZenonT(40) DEF TypeOK, Gathered, StartAsking, Finish, Phases, Ended
  <2>3. context' \in [Alerts -> SUBSET Records]
    BY <1>4, <2>1 DEF TypeOK, Gathered, StartAsking
  <2>4. tails' \in [Systems -> Alerts \cup {NoTask}]
    BY <1>4 DEF TypeOK, Gathered, StartAsking, Finish, LeaveChain
  <2> QED
    BY <1>4, <2>2, <2>3, <2>4 DEF TypeOK, Gathered, closeVars
<1>5. ASSUME NEW a \in Alerts, ExtractRaises(a)
      PROVE  TypeOK'
  BY <1>5 DEF TypeOK, ExtractRaises, Finish, LeaveChain, closeVars, taskVars, Phases, Ended
<1>6. ASSUME NEW a \in Alerts, PreviousEnded(a)
      PROVE  TypeOK'
  <2>1. SelectHistory(records[node[a]], refTime[a]) \in SUBSET Records
    BY <1>6, SelectHistoryType DEF TypeOK, NodeInv, Joined, PreviousEnded
  <2>2. phase' \in [Alerts -> Phases]
    <3>1. \E p \in {"asking", "done"} : phase' = [phase EXCEPT ![a] = p]
      BY <1>6 DEF PreviousEnded, StartAsking, Finish
    <3> QED
      BY <3>1 DEF TypeOK, Phases, Ended
  <2>3. context' \in [Alerts -> SUBSET Records]
    BY <1>6, <2>1 DEF TypeOK, PreviousEnded, StartAsking
  <2>4. tails' \in [Systems -> Alerts \cup {NoTask}]
    BY <1>6, ZenonT(40) DEF TypeOK, PreviousEnded, StartAsking, Finish, LeaveChain
  <2> QED
    BY <1>6, <2>2, <2>3, <2>4 DEF TypeOK, PreviousEnded, closeVars
<1>7. ASSUME NEW a \in Alerts, NoReply(a)
      PROVE  TypeOK'
  BY <1>7 DEF TypeOK, NoReply, Finish, LeaveChain, closeVars, taskVars, Phases, Ended
<1>8. ASSUME NEW a \in Alerts, Reply(a)
      PROVE  TypeOK'
  <2>1. ASSUME NEW s \in Systems
        PROVE  KeepRecord(records[s], [alert |-> a, time |-> refTime[a]])
                 \in Seq(Records)
    BY <1>8, KeepRecordType DEF TypeOK, Records
  <2>2. records' \in [Systems -> Seq(Records)]
    <3>1. CASE records' = records
      BY <3>1 DEF TypeOK
    <3>2. CASE records' = [records EXCEPT ![node[a]] = KeepRecord(records[node[a]],
                             [alert |-> a, time |-> refTime[a]])]
      <4>1. node[a] \in Systems
        BY <1>8 DEF TypeOK, NodeInv, Joined, Reply
      <4> QED
        BY <2>1, <3>2, <4>1 DEF TypeOK
    <3> QED
      BY <1>8, <3>1, <3>2 DEF Reply
  <2>3. phase' \in [Alerts -> Phases]
    <3>1. \E p \in {"sending", "done"} : phase' = [phase EXCEPT ![a] = p]
      BY <1>8 DEF Reply, Finish
    <3> QED
      BY <3>1 DEF TypeOK, Phases, Ended
  <2>5. target' \in [Alerts -> 0 .. TargetCount]
    <3>1. target' = target \/ target' = [target EXCEPT ![a] = 1]
      BY <1>8 DEF Reply
    <3>2. 1 \in 0 .. TargetCount
      OBVIOUS
    <3> QED
      BY <3>1, <3>2 DEF TypeOK
  <2>4. tails' \in [Systems -> Alerts \cup {NoTask}]
    BY <1>8 DEF TypeOK, Reply, Finish, LeaveChain
  <2> QED
    BY <1>8, <2>2, <2>3, <2>4, <2>5 DEF TypeOK, Reply, closeVars
<1>9. ASSUME NEW a \in Alerts, SendReturned(a)
      PROVE  TypeOK'
  <2>1. phase' \in [Alerts -> Phases]
    BY <1>9 DEF TypeOK, SendReturned, Finish, Phases, Ended
  <2>2. target[a] \in 0 .. TargetCount
    BY <1>9 DEF TypeOK
  <2>3. target' \in [Alerts -> 0 .. TargetCount]
    <3>1. CASE target' = target
      BY <3>1 DEF TypeOK
    <3>2. CASE target[a] < TargetCount /\ target' = [target EXCEPT ![a] = target[a] + 1]
      <4>1. target[a] + 1 \in 0 .. TargetCount
        BY <2>2, <3>2
      <4> QED
        BY <3>2, <4>1 DEF TypeOK
    <3> QED
      BY <1>9, <3>1, <3>2 DEF SendReturned
  <2>4. tails' \in [Systems -> Alerts \cup {NoTask}]
    BY <1>9 DEF TypeOK, SendReturned, Finish, LeaveChain
  <2> QED
    BY <1>9, <2>1, <2>3, <2>4 DEF TypeOK, SendReturned, closeVars
<1>10. ASSUME NEW a \in Alerts, Cancelled(a)
       PROVE  TypeOK'
  BY <1>10 DEF TypeOK, Cancelled, LeaveChain, closeVars, taskVars, Phases, Ended
<1>11. CASE Close
  BY <1>11 DEF TypeOK, Close, taskVars
<1>12. CASE CloseReturns
  BY <1>12 DEF TypeOK, CloseReturns, taskVars
<1>13. CASE UNCHANGED vars
  BY <1>13 DEF TypeOK, vars
<1> QED
  BY <1>1, <1>2, <1>3, <1>4, <1>5, <1>6, <1>7, <1>8, <1>9, <1>10, <1>11,
     <1>12, <1>13 DEF Next, Unloaded

(***************************************************************************)
(* A step of the task of a: the shape all of a task's steps share once it  *)
(* has joined its chain.  Only a's own phase changes, to how; the tails    *)
(* change only by a leaving.                                               *)
(***************************************************************************)
Moves(a, how) ==
  /\ phase' = [phase EXCEPT ![a] = how]
  /\ UNCHANGED <<closeVars, node, previous, earlier>>
  /\ IF how \in Ended THEN LeaveChain(a) ELSE UNCHANGED tails

(* The steps of a joined task, and what is known when it takes them. *)
LEMMA TaskSteps ==
  ASSUME TypeOK, NEW a \in Alerts,
         \/ \E prompt \in BOOLEAN : Gathered(a, prompt)
         \/ ExtractRaises(a)
         \/ PreviousEnded(a)
         \/ NoReply(a)
         \/ Reply(a)
         \/ SendReturned(a)
  PROVE  \E how \in {"waiting", "asking", "sending", "done", "failed"} :
           /\ Moves(a, how)
           /\ \/ /\ phase[a] \in {"gathering", "waiting"}
                 /\ a \notin cancelPending
                 /\ cancelPending' = cancelPending
                 /\ how \in {"asking", "done"} =>
                      IF phase[a] = "gathering"
                        THEN previous[a] = NoTask
                        ELSE phase[previous[a]] \in Ended
                 /\ how # "sending"
              \/ /\ phase[a] \in {"asking", "sending"}
                 /\ cancelPending' = cancelPending \ {a}
                 /\ how \in {"sending", "done"}
<1>1. ASSUME NEW prompt \in BOOLEAN, Gathered(a, prompt)
      PROVE  \E how \in {"waiting", "asking", "done"} :
               Moves(a, how) /\ (how # "waiting" => previous[a] = NoTask)
  <2>1. CASE previous[a] # NoTask
    BY <1>1, <2>1 DEF Gathered, Moves, closeVars, Ended
  <2>2. CASE previous[a] = NoTask /\ prompt
    BY <1>1, <2>2 DEF Gathered, StartAsking, Moves, closeVars, Ended
  <2>3. CASE previous[a] = NoTask /\ ~prompt
    BY <1>1, <2>3 DEF Gathered, Finish, Moves, closeVars, Ended
  <2> QED
    BY <2>1, <2>2, <2>3
<1>2. ASSUME ExtractRaises(a)
      PROVE  Moves(a, "failed")
  BY <1>2 DEF ExtractRaises, Finish, Moves, closeVars, taskVars, Ended
<1>3. ASSUME PreviousEnded(a)
      PROVE  \E how \in {"asking", "done"} : Moves(a, how)
  <2>1. CASE hasPrompt[a]
    BY <1>3, <2>1 DEF PreviousEnded, StartAsking, Moves, closeVars, Ended
  <2>2. CASE ~hasPrompt[a]
    BY <1>3, <2>2 DEF PreviousEnded, Finish, Moves, closeVars, Ended
  <2> QED
    BY <2>1, <2>2
<1>4. ASSUME NoReply(a)
      PROVE  Moves(a, "done")
  BY <1>4 DEF NoReply, Finish, Moves, closeVars, taskVars, Ended
<1>5. ASSUME Reply(a)
      PROVE  \E how \in {"sending", "done"} : Moves(a, how)
  <2>1. CASE Closed
    BY <1>5, <2>1 DEF Reply, Finish, Moves, closeVars, Ended
  <2>2. CASE ~Closed
    BY <1>5, <2>2 DEF Reply, Moves, closeVars, Ended
  <2> QED
    BY <2>1, <2>2
<1>6. ASSUME SendReturned(a)
      PROVE  \E how \in {"sending", "done"} : Moves(a, how)
  <2>1. CASE target' = [target EXCEPT ![a] = target[a] + 1]
               /\ UNCHANGED <<phase, tails>>
    <3>1. phase' = [phase EXCEPT ![a] = "sending"]
      BY <1>6, <2>1 DEF SendReturned, TypeOK
    <3> QED
      BY <1>6, <2>1, <3>1 DEF SendReturned, Moves, closeVars, Ended
  <2>2. CASE Finish(a, "done")
    BY <1>6, <2>2 DEF SendReturned, Finish, Moves, closeVars, Ended
  <2> QED
    BY <1>6, <2>1, <2>2 DEF SendReturned
<1> QED
  <2>1. ASSUME NEW prompt \in BOOLEAN, Gathered(a, prompt)
        PROVE  /\ phase[a] = "gathering" /\ a \notin cancelPending
               /\ cancelPending' = cancelPending
    BY <2>1 DEF Gathered
  <2>2. ExtractRaises(a) => /\ phase[a] = "gathering" /\ a \notin cancelPending
                            /\ cancelPending' = cancelPending
    BY DEF ExtractRaises
  <2>3. PreviousEnded(a) => /\ phase[a] = "waiting" /\ a \notin cancelPending
                            /\ cancelPending' = cancelPending
                            /\ phase[previous[a]] \in Ended
    BY DEF PreviousEnded
  <2>4. NoReply(a) \/ Reply(a) \/ SendReturned(a) =>
          /\ phase[a] \in {"asking", "sending"}
          /\ cancelPending' = cancelPending \ {a}
    BY DEF NoReply, Reply, SendReturned
  <2> QED
    BY <1>1, <1>2, <1>3, <1>4, <1>5, <1>6, <2>1, <2>2, <2>3, <2>4

(***************************************************************************)
(* The invariants of the chain survive a step of a joined task.            *)
(***************************************************************************)
LEMMA MoveStep ==
  ASSUME ChainInv, NEW a \in Alerts,
         \/ \E prompt \in BOOLEAN : Gathered(a, prompt)
         \/ ExtractRaises(a)
         \/ PreviousEnded(a)
         \/ NoReply(a)
         \/ Reply(a)
         \/ SendReturned(a)
  PROVE  CancelInv' /\ NodeInv' /\ TailIsLive' /\ FreeChainInv' /\ PreviousInv'
           /\ OrderUnlessOneFails'
<1> USE ChainAssumption DEF ChainInv
<1>1. PICK how \in {"waiting", "asking", "sending", "done", "failed"} :
        /\ Moves(a, how)
        /\ \/ /\ phase[a] \in {"gathering", "waiting"}
              /\ a \notin cancelPending
              /\ cancelPending' = cancelPending
              /\ how \in {"asking", "done"} =>
                   IF phase[a] = "gathering"
                     THEN previous[a] = NoTask
                     ELSE phase[previous[a]] \in Ended
              /\ how # "sending"
           \/ /\ phase[a] \in {"asking", "sending"}
              /\ cancelPending' = cancelPending \ {a}
              /\ how \in {"sending", "done"}
  BY TaskSteps
<1>2. /\ phase' = [phase EXCEPT ![a] = how]
      /\ closing' = closing /\ node' = node
      /\ previous' = previous /\ earlier' = earlier
  BY <1>1 DEF Moves, closeVars
<1>3. phase'[a] = how /\ \A b \in Alerts \ {a} : phase'[b] = phase[b]
  BY <1>2 DEF TypeOK
<1>4. Alive(a) /\ phase[a] # "resolving" /\ Joined(a) /\ node[a] \in Systems
  BY <1>1 DEF Alive, NodeInv, Ended, Joined, TypeOK
<1>5. \A b \in Alerts : phase[b] \in Ended => phase'[b] = phase[b]
  BY <1>3, <1>4 DEF Alive
<1>6. \A b \in Alerts : Undisturbed(b)' => Undisturbed(b)
  BY <1>2, <1>5 DEF Undisturbed, Ended, TypeOK
<1>7. CancelInv'
  BY <1>1, <1>2, <1>3 DEF CancelInv, Closed, Alive, TypeOK, Ended
<1>8. NodeInv'
  BY <1>2, <1>3, <1>4 DEF NodeInv, Joined
<1>9. ASSUME NEW s \in Systems
      PROVE  \/ tails'[s] = tails[s] /\ (how \in Ended => tails[s] # a)
             \/ /\ s = node[a] /\ tails[s] = a
                /\ how \in Ended /\ tails'[s] = NoTask
  <2>1. CASE how \in Ended
    BY <1>1, <1>4, <2>1, SMTT(30) DEF Moves, LeaveChain, TypeOK, TailIsLive, Alerts, NoTask
  <2>2. CASE how \notin Ended
    BY <1>1, <2>2 DEF Moves
  <2> QED
    BY <2>1, <2>2
<1>10. TailIsLive'
  <2> SUFFICES ASSUME NEW s \in Systems, tails'[s] # NoTask
               PROVE  /\ node[tails'[s]] = s
                      /\ phase'[tails'[s]] \notin Ended \cup {"idle"}
                      /\ \A b \in Alerts : node[b] = s =>
                            b \in earlier[tails'[s]] \cup {tails'[s]}
    BY <1>2 DEF TailIsLive, Alive
  <2>1. tails'[s] = tails[s] /\ (how \in Ended => tails[s] # a)
    BY <1>9
  <2>2. tails[s] \in Alerts /\ node[tails[s]] = s /\ Alive(tails[s])
    BY <2>1 DEF TailIsLive, TypeOK
  <2>3. phase'[tails[s]] \notin Ended \cup {"idle"}
    BY <1>1, <1>3, <2>1, <2>2 DEF Alive
  <2> QED
    BY <2>1, <2>2, <2>3 DEF TailIsLive
<1>12. OrderUnlessOneFails'
  <2> SUFFICES ASSUME NEW b \in Alerts, HadTurn(b)', Undisturbed(b)'
               PROVE  \A c \in earlier[b] : phase[c] \in Ended
    BY <1>2, <1>5 DEF OrderUnlessOneFails, TypeOK
  <2>1. Undisturbed(b)
    BY <1>6
  <2>2. CASE HadTurn(b)
    BY <2>1, <2>2 DEF OrderUnlessOneFails
  <2>3. CASE ~HadTurn(b)
    <3>1. b = a
      BY <1>2, <1>3, <2>3 DEF HadTurn, Joined
    <3>2. /\ phase[a] \in {"gathering", "waiting"} /\ a \notin cancelPending
          /\ IF phase[a] = "gathering" THEN previous[a] = NoTask
                                       ELSE phase[previous[a]] \in Ended
      BY <1>1, <1>3, <1>4, <2>3, <3>1 DEF HadTurn
    <3>3. CASE previous[a] = NoTask
      BY <1>4, <2>1, <3>1, <3>3 DEF PreviousInv
    <3>4. CASE previous[a] # NoTask
      <4> DEFINE p == previous[a]
      <4>1. p \in Alerts /\ p \in earlier[a] /\ earlier[a] = earlier[p] \cup {p}
        BY <1>4, <3>4 DEF PreviousInv, TypeOK
      <4>2. ~Closed
        BY <3>2 DEF CancelInv
      <4>3. phase[p] = "done"
        BY <2>1, <3>1, <3>2, <3>4, <4>1, <4>2 DEF Undisturbed, CancelInv, Ended
      <4>4. HadTurn(p)
        BY <1>4, <4>1, <4>3 DEF HadTurn, NodeInv, Joined
      <4>5. Undisturbed(p)
        BY <2>1, <3>1, <4>1 DEF Undisturbed
      <4>6. \A c \in earlier[p] : phase[c] \in Ended
        BY <4>1, <4>4, <4>5 DEF OrderUnlessOneFails
      <4> QED
        BY <3>1, <4>1, <4>3, <4>6 DEF Ended
    <3> QED
      BY <3>3, <3>4
  <2> QED
    BY <2>2, <2>3
<1>13. FreeChainInv'
  <2> SUFFICES ASSUME ~Closed, NEW s \in Systems, tails'[s] = NoTask,
                      \A b \in Alerts : node[b] = s => phase'[b] # "failed",
                      NEW b \in Alerts, node[b] = s
               PROVE  phase'[b] \in Ended
    BY <1>2 DEF FreeChainInv, Closed
  <2>1. CASE tails[s] = NoTask
    <3>1. \A c \in Alerts : node[c] = s => phase[c] # "failed"
      BY <1>5 DEF Ended
    <3> QED
      BY <1>5, <2>1, <3>1 DEF FreeChainInv
  <2>2. CASE tails[s] # NoTask
    <3>1. s = node[a] /\ tails[s] = a /\ how = "done"
      BY <1>1, <1>3, <1>9, <2>2 DEF Ended
    <3>2. HadTurn(a)'
      BY <1>2, <1>3, <1>4, <3>1 DEF HadTurn, Joined
    <3>3. Undisturbed(a)'
      BY <1>2, <1>4, <3>1 DEF Undisturbed, NodeInv, TypeOK
    <3>4. \A c \in earlier[a] : phase'[c] \in Ended
      BY <1>2, <1>12, <3>2, <3>3 DEF OrderUnlessOneFails
    <3>5. b \in earlier[a] \cup {a}
      BY <2>2, <3>1 DEF TailIsLive
    <3> QED
      BY <1>3, <3>1, <3>4, <3>5 DEF Ended
  <2> QED
    BY <2>1, <2>2
<1>11. PreviousInv'
  BY <1>2, <1>5, <1>6 DEF PreviousInv, Joined, TypeOK
<1> QED
  BY <1>7, <1>8, <1>10, <1>11, <1>12, <1>13

(* A step that joins a chain, and the steps outside any chain. *)
LEMMA OtherStep ==
  ASSUME ChainInv,
         \/ \E a \in Alerts, t \in Times : Accept(a, t)
         \/ \E a \in Alerts : ResolveNothing(a)
         \/ \E a \in Alerts, s \in Systems : JoinChain(a, s)
         \/ \E a \in Alerts : Cancelled(a)
         \/ Close
         \/ CloseReturns
         \/ UNCHANGED vars
  PROVE  CancelInv' /\ NodeInv' /\ TailIsLive' /\ FreeChainInv' /\ PreviousInv'
           /\ OrderUnlessOneFails'
<1> USE ChainAssumption DEF ChainInv
<1> DEFINE Goal == CancelInv /\ NodeInv /\ TailIsLive /\ FreeChainInv
                     /\ PreviousInv /\ OrderUnlessOneFails
<1> DEFINE Quiet(a, how) ==
             /\ phase' = [phase EXCEPT ![a] = how]
             /\ UNCHANGED <<closing, node, previous, earlier, tails>>
(* A task outside the chains changes no invariant of the chains. *)
<1>1. ASSUME NEW a \in Alerts, ~Joined(a), phase[a] \in {"idle", "resolving"},
             NEW how \in {"resolving", "done", "cancelled"}, Quiet(a, how)
      PROVE  NodeInv' /\ TailIsLive' /\ FreeChainInv' /\ PreviousInv'
               /\ OrderUnlessOneFails'
  <2>1. phase'[a] = how /\ \A b \in Alerts \ {a} : phase'[b] = phase[b]
    BY <1>1 DEF TypeOK
  <2>2. \A b \in Alerts : node[b] \in Systems => b # a
    BY <1>1 DEF Joined
  <2>3. \A b \in Alerts : \A c \in earlier[b] : c \in Alerts /\ c # a
    BY <1>1 DEF NodeInv, TypeOK, Joined
  <2>4. \A b \in Alerts : Undisturbed(b)' <=> Undisturbed(b)
    BY <1>1, <2>1, <2>3 DEF Undisturbed
  <2>5. NodeInv'
    BY <1>1, <2>1, <2>3 DEF NodeInv, Joined
  <2>6. TailIsLive'
    BY <1>1, <2>1, <2>2 DEF TailIsLive, Alive, TypeOK
  <2>7. FreeChainInv'
    BY <1>1, <2>1, <2>2 DEF FreeChainInv, Closed
  <2>8. PreviousInv'
    BY <1>1, <2>1, <2>3, <2>4 DEF PreviousInv, Joined
  <2>9. OrderUnlessOneFails'
    BY <1>1, <2>1, <2>3, <2>4 DEF OrderUnlessOneFails, HadTurn, Joined
  <2> QED
    BY <2>5, <2>6, <2>7, <2>8, <2>9
<1>2. ASSUME NEW a \in Alerts, NEW t \in Times, Accept(a, t)
      PROVE  Goal'
  <2>1. CancelInv'
    BY <1>2 DEF Accept, CancelInv, Closed, closeVars, TypeOK, Alive, Ended
  <2>2. Quiet(a, "resolving") /\ ~Joined(a) /\ phase[a] = "idle"
    BY <1>2 DEF Accept, closeVars, NodeInv
  <2> QED
    BY <1>1, <2>1, <2>2
<1>3. ASSUME NEW a \in Alerts, ResolveNothing(a)
      PROVE  Goal'
  <2>1. CancelInv'
    BY <1>3 DEF ResolveNothing, CancelInv, Closed, closeVars, TypeOK, Alive
  <2>2. Quiet(a, "done") /\ ~Joined(a) /\ phase[a] = "resolving"
    BY <1>3 DEF ResolveNothing, closeVars, taskVars, NodeInv
  <2> QED
    BY <1>1, <2>1, <2>2
<1>4. ASSUME NEW a \in Alerts, NEW s \in Systems, JoinChain(a, s)
      PROVE  Goal'
  <2>1. /\ ~Joined(a) /\ ~Closed /\ closing' = closing
        /\ phase'[a] = "gathering" /\ \A b \in Alerts \ {a} : phase'[b] = phase[b]
        /\ node'[a] = s /\ \A b \in Alerts \ {a} : node'[b] = node[b]
    BY <1>4 DEF JoinChain, CancelInv, NodeInv, TypeOK, closeVars
  <2>2. /\ previous'[a] = tails[s] /\ \A b \in Alerts \ {a} : previous'[b] = previous[b]
        /\ earlier'[a] = {b \in Alerts : node[b] = s}
        /\ \A b \in Alerts \ {a} : earlier'[b] = earlier[b]
        /\ tails'[s] = a /\ \A r \in Systems \ {s} : tails'[r] = tails[r]
    BY <1>4 DEF JoinChain, TypeOK
  <2>3. \A b \in Alerts : \A c \in earlier[b] : c \in Alerts /\ c # a /\ b # a
    BY <2>1 DEF NodeInv, TypeOK, Joined
  <2>4. CancelInv'
    BY <1>4, <2>1 DEF JoinChain, CancelInv, Closed, Alive, Ended
  <2>5. NodeInv'
    BY <2>1, <2>2, <2>3 DEF NodeInv, Joined
  <2>6. TailIsLive'
    <3> SUFFICES ASSUME NEW r \in Systems, tails'[r] # NoTask
                 PROVE  /\ node'[tails'[r]] = r
                        /\ phase'[tails'[r]] \notin Ended \cup {"idle"}
                        /\ \A b \in Alerts : node'[b] = r =>
                              b \in earlier'[tails'[r]] \cup {tails'[r]}
      BY DEF TailIsLive, Alive
    <3>1. CASE r = s
      BY <2>1, <2>2, <3>1 DEF Ended
    <3>2. CASE r # s
      <4>1. /\ tails[r] \in Alerts /\ node[tails[r]] = r /\ tails[r] # a
            /\ tails'[r] = tails[r]
        BY <2>1, <2>2, <3>2 DEF TailIsLive, TypeOK, Joined
      <4> QED
        BY <2>1, <2>2, <3>2, <4>1 DEF TailIsLive, Alive
    <3> QED
      BY <3>1, <3>2
  <2>7. FreeChainInv'
    <3> SUFFICES ASSUME NEW r \in Systems, tails'[r] = NoTask,
                        \A b \in Alerts : node'[b] = r => phase'[b] # "failed",
                        NEW b \in Alerts, node'[b] = r
                 PROVE  phase'[b] \in Ended
      BY DEF FreeChainInv
    <3>1. a # NoTask
      BY DEF Alerts, NoTask
    <3>2. r # s
      BY <2>2, <3>1
    <3>3. tails[r] = NoTask /\ b # a /\ node[b] = r
      BY <2>1, <2>2, <3>2
    <3>4. \A c \in Alerts : node[c] = r => phase[c] # "failed"
      BY <2>1, <3>2 DEF Joined
    <3> QED
      BY <2>1, <3>3, <3>4 DEF FreeChainInv
  <2>8. \A b \in Alerts \ {a} : Undisturbed(b)' <=> Undisturbed(b)
    BY <2>1, <2>2, <2>3 DEF Undisturbed
  <2>9. PreviousInv'
    <3>1. ASSUME NEW b \in Alerts, b # a, Joined(b)
          PROVE  /\ previous[b] = NoTask /\ Undisturbed(b)
                      => \A c \in earlier[b] : phase'[c] \in Ended
                 /\ previous[b] # NoTask
                      => /\ previous[b] \in earlier[b]
                         /\ earlier'[b] = earlier'[previous[b]] \cup {previous[b]}
      BY <2>1, <2>2, <2>3, <3>1, SMTT(30) DEF PreviousInv, TypeOK
    <3>2. CASE tails[s] = NoTask
      BY <2>1, <2>2, <3>1, <2>8, <3>2 DEF PreviousInv, FreeChainInv, Undisturbed, Joined
    <3>3. CASE tails[s] # NoTask
      <4>1. tails[s] \in Alerts /\ node[tails[s]] = s /\ tails[s] # a
        BY <2>1, <3>3 DEF TailIsLive, TypeOK, Joined
      <4>2. earlier'[a] = earlier[tails[s]] \cup {tails[s]}
        BY <2>2, <3>3, <4>1 DEF TailIsLive, NodeInv, TypeOK
      <4> QED
        BY <2>1, <2>2, <2>8, <3>1, <3>3, <4>1, <4>2 DEF PreviousInv, Joined
    <3> QED
      BY <3>2, <3>3
  <2>10. OrderUnlessOneFails'
    BY <2>1, <2>2, <2>3, <2>8 DEF OrderUnlessOneFails, HadTurn, Joined
  <2> QED
    BY <2>4, <2>5, <2>6, <2>7, <2>9, <2>10
<1>5. ASSUME NEW a \in Alerts, Cancelled(a)
      PROVE  Goal'
  <2>1. Closed /\ Alive(a)
    BY <1>5 DEF Cancelled, CancelInv
  <2>2. phase' = [phase EXCEPT ![a] = "cancelled"]
          /\ UNCHANGED <<closing, node, previous, earlier>>
    BY <1>5 DEF Cancelled, closeVars, taskVars
  <2>3. phase'[a] = "cancelled" /\ \A b \in Alerts \ {a} : phase'[b] = phase[b]
    BY <2>2 DEF TypeOK
  <2>4. CancelInv'
    BY <1>5, <2>1, <2>2, <2>3 DEF Cancelled, CancelInv, Closed, Alive, TypeOK
  <2>5. CASE phase[a] = "resolving"
    <3>1. ~Joined(a) /\ Quiet(a, "cancelled")
      BY <1>5, <2>2, <2>5 DEF Cancelled, NodeInv
    <3> QED
      BY <1>1, <2>4, <2>5, <3>1
  <2>6. CASE phase[a] # "resolving"
    <3>1. Joined(a) /\ node[a] \in Systems /\ LeaveChain(a)
      BY <1>5, <2>1, <2>6 DEF Cancelled, NodeInv, Alive, Joined, TypeOK, Phases
    <3>2. \A r \in Systems : tails'[r] = IF tails[r] = a THEN NoTask ELSE tails[r]
      BY <3>1 DEF LeaveChain, TailIsLive, TypeOK, NoTask, Alerts
    <3>3. NodeInv'
      BY <2>2, <2>3, <3>1 DEF NodeInv, Joined
    <3>4. TailIsLive'
      BY <2>2, <2>3, <3>2 DEF TailIsLive, Alive, TypeOK
    <3>5. FreeChainInv'
      BY <2>1, <2>2 DEF FreeChainInv, Closed
    <3>6. \A b \in Alerts : phase[b] \in Ended => phase'[b] = phase[b]
      BY <2>1, <2>3 DEF Alive
    <3>9. \A b \in Alerts : Undisturbed(b)' => Undisturbed(b)
      BY <2>2, <3>6 DEF Undisturbed, Ended, TypeOK
    <3>7. PreviousInv'
      BY <2>2, <3>6, <3>9 DEF PreviousInv, Joined, TypeOK
    <3>8. OrderUnlessOneFails'
      <4>1. \A b \in Alerts : HadTurn(b)' => HadTurn(b)
        BY <2>2, <2>3 DEF HadTurn, Joined
      <4> QED
        BY <2>2, <3>6, <3>9, <4>1 DEF OrderUnlessOneFails, TypeOK
    <3> QED
      BY <2>4, <3>3, <3>4, <3>5, <3>7, <3>8
  <2> QED
    BY <2>5, <2>6
<1>6. CASE Close
  BY <1>6 DEF Close, CancelInv, NodeInv, TailIsLive, FreeChainInv, PreviousInv,
              OrderUnlessOneFails, Closed, Alive, Ended, HadTurn, Undisturbed, Joined, taskVars
<1>7. CASE CloseReturns
  BY <1>7 DEF CloseReturns, CancelInv, NodeInv, TailIsLive, FreeChainInv, PreviousInv,
              OrderUnlessOneFails, Closed, Alive, HadTurn, Undisturbed, Joined, taskVars
<1>8. CASE UNCHANGED vars
  BY <1>8 DEF vars, CancelInv, NodeInv, TailIsLive, FreeChainInv, PreviousInv,
              OrderUnlessOneFails, Closed, Alive, HadTurn, Undisturbed, Joined
<1> QED
  BY <1>2, <1>3, <1>4, <1>5, <1>6, <1>7, <1>8

(***************************************************************************)
(* The invariant of the chains holds in every reachable state.             *)
(***************************************************************************)
THEOREM ChainInvariant == Spec => []ChainInv
<1>1. Init => ChainInv
  <2> SUFFICES ASSUME Init
               PROVE  ChainInv
    OBVIOUS
  <2> USE ChainAssumption DEF Init
  <2>1. TypeOK
    BY DEF TypeOK, Phases
  <2>2. CancelInv /\ NodeInv
    BY DEF CancelInv, NodeInv, Closed, Joined
  <2>3. TailIsLive /\ FreeChainInv /\ PreviousInv /\ OrderUnlessOneFails
    BY DEF TailIsLive, FreeChainInv, PreviousInv, OrderUnlessOneFails, Joined
  <2> QED
    BY <2>1, <2>2, <2>3 DEF ChainInv
<1>2. ChainInv /\ [Next]_vars => ChainInv'
  <2> SUFFICES ASSUME ChainInv, [Next]_vars
               PROVE  ChainInv'
    OBVIOUS
  <2>1. TypeOK'
    BY TypeStep DEF ChainInv
  <2>2. ASSUME NEW a \in Alerts,
               \/ \E prompt \in BOOLEAN : Gathered(a, prompt)
               \/ ExtractRaises(a)
               \/ PreviousEnded(a)
               \/ NoReply(a)
               \/ Reply(a)
               \/ SendReturned(a)
        PROVE  ChainInv'
    BY <2>1, <2>2, MoveStep DEF ChainInv
  <2>3. ASSUME \/ \E a \in Alerts, t \in Times : Accept(a, t)
               \/ \E a \in Alerts : ResolveNothing(a)
               \/ \E a \in Alerts, s \in Systems : JoinChain(a, s)
               \/ \E a \in Alerts : Cancelled(a)
               \/ Close
               \/ CloseReturns
               \/ UNCHANGED vars
        PROVE  ChainInv'
    BY <2>1, <2>3, OtherStep DEF ChainInv
  <2> QED
    BY <2>2, <2>3 DEF Next, Unloaded
<1> QED
  BY <1>1, <1>2, PTL DEF Spec

(***************************************************************************)
(* Analyses of one node take their turns in the order they joined its      *)
(* chain, as long as none before them failed (the wait for previous_task). *)
(***************************************************************************)
THEOREM AnalysesTakeTurns == Spec => []OrderUnlessOneFails
BY ChainInvariant, PTL DEF ChainInv

(***************************************************************************)
(* _analysis_tails holds only running tasks, each the newest of its node   *)
(* (the cleanup in the finally block).                                     *)
(***************************************************************************)
THEOREM TailsAreLive == Spec => []TailIsLive
BY ChainInvariant, PTL DEF ChainInv

(* Every variable keeps the type its declaration says. *)
THEOREM TypeCorrect == Spec => []TypeOK
BY ChainInvariant, PTL DEF ChainInv

(***************************************************************************)
(* No task starts once close() has begun.                                  *)
(***************************************************************************)
LEMMA NoNewTasks ==
  ASSUME ChainInv, Closed, [Next]_vars
  PROVE  /\ \A b \in Alerts : Alive(b)' => Alive(b)
         /\ \/ UNCHANGED <<closing, pending>>
            \/ CloseReturns
<1> USE DEF ChainInv, TypeOK
<1>1. ASSUME NEW a \in Alerts,
             \/ \E prompt \in BOOLEAN : Gathered(a, prompt)
             \/ ExtractRaises(a)
             \/ PreviousEnded(a)
             \/ NoReply(a)
             \/ Reply(a)
             \/ SendReturned(a)
      PROVE  (\A b \in Alerts : Alive(b)' => Alive(b)) /\ UNCHANGED <<closing, pending>>
  <2>1. PICK how \in {"waiting", "asking", "sending", "done", "failed"} :
          Moves(a, how) /\ phase[a] \in {"gathering", "waiting", "asking", "sending"}
    BY <1>1, TaskSteps
  <2> QED
    BY <2>1 DEF Moves, closeVars, Alive, Ended
<1>2. ASSUME NEW a \in Alerts,
             \/ ResolveNothing(a)
             \/ \E s \in Systems : JoinChain(a, s)
             \/ Cancelled(a)
      PROVE  (\A b \in Alerts : Alive(b)' => Alive(b)) /\ UNCHANGED <<closing, pending>>
  BY <1>2 DEF ResolveNothing, JoinChain, Cancelled, CancelInv, closeVars, Alive, Ended
<1>3. CASE CloseReturns
  BY <1>3 DEF CloseReturns, Alive
<1>4. CASE UNCHANGED vars
  BY <1>4 DEF vars, Alive
<1>5. ~Close /\ \A a \in Alerts, t \in Times : ~Accept(a, t)
  BY DEF Close, Accept, Closed
<1> QED
  BY <1>1, <1>2, <1>3, <1>4, <1>5 DEF Next, Unloaded

(***************************************************************************)
(* When close() has returned, no analysis task runs: deliver() refuses new *)
(* work, so the tasks close() found are all there are.                     *)
(***************************************************************************)
THEOREM ClosedIsQuiet == Spec => []NothingRunsAfterClose
<1>1. Init => CloseInv
  BY DEF Init, CloseInv, NothingRunsAfterClose
<1>2. ChainInv /\ CloseInv /\ [Next]_vars => CloseInv'
  <2> SUFFICES ASSUME ChainInv, CloseInv, [Next]_vars
               PROVE  CloseInv'
    OBVIOUS
  <2>1. CASE Closed
    <3>1. CASE UNCHANGED <<closing, pending>>
      BY <2>1, <3>1, NoNewTasks DEF CloseInv, NothingRunsAfterClose
    <3>2. CASE CloseReturns
      BY <2>1, <3>2, NoNewTasks
         DEF CloseInv, NothingRunsAfterClose, CloseReturns, Alive
    <3> QED
      BY <2>1, <3>1, <3>2, NoNewTasks
  <2>2. CASE ~Closed
    <3>1. CASE Close
      BY <3>1 DEF Close, CloseInv, NothingRunsAfterClose, Alive
    <3>2. CASE closing' = closing
      BY <2>2, <3>2 DEF Closed, CloseInv, NothingRunsAfterClose
    <3>3. Close \/ closing' = closing
      BY <2>2 DEF Next, vars, closeVars, Closed, Accept, ResolveNothing, JoinChain,
                  Gathered, ExtractRaises, PreviousEnded, NoReply, Reply,
                  SendReturned, Cancelled, CloseReturns, Unloaded
    <3> QED
      BY <3>1, <3>2, <3>3
  <2> QED
    BY <2>1, <2>2
<1> QED
  BY <1>1, <1>2, ChainInvariant, PTL DEF Spec, CloseInv

(***************************************************************************)
(* Once close() has begun, no task goes on to another target.              *)
(***************************************************************************)
THEOREM ClosedSendsNothing == Spec => NoSendAfterClose
<1>1. [Next]_vars => [Closed => target' = target]_vars
  BY DEF Next, vars, closeVars, taskVars, Closed, Accept, ResolveNothing, JoinChain,
         Gathered, ExtractRaises, PreviousEnded, NoReply, Reply, SendReturned,
         Cancelled, Close, CloseReturns, Unloaded
<1> QED
  BY <1>1, PTL DEF Spec, NoSendAfterClose

-----------------------------------------------------------------------------
(***************************************************************************)
(* What a prompt carries.  The tasks of a node form one order, in which    *)
(* they joined its chain; the node's deque has the newest diagnoses of     *)
(* that order, while no task of the node has overtaken another.            *)
(***************************************************************************)
TurnInv ==
  \A a, b \in Alerts :
    /\ Joined(a) /\ node[a] = node[b] /\ a # b => a \in earlier[b] \/ b \in earlier[a]
    /\ a \in earlier[b] => b \notin earlier[a] /\ earlier[a] \subseteq earlier[b]

(* A task that has sent its diagnosis has had its turn. *)
SentInv ==
  \A a \in Alerts :
    /\ phase[a] = "sending" => target[a] > 0
    /\ target[a] > 0 =>
         /\ Joined(a) /\ phase[a] \in {"sending", "done", "cancelled"}
         /\ Undisturbed(a) => \A b \in earlier[a] : phase[b] \in Ended

Diagnoses(s) == {b \in Alerts : node[b] = s /\ ContextHours > 0 /\ target[b] > 0}

(* A deque has the newest of some diagnoses, in the order of the chain.     *)
HasNewest(kept, diagnoses, time, before) ==
  /\ Len(kept) <= MaxRecords
  /\ \A i \in DOMAIN kept :
       /\ kept[i].alert \in diagnoses
       /\ kept[i].time = time[kept[i].alert]
  /\ \A i, j \in DOMAIN kept : i < j => kept[i].alert \in before[kept[j].alert]
  /\ \A b \in diagnoses :
       \/ \E i \in DOMAIN kept : kept[i].alert = b
       \/ /\ Len(kept) = MaxRecords
          /\ \A i \in DOMAIN kept : b \in before[kept[i].alert]

(* No task of s that sent a diagnosis has overtaken another. *)
InTurn(s) == \A b \in Alerts : node[b] = s /\ target[b] > 0 => Undisturbed(b)

RecordsInv ==
  \A s \in Systems :
    InTurn(s) => HasNewest(records[s], Diagnoses(s), refTime, earlier)

MemoryInv == TurnInv /\ SentInv /\ RecordsInv /\ PromptSeesEarlierDiagnoses

(* What no step takes back: a joined task keeps its node, its place in the  *)
(* chain and its time; an ended one, all it was.                           *)
Steady ==
  \A b \in Alerts :
    /\ Joined(b) => node'[b] = node[b] /\ earlier'[b] = earlier[b]
                    /\ refTime'[b] = refTime[b]
    /\ phase[b] \in Ended => phase'[b] = phase[b] /\ target'[b] = target[b]
    /\ target[b] > 0 => target'[b] > 0

LEMMA StepsAreSteady ==
  ASSUME ChainInv, [Next]_vars
  PROVE  Steady
<1> USE ChainAssumption DEF ChainInv
<1>1. ASSUME NEW a \in Alerts, NEW t \in Times, Accept(a, t)
      PROVE  Steady
  BY <1>1 DEF Accept, TypeOK, NodeInv, Steady, Ended
<1>2. ASSUME NEW a \in Alerts, NEW s \in Systems, JoinChain(a, s)
      PROVE  Steady
  BY <1>2 DEF JoinChain, TypeOK, NodeInv, Steady, Ended
<1>3. ASSUME NEW a \in Alerts, ResolveNothing(a) \/ Cancelled(a)
      PROVE  Steady
  BY <1>3 DEF ResolveNothing, Cancelled, CancelInv, Alive, TypeOK, Steady, Ended, taskVars
<1>4. ASSUME NEW a \in Alerts,
             \/ \E prompt \in BOOLEAN : Gathered(a, prompt)
             \/ ExtractRaises(a)
             \/ PreviousEnded(a)
             \/ NoReply(a)
             \/ Reply(a)
             \/ SendReturned(a)
      PROVE  Steady
  <2>1. PICK how : Moves(a, how) /\ phase[a] \notin Ended
    BY <1>4, TaskSteps DEF Ended
  <2>2. /\ refTime' = refTime /\ node' = node /\ earlier' = earlier
        /\ \/ target' = target
           \/ \E n \in Nat \ {0} : target' = [target EXCEPT ![a] = n]
    <3>1. CASE Reply(a)
      BY <3>1 DEF Reply
    <3>2. CASE SendReturned(a)
      BY <3>2 DEF SendReturned, TypeOK
    <3>3. QED
      BY <1>4, <3>1, <3>2
      DEF Gathered, ExtractRaises, PreviousEnded, NoReply, taskVars
  <2>3. QED
    BY <2>1, <2>2 DEF Moves, TypeOK, Steady
<1>5. CASE Close \/ CloseReturns \/ UNCHANGED vars
  BY <1>5 DEF Close, CloseReturns, vars, taskVars, Steady
<1>6. QED
  BY <1>1, <1>2, <1>3, <1>4, <1>5 DEF Next, Unloaded

(* Only joining a chain changes who is earlier than whom. *)
LEMMA TurnStep ==
  ASSUME ChainInv, TurnInv, [Next]_vars
  PROVE  TurnInv'
<1> USE ChainAssumption
<1>1. CASE UNCHANGED <<node, earlier>>
  BY <1>1 DEF TurnInv, Joined
<1>2. ASSUME NEW a \in Alerts, NEW s \in Systems, JoinChain(a, s)
      PROVE  TurnInv'
  <2>1. /\ ~Joined(a) /\ s # NoSystem
        /\ \A b, c \in Alerts : c \in earlier[b] =>
             c # b /\ Joined(b) /\ Joined(c) /\ node[c] = node[b]
    BY <1>2 DEF ChainInv, NodeInv, TypeOK, JoinChain, Joined
  <2>2. /\ \A b \in Alerts : node'[b] = IF b = a THEN s ELSE node[b]
        /\ \A b \in Alerts :
             earlier'[b] = IF b = a THEN {c \in Alerts : node[c] = s} ELSE earlier[b]
    BY <1>2 DEF ChainInv, TypeOK, JoinChain
  <2>3. \A b \in Alerts : earlier[b] \subseteq Alerts
    BY DEF ChainInv, TypeOK
  <2>4. ASSUME NEW b \in Alerts, NEW c \in Alerts
        PROVE  /\ Joined(b)' /\ node'[b] = node'[c] /\ b # c =>
                    b \in earlier'[c] \/ c \in earlier'[b]
               /\ b \in earlier'[c] => c \notin earlier'[b] /\ earlier'[b] \subseteq earlier'[c]
    <3> DEFINE Ordered(d, e) ==
                 /\ Joined(d) /\ node[d] = node[e] /\ d # e =>
                      d \in earlier[e] \/ e \in earlier[d]
                 /\ d \in earlier[e] => e \notin earlier[d] /\ earlier[d] \subseteq earlier[e]
    <3>1. Ordered(b, c) /\ Ordered(c, b)
      BY DEF TurnInv
    <3>2. CASE b = a /\ c = a
      BY <2>1, <2>2, <3>2, ZenonT(40) DEF Joined
    <3>3. CASE b # a /\ c # a
      <4>1. /\ node'[b] = node[b] /\ node'[c] = node[c]
            /\ earlier'[b] = earlier[b] /\ earlier'[c] = earlier[c]
        BY <2>2, <3>3
      <4>2. Joined(b)' = Joined(b)
        BY <4>1 DEF Joined
      <4>3. QED
        BY <3>1, <4>1, <4>2
    <3>4. CASE b = a /\ c # a
      <4>1. /\ node'[b] = s /\ node'[c] = node[c] /\ earlier'[c] = earlier[c]
            /\ earlier'[b] = {d \in Alerts : node[d] = s}
        BY <2>2, <3>4
      <4>2. b \notin earlier'[c]
        BY <2>1, <3>4, <4>1
      <4>3. node'[b] = node'[c] => c \in earlier'[b]
        BY <4>1
      <4>4. QED
        BY <4>2, <4>3
    <3>5. CASE b # a /\ c = a
      <4>1. /\ node'[c] = s /\ node'[b] = node[b] /\ earlier'[b] = earlier[b]
            /\ earlier'[c] = {d \in Alerts : node[d] = s}
        BY <2>2, <3>5
      <4>2. c \notin earlier'[b]
        BY <2>1, <3>5, <4>1
      <4>3. node'[b] = node'[c] => b \in earlier'[c]
        BY <4>1
      <4>4. b \in earlier'[c] => earlier'[b] \subseteq earlier'[c]
        BY <2>1, <2>3, <4>1
      <4>5. QED
        BY <4>2, <4>3, <4>4
    <3>6. QED
      BY <3>2, <3>3, <3>4, <3>5
  <2>5. QED
    BY <2>4 DEF TurnInv
<1>3. QED
  BY <1>1, <1>2
  DEF Next, vars, taskVars, Accept, ResolveNothing, Gathered, ExtractRaises,
      PreviousEnded, NoReply, Reply, SendReturned, Cancelled, Close, CloseReturns,
      Unloaded

(* A task whose turn was in order stays in order, and was so before.        *)
LEMMA UndisturbedBefore ==
  ASSUME ChainInv, Steady, NEW a \in Alerts, Joined(a), Undisturbed(a)'
  PROVE  Undisturbed(a)
<1>1. \A b \in earlier[a] : b \in Alerts
  BY DEF ChainInv, TypeOK
<1>2. QED
  BY <1>1 DEF Steady, Undisturbed, Ended

(* Only a reply gives a task its first target. *)
LEMMA OnlyRepliesSend ==
  ASSUME ChainInv, SentInv, [Next]_vars, NEW a \in Alerts
  PROVE  /\ phase'[a] = "sending" => target'[a] > 0
         /\ target'[a] > 0 => phase'[a] \in {"sending", "done", "cancelled"}
         /\ target'[a] > 0 /\ ~(target[a] > 0) => Reply(a) /\ ~Closed
<1> DEFINE Goal == /\ phase'[a] = "sending" => target'[a] > 0
                   /\ target'[a] > 0 => phase'[a] \in {"sending", "done", "cancelled"}
                   /\ target'[a] > 0 /\ ~(target[a] > 0) => Reply(a) /\ ~Closed
<1> SUFFICES Goal
  OBVIOUS
<1>1. /\ TypeOK
      /\ phase[a] = "sending" => target[a] > 0
      /\ target[a] > 0 => phase[a] \in {"sending", "done", "cancelled"}
  BY DEF ChainInv, SentInv
<1>2. CASE UNCHANGED <<phase, target>>
  BY <1>1, <1>2
<1>3. ASSUME NEW b \in Alerts, NEW how \in {"resolving", "gathering", "waiting", "asking", "done", "failed", "cancelled"},
             target' = target, phase' = [phase EXCEPT ![b] = how],
             target[b] > 0 => how \in {"done", "cancelled"}
      PROVE  Goal
  BY <1>1, <1>3 DEF TypeOK
<1>4. ASSUME NEW b \in Alerts, NEW t \in Times, Accept(b, t)
      PROVE  Goal
  <2>1. target' = target /\ phase' = [phase EXCEPT ![b] = "resolving"] /\ phase[b] = "idle"
    BY <1>4 DEF Accept
  <2>2. ~(target[b] > 0)
    BY <2>1 DEF SentInv
  <2>3. QED
    BY <1>3, <2>1, <2>2
<1>5. ASSUME NEW b \in Alerts, NEW s \in Systems, JoinChain(b, s)
      PROVE  Goal
  <2>1. /\ target' = target /\ phase' = [phase EXCEPT ![b] = "gathering"]
        /\ phase[b] = "resolving"
    BY <1>5 DEF JoinChain
  <2>2. ~(target[b] > 0)
    BY <2>1 DEF SentInv
  <2>3. QED
    BY <1>3, <2>1, <2>2
<1>6. ASSUME NEW b \in Alerts, ResolveNothing(b) \/ NoReply(b)
      PROVE  Goal
  <2>1. target' = target /\ phase' = [phase EXCEPT ![b] = "done"]
    BY <1>6 DEF ResolveNothing, NoReply, Finish, taskVars
  <2>2. QED
    BY <1>3, <2>1
<1>7. ASSUME NEW b \in Alerts, Cancelled(b)
      PROVE  Goal
  <2>1. target' = target /\ phase' = [phase EXCEPT ![b] = "cancelled"]
    BY <1>7 DEF Cancelled, taskVars
  <2>2. QED
    BY <1>3, <2>1
<1>8. ASSUME NEW b \in Alerts,
             \/ \E prompt \in BOOLEAN : Gathered(b, prompt)
             \/ ExtractRaises(b)
             \/ PreviousEnded(b)
      PROVE  Goal
  <2>1. PICK how \in {"waiting", "asking", "done", "failed"} :
          phase' = [phase EXCEPT ![b] = how]
    BY <1>8 DEF Gathered, ExtractRaises, PreviousEnded, StartAsking, Finish
  <2>2. target' = target /\ phase[b] \in {"gathering", "waiting"}
    BY <1>8 DEF Gathered, ExtractRaises, PreviousEnded, taskVars
  <2>3. ~(target[b] > 0)
    BY <2>2 DEF SentInv
  <2>4. QED
    BY <1>3, <2>1, <2>2, <2>3
<1>9. ASSUME NEW b \in Alerts, Reply(b)
      PROVE  Goal
  <2>1. CASE Closed
    <3>1. target' = target /\ phase' = [phase EXCEPT ![b] = "done"]
      BY <1>9, <2>1 DEF Reply, Finish
    <3>2. QED
      BY <1>3, <3>1
  <2>2. CASE ~Closed
    <3>1. /\ target' = [target EXCEPT ![b] = 1]
          /\ phase' = [phase EXCEPT ![b] = "sending"]
      BY <1>9, <2>2 DEF Reply
    <3>2. CASE b = a
      BY <1>1, <1>9, <2>2, <3>1, <3>2 DEF TypeOK
    <3>3. CASE b # a
      BY <1>1, <3>1, <3>3 DEF TypeOK
    <3>4. QED
      BY <3>2, <3>3
  <2>3. QED
    BY <2>1, <2>2
<1>10. ASSUME NEW b \in Alerts, SendReturned(b)
       PROVE  Goal
  <2>1. CASE target' = target /\ phase' = [phase EXCEPT ![b] = "done"]
    BY <1>3, <2>1
  <2>2. CASE target' = [target EXCEPT ![b] = target[b] + 1] /\ phase' = phase
    <3>1. target[b] > 0 /\ target[b] \in Nat
      BY <1>10 DEF SendReturned, ChainInv, TypeOK, SentInv
    <3>2. QED
      BY <1>1, <2>2, <3>1 DEF TypeOK
  <2>3. QED
    BY <1>10, <2>1, <2>2 DEF SendReturned, Finish
<1>11. CASE Close \/ CloseReturns \/ UNCHANGED vars
  BY <1>2, <1>11 DEF Close, CloseReturns, vars, taskVars
<1>12. QED
  BY <1>4, <1>5, <1>6, <1>7, <1>8, <1>9, <1>10, <1>11 DEF Next, Unloaded

LEMMA SentStep ==
  ASSUME ChainInv, SentInv, [Next]_vars
  PROVE  SentInv'
<1> SUFFICES ASSUME NEW a \in Alerts
             PROVE  /\ phase'[a] = "sending" => target'[a] > 0
                    /\ target'[a] > 0 =>
                         /\ Joined(a)' /\ phase'[a] \in {"sending", "done", "cancelled"}
                         /\ Undisturbed(a)' => \A b \in earlier'[a] : phase'[b] \in Ended
  BY DEF SentInv
<1>1. /\ phase'[a] = "sending" => target'[a] > 0
      /\ target'[a] > 0 => phase'[a] \in {"sending", "done", "cancelled"}
      /\ target'[a] > 0 /\ ~(target[a] > 0) => Reply(a)
  BY OnlyRepliesSend
<1>2. Steady
  BY StepsAreSteady
<1>3. SUFFICES ASSUME target'[a] > 0
               PROVE  /\ Joined(a)'
                      /\ Undisturbed(a)' => \A b \in earlier'[a] : phase'[b] \in Ended
  BY <1>1
<1>4. /\ Joined(a)
      /\ Undisturbed(a) => \A b \in earlier[a] : phase[b] \in Ended
  <2>1. CASE target[a] > 0
    BY <2>1 DEF SentInv
  <2>2. CASE ~(target[a] > 0)
    <3>1. phase[a] = "asking"
      BY <1>1, <1>3, <2>2 DEF Reply
    <3>2. QED
      BY <3>1 DEF ChainInv, NodeInv, OrderUnlessOneFails, HadTurn
  <2>3. QED
    BY <2>1, <2>2
<1>5. Joined(a)' /\ earlier'[a] = earlier[a]
  BY <1>2, <1>4 DEF Steady, Joined
<1>6. \A b \in earlier[a] : b \in Alerts
  BY DEF ChainInv, TypeOK
<1>7. ASSUME Undisturbed(a)'
      PROVE  \A b \in earlier'[a] : phase'[b] \in Ended
  <2>1. Undisturbed(a)
    BY <1>2, <1>4, <1>7, UndisturbedBefore
  <2>2. QED
    BY <1>2, <1>4, <1>5, <1>6, <2>1 DEF Steady
<1>8. QED
  BY <1>5, <1>7

(* Who has diagnosed something has done so before anyone who has not ended. *)
LEMMA DiagnosedBefore ==
  ASSUME ChainInv, TurnInv, SentInv, NEW a \in Alerts, Joined(a), phase[a] \notin Ended,
         InTurn(node[a])
  PROVE  \A b \in Alerts : node[b] = node[a] /\ b # a /\ target[b] > 0 => b \in earlier[a]
<1> SUFFICES ASSUME NEW b \in Alerts, node[b] = node[a], b # a, target[b] > 0,
                    a \in earlier[b]
             PROVE  FALSE
  BY DEF TurnInv
<1>1. Undisturbed(b)
  BY DEF InTurn
<1>2. QED
  BY <1>1 DEF SentInv

(* Appending to the deque keeps the newest.                                *)
LEMMA KeepsNewest ==
  ASSUME NEW kept \in Seq(Records), NEW D \in SUBSET Alerts, NEW time, NEW before,
         NEW a \in Alerts, HasNewest(kept, D, time, before),
         \A b \in D : b \in before[a],
         time[a] \in Nat
  PROVE  HasNewest(KeepRecord(kept, [alert |-> a, time |-> time[a]]), D \cup {a}, time, before)
<1> DEFINE r == [alert |-> a, time |-> time[a]]
           new == KeepRecord(kept, r)
<1>1. /\ r \in Records /\ r.alert = a /\ r.time = time[a]
      /\ Len(kept) \in Nat /\ MaxRecords \in Nat \ {0}
  BY HistoryAssumption DEF Records
<1>2. /\ Len(kept) <= MaxRecords
      /\ \A i \in DOMAIN kept : kept[i].alert \in D /\ kept[i].time = time[kept[i].alert]
      /\ \A i, j \in DOMAIN kept : i < j => kept[i].alert \in before[kept[j].alert]
      /\ \A b \in D : \/ \E i \in DOMAIN kept : kept[i].alert = b
                      \/ /\ Len(kept) = MaxRecords
                         /\ \A i \in DOMAIN kept : b \in before[kept[i].alert]
  BY DEF HasNewest
<1> HIDE DEF r
<1>3. CASE Len(kept) < MaxRecords
  <2>1. /\ new = Append(kept, r)
        /\ Len(new) = Len(kept) + 1 /\ DOMAIN new = 1 .. Len(kept) + 1
        /\ \A i \in 1 .. Len(kept) : new[i] = kept[i]
        /\ new[Len(kept) + 1] = r
    BY <1>1, <1>3 DEF KeepRecord
  <2>2. DOMAIN kept = 1 .. Len(kept)
    OBVIOUS
  <2> HIDE DEF new
  <2>3. ASSUME NEW i \in DOMAIN new
        PROVE  \/ i \in DOMAIN kept /\ new[i] = kept[i]
               \/ i = Len(kept) + 1 /\ new[i] = r
    <3>1. i \in 1 .. Len(kept) + 1
      BY <2>1
    <3>2. i \in 1 .. Len(kept) \/ i = Len(kept) + 1
      BY <1>1, <3>1
    <3>3. QED
      BY <2>1, <2>2, <3>2
  <2>4. \A i \in DOMAIN new : new[i].alert \in D \cup {a} /\ new[i].time = time[new[i].alert]
    BY <1>1, <1>2, <2>3
  <2>5. \A i, j \in DOMAIN new : i < j => new[i].alert \in before[new[j].alert]
    <3> SUFFICES ASSUME NEW i \in DOMAIN new, NEW j \in DOMAIN new, i < j
                 PROVE  new[i].alert \in before[new[j].alert]
      OBVIOUS
    <3>1. i \in DOMAIN kept /\ new[i] = kept[i]
      <4>1. j \in 1 .. Len(kept) + 1
        BY <2>1
      <4>2. i # Len(kept) + 1
        BY <1>1, <4>1
      <4>3. QED
        BY <2>3, <4>2
    <3>2. CASE j \in DOMAIN kept /\ new[j] = kept[j]
      BY <1>2, <3>1, <3>2
    <3>3. CASE new[j] = r
      BY <1>1, <1>2, <3>1, <3>3
    <3>4. QED
      BY <2>3, <3>2, <3>3
  <2>6. ASSUME NEW b \in D \cup {a}
        PROVE  \E i \in DOMAIN new : new[i].alert = b
    <3>1. CASE b = a
      <4>1. Len(kept) + 1 \in DOMAIN new
        BY <1>1, <2>1
      <4>2. QED
        BY <1>1, <2>1, <3>1, <4>1
    <3>2. CASE b \in D
      <4>1. PICK i \in DOMAIN kept : kept[i].alert = b
        BY <1>2, <1>3, <3>2
      <4>2. i \in DOMAIN new /\ new[i] = kept[i]
        BY <1>1, <2>1, <2>2
      <4>3. QED
        BY <4>1, <4>2
    <3>3. QED
      BY <3>1, <3>2
  <2>7. HasNewest(new, D \cup {a}, time, before)
    BY <1>1, <1>3, <2>1, <2>4, <2>5, <2>6 DEF HasNewest
  <2>8. QED
    BY <2>7 DEF new, r
<1>4. CASE ~(Len(kept) < MaxRecords)
  <2> DEFINE rest == Tail(kept)
  <2>1. /\ Len(kept) = MaxRecords /\ kept # << >>
        /\ rest \in Seq(Records) /\ Len(rest) = MaxRecords - 1
        /\ \A i \in 1 .. MaxRecords - 1 : rest[i] = kept[i + 1]
    BY <1>1, <1>2, <1>4
  <2> HIDE DEF rest
  <2>2. /\ new = Append(rest, r)
        /\ Len(new) = MaxRecords /\ DOMAIN new = 1 .. MaxRecords
        /\ \A i \in 1 .. MaxRecords - 1 : new[i] = kept[i + 1]
        /\ new[MaxRecords] = r
    <3>1. new = Append(rest, r)
      BY <1>4 DEF KeepRecord, rest
    <3>2. QED
      BY <1>1, <2>1, <3>1
  <2>3. DOMAIN kept = 1 .. MaxRecords
    BY <2>1
  <2> HIDE DEF new
  <2>4. ASSUME NEW i \in DOMAIN new
        PROVE  \/ i < MaxRecords /\ i + 1 \in DOMAIN kept /\ new[i] = kept[i + 1]
               \/ i = MaxRecords /\ new[i] = r
    <3>1. i \in 1 .. MaxRecords
      BY <2>2
    <3>2. CASE i = MaxRecords
      BY <2>2, <3>2
    <3>3. CASE i # MaxRecords
      <4>1. i \in 1 .. MaxRecords - 1 /\ i < MaxRecords /\ i + 1 \in 1 .. MaxRecords
        BY <1>1, <3>1, <3>3
      <4>2. QED
        BY <2>2, <2>3, <4>1
    <3>4. QED
      BY <3>2, <3>3
  <2>5. \A i \in DOMAIN new : new[i].alert \in D \cup {a} /\ new[i].time = time[new[i].alert]
    BY <1>1, <1>2, <2>4
  <2>6. \A i, j \in DOMAIN new : i < j => new[i].alert \in before[new[j].alert]
    <3> SUFFICES ASSUME NEW i \in DOMAIN new, NEW j \in DOMAIN new, i < j
                 PROVE  new[i].alert \in before[new[j].alert]
      OBVIOUS
    <3>1. i \in 1 .. MaxRecords /\ j \in 1 .. MaxRecords
      BY <2>2
    <3>2. i + 1 \in DOMAIN kept /\ new[i] = kept[i + 1]
      BY <1>1, <2>4, <3>1
    <3>3. CASE j + 1 \in DOMAIN kept /\ new[j] = kept[j + 1]
      <4>1. i + 1 < j + 1
        BY <3>1
      <4>2. QED
        BY <1>2, <3>2, <3>3, <4>1
    <3>4. CASE new[j] = r
      BY <1>1, <1>2, <3>2, <3>4
    <3>5. QED
      BY <2>4, <3>3, <3>4
  <2>7. ASSUME NEW b \in D \cup {a}
        PROVE  \/ \E i \in DOMAIN new : new[i].alert = b
               \/ \A i \in DOMAIN new : b \in before[new[i].alert]
    <3>1. CASE b = a
      <4>1. MaxRecords \in DOMAIN new
        BY <1>1, <2>2
      <4>2. QED
        BY <1>1, <2>2, <3>1, <4>1
    <3>2. ASSUME NEW i \in DOMAIN kept, kept[i].alert = b, i # 1
          PROVE  \E j \in DOMAIN new : new[j].alert = b
      <4>1. i - 1 \in 1 .. MaxRecords - 1 /\ (i - 1) + 1 = i
        BY <1>1, <2>3, <3>2
      <4>2. new[i - 1] = kept[i] /\ i - 1 \in DOMAIN new
        BY <1>1, <2>2, <4>1
      <4>3. QED
        BY <3>2, <4>2
    <3>3. CASE b \in D /\ kept[1].alert = b
      <4>1. \A i \in DOMAIN kept : i # 1 => b \in before[kept[i].alert]
        BY <1>1, <1>2, <2>3, <3>3
      <4>2. \A i \in DOMAIN new : i < MaxRecords => i + 1 # 1
        BY <2>2
      <4>3. QED
        BY <1>1, <2>4, <3>3, <4>1, <4>2
    <3>4. CASE b \in D /\ \A i \in DOMAIN kept : b \in before[kept[i].alert]
      BY <1>1, <2>4, <3>4
    <3>5. QED
      BY <1>2, <3>1, <3>2, <3>3, <3>4
  <2>8. Len(new) <= MaxRecords /\ Len(new) = MaxRecords
    BY <1>1, <2>2
  <2>9. HasNewest(new, D \cup {a}, time, before)
    BY <2>5, <2>6, <2>7, <2>8 DEF HasNewest
  <2>10. QED
    BY <2>9 DEF new, r
<1>5. QED
  BY <1>3, <1>4

(* What a deque has depends on the diagnoses it has to keep only.          *)
LEMMA SameNewest ==
  ASSUME NEW kept, NEW D, NEW time, NEW before, NEW time2, NEW before2,
         HasNewest(kept, D, time, before),
         \A b \in D : time2[b] = time[b] /\ before2[b] = before[b]
  PROVE  HasNewest(kept, D, time2, before2)
BY DEF HasNewest

LEMMA RecordsStep ==
  ASSUME ChainInv, TurnInv, SentInv, RecordsInv, [Next]_vars
  PROVE  RecordsInv'
<1>1. Steady /\ TypeOK
  BY StepsAreSteady DEF ChainInv
<1>2. \/ records' = records /\ \A b \in Alerts : ~(Reply(b) /\ ~Closed)
      \/ \E a \in Alerts : Reply(a) /\ ~Closed
  BY DEF Next, vars, Accept, ResolveNothing, JoinChain, Gathered, ExtractRaises,
         PreviousEnded, NoReply, Reply, SendReturned, Cancelled, Close, CloseReturns,
         Unloaded
<1> SUFFICES ASSUME NEW s \in Systems, InTurn(s)'
             PROVE  HasNewest(records'[s], Diagnoses(s)', refTime', earlier')
  BY DEF RecordsInv
<1>3. \A b \in Alerts : target[b] > 0 =>
        /\ target'[b] > 0 /\ Joined(b) /\ node'[b] = node[b]
        /\ refTime'[b] = refTime[b] /\ earlier'[b] = earlier[b]
  BY <1>1 DEF Steady, SentInv
<1>4. HasNewest(records[s], Diagnoses(s), refTime, earlier) /\ InTurn(s)
  <2>1. ASSUME NEW b \in Alerts, node[b] = s, target[b] > 0
        PROVE  Undisturbed(b)
    <3>1. Undisturbed(b)'
      BY <1>3, <2>1 DEF InTurn
    <3>2. QED
      BY <1>1, <1>3, <2>1, <3>1, UndisturbedBefore
  <2>2. QED
    BY <2>1 DEF InTurn, RecordsInv
<1>5. HasNewest(records[s], Diagnoses(s), refTime', earlier')
  BY <1>3, <1>4, SameNewest DEF Diagnoses
<1>6. CASE records' = records /\ \A b \in Alerts : ~(Reply(b) /\ ~Closed)
  <2>1. \A b \in Alerts : target'[b] > 0 <=> target[b] > 0
    BY <1>3, <1>6, OnlyRepliesSend
  <2>2. Diagnoses(s)' = Diagnoses(s)
    BY <1>3, <2>1 DEF Diagnoses
  <2>3. QED
    BY <1>5, <1>6, <2>2
<1>7. ASSUME NEW a \in Alerts, Reply(a), ~Closed
      PROVE  HasNewest(records'[s], Diagnoses(s)', refTime', earlier')
  <2>1. /\ records' = IF ContextHours = 0 THEN records
                      ELSE [records EXCEPT ![node[a]] = KeepRecord(@,
                              [alert |-> a, time |-> refTime[a]])]
        /\ target' = [target EXCEPT ![a] = 1] /\ node' = node
        /\ refTime' = refTime /\ earlier' = earlier /\ phase[a] = "asking"
    BY <1>7 DEF Reply
  <2>2. Joined(a) /\ target[a] = 0
    <3>1. Joined(a) /\ ~(target[a] > 0)
      BY <2>1 DEF ChainInv, NodeInv, SentInv
    <3>2. target[a] \in Nat
      BY <1>1 DEF TypeOK
    <3>3. QED
      BY <3>1, <3>2
  <2>3. \A b \in Alerts : target'[b] > 0 <=> target[b] > 0 \/ b = a
    BY <1>1, <2>1 DEF TypeOK
  <2>4. CASE node[a] # s \/ ContextHours = 0
    <3>1. records'[s] = records[s]
      BY <1>1, <2>1, <2>4 DEF TypeOK
    <3>2. Diagnoses(s)' = Diagnoses(s)
      BY <2>1, <2>3, <2>4 DEF Diagnoses
    <3>3. QED
      BY <1>5, <3>1, <3>2
  <2>5. CASE node[a] = s /\ ContextHours # 0
    <3>1. records'[s] = KeepRecord(records[s], [alert |-> a, time |-> refTime[a]])
      BY <1>1, <2>1, <2>5 DEF TypeOK
    <3>2. Diagnoses(s)' = Diagnoses(s) \cup {a}
      BY <2>1, <2>3, <2>5, HistoryAssumption DEF Diagnoses
    <3>3. \A b \in Diagnoses(s) : b \in earlier[a]
      <4>1. phase[a] \notin Ended
        BY <2>1 DEF Ended
      <4>2. QED
        BY <1>4, <2>2, <2>5, <4>1, DiagnosedBefore DEF Diagnoses
    <3>4. records[s] \in Seq(Records) /\ refTime[a] \in Nat /\ Diagnoses(s) \subseteq Alerts
      BY <1>1 DEF TypeOK, Diagnoses
    <3>5. HasNewest(KeepRecord(records[s], [alert |-> a, time |-> refTime[a]]),
                    Diagnoses(s) \cup {a}, refTime, earlier)
      BY <1>4, <3>3, <3>4, KeepsNewest
    <3>6. QED
      BY <2>1, <3>1, <3>2, <3>5
  <2>6. QED
    BY <2>4, <2>5
<1>8. QED
  BY <1>2, <1>6, <1>7

(* The remembered diagnoses are those in the deque. *)
LEMMA RememberedIsKept ==
  ASSUME ChainInv, TurnInv, NEW a \in Alerts, NEW kept \in Seq(Records),
         HasNewest(kept, Diagnosed(a), refTime, earlier)
  PROVE  Remembered(a) = {kept[i].alert : i \in DOMAIN kept}
<1> DEFINE D == Diagnosed(a)
           n == Len(kept)
           Later(b) == {c \in D : b \in earlier[c]}
<1>0. /\ n \in Nat /\ n <= MaxRecords /\ DOMAIN kept = 1 .. n
      /\ MaxRecords \in Nat \ {0}
  BY HistoryAssumption DEF HasNewest
<1>1. /\ \A i \in DOMAIN kept : kept[i].alert \in D
      /\ \A i, j \in DOMAIN kept : i < j => kept[i].alert \in earlier[kept[j].alert]
      /\ \A b \in D : \/ \E i \in DOMAIN kept : kept[i].alert = b
                      \/ /\ n = MaxRecords
                         /\ \A i \in DOMAIN kept : b \in earlier[kept[i].alert]
  BY DEF HasNewest
<1>2. D \subseteq Alerts /\ IsFiniteSet(D)
  <2>1. D \subseteq Alerts
    BY DEF Diagnosed, ChainInv, TypeOK
  <2>2. IsFiniteSet(Alerts)
    BY ChainAssumption, FS_Interval DEF Alerts
  <2>3. QED
    BY <2>1, <2>2, FS_Subset
<1>3. Remembered(a) = {b \in D : Cardinality(Later(b)) < MaxRecords}
  BY DEF Remembered
<1>4. \A b, c \in D : b \in earlier[c] => c \notin earlier[b] /\ b # c
  BY <1>2 DEF TurnInv, ChainInv, NodeInv
<1>5. \A b : IsFiniteSet(Later(b)) /\ Cardinality(Later(b)) \in Nat
  <2> SUFFICES ASSUME NEW b
               PROVE  IsFiniteSet(Later(b)) /\ Cardinality(Later(b)) \in Nat
    OBVIOUS
  <2>1. Later(b) \subseteq D
    OBVIOUS
  <2> HIDE DEF Later
  <2>2. QED
    BY <1>2, <2>1, FS_Subset, FS_CardinalityType
<1>6. \A b, c : c \in Later(b) <=> c \in D /\ b \in earlier[c]
  OBVIOUS
<1> HIDE DEF D, n, Later
<1>7. ASSUME NEW i \in DOMAIN kept
      PROVE  Cardinality(Later(kept[i].alert)) < MaxRecords
  <2> DEFINE b == kept[i].alert
             f == [j \in i + 1 .. n |-> kept[j].alert]
  <2>0. i \in Nat /\ i >= 1 /\ i <= n
    BY <1>0, <1>7
  <2>1. \A j \in i + 1 .. n : j \in DOMAIN kept /\ i < j
    BY <1>0, <2>0
  <2>2. f \in [i + 1 .. n -> Later(b)]
    BY <1>1, <1>6, <2>1
  <2>3. ASSUME NEW c \in Later(b)
        PROVE  \E j \in i + 1 .. n : f[j] = c
    <3>1. c \in D /\ b \in earlier[c] /\ b \in D
      BY <1>1, <1>6
    <3>2. PICK j \in DOMAIN kept : kept[j].alert = c
      BY <1>1, <1>4, <3>1
    <3>3. ~(j < i) /\ j # i
      BY <1>1, <1>4, <3>1, <3>2
    <3>4. j \in i + 1 .. n
      <4>1. j \in Nat /\ j >= 1 /\ j <= n
        BY <1>0, <3>2
      <4>2. i < j
        BY <2>0, <3>3, <4>1
      <4>3. QED
        BY <1>0, <2>0, <4>1, <4>2
    <3>5. QED
      BY <3>2, <3>4
  <2>4. f \in Surjection(i + 1 .. n, Later(b))
    <3> HIDE DEF f, b
    <3>1. QED
      BY <2>2, <2>3 DEF Surjection
  <2>5. /\ IsFiniteSet(i + 1 .. n)
        /\ Cardinality(i + 1 .. n) < MaxRecords
    <3>1. i + 1 \in Int /\ n \in Int
      BY <1>0, <2>0
    <3>2. /\ IsFiniteSet(i + 1 .. n)
          /\ Cardinality(i + 1 .. n) = IF i + 1 > n THEN 0 ELSE n - (i + 1) + 1
      BY <3>1, FS_Interval
    <3>3. QED
      BY <1>0, <2>0, <3>2
  <2>6. Cardinality(Later(b)) <= Cardinality(i + 1 .. n)
    <3> HIDE DEF f, b
    <3>1. QED
      BY <2>4, <2>5, FS_Surjection
  <2>7. Cardinality(i + 1 .. n) \in Nat
    BY <2>5, FS_CardinalityType
  <2>8. QED
    BY <1>0, <1>5, <2>5, <2>6, <2>7
<1>8. ASSUME NEW b \in D, \A i \in DOMAIN kept : kept[i].alert # b
      PROVE  ~(Cardinality(Later(b)) < MaxRecords)
  <2> DEFINE f == [i \in 1 .. MaxRecords |-> kept[i].alert]
  <2>1. /\ DOMAIN kept = 1 .. MaxRecords
        /\ \A i \in DOMAIN kept : b \in earlier[kept[i].alert]
    BY <1>0, <1>1, <1>8
  <2>2. f \in [1 .. MaxRecords -> Later(b)]
    BY <1>1, <1>6, <2>1
  <2>3. ASSUME NEW i \in 1 .. MaxRecords, NEW j \in 1 .. MaxRecords, f[i] = f[j]
        PROVE  i = j
    <3>1. kept[i].alert = kept[j].alert /\ kept[i].alert \in D
      BY <1>1, <2>1, <2>3
    <3>2. ~(i < j) /\ ~(j < i)
      BY <1>1, <1>4, <2>1, <3>1
    <3>3. QED
      <4>1. i \in Int /\ j \in Int
        BY <1>0
      <4>2. QED
        BY <3>2, <4>1
  <2>4. f \in Injection(1 .. MaxRecords, Later(b))
    <3> HIDE DEF f
    <3>1. QED
      BY <2>2, <2>3 DEF Injection, IsInjective
  <2>5. Cardinality(1 .. MaxRecords) = MaxRecords
    <3>1. 1 \in Int /\ MaxRecords \in Int /\ 1 <= MaxRecords
      BY <1>0
    <3>2. Cardinality(1 .. MaxRecords) = IF 1 > MaxRecords THEN 0 ELSE MaxRecords - 1 + 1
      BY <3>1, FS_Interval
    <3>3. QED
      BY <3>1, <3>2
  <2>6. Cardinality(1 .. MaxRecords) <= Cardinality(Later(b))
    <3> HIDE DEF f
    <3>1. QED
      BY <1>5, <2>4, FS_Injection
  <2>7. QED
    BY <1>0, <1>5, <2>5, <2>6
<1>9. QED
  BY <1>1, <1>3, <1>7, <1>8

(* The diagnoses a prompt should carry. *)
Due(a) ==
  LET recent == {b \in InWindow(a) : refTime[a] - refTime[b] < RecentSeconds}
      newest == {b \in InWindow(a) : InWindow(a) \subseteq earlier[b] \cup {b}}
  IN  IF recent # {} THEN recent ELSE newest

(* select_history takes from the deque what is due. *)
LEMMA SelectsWhatIsDue ==
  ASSUME ChainInv, TurnInv, NEW a \in Alerts, NEW kept \in Seq(Records),
         HasNewest(kept, Diagnosed(a), refTime, earlier)
  PROVE  {r.alert : r \in SelectHistory(kept, refTime[a])} = Due(a)
<1> DEFINE D == Diagnosed(a)
           age(i) == refTime[a] - kept[i].time
           inWindow == {i \in DOMAIN kept : age(i) >= 0 /\ age(i) <= ContextSeconds}
           recent == {i \in inWindow : age(i) < RecentSeconds}
           lastOne == {i \in inWindow : \A j \in inWindow : j <= i}
           recentDue == {b \in InWindow(a) : refTime[a] - refTime[b] < RecentSeconds}
           newestDue == {b \in InWindow(a) : InWindow(a) \subseteq earlier[b] \cup {b}}
<1>1. /\ DOMAIN kept \subseteq Nat
      /\ \A i \in DOMAIN kept : kept[i].alert \in D /\ kept[i].time = refTime[kept[i].alert]
      /\ \A i, j \in DOMAIN kept : i < j => kept[i].alert \in earlier[kept[j].alert]
  BY DEF HasNewest
<1>2. D \subseteq Alerts
  BY DEF Diagnosed, ChainInv, TypeOK
<1>3. /\ \A b \in Alerts : refTime[b] \in Nat
      /\ ContextSeconds \in Nat /\ RecentSeconds \in Nat
  BY HistoryAssumption DEF ChainInv, TypeOK, ContextSeconds, RecentSeconds
<1>4. \A b, c \in D : b \in earlier[c] => c \notin earlier[b] /\ b # c
  BY <1>2 DEF TurnInv, ChainInv, NodeInv
<1>5. Remembered(a) = {kept[i].alert : i \in DOMAIN kept}
  BY RememberedIsKept
<1>6. \A i \in DOMAIN kept : age(i) = refTime[a] - refTime[kept[i].alert]
  BY <1>1
<1>7. \A i \in DOMAIN kept : i \in inWindow <=> kept[i].alert \in InWindow(a)
  BY <1>1, <1>2, <1>3, <1>5, <1>6 DEF InWindow
<1>8. \A b \in InWindow(a) : \E i \in inWindow : kept[i].alert = b
  BY <1>5, <1>7 DEF InWindow
<1>9. \A i : i \in inWindow => i \in DOMAIN kept
  OBVIOUS
<1>10. \A i : i \in recent <=> i \in inWindow /\ age(i) < RecentSeconds
  OBVIOUS
<1>11. \A i : i \in lastOne <=> i \in inWindow /\ \A j \in inWindow : j <= i
  OBVIOUS
<1>12. SelectHistory(kept, refTime[a]) = {kept[i] : i \in IF recent # {} THEN recent ELSE lastOne}
  BY DEF SelectHistory
<1>13. Due(a) = IF recentDue # {} THEN recentDue ELSE newestDue
  BY DEF Due
<1>14. \A b : b \in recentDue <=> b \in InWindow(a) /\ refTime[a] - refTime[b] < RecentSeconds
  OBVIOUS
<1>15. \A b : b \in newestDue <=> b \in InWindow(a) /\ InWindow(a) \subseteq earlier[b] \cup {b}
  OBVIOUS
<1> HIDE DEF D, age, inWindow, recent, lastOne, recentDue, newestDue
<1>16. recentDue = {kept[i].alert : i \in recent}
  BY <1>6, <1>7, <1>8, <1>9, <1>10, <1>14
<1>17. newestDue = {kept[i].alert : i \in lastOne}
  <2>1. ASSUME NEW i \in lastOne
        PROVE  kept[i].alert \in newestDue
    <3>1. i \in inWindow /\ i \in DOMAIN kept /\ kept[i].alert \in InWindow(a)
      BY <1>7, <1>9, <1>11
    <3>2. ASSUME NEW b \in InWindow(a)
          PROVE  b \in earlier[kept[i].alert] \cup {kept[i].alert}
      <4>1. PICK j \in inWindow : kept[j].alert = b
        BY <1>8
      <4>2. j \in DOMAIN kept /\ (j < i \/ j = i)
        BY <1>1, <1>9, <1>11, <3>1, <4>1
      <4>3. QED
        BY <1>1, <3>1, <4>1, <4>2
    <3>3. QED
      BY <1>15, <3>1, <3>2
  <2>2. ASSUME NEW b \in newestDue
        PROVE  \E i \in lastOne : kept[i].alert = b
    <3>1. b \in InWindow(a) /\ InWindow(a) \subseteq earlier[b] \cup {b}
      BY <1>15
    <3>2. PICK i \in inWindow : kept[i].alert = b
      BY <1>8, <3>1
    <3>3. ASSUME NEW j \in inWindow
          PROVE  j <= i
      <4>1. i \in DOMAIN kept /\ j \in DOMAIN kept /\ kept[j].alert \in InWindow(a)
        BY <1>7, <1>9, <3>2
      <4>2. kept[j].alert \in earlier[b] \cup {b}
        BY <3>1, <4>1
      <4>3. ~(i < j)
        BY <1>1, <1>4, <3>2, <4>1, <4>2
      <4>4. QED
        BY <1>1, <4>1, <4>3
    <3>4. QED
      BY <1>11, <3>2, <3>3
  <2>3. QED
    BY <2>1, <2>2
<1>18. recent # {} <=> recentDue # {}
  BY <1>16
<1>19. CASE recent # {}
  BY <1>12, <1>13, <1>16, <1>18, <1>19
<1>20. CASE recent = {}
  BY <1>12, <1>13, <1>17, <1>18, <1>20
<1>21. QED
  BY <1>19, <1>20

(* What is due to a task is settled when its predecessors have ended.       *)
LEMMA DueStays ==
  ASSUME ChainInv, Steady, NEW a \in Alerts, Joined(a),
         \A b \in earlier[a] : phase[b] \in Ended
  PROVE  Due(a)' = Due(a)
<1>1. \A b \in earlier[a] : b \in Alerts /\ Joined(b)
  BY DEF ChainInv, TypeOK, NodeInv, Joined
<1>2. /\ earlier'[a] = earlier[a] /\ refTime'[a] = refTime[a]
      /\ \A b \in earlier[a] : /\ earlier'[b] = earlier[b]
                               /\ refTime'[b] = refTime[b]
                               /\ target'[b] = target[b]
  BY <1>1 DEF Steady
<1>3. Diagnosed(a)' = Diagnosed(a) /\ Diagnosed(a) \subseteq earlier[a]
  BY <1>2 DEF Diagnosed
<1>4. \A b : {c \in Diagnosed(a) : b \in earlier'[c]} = {c \in Diagnosed(a) : b \in earlier[c]}
  BY <1>2, <1>3
<1>5. Remembered(a)' = Remembered(a) /\ Remembered(a) \subseteq earlier[a]
  BY <1>3, <1>4 DEF Remembered
<1>6. InWindow(a)' = InWindow(a) /\ InWindow(a) \subseteq earlier[a]
  BY <1>2, <1>5 DEF InWindow
<1>7. \A b \in InWindow(a) : earlier'[b] = earlier[b] /\ refTime'[b] = refTime[b]
  BY <1>2, <1>6
<1>8. {b \in InWindow(a)' : refTime'[a] - refTime'[b] < RecentSeconds}
        = {b \in InWindow(a) : refTime[a] - refTime[b] < RecentSeconds}
  BY <1>2, <1>6, <1>7
<1>9. {b \in InWindow(a)' : InWindow(a)' \subseteq earlier'[b] \cup {b}}
        = {b \in InWindow(a) : InWindow(a) \subseteq earlier[b] \cup {b}}
  BY <1>6, <1>7
<1>10. QED
  BY <1>8, <1>9 DEF Due

(* A task's context is settled by the step in which its turn begins. *)
LEMMA TurnBegins ==
  ASSUME ChainInv, SentInv, [Next]_vars, NEW a \in Alerts,
         phase'[a] \in {"asking", "sending"} \/ target'[a] > 0
  PROVE  \/ /\ phase[a] \in {"asking", "sending"} \/ target[a] > 0
            /\ context'[a] = context[a]
         \/ /\ phase[a] \in {"gathering", "waiting"}
            /\ context'[a] = SelectHistory(records[node[a]], refTime[a])
            /\ UNCHANGED <<node, refTime, target, earlier>>
<1> DEFINE Kept == /\ phase[a] \in {"asking", "sending"} \/ target[a] > 0
                   /\ context'[a] = context[a]
           Begun == /\ phase[a] \in {"gathering", "waiting"}
                    /\ context'[a] = SelectHistory(records[node[a]], refTime[a])
                    /\ UNCHANGED <<node, refTime, target, earlier>>
<1> SUFFICES Kept \/ Begun
  OBVIOUS
<1>1. TypeOK /\ a \in Alerts
  BY DEF ChainInv
<1>2. phase[a] \in {"asking", "sending"} \/ target[a] > 0 \/ phase'[a] = "asking"
  <2>1. CASE target'[a] > 0 /\ ~(target[a] > 0)
    BY <2>1, OnlyRepliesSend DEF Reply
  <2>2. CASE target[a] > 0
    BY <2>2
  <2>3. CASE ~(target'[a] > 0)
    BY <2>3, OnlyRepliesSend
  <2>4. QED
    BY <2>1, <2>2, <2>3
<1>3. ASSUME context'[a] = context[a], phase'[a] = "asking" => phase[a] = "asking"
      PROVE  Kept
  BY <1>2, <1>3
<1>4. ASSUME NEW b \in Alerts, phase[b] \in {"gathering", "waiting"}, StartAsking(b),
             UNCHANGED <<node, refTime, target, earlier>>
      PROVE  Kept \/ Begun
  <2>1. CASE a = b
    BY <1>1, <1>4, <2>1 DEF StartAsking, TypeOK
  <2>2. CASE a # b
    <3>1. context'[a] = context[a] /\ phase'[a] = phase[a]
      BY <1>1, <1>4, <2>2 DEF StartAsking, TypeOK
    <3>2. QED
      BY <1>3, <3>1
  <2>3. QED
    BY <2>1, <2>2
<1>5. ASSUME NEW b \in Alerts, NEW how \in Phases \ {"asking"},
             context' = context, phase' = [phase EXCEPT ![b] = how]
      PROVE  Kept
  BY <1>1, <1>3, <1>5 DEF TypeOK
<1>6. ASSUME NEW b \in Alerts, NEW prompt \in BOOLEAN, Gathered(b, prompt)
      PROVE  Kept \/ Begun
  <2>1. CASE StartAsking(b)
    BY <1>4, <1>6, <2>1 DEF Gathered
  <2>2. CASE ~StartAsking(b)
    <3>1. /\ context' = context
          /\ \E how \in {"waiting", "done"} : phase' = [phase EXCEPT ![b] = how]
      BY <1>6, <2>2 DEF Gathered, Finish
    <3>2. QED
      BY <1>5, <3>1 DEF Phases, Ended
  <2>3. QED
    BY <2>1, <2>2
<1>7. ASSUME NEW b \in Alerts, PreviousEnded(b)
      PROVE  Kept \/ Begun
  <2>1. CASE StartAsking(b)
    BY <1>4, <1>7, <2>1 DEF PreviousEnded
  <2>2. CASE ~StartAsking(b)
    <3>1. context' = context /\ phase' = [phase EXCEPT ![b] = "done"]
      BY <1>7, <2>2 DEF PreviousEnded, Finish
    <3>2. QED
      BY <1>5, <3>1 DEF Phases, Ended
  <2>3. QED
    BY <2>1, <2>2
<1>8. ASSUME NEW b \in Alerts,
             \/ \E t \in Times : Accept(b, t)
             \/ ResolveNothing(b)
             \/ \E s \in Systems : JoinChain(b, s)
             \/ ExtractRaises(b)
             \/ NoReply(b)
             \/ Cancelled(b)
      PROVE  Kept
  <2>1. /\ context' = context
        /\ \E how \in {"resolving", "gathering", "done", "failed", "cancelled"} :
             phase' = [phase EXCEPT ![b] = how]
    BY <1>8 DEF Accept, ResolveNothing, JoinChain, ExtractRaises, NoReply, Cancelled,
                Finish, taskVars
  <2>2. QED
    BY <1>5, <2>1 DEF Phases, Ended
<1>9. ASSUME NEW b \in Alerts, Reply(b) \/ SendReturned(b)
      PROVE  Kept
  <2>1. /\ context' = context
        /\ \/ phase' = phase
           \/ \E how \in {"sending", "done"} : phase' = [phase EXCEPT ![b] = how]
    BY <1>9 DEF Reply, SendReturned, Finish
  <2>2. CASE phase' = phase
    BY <1>3, <2>1, <2>2
  <2>3. QED
    BY <1>5, <2>1, <2>2 DEF Phases, Ended
<1>10. CASE Close \/ CloseReturns \/ UNCHANGED vars
  <2>1. context' = context /\ phase' = phase
    BY <1>10 DEF Close, CloseReturns, vars, taskVars
  <2>2. QED
    BY <1>3, <2>1
<1>11. QED
  BY <1>6, <1>7, <1>8, <1>9, <1>10 DEF Next, Unloaded

(* A prompt carries what is due when its task's turn begins, and since.     *)
LEMMA PromptStep ==
  ASSUME ChainInv, TurnInv, SentInv, RecordsInv, PromptSeesEarlierDiagnoses, [Next]_vars
  PROVE  PromptSeesEarlierDiagnoses'
<1> DEFINE Told(a) == phase[a] \in {"asking", "sending"} \/ target[a] > 0
           Orderly(a) == \A b \in Alerts : node[b] = node[a] /\ (b = a \/ target[b] > 0)
                                             => Undisturbed(b)
<1>1. PromptSeesEarlierDiagnoses <=>
        \A a \in Alerts :
          Told(a) /\ Orderly(a) => {r.alert : r \in context[a]} = Due(a)
  BY DEF PromptSeesEarlierDiagnoses, Due
<1>2. PromptSeesEarlierDiagnoses' <=>
        \A a \in Alerts :
          Told(a)' /\ Orderly(a)' => {r.alert : r \in context'[a]} = Due(a)'
  BY DEF PromptSeesEarlierDiagnoses, Due
<1> SUFFICES ASSUME NEW a \in Alerts, Told(a)', Orderly(a)'
             PROVE  {r.alert : r \in context'[a]} = Due(a)'
  BY <1>2
<1>3. Steady
  BY StepsAreSteady
<1>4. CASE Told(a) /\ context'[a] = context[a]
  <2>1. Joined(a)
    BY <1>4 DEF ChainInv, NodeInv, SentInv
  <2>2. Orderly(a)
    <3>1. SUFFICES ASSUME NEW b \in Alerts, node[b] = node[a], b = a \/ target[b] > 0
                   PROVE  Undisturbed(b)
      OBVIOUS
    <3>2. Joined(b)
      BY <2>1, <3>1 DEF Joined
    <3>3. node'[b] = node'[a] /\ (b = a \/ target'[b] > 0)
      BY <1>3, <2>1, <3>1, <3>2 DEF Steady
    <3>4. QED
      BY <1>3, <3>2, <3>3, UndisturbedBefore
  <2>3. \A b \in earlier[a] : phase[b] \in Ended
    <3>1. Undisturbed(a)
      BY <2>2
    <3>2. QED
      BY <1>4, <2>1, <3>1 DEF ChainInv, OrderUnlessOneFails, HadTurn, SentInv
  <2>4. Due(a)' = Due(a)
    BY <1>3, <2>1, <2>3, DueStays
  <2> HIDE DEF Orderly, Told
  <2>5. QED
    BY <1>1, <1>4, <2>2, <2>4
<1>5. CASE /\ phase[a] \in {"gathering", "waiting"}
           /\ context'[a] = SelectHistory(records[node[a]], refTime[a])
           /\ UNCHANGED <<node, refTime, target, earlier>>
  <2>1. /\ Joined(a) /\ phase[a] \notin Ended /\ node[a] \in Systems
        /\ records[node[a]] \in Seq(Records)
    BY <1>5 DEF ChainInv, TypeOK, NodeInv, Joined, Ended
  <2>2. InTurn(node[a])
    <3>1. SUFFICES ASSUME NEW b \in Alerts, node[b] = node[a], target[b] > 0
                   PROVE  Undisturbed(b)
      BY DEF InTurn
    <3>2. Joined(b) /\ Undisturbed(b)'
      BY <1>5, <2>1, <3>1 DEF Joined
    <3>3. QED
      BY <1>3, <3>2, UndisturbedBefore
  <2>3. ~(target[a] > 0)
    BY <1>5 DEF SentInv
  <2>4. Diagnosed(a) = Diagnoses(node[a])
    <3>1. \A b \in Alerts : node[b] = node[a] /\ target[b] > 0 => b \in earlier[a]
      BY <2>1, <2>2, <2>3, DiagnosedBefore
    <3>2. \A b \in earlier[a] : b \in Alerts /\ node[b] = node[a]
      BY DEF ChainInv, TypeOK, NodeInv
    <3>3. QED
      BY <3>1, <3>2 DEF Diagnosed, Diagnoses
  <2>5. HasNewest(records[node[a]], Diagnosed(a), refTime, earlier)
    BY <2>1, <2>2, <2>4 DEF RecordsInv
  <2>6. {r.alert : r \in SelectHistory(records[node[a]], refTime[a])} = Due(a)
    BY <2>1, <2>5, SelectsWhatIsDue
  <2>7. Due(a)' = Due(a)
    BY <1>5 DEF Due, InWindow, Remembered, Diagnosed
  <2> HIDE DEF Orderly, Told
  <2>8. QED
    BY <1>5, <2>6, <2>7
<1>6. QED
  BY <1>4, <1>5, TurnBegins

(***************************************************************************)
(* The prompt of an analysis carries exactly the diagnoses of its node     *)
(* that it should (_select_history, _analysis_records), as long as no task *)
(* of the node has overtaken another.                                      *)
(***************************************************************************)
THEOREM PromptsAreInformed == Spec => []PromptSeesEarlierDiagnoses
<1>1. Init => MemoryInv
  <2> SUFFICES ASSUME Init
               PROVE  MemoryInv
    OBVIOUS
  <2>1. /\ \A a \in Alerts : /\ ~Joined(a) /\ phase[a] = "idle" /\ earlier[a] = {}
                             /\ ~(target[a] > 0)
        /\ \A s \in Systems : records[s] = << >>
    BY DEF Init, Joined
  <2>2. TurnInv /\ SentInv /\ PromptSeesEarlierDiagnoses
    BY <2>1 DEF TurnInv, SentInv, PromptSeesEarlierDiagnoses
  <2>3. \A s \in Systems : Diagnoses(s) = {}
    BY <2>1 DEF Diagnoses
  <2>4. RecordsInv
    BY <2>1, <2>3, HistoryAssumption DEF RecordsInv, HasNewest
  <2>5. QED
    BY <2>2, <2>4 DEF MemoryInv
<1>2. ChainInv /\ MemoryInv /\ [Next]_vars => MemoryInv'
  BY TurnStep, SentStep, RecordsStep, PromptStep DEF MemoryInv
<1>3. MemoryInv => PromptSeesEarlierDiagnoses
  BY DEF MemoryInv
<1>4. QED
  BY <1>1, <1>2, <1>3, ChainInvariant, PTL DEF Spec

-----------------------------------------------------------------------------
(***************************************************************************)
(* The chains of analyses implement TurnQueue, for any number of alerts,   *)
(* nodes and targets.  A step of a task that has not joined a chain, or    *)
(* that leaves it before or in its turn as it was, is a stutter of the     *)
(* queue; the order of the turns comes from ChainInv.                      *)
(***************************************************************************)
Bars == <<Members, Ahead, Serving, Gone, Excused, Broken, Closed>>

(***************************************************************************)
(* Tasks that are related by a chain have joined it (_analysis_tails).     *)
(***************************************************************************)
LEMMA EarlierJoined ==
  ASSUME TypeOK, NodeInv, NEW a \in Alerts, NEW b \in earlier[a]
  PROVE  b \in Alerts /\ b # a /\ Joined(a) /\ Joined(b) /\ node[b] = node[a]
BY DEF TypeOK, NodeInv, Joined

(***************************************************************************)
(* A task outside the chains changes nothing about the queues.             *)
(***************************************************************************)
LEMMA OutsideStutters ==
  ASSUME ChainInv, NEW a \in Alerts, ~Joined(a), phase[a] \in {"idle", "resolving"},
         NEW how \in {"resolving", "done", "cancelled"},
         phase' = [phase EXCEPT ![a] = how],
         UNCHANGED <<closing, node, earlier>>
  PROVE  UNCHANGED Bars
<1> USE DEF ChainInv
<1>1. phase'[a] = how /\ \A b \in Alerts \ {a} : phase'[b] = phase[b]
  BY DEF TypeOK
<1>2. \A b \in Alerts : a \notin earlier[b]
  BY EarlierJoined
<1>3. earlier[a] = {}
  BY EarlierJoined
<1>4. \A b \in Alerts \ {a} : Alive(b)' <=> Alive(b)
  BY <1>1 DEF Alive
<1>5. \A b \in Alerts : earlier[b] \subseteq Alerts
  BY DEF TypeOK
<1>6. Members' = Members
  BY <1>4, ChainAssumption DEF Members, Joined
<1>7. Ahead' = Ahead
  BY <1>2, <1>3, <1>4, <1>5 DEF Ahead
<1>8. Serving' = Serving
  BY <1>1 DEF Serving
<1>9. Gone' = Gone
  BY <1>4 DEF Gone, Joined
<1>10. Excused' = Excused
  BY <1>1, <1>2, <1>3, <1>4, <1>5 DEF Excused, FailedBefore
<1>11. Broken' = Broken
  BY <1>1, ChainAssumption DEF Broken, Joined
<1> QED
  BY <1>6, <1>7, <1>8, <1>9, <1>10, <1>11 DEF Bars, Closed

(* A task joins the queue of its node (history_system_id is known). *)
LEMMA JoinIsJoin ==
  ASSUME ChainInv, NEW a \in Alerts, NEW s \in Systems, JoinChain(a, s)
  PROVE  Turns!Join(a, s)
<1> USE ChainAssumption DEF ChainInv
<1>1. /\ ~Joined(a) /\ closing' = closing
      /\ phase[a] = "resolving" /\ phase'[a] = "gathering"
      /\ \A b \in Alerts \ {a} : phase'[b] = phase[b]
      /\ node'[a] = s /\ \A b \in Alerts \ {a} : node'[b] = node[b]
      /\ earlier'[a] = {b \in Alerts : node[b] = s}
      /\ \A b \in Alerts \ {a} : earlier'[b] = earlier[b]
  BY DEF JoinChain, NodeInv, TypeOK, closeVars
<1>2. \A b \in Alerts : a \notin earlier[b] /\ earlier[b] \subseteq Alerts
  BY <1>1, EarlierJoined DEF TypeOK
<1>3. Alive(a)' /\ \A b \in Alerts \ {a} : Alive(b)' <=> Alive(b)
  BY <1>1 DEF Alive, Ended
<1>4. (\A q \in Systems : a \notin Members[q]) /\ a \notin Gone
  BY <1>1 DEF Members, Gone, Joined
<1>5. Members' = [Members EXCEPT ![s] = @ \cup {a}]
  <2>1. Members'[s] = Members[s] \cup {a}
    BY <1>1, <1>3 DEF Members
  <2>2. \A q \in Systems \ {s} : Members'[q] = Members[q]
    BY <1>1, <1>3 DEF Members, Joined
  <2> QED
    BY <2>1, <2>2 DEF Members
<1>6. Ahead' = [Ahead EXCEPT ![a] = Members[s]]
  <2>1. Ahead'[a] = Members[s]
    BY <1>1, <1>3 DEF Ahead, Members, Joined
  <2>2. \A b \in Alerts \ {a} : Ahead'[b] = Ahead[b]
    BY <1>1, <1>2, <1>3 DEF Ahead
  <2> QED
    BY <2>1, <2>2 DEF Ahead
<1>7. Excused' = IF s \in Broken THEN Excused \cup {a} ELSE Excused
  <2>1. FailedBefore(a)' # {} <=> s \in Broken
    BY <1>1 DEF FailedBefore, Broken, Joined
  <2>2. \A b \in Alerts \ {a} : FailedBefore(b)' = FailedBefore(b)
    BY <1>1, <1>2 DEF FailedBefore
  <2>3. a \notin Excused
    BY <1>1, EarlierJoined DEF Excused, FailedBefore
  <2> QED
    BY <1>3, <2>1, <2>2, <2>3 DEF Excused
<1>8. Serving' = Serving
  BY <1>1 DEF Serving
<1>9. Gone' = Gone
  BY <1>1, <1>3 DEF Gone, Joined
<1>10. Broken' = Broken
  BY <1>1 DEF Broken, Joined
<1> QED
  BY <1>1, <1>4, <1>5, <1>6, <1>7, <1>8, <1>9, <1>10 DEF Turns!Join, Closed

(***************************************************************************)
(* A task leaves the queue of its node, whatever its end (the finally      *)
(* block).                                                                 *)
(***************************************************************************)
LEMMA LeavingRemoves ==
  ASSUME ChainInv, NEW a \in Alerts, Joined(a), Alive(a), NEW how \in Ended,
         phase' = [phase EXCEPT ![a] = how],
         UNCHANGED <<closing, node, earlier>>
  PROVE  /\ Turns!Remove(a, node[a])
         /\ node[a] \in Systems /\ a \in Members[node[a]]
         /\ how # "failed" => Excused' = Excused \ {a} /\ Broken' = Broken
         /\ how = "failed" =>
              /\ Excused' = (Excused \ {a}) \cup {d \in Alerts : a \in Ahead[d]}
              /\ Broken' = Broken \cup {node[a]}
<1> USE DEF ChainInv
<1>1. phase'[a] = how /\ \A b \in Alerts \ {a} : phase'[b] = phase[b]
  BY DEF TypeOK
<1>2. ~Alive(a)' /\ \A b \in Alerts \ {a} : Alive(b)' <=> Alive(b)
  BY <1>1 DEF Alive
<1>3. \A b \in Alerts : earlier[b] \subseteq Alerts /\ b \notin earlier[b]
  BY EarlierJoined DEF TypeOK
<1>4. node[a] \in Systems /\ a \in Members[node[a]]
  BY DEF Members, TypeOK, Joined
<1>5. Members' = [Members EXCEPT ![node[a]] = @ \ {a}]
  BY <1>2, <1>4 DEF Members
<1>6. Ahead' = [d \in Alerts |-> IF d = a THEN {} ELSE Ahead[d] \ {a}]
  BY <1>2, <1>3 DEF Ahead
<1>7. Serving' = Serving \ {a}
  BY <1>1 DEF Serving, Ended
<1>8. Gone' = Gone \cup {a}
  BY <1>1, <1>2 DEF Gone, Joined
<1>9. Turns!Remove(a, node[a])
  BY <1>5, <1>6, <1>7, <1>8 DEF Turns!Remove, Closed
<1>10. phase[a] # "failed"
  BY DEF Alive, Ended
<1>11. ASSUME how # "failed"
       PROVE  Excused' = Excused \ {a} /\ Broken' = Broken
  <2>1. \A b \in Alerts : FailedBefore(b)' = FailedBefore(b)
    BY <1>1, <1>3, <1>10, <1>11 DEF FailedBefore
  <2>2. Excused' = Excused \ {a}
    BY <1>2, <2>1 DEF Excused
  <2>3. Broken' = Broken
    BY <1>1, <1>10, <1>11 DEF Broken
  <2> QED
    BY <2>2, <2>3
<1>12. ASSUME how = "failed"
       PROVE  /\ Excused' = (Excused \ {a}) \cup {d \in Alerts : a \in Ahead[d]}
              /\ Broken' = Broken \cup {node[a]}
  <2>1. \A b \in Alerts : FailedBefore(b)' # {} <=>
                            FailedBefore(b) # {} \/ a \in earlier[b]
    BY <1>1, <1>3, <1>10, <1>12 DEF FailedBefore
  <2>2. \A d \in Alerts : a \in Ahead[d] <=> Alive(d) /\ a \in earlier[d]
    BY DEF Ahead
  <2>3. Excused' = (Excused \ {a}) \cup {d \in Alerts : a \in Ahead[d]}
    BY <1>2, <1>3, <2>1, <2>2 DEF Excused
  <2>4. Broken' = Broken \cup {node[a]}
    BY <1>1, <1>4, <1>10, <1>12 DEF Broken
  <2> QED
    BY <2>3, <2>4
<1> QED
  BY <1>4, <1>9, <1>11, <1>12

(***************************************************************************)
(* A step of a task that has joined its chain: it gets its turn, leaves,   *)
(* breaks down on its prompt, or does nothing the queue knows of.          *)
(***************************************************************************)
LEMMA TaskTakesTurns ==
  ASSUME ChainInv, OrderUnlessOneFails', NEW a \in Alerts,
         \/ \E prompt \in BOOLEAN : Gathered(a, prompt)
         \/ ExtractRaises(a)
         \/ PreviousEnded(a)
         \/ NoReply(a)
         \/ Reply(a)
         \/ SendReturned(a)
  PROVE  Turns!Next \/ UNCHANGED Bars
<1> USE DEF ChainInv
<1>1. PICK how \in {"waiting", "asking", "sending", "done", "failed"} :
        /\ Moves(a, how)
        /\ \/ /\ phase[a] \in {"gathering", "waiting"}
              /\ a \notin cancelPending
              /\ how # "sending"
           \/ /\ phase[a] \in {"asking", "sending"}
              /\ how \in {"sending", "done"}
  BY TaskSteps
<1>2. /\ phase' = [phase EXCEPT ![a] = how]
      /\ UNCHANGED <<closing, node, earlier>>
  BY <1>1 DEF Moves, closeVars
<1>3. phase'[a] = how /\ \A b \in Alerts \ {a} : phase'[b] = phase[b]
  BY <1>2 DEF TypeOK
<1>4. Alive(a) /\ Joined(a) /\ node[a] \in Systems
  BY <1>1 DEF Alive, NodeInv, Ended, Joined, TypeOK
<1>5. \A b \in Alerts : earlier[b] \subseteq Alerts /\ b \notin earlier[b]
  BY EarlierJoined DEF TypeOK
<1>6. ASSUME how \in {"asking", "done"}, phase[a] \in {"gathering", "waiting"}
      PROVE  Turns!ItsTurn(a)
  <2>1. HadTurn(a)'
    BY <1>2, <1>3, <1>4, <1>6 DEF HadTurn, Joined
  <2>2. CASE Undisturbed(a)
    <3>1. Undisturbed(a)'
      BY <1>2, <1>3, <1>5, <2>2 DEF Undisturbed
    <3>2. \A b \in earlier[a] : phase[b] \in Ended
      BY <1>2, <1>3, <1>5, <2>1, <3>1 DEF OrderUnlessOneFails
    <3>3. Ahead[a] = {}
      BY <3>2 DEF Ahead, Alive
    <3> QED
      BY <3>3 DEF Turns!ItsTurn
  <2>3. CASE ~Undisturbed(a)
    <3>1. a \in Excused
      BY <1>4, <2>3 DEF Undisturbed, Excused, FailedBefore
    <3> QED
      BY <3>1 DEF Turns!ItsTurn
  <2> QED
    BY <2>2, <2>3
<1>7. CASE how \in {"waiting", "asking", "sending"}
  <2>1. \A b \in Alerts : Alive(b)' <=> Alive(b)
    BY <1>3, <1>4, <1>7 DEF Alive, Ended
  <2>2. \A b \in Alerts : FailedBefore(b)' = FailedBefore(b)
    BY <1>2, <1>3, <1>4, <1>5, <1>7 DEF FailedBefore, Alive, Ended
  <2>3. /\ Members' = Members /\ Ahead' = Ahead /\ Gone' = Gone
        /\ Excused' = Excused
    BY <1>2, <1>5, <2>1, <2>2 DEF Members, Ahead, Gone, Excused, Joined
  <2>4. Broken' = Broken
    BY <1>2, <1>3, <1>4, <1>7 DEF Broken, Alive, Ended
  <2>5. CASE how = "asking"
    <3>1. ~Closed /\ a \notin Serving
      BY <1>1, <2>5 DEF CancelInv, Serving
    <3>2. Serving' = Serving \cup {a}
      BY <1>3, <2>5 DEF Serving
    <3>3. a \in Members[node[a]] \ Serving
      BY <1>4, <3>1 DEF Members
    <3>4. Turns!ItsTurn(a)
      BY <1>1, <1>6, <2>5
    <3>5. Turns!Begin(a, node[a])
      BY <1>2, <2>3, <2>4, <3>1, <3>2, <3>3, <3>4 DEF Turns!Begin, Closed
    <3> QED
      BY <1>4, <3>5 DEF Turns!Next
  <2>6. CASE how # "asking"
    <3>1. Serving' = Serving
      BY <1>1, <1>3, <1>7, <2>6 DEF Serving
    <3> QED
      BY <1>2, <2>3, <2>4, <3>1 DEF Bars, Closed
  <2> QED
    BY <2>5, <2>6
<1>8. CASE how = "done"
  <2>1. /\ Turns!Remove(a, node[a]) /\ a \in Members[node[a]]
        /\ Excused' = Excused \ {a} /\ Broken' = Broken
    BY <1>2, <1>4, <1>8, LeavingRemoves DEF Ended
  <2>2. a \in Serving \/ Turns!ItsTurn(a)
    BY <1>1, <1>6, <1>8 DEF Serving
  <2>3. Turns!Leave(a, node[a])
    BY <2>1, <2>2 DEF Turns!Leave
  <2> QED
    BY <1>4, <2>3 DEF Turns!Next
<1>9. CASE how = "failed"
  <2>1. /\ Turns!Remove(a, node[a]) /\ a \in Members[node[a]]
        /\ Excused' = (Excused \ {a}) \cup {d \in Alerts : a \in Ahead[d]}
        /\ Broken' = Broken \cup {node[a]}
    BY <1>2, <1>4, <1>9, LeavingRemoves DEF Ended
  <2>2. a \notin Serving
    BY <1>1, <1>9 DEF Serving
  <2>3. Turns!BreakDown(a, node[a])
    BY <2>1, <2>2 DEF Turns!BreakDown
  <2> QED
    BY <1>4, <2>3 DEF Turns!Next
<1> QED
  BY <1>7, <1>8, <1>9

(* A cancelled task leaves out of turn, which it may once close() has begun. *)
LEMMA CancelledLeaves ==
  ASSUME ChainInv, NEW a \in Alerts, Cancelled(a)
  PROVE  Turns!Next \/ UNCHANGED Bars
<1> USE DEF ChainInv
<1>1. Closed /\ Alive(a)
  BY DEF Cancelled, CancelInv
<1>2. /\ phase' = [phase EXCEPT ![a] = "cancelled"]
      /\ UNCHANGED <<closing, node, earlier>>
  BY DEF Cancelled, closeVars, taskVars
<1>3. CASE phase[a] = "resolving"
  BY <1>2, <1>3, OutsideStutters DEF NodeInv
<1>4. CASE phase[a] # "resolving"
  <2>1. Joined(a)
    BY <1>1, <1>4 DEF NodeInv, Alive, TypeOK, Phases
  <2>2. /\ Turns!Remove(a, node[a]) /\ a \in Members[node[a]] /\ node[a] \in Systems
        /\ Excused' = Excused \ {a} /\ Broken' = Broken
    BY <1>1, <1>2, <2>1, LeavingRemoves DEF Ended
  <2>3. Turns!Leave(a, node[a])
    BY <1>1, <2>2 DEF Turns!Leave
  <2> QED
    BY <2>2, <2>3 DEF Turns!Next
<1> QED
  BY <1>3, <1>4

(***************************************************************************)
(* One tail per node, waiting for the previous task alone, and removing    *)
(* one's own entry alone amount to a queue per node in which nobody        *)
(* overtakes (_analysis_tails, previous_task).                             *)
(***************************************************************************)
THEOREM TurnsAreImplemented == Spec => TurnsImplemented
<1>1. Init => Turns!Init
  <2> SUFFICES ASSUME Init
               PROVE  Turns!Init
    OBVIOUS
  <2>1. /\ \A a \in Alerts : phase[a] = "idle" /\ node[a] = NoSystem /\ earlier[a] = {}
        /\ closing = "open"
    BY DEF Init
  <2>2. \A a \in Alerts : ~Alive(a) /\ ~Joined(a)
    BY <2>1 DEF Alive, Joined
  <2>3. Members = [s \in Systems |-> {}] /\ Ahead = [a \in Alerts |-> {}]
    BY <2>2 DEF Members, Ahead
  <2>4. Serving = {} /\ Gone = {} /\ Excused = {} /\ Broken = {} /\ ~Closed
    BY <2>1, <2>2 DEF Serving, Gone, Excused, Broken, Closed
  <2> QED
    BY <2>3, <2>4 DEF Turns!Init
<1>2. ChainInv /\ ChainInv' /\ [Next]_vars => [Turns!Next]_Bars
  <2> SUFFICES ASSUME ChainInv, ChainInv', [Next]_vars
               PROVE  Turns!Next \/ UNCHANGED Bars
    OBVIOUS
  <2> USE DEF ChainInv
  <2>1. ASSUME NEW a \in Alerts, NEW t \in Times, Accept(a, t)
        PROVE  UNCHANGED Bars
    <3>1. /\ ~Joined(a) /\ phase[a] = "idle"
          /\ phase' = [phase EXCEPT ![a] = "resolving"]
          /\ UNCHANGED <<closing, node, earlier>>
      BY <2>1 DEF Accept, closeVars, NodeInv
    <3> QED
      BY <3>1, OutsideStutters
  <2>2. ASSUME NEW a \in Alerts, ResolveNothing(a)
        PROVE  UNCHANGED Bars
    <3>1. /\ ~Joined(a) /\ phase[a] = "resolving"
          /\ phase' = [phase EXCEPT ![a] = "done"]
          /\ UNCHANGED <<closing, node, earlier>>
      BY <2>2 DEF ResolveNothing, closeVars, taskVars, NodeInv
    <3> QED
      BY <3>1, OutsideStutters
  <2>3. ASSUME NEW a \in Alerts, NEW s \in Systems, JoinChain(a, s)
        PROVE  Turns!Next
    BY <2>3, JoinIsJoin DEF Turns!Next
  <2>4. ASSUME NEW a \in Alerts,
               \/ \E prompt \in BOOLEAN : Gathered(a, prompt)
               \/ ExtractRaises(a)
               \/ PreviousEnded(a)
               \/ NoReply(a)
               \/ Reply(a)
               \/ SendReturned(a)
        PROVE  Turns!Next \/ UNCHANGED Bars
    BY <2>4, TaskTakesTurns
  <2>5. ASSUME NEW a \in Alerts, Cancelled(a)
        PROVE  Turns!Next \/ UNCHANGED Bars
    BY <2>5, CancelledLeaves
  <2>6. ASSUME UNCHANGED <<phase, node, earlier>>
        PROVE  UNCHANGED <<Members, Ahead, Serving, Gone, Excused, Broken>>
    BY <2>6 DEF Members, Ahead, Serving, Gone, Excused, Broken, Alive, Joined, FailedBefore
  <2>7. CASE Close
    <3>1. UNCHANGED <<Members, Ahead, Serving, Gone, Excused, Broken>>
      BY <2>6, <2>7 DEF Close, taskVars
    <3>2. ~Closed /\ Closed'
      BY <2>7 DEF Close, Closed
    <3>3. Turns!Close
      BY <3>1, <3>2 DEF Turns!Close
    <3> QED
      BY <3>3 DEF Turns!Next
  <2>8. CASE CloseReturns
    <3>1. UNCHANGED <<Members, Ahead, Serving, Gone, Excused, Broken>>
      BY <2>6, <2>8 DEF CloseReturns, taskVars
    <3>2. Closed' = Closed
      BY <2>8 DEF CloseReturns, Closed
    <3> QED
      BY <3>1, <3>2 DEF Bars
  <2>9. CASE UNCHANGED vars
    BY <2>6, <2>9 DEF vars, Bars, Closed
  <2> QED
    BY <2>1, <2>2, <2>3, <2>4, <2>5, <2>7, <2>8, <2>9 DEF Next, Unloaded
<1> QED
  BY <1>1, <1>2, ChainInvariant, PTL DEF Spec, TurnsImplemented, Turns!Spec, Bars,
     Turns!queueVars
=============================================================================
