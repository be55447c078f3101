------------------------- MODULE RenderPool_proofs -------------------------
(***************************************************************************)
(* Proofs about RenderPool for any number of calls, pages and threads.     *)
(***************************************************************************)
EXTENDS RenderPool, FiniteSetTheorems, TLAPS

USE DEF CallerStates, WorkStates, Ended

(* There are finitely many unfinished jobs. *)
LEMMA BusyIsFinite ==
  ASSUME TypeOK
  PROVE  /\ Busy \subseteq Callers /\ IsFiniteSet(Busy)
         /\ Cardinality(Busy) \in Nat
         /\ Cardinality(Busy) = 0 <=> Busy = {}
<1>1. Busy \subseteq Callers
  BY DEF TypeOK, Busy
<1>2. IsFiniteSet(Busy)
  BY <1>1, RenderPoolAssumption, FS_Subset
<1>3. QED
  BY <1>1, <1>2, FS_CardinalityType, FS_EmptySet

(* Submitting a page adds one unfinished job, which the counter counts. *)
LEMMA SubmitCounts ==
  ASSUME PoolInv, NEW c \in Callers, Submit(c), untold' = untold, c \notin Busy
  PROVE  CountInv'
<1>1. Busy' = Busy \cup {c}
  BY DEF PoolInv, TypeOK, Submit, Busy
<1>2. Cardinality(Busy') = Cardinality(Busy) + 1
  BY <1>1, BusyIsFinite, FS_AddElement DEF PoolInv
<1>3. QED
  BY <1>1, <1>2 DEF PoolInv, CountInv, Submit

(* A caller goes on to its next page; the renderer is not closed. *)
LEMMA SubmitStep ==
  ASSUME PoolInv, NEW c \in Callers, Submit(c), ~closed, page[c] < Pages,
         work[c] \in {"none", "ended"}, c \notin untold,
         engine' \in BOOLEAN, UNCHANGED <<untold, closed, idlerVars>>
  PROVE  PoolInv'
<1>1. c \notin Busy
  BY DEF Busy
<1>2. /\ page' = [page EXCEPT ![c] = page[c] + 1] /\ page[c] + 1 \in 1 .. Pages
      /\ work' = [work EXCEPT ![c] = "queued"]
      /\ caller' = [caller EXCEPT ![c] = "waiting"]
  BY RenderPoolAssumption DEF Submit, PoolInv, TypeOK
<1>3. TypeOK'
  <2>1. page' \in [Callers -> 0 .. Pages]
    BY <1>2, RenderPoolAssumption DEF PoolInv, TypeOK
  <2>2. active' \in Nat
    BY DEF PoolInv, TypeOK, Submit
  <2>3. idle' \in BOOLEAN /\ pool' \in BOOLEAN
    BY Zenon DEF Submit
  <2>4. QED
    BY <1>2, <2>1, <2>2, <2>3 DEF PoolInv, TypeOK, idlerVars
<1>4. CountInv'
  BY <1>1, SubmitCounts
<1>5. CallerInv'
  BY <1>2 DEF PoolInv, TypeOK, CallerInv
<1>6. ClosedInv'
  BY DEF PoolInv, ClosedInv
<1>7. IdlerInv'
  <2> SUFFICES ASSUME NEW i \in Idlers
               PROVE  /\ idler[i] = "waiting" => ~idle'
                      /\ \A job \in covers[i] :
                           /\ job[2] <= page'[job[1]]
                           /\ idler[i] \in {"released", "returned"} => JobEnded(job)'
    BY DEF IdlerInv, idlerVars
  <2>1. ASSUME NEW job \in covers[i]
        PROVE  /\ job[2] <= page'[job[1]]
               /\ idler[i] \in {"released", "returned"} => JobEnded(job)'
    <3>1. job \in Callers \X (1 .. Pages) /\ job[2] <= page[job[1]]
      BY <2>1 DEF PoolInv, TypeOK, IdlerInv
    <3>2. idler[i] \in {"released", "returned"} => JobEnded(job)
      BY <2>1 DEF PoolInv, IdlerInv
    <3>3. CASE job[1] = c
      BY <1>2, <3>1, <3>3 DEF PoolInv, TypeOK, JobEnded
    <3>4. CASE job[1] # c
      BY <1>2, <3>1, <3>2, <3>4 DEF PoolInv, TypeOK, JobEnded
    <3>5. QED
      BY <3>3, <3>4
  <2>2. QED
    BY <2>1 DEF Submit
<1>8. QED
  BY <1>3, <1>4, <1>5, <1>6, <1>7 DEF PoolInv

(* A call ends, or begins to wait for the engine. *)
LEMMA CallerEndsStep ==
  ASSUME PoolInv, NEW c \in Callers, NEW how \in CallerStates, CallerEnds(c, how),
         how \in {"idle", "initializing"} => page[c] = 0,
         UNCHANGED <<untold, engine, closed, idlerVars>>
  PROVE  PoolInv'
<1> USE DEF CallerEnds, countVars, idlerVars
<1>1. TypeOK'
  BY DEF PoolInv, TypeOK
<1>2. CountInv' /\ ClosedInv' /\ IdlerInv'
  BY DEF PoolInv, CountInv, Busy, ClosedInv, IdlerInv, JobEnded
<1>3. CallerInv'
  BY DEF PoolInv, TypeOK, CallerInv
<1>4. QED
  BY <1>1, <1>2, <1>3 DEF PoolInv

(* A job moves on in the pool, or is withdrawn: it remains unfinished. *)
LEMMA WorkStep ==
  ASSUME PoolInv, NEW c \in Callers, WorkerStarts(c) \/ WorkerEnds(c) \/ Withdraw(c)
  PROVE  PoolInv'
<1> USE DEF WorkerStarts, WorkerEnds, Withdraw, countVars, rendererVars, idlerVars
<1>1. TypeOK'
  BY DEF PoolInv, TypeOK
<1>2. Busy' = Busy
  BY DEF PoolInv, TypeOK, Busy
<1>3. CountInv' /\ ClosedInv'
  BY <1>2 DEF PoolInv, CountInv, ClosedInv
<1>4. CallerInv'
  BY DEF PoolInv, TypeOK, CallerInv
<1>5. \A job \in Callers \X (1 .. Pages) : JobEnded(job) => JobEnded(job)'
  BY DEF PoolInv, TypeOK, JobEnded
<1>6. IdlerInv'
  BY <1>5 DEF PoolInv, TypeOK, IdlerInv
<1>7. QED
  BY <1>1, <1>3, <1>4, <1>6 DEF PoolInv

(* The event loop hears of a job's end; the last one releases the waiters. *)
LEMMA FinishedStep ==
  ASSUME PoolInv, NEW c \in Callers, Finished(c)
  PROVE  PoolInv'
<1> USE DEF Finished, Release, rendererVars
<1>1. Busy' = Busy \ {c} /\ c \in Busy
  BY DEF PoolInv, TypeOK, CallerInv, Busy
<1>2. Cardinality(Busy') = active - 1 /\ active \in Nat \ {0}
  BY <1>1, BusyIsFinite, FS_RemoveElement DEF PoolInv, TypeOK, CountInv
<1>3. TypeOK'
  <2>1. active' \in Nat
    BY <1>2
  <2>2. idle' \in BOOLEAN
    BY Zenon DEF PoolInv, TypeOK
  <2>3. idler' \in [Idlers -> {"none", "waiting", "released", "returned"}]
    BY DEF PoolInv, TypeOK
  <2>4. QED
    BY <2>1, <2>2, <2>3 DEF PoolInv, TypeOK
<1>4. active' = active - 1
  BY <1>2
<1>5. Cardinality(Busy') = 0 <=> Busy' = {}
  <2>1. IsFiniteSet(Busy')
    BY <1>1, BusyIsFinite, FS_RemoveElement DEF PoolInv
  <2>2. QED
    BY <2>1, FS_EmptySet
<1>6. CountInv'
  <2>1. Busy # {} /\ ~idle
    BY <1>1 DEF PoolInv, CountInv
  <2>2. QED
    BY <1>2, <1>4, <1>5, <2>1 DEF PoolInv, TypeOK, CountInv
<1>7. CallerInv' /\ ClosedInv'
  BY DEF PoolInv, CallerInv, ClosedInv
<1>8. IdlerInv'
  <2>1. CASE active > 1
    BY <1>2, <2>1 DEF PoolInv, IdlerInv, JobEnded
  <2>2. CASE active <= 1
    <3>1. Busy' = {}
      BY <1>2, <1>5, <2>2
    <3>2. \A d \in Callers : page[d] # 0 => work[d] = "ended"
      BY <3>1 DEF PoolInv, TypeOK, CallerInv, Busy
    <3>3. ASSUME NEW i \in Idlers, NEW job \in covers[i]
          PROVE  job[2] <= page[job[1]] /\ JobEnded(job)
      <4>1. job \in Callers \X (1 .. Pages) /\ job[2] <= page[job[1]]
        BY <3>3 DEF PoolInv, TypeOK, IdlerInv
      <4>2. QED
        BY <3>2, <4>1 DEF PoolInv, TypeOK, JobEnded
    <3>4. \A i \in Idlers : idler'[i] # "waiting"
      BY <2>2
    <3>5. QED
      BY <3>3, <3>4 DEF IdlerInv, JobEnded
  <2>3. QED
    BY <1>2, <2>1, <2>2
<1>9. QED
  BY <1>3, <1>6, <1>7, <1>8 DEF PoolInv

(* wait_idle is called or returns. *)
LEMMA IdlerStep ==
  ASSUME PoolInv, NEW i \in Idlers, WaitIdle(i) \/ WaitIdleReturns(i)
  PROVE  PoolInv'
<1> USE DEF WaitIdle, WaitIdleReturns, countVars, rendererVars
<1>1. Submitted \subseteq Callers \X (1 .. Pages)
  BY DEF Submitted
<1>2. TypeOK'
  BY <1>1 DEF PoolInv, TypeOK
<1>3. CountInv' /\ CallerInv' /\ ClosedInv'
  BY DEF PoolInv, CountInv, CallerInv, ClosedInv, Busy
<1>4. \A job : JobEnded(job)' <=> JobEnded(job)
  BY DEF JobEnded
<1>5. IdlerInv'
  <2>1. CASE WaitIdleReturns(i)
    BY <1>4, <2>1 DEF PoolInv, TypeOK, IdlerInv
  <2>2. CASE WaitIdle(i)
    <3>1. ASSUME idle, NEW job \in Submitted PROVE JobEnded(job)
      <4>1. job \in Callers \X (1 .. Pages) /\ job[2] <= page[job[1]]
        BY <3>1 DEF Submitted
      <4>2. work[job[1]] = "ended"
        BY <3>1, <4>1 DEF PoolInv, TypeOK, CountInv, CallerInv, Busy
      <4>3. QED
        BY <4>1, <4>2 DEF PoolInv, TypeOK, JobEnded
    <3>2. \A job \in Submitted : job[2] <= page[job[1]]
      BY DEF Submitted
    <3>3. QED
      BY <1>4, <2>2, <3>1, <3>2 DEF PoolInv, TypeOK, IdlerInv
  <2>3. QED
    BY <2>1, <2>2
<1>6. QED
  BY <1>2, <1>3, <1>5 DEF PoolInv

-----------------------------------------------------------------------------
(***************************************************************************)
(* The counter of renders, the event and what wait_idle has waited for     *)
(* agree with the threads in every reachable state.                        *)
(***************************************************************************)
THEOREM PoolInvariant == Spec => []PoolInv
<1>1. Init => PoolInv
  <2> SUFFICES ASSUME Init PROVE PoolInv
    OBVIOUS
  <2> USE DEF Init
  <2>1. TypeOK
    <3>1. 0 \in 0 .. Pages /\ {} \in SUBSET (Callers \X (1 .. Pages))
      BY RenderPoolAssumption
    <3>2. QED
      BY <3>1 DEF TypeOK
  <2>2. Busy = {}
    BY DEF Busy
  <2>3. CountInv
    BY <2>2, FS_EmptySet DEF CountInv
  <2>4. CallerInv /\ ClosedInv /\ IdlerInv
    BY DEF CallerInv, ClosedInv, IdlerInv
  <2>5. QED
    BY <2>1, <2>3, <2>4 DEF PoolInv
<1>2. PoolInv /\ [Next]_vars => PoolInv'
  <2> SUFFICES ASSUME PoolInv, [Next]_vars PROVE PoolInv'
    OBVIOUS
  <2>1. ASSUME NEW c \in Callers, Call(c) PROVE PoolInv'
    <3>1. page[c] = 0 /\ work[c] = "none" /\ c \notin untold
      BY <2>1 DEF Call, PoolInv, CallerInv
    <3>2. CASE CallerEnds(c, "failed")
      BY <2>1, <3>2, CallerEndsStep DEF Call
    <3>3. CASE CallerEnds(c, "initializing")
      BY <2>1, <3>1, <3>3, CallerEndsStep DEF Call
    <3>4. CASE ~closed /\ Submit(c)
      <4>1. engine' \in BOOLEAN
        BY <2>1 DEF Call, PoolInv, TypeOK
      <4>2. page[c] < Pages
        BY <3>1, RenderPoolAssumption
      <4>3. QED
        BY <2>1, <3>1, <3>4, <4>1, <4>2, SubmitStep DEF Call
    <3>5. QED
      BY <2>1, <3>2, <3>3, <3>4 DEF Call
  <2>2. ASSUME NEW c \in Callers, EngineStarts(c) PROVE PoolInv'
    <3>1. page[c] = 0 /\ work[c] = "none" /\ c \notin untold
      BY <2>2 DEF EngineStarts, PoolInv, CallerInv
    <3>2. CASE CallerEnds(c, "failed") /\ UNCHANGED engine
      BY <2>2, <3>2, CallerEndsStep DEF EngineStarts
    <3>3. CASE ~closed /\ engine' = TRUE /\ Submit(c)
      <4>1. page[c] < Pages
        BY <3>1, RenderPoolAssumption
      <4>2. QED
        BY <2>2, <3>1, <3>3, <4>1, SubmitStep DEF EngineStarts
    <3>4. QED
      BY <2>2, <3>2, <3>3 DEF EngineStarts
  <2>3. ASSUME NEW c \in Callers, EngineFails(c) \/ Cancel(c) PROVE PoolInv'
    BY <2>3, CallerEndsStep DEF EngineFails, Cancel
  <2>4. ASSUME NEW c \in Callers, RenderReturns(c) PROVE PoolInv'
    <3>1. CASE CallerEnds(c, "failed") \/ CallerEnds(c, "returned")
      BY <2>4, <3>1, CallerEndsStep DEF RenderReturns
    <3>2. CASE page[c] < Pages /\ ~closed /\ Submit(c)
      <4>1. engine' \in BOOLEAN
        BY <2>4 DEF RenderReturns, PoolInv, TypeOK
      <4>2. QED
        BY <2>4, <3>2, <4>1, SubmitStep DEF RenderReturns
    <3>3. QED
      BY <2>4, <3>1, <3>2 DEF RenderReturns
  <2>5. ASSUME NEW c \in Callers, WorkerStarts(c) \/ WorkerEnds(c) \/ Withdraw(c)
        PROVE  PoolInv'
    BY <2>5, WorkStep
  <2>6. ASSUME NEW c \in Callers, Finished(c) PROVE PoolInv'
    BY <2>6, FinishedStep
  <2>7. ASSUME NEW i \in Idlers, WaitIdle(i) \/ WaitIdleReturns(i) PROVE PoolInv'
    BY <2>7, IdlerStep
  <2>8. CASE Close
    BY <2>8 DEF Close, PoolInv, TypeOK, CountInv, CallerInv, ClosedInv, IdlerInv,
       Busy, JobEnded, countVars, idlerVars
  <2>9. CASE UNCHANGED vars
    BY <2>9 DEF vars, PoolInv, TypeOK, CountInv, CallerInv, ClosedInv, IdlerInv,
       Busy, JobEnded
  <2>10. QED
    BY <2>1, <2>2, <2>3, <2>4, <2>5, <2>6, <2>7, <2>8, <2>9 DEF Next, AllEnded
<1>3. QED
  BY <1>1, <1>2, PTL DEF Spec

(* Every variable keeps its type. *)
THEOREM PoolTypeCorrect == Spec => []TypeOK
<1>1. PoolInv => TypeOK
  BY DEF PoolInv
<1>2. QED
  BY <1>1, PoolInvariant, PTL

(***************************************************************************)
(* wait_idle returns only when all renders submitted before it are over.   *)
(***************************************************************************)
THEOREM WaitIdleWaits == Spec => []IdleMeansDone
<1>1. PoolInv => IdleMeansDone
  BY DEF PoolInv, IdlerInv, IdleMeansDone
<1>2. QED
  BY <1>1, PoolInvariant, PTL

(* A closed renderer submits nothing and recreates nothing. *)
THEOREM ClosedRendererRests == Spec => ClosedNeverRenders
<1>1. PoolInv /\ [Next]_vars =>
        [closed => page' = page /\ ~pool' /\ ~engine']_vars
  <2> SUFFICES ASSUME PoolInv, [Next]_vars, closed
               PROVE  page' = page /\ ~pool' /\ ~engine'
    OBVIOUS
  <2>1. ~pool /\ ~engine
    BY DEF PoolInv, ClosedInv
  <2>2. ASSUME NEW c \in Callers,
               Call(c) \/ EngineStarts(c) \/ EngineFails(c) \/ RenderReturns(c) \/ Cancel(c)
        PROVE  page' = page /\ pool' = pool /\ engine' = engine
    BY <2>2 DEF Call, EngineStarts, EngineFails, RenderReturns, Cancel, CallerEnds
  <2>3. ASSUME NEW c \in Callers,
               WorkerStarts(c) \/ WorkerEnds(c) \/ Withdraw(c) \/ Finished(c)
        PROVE  page' = page /\ pool' = pool /\ engine' = engine
    BY <2>3 DEF WorkerStarts, WorkerEnds, Withdraw, Finished, rendererVars
  <2>4. ASSUME NEW i \in Idlers, WaitIdle(i) \/ WaitIdleReturns(i)
        PROVE  page' = page /\ pool' = pool /\ engine' = engine
    BY <2>4 DEF WaitIdle, WaitIdleReturns, rendererVars
  <2>5. CASE Close \/ UNCHANGED vars
    BY <2>1, <2>5 DEF Close, vars
  <2>6. QED
    BY <2>1, <2>2, <2>3, <2>4, <2>5 DEF Next, AllEnded
<1>2. QED
  BY <1>1, PoolInvariant, PTL DEF Spec, ClosedNeverRenders
=============================================================================
