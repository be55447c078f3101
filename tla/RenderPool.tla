----------------------------- MODULE RenderPool -----------------------------
(***************************************************************************)
(* BeszelRenderer (core/rendering/renderer): images are rendered by native *)
(* code in threads, on behalf of tasks of the event loop that may be       *)
(* cancelled at any time.                                                  *)
(*                                                                         *)
(* A caller is one render_overview, render_status or render_history call;  *)
(* it renders its pages one after the other.  A worker's end reaches the   *)
(* event loop as two callbacks, in this order: _on_render_finished, then   *)
(* the one that wakes the caller.                                          *)
(***************************************************************************)
EXTENDS Integers, FiniteSets

CONSTANTS
  Callers,   \* calls of render_*
  Idlers,    \* calls of wait_idle
  Pages,     \* pages of an overview
  Workers    \* threads of the pool

ASSUME RenderPoolAssumption ==
  /\ IsFiniteSet(Callers)
  /\ Pages \in Nat \ {0}
  /\ Workers \in Nat \ {0}

VARIABLES
  caller,    \* state of each call of render_*
  page,      \* the page it is at, 0 before the first
  work,      \* that page's job in the pool
  untold,    \* jobs whose _on_render_finished is still to run
  active,    \* _active_renders
  idle,      \* _idle_event is set
  engine,    \* _engine is not None
  pool,      \* _executor is not None
  closed,    \* _closed
  idler,     \* state of each call of wait_idle
  covers     \* history variable: pages submitted when wait_idle was called

vars == <<caller, page, work, untold, active, idle, engine, pool, closed,
          idler, covers>>

countVars == <<active, idle>>
rendererVars == <<engine, pool, closed>>
idlerVars == <<idler, covers>>

Ended == {"returned", "failed", "cancelled"}
CallerStates == {"idle", "initializing", "waiting"} \cup Ended
WorkStates == {"none", "queued", "running", "ended"}

Init ==
  /\ caller = [c \in Callers |-> "idle"]
  /\ page = [c \in Callers |-> 0]
  /\ work = [c \in Callers |-> "none"]
  /\ untold = {}
  /\ active = 0
  /\ idle = TRUE
  /\ engine = FALSE
  /\ pool = FALSE
  /\ closed = FALSE
  /\ idler = [i \in Idlers |-> "none"]
  /\ covers = [i \in Idlers |-> {}]

CallerEnds(c, how) ==
  /\ caller' = [caller EXCEPT ![c] = how]
  /\ UNCHANGED <<page, work, countVars, pool>>

(* _render_native: the next page becomes a job of the pool. *)
Submit(c) ==
  /\ caller' = [caller EXCEPT ![c] = "waiting"]
  /\ page' = [page EXCEPT ![c] = page[c] + 1]
  /\ work' = [work EXCEPT ![c] = "queued"]
  /\ active' = active + 1
  /\ idle' = FALSE
  /\ pool' = TRUE

(***************************************************************************)
(* A call checks the renderer, and starts the engine if there is none.     *)
(***************************************************************************)
Call(c) ==
  /\ caller[c] = "idle"
  /\ \/ closed /\ CallerEnds(c, "failed")
     \/ ~closed /\ engine /\ Submit(c)
     \/ ~closed /\ ~engine /\ CallerEnds(c, "initializing")
  /\ UNCHANGED <<untold, engine, closed, idlerVars>>

(* Faulty variant: close() during the start of the engine goes unnoticed. *)
EngineStartsUnchecked(c) ==
  /\ caller[c] = "initializing"
  /\ engine' = TRUE /\ Submit(c)
  /\ UNCHANGED <<untold, closed, idlerVars>>

(* The engine is ready; the first page is submitted at once. *)
EngineStarts(c) ==
  /\ caller[c] = "initializing"
  /\ \/ closed /\ CallerEnds(c, "failed") /\ UNCHANGED engine
     \/ ~closed /\ engine' = TRUE /\ Submit(c)
  /\ UNCHANGED <<untold, closed, idlerVars>>

EngineFails(c) ==
  /\ caller[c] = "initializing"
  /\ CallerEnds(c, "failed")
  /\ UNCHANGED <<untold, engine, closed, idlerVars>>

(***************************************************************************)
(* The pool's threads.                                                     *)
(***************************************************************************)
Running == {c \in Callers : work[c] = "running"}

WorkerStarts(c) ==
  /\ work[c] = "queued"
  /\ Cardinality(Running) < Workers
  /\ work' = [work EXCEPT ![c] = "running"]
  /\ UNCHANGED <<caller, page, untold, countVars, rendererVars, idlerVars>>

WorkerEnds(c) ==
  /\ work[c] = "running"
  /\ work' = [work EXCEPT ![c] = "ended"]
  /\ untold' = untold \cup {c}
  /\ UNCHANGED <<caller, page, countVars, rendererVars, idlerVars>>

(* Faulty variant: a job that never ran is not counted as finished. *)
WithdrawUntold(c) ==
  /\ caller[c] = "cancelled"
  /\ work[c] = "queued"
  /\ work' = [work EXCEPT ![c] = "ended"]
  /\ UNCHANGED <<caller, page, untold, countVars, rendererVars, idlerVars>>

(* A cancelled caller's job is withdrawn if no thread has begun with it. *)
Withdraw(c) ==
  /\ caller[c] = "cancelled"
  /\ work[c] = "queued"
  /\ work' = [work EXCEPT ![c] = "ended"]
  /\ untold' = untold \cup {c}
  /\ UNCHANGED <<caller, page, countVars, rendererVars, idlerVars>>

(***************************************************************************)
(* _on_render_finished: the last one sets the event, which releases all    *)
(* who wait for it, even if a new render clears it before they run.        *)
(***************************************************************************)
Release ==
  idler' = [i \in Idlers |-> IF idler[i] = "waiting" THEN "released" ELSE idler[i]]

Finished(c) ==
  /\ c \in untold
  /\ untold' = untold \ {c}
  /\ IF active <= 1
       THEN active' = 0 /\ idle' = TRUE /\ Release
       ELSE active' = active - 1 /\ UNCHANGED <<idle, idler>>
  /\ UNCHANGED <<caller, page, work, rendererVars, covers>>

(***************************************************************************)
(* The caller gets its page or the engine's error, and goes on to the next *)
(* page if there is one; a single view is an overview of one page.         *)
(***************************************************************************)
RenderReturns(c) ==
  /\ caller[c] = "waiting"
  /\ work[c] = "ended" /\ c \notin untold
  /\ \/ CallerEnds(c, "failed")
     \/ CallerEnds(c, "returned")
     \/ page[c] < Pages /\ ~closed /\ Submit(c)
  /\ UNCHANGED <<untold, engine, closed, idlerVars>>

(* Faulty variant: a cancelled caller counts its render as finished. *)
CancelFinishes(c) ==
  /\ caller[c] \in {"initializing", "waiting"}
  /\ untold' = IF caller[c] = "waiting" THEN untold \cup {c} ELSE untold
  /\ CallerEnds(c, "cancelled")
  /\ UNCHANGED <<engine, closed, idlerVars>>

(* The caller's task is cancelled; threads know nothing of it. *)
Cancel(c) ==
  /\ caller[c] \in {"initializing", "waiting"}
  /\ CallerEnds(c, "cancelled")
  /\ UNCHANGED <<untold, engine, closed, idlerVars>>

(***************************************************************************)
(* wait_idle().                                                            *)
(***************************************************************************)
Submitted == {job \in Callers \X (1 .. Pages) : job[2] <= page[job[1]]}

WaitIdle(i) ==
  /\ idler[i] = "none"
  /\ idler' = [idler EXCEPT ![i] = IF idle THEN "returned" ELSE "waiting"]
  /\ covers' = [covers EXCEPT ![i] = Submitted]
  /\ UNCHANGED <<caller, page, work, untold, countVars, rendererVars>>

WaitIdleReturns(i) ==
  /\ idler[i] = "released"
  /\ idler' = [idler EXCEPT ![i] = "returned"]
  /\ UNCHANGED <<caller, page, work, untold, countVars, rendererVars, covers>>

(* close(): the pool still runs what it has. *)
Close ==
  /\ ~closed
  /\ closed' = TRUE
  /\ engine' = FALSE
  /\ pool' = FALSE
  /\ UNCHANGED <<caller, page, work, untold, countVars, idlerVars>>

AllEnded ==
  /\ \A c \in Callers : caller[c] \in Ended /\ work[c] \in {"none", "ended"}
  /\ \A i \in Idlers : idler[i] = "returned"
  /\ UNCHANGED vars

Next ==
  \/ \E c \in Callers :
       \/ Call(c)
       \/ EngineStarts(c)
       \/ EngineFails(c)
       \/ WorkerStarts(c)
       \/ WorkerEnds(c)
       \/ Withdraw(c)
       \/ Finished(c)
       \/ RenderReturns(c)
       \/ Cancel(c)
  \/ \E i \in Idlers : WaitIdle(i) \/ WaitIdleReturns(i)
  \/ Close
  \/ AllEnded

Spec == Init /\ [][Next]_vars

(***************************************************************************)
(* Native code ends, threads take queued jobs, and the event loop runs     *)
(* what is ready.                                                          *)
(***************************************************************************)
Fairness ==
  /\ \A c \in Callers :
       /\ WF_vars(EngineStarts(c) \/ EngineFails(c))
       /\ WF_vars(WorkerStarts(c) \/ WorkerEnds(c) \/ Withdraw(c))
       /\ WF_vars(Finished(c))
       /\ WF_vars(RenderReturns(c))
  /\ \A i \in Idlers : WF_vars(WaitIdleReturns(i))

FairSpec == Spec /\ Fairness
-----------------------------------------------------------------------------
(* Every variable has the type its declaration says. *)
TypeOK ==
  /\ caller \in [Callers -> CallerStates]
  /\ page \in [Callers -> 0 .. Pages]
  /\ work \in [Callers -> WorkStates]
  /\ untold \subseteq Callers
  /\ active \in Nat
  /\ idle \in BOOLEAN
  /\ engine \in BOOLEAN
  /\ pool \in BOOLEAN
  /\ closed \in BOOLEAN
  /\ idler \in [Idlers -> {"none", "waiting", "released", "returned"}]
  /\ covers \in [Idlers -> SUBSET (Callers \X (1 .. Pages))]

(* Jobs that are not over, or whose end the event loop has not heard of. *)
Busy == {c \in Callers : work[c] \in {"queued", "running"}} \cup untold

JobEnded(job) ==
  \/ job[2] < page[job[1]]
  \/ job[2] = page[job[1]] /\ work[job[1]] = "ended"

(* The counter and the event say what the threads do. *)
CountInv ==
  /\ active = Cardinality(Busy)
  /\ idle <=> Busy = {}

CallerInv ==
  \A c \in Callers :
    /\ caller[c] \in {"idle", "initializing"} => page[c] = 0
    /\ page[c] = 0 <=> work[c] = "none"
    /\ c \in untold => work[c] = "ended"

ClosedInv == closed => ~engine /\ ~pool

IdlerInv ==
  \A i \in Idlers :
    /\ idler[i] = "waiting" => ~idle
    /\ \A job \in covers[i] :
         /\ job[2] <= page[job[1]]
         /\ idler[i] \in {"released", "returned"} => JobEnded(job)

PoolInv == TypeOK /\ CountInv /\ CallerInv /\ ClosedInv /\ IdlerInv

(***************************************************************************)
(* "Wait for any in-flight native thread rendering operations to           *)
(* complete": when wait_idle returns, every render submitted before it was *)
(* called is over in its thread, also those whose callers were cancelled.  *)
(* New renders may have begun meanwhile.                                   *)
(***************************************************************************)
IdleMeansDone ==
  \A i \in Idlers :
    idler[i] = "returned" => \A job \in covers[i] : JobEnded(job)

(***************************************************************************)
(* After close() nothing is submitted and neither the engine nor the pool  *)
(* is created again, also not by a call that was starting the engine or    *)
(* was between two pages.                                                  *)
(***************************************************************************)
ClosedNeverRenders == [][closed => page' = page /\ ~pool' /\ ~engine']_vars

(***************************************************************************)
(* "Renders already submitted still finish and release wait_idle": closed  *)
(* or not, each call of wait_idle returns.                                 *)
(***************************************************************************)
WaitIdleEnds == \A i \in Idlers : (idler[i] = "waiting") ~> (idler[i] = "returned")
=============================================================================
