----------------------------- MODULE SystemList -----------------------------
(***************************************************************************)
(* QueryService.list_systems (core/beszel/service): the list of monitored  *)
(* systems behind a cache with a time to live.  With caching on, callers   *)
(* take turns under an asyncio.Lock, look at the cache and fetch when it   *)
(* is stale; without, every caller fetches for itself.                     *)
(*                                                                         *)
(* A list is its version: the number of changes the Hub had seen when it   *)
(* answered.  One action is what a caller runs between two suspensions.    *)
(***************************************************************************)
EXTENDS Integers, Sequences, FiniteSets

CONSTANTS
  Callers,     \* calls of list_systems()
  NoList,      \* _cached_systems is None
  TTLs,        \* values cache_ttl can have; 0 turns caching off
  MaxNow,      \* bound: the clock stops here
  MaxVersion   \* bound: the Hub's list changes so often

ASSUME SystemListAssumption ==
  /\ TTLs \subseteq Nat
  /\ MaxNow \in Nat
  /\ MaxVersion \in Nat
  /\ NoList \notin Nat

VARIABLES
  call,     \* state of each call
  locked,   \* _cache_lock is held
  waiters,  \* callers queued for _cache_lock
  woken,    \* the queued caller the lock has been handed to, as a set
  cached,   \* _cached_systems
  expires,  \* _cache_expires_at
  now,      \* time.monotonic()
  hub,      \* version of the list at the Hub
  since,    \* hub when a caller's fetch began
  result,   \* the list each call returned
  ttl,      \* cache_ttl, which never changes
  floor,    \* history variable: newest list returned before the call began
  before    \* history variable: calls made before

listVars == <<call, locked, waiters, woken, cached, expires, now, hub, since,
              result, ttl, floor, before>>

cacheVars == <<cached, expires>>
worldVars == <<now, hub, ttl>>
historyVars == <<floor, before>>

Returned == {"answered", "raised", "cancelled"}
caching == ttl > 0

CallStates == {"idle", "queued", "fetching"} \cup Returned
Versions == 0 .. MaxVersion

ListInit ==
  /\ call = [c \in Callers |-> "idle"]
  /\ locked = FALSE
  /\ waiters = << >>
  /\ woken = {}
  /\ cached = NoList
  /\ expires = 0
  /\ now = 0
  /\ hub = 0
  /\ since = [c \in Callers |-> 0]
  /\ result = [c \in Callers |-> NoList]
  /\ ttl \in TTLs
  /\ floor = [c \in Callers |-> 0]
  /\ before = [c \in Callers |-> {}]

Fresh == cached # NoList /\ now < expires

(***************************************************************************)
(* asyncio.Lock: release() hands the lock to the first waiter, which stays *)
(* queued until it runs; a newcomer gets the lock at once only when it is  *)
(* free and nobody is queued.                                              *)
(***************************************************************************)
LockIsFree == ~locked /\ waiters = << >>

First(queue) == IF queue = << >> THEN {} ELSE {Head(queue)}

Position(c) == CHOOSE i \in 1 .. Len(waiters) : waiters[i] = c

Without(c) == SubSeq(waiters, 1, Position(c) - 1)
                \o SubSeq(waiters, Position(c) + 1, Len(waiters))

(* The lock is let go while queue is waiting for it. *)
ReleaseTo(queue) ==
  /\ waiters' = queue
  /\ locked' = FALSE
  /\ woken' = First(queue)

Answer(c, list) ==
  /\ call' = [call EXCEPT ![c] = "answered"]
  /\ result' = [result EXCEPT ![c] = list]

(* The lock is held during the fetch, but only with caching on. *)
StartFetch(c) ==
  /\ call' = [call EXCEPT ![c] = "fetching"]
  /\ since' = [since EXCEPT ![c] = hub]
  /\ locked' = caching

(* The newest list any call has returned so far. *)
IsNewest(v) ==
  /\ v = 0 \/ \E b \in Callers : result[b] = v
  /\ \A b \in Callers : result[b] # NoList => result[b] <= v

(* The order of calls, and the newest list when they began. *)
Begin(c) ==
  /\ call[c] = "idle"
  /\ before' = [before EXCEPT ![c] = {b \in Callers : call[b] # "idle"}]
  /\ \E v \in Versions : IsNewest(v) /\ floor' = [floor EXCEPT ![c] = v]

(* Faulty variants: the cache is read, or filled, without taking its lock. *)
CallHitsUnlocked(c) ==
  /\ Begin(c)
  /\ Fresh
  /\ Answer(c, cached)
  /\ UNCHANGED <<locked, waiters, woken, cacheVars, worldVars, since>>

CallFetchesUnlocked(c) ==
  /\ Begin(c)
  /\ ~Fresh
  /\ StartFetch(c)
  /\ UNCHANGED <<waiters, woken, cacheVars, worldVars, result>>

(***************************************************************************)
(* A call that need not wait: it is answered from the cache, or fetches.   *)
(***************************************************************************)
CallHits(c) ==
  /\ Begin(c)
  /\ LockIsFree
  /\ Fresh
  /\ Answer(c, cached)
  /\ UNCHANGED <<locked, waiters, woken, cacheVars, worldVars, since>>

CallFetches(c) ==
  /\ Begin(c)
  /\ LockIsFree
  /\ ~Fresh
  /\ StartFetch(c)
  /\ UNCHANGED <<waiters, woken, cacheVars, worldVars, result>>

CallQueues(c) ==
  /\ Begin(c)
  /\ ~LockIsFree
  /\ call' = [call EXCEPT ![c] = "queued"]
  /\ waiters' = Append(waiters, c)
  /\ UNCHANGED <<locked, woken, cacheVars, worldVars, since, result>>

(* Faulty variant: no second look at the cache once the lock is held. *)
ResumeFetchesAnyway(c) ==
  /\ c \in woken
  /\ StartFetch(c)
  /\ waiters' = Without(c)
  /\ woken' = {}
  /\ UNCHANGED <<cacheVars, worldVars, result, historyVars>>

(***************************************************************************)
(* A queued caller gets the lock and looks at the cache again.             *)
(***************************************************************************)
ResumeHits(c) ==
  /\ c \in woken
  /\ Fresh
  /\ Answer(c, cached)
  /\ ReleaseTo(Without(c))
  /\ UNCHANGED <<cacheVars, worldVars, since, historyVars>>

ResumeFetches(c) ==
  /\ c \in woken
  /\ ~Fresh
  /\ StartFetch(c)
  /\ waiters' = Without(c)
  /\ woken' = {}
  /\ UNCHANGED <<cacheVars, worldVars, result, historyVars>>

(***************************************************************************)
(* The client's list arrives: it was true at some time during the fetch.   *)
(***************************************************************************)
FetchReturns(c, list) ==
  /\ call[c] = "fetching"
  /\ list \in since[c] .. hub
  /\ Answer(c, list)
  /\ IF caching
       THEN /\ cached' = list
            /\ expires' = now + ttl
            /\ ReleaseTo(waiters)
       ELSE UNCHANGED <<cacheVars, locked, waiters, woken>>
  /\ UNCHANGED <<worldVars, since, historyVars>>

(* Faulty variant: an exception leaves the lock held. *)
FetchRaisesInLock(c) ==
  /\ call[c] = "fetching"
  /\ call' = [call EXCEPT ![c] = "raised"]
  /\ UNCHANGED <<locked, waiters, woken, cacheVars, worldVars, since, result,
                 historyVars>>

(* The client raises; the cache keeps what it has. *)
FetchRaises(c) ==
  /\ call[c] = "fetching"
  /\ call' = [call EXCEPT ![c] = "raised"]
  /\ IF caching THEN ReleaseTo(waiters) ELSE UNCHANGED <<locked, waiters, woken>>
  /\ UNCHANGED <<cacheVars, worldVars, since, result, historyVars>>

(***************************************************************************)
(* The caller's task is cancelled: in the fetch, in the queue, or when the *)
(* lock had just been handed to it, in which case it hands it on.          *)
(***************************************************************************)
CallCancelled(c) ==
  /\ call[c] \in {"queued", "fetching"}
  /\ call' = [call EXCEPT ![c] = "cancelled"]
  /\ \/ /\ call[c] = "fetching" /\ caching
        /\ ReleaseTo(waiters)
     \/ /\ c \in woken
        /\ ReleaseTo(Without(c))
     \/ /\ call[c] = "queued" /\ c \notin woken
        /\ waiters' = Without(c)
        /\ UNCHANGED <<locked, woken>>
     \/ /\ ~caching
        /\ UNCHANGED <<locked, waiters, woken>>
  /\ UNCHANGED <<cacheVars, worldVars, since, result, historyVars>>

Tick ==
  /\ now < MaxNow
  /\ now' = now + 1
  /\ UNCHANGED <<call, locked, waiters, woken, cacheVars, hub, ttl, since,
                 result, historyVars>>

HubChanges ==
  /\ hub < MaxVersion
  /\ hub' = hub + 1
  /\ UNCHANGED <<call, locked, waiters, woken, cacheVars, now, ttl, since,
                 result, historyVars>>

AllReturned ==
  /\ \A c \in Callers : call[c] \in Returned
  /\ UNCHANGED listVars

ListNext ==
  \/ \E c \in Callers :
       \/ CallHits(c)
       \/ CallFetches(c)
       \/ CallQueues(c)
       \/ ResumeHits(c)
       \/ ResumeFetches(c)
       \/ \E list \in Versions : FetchReturns(c, list)
       \/ FetchRaises(c)
       \/ CallCancelled(c)
  \/ Tick
  \/ HubChanges
  \/ AllReturned

ListSpec == ListInit /\ [][ListNext]_listVars

(***************************************************************************)
(* Every HTTP request has a timeout, and the event loop runs the caller    *)
(* the lock was handed to.                                                 *)
(***************************************************************************)
ListFairness ==
  \A c \in Callers :
    /\ WF_listVars(ResumeHits(c) \/ ResumeFetches(c))
    /\ WF_listVars(FetchRaises(c) \/ \E list \in Versions : FetchReturns(c, list))

FairListSpec == ListSpec /\ ListFairness
-----------------------------------------------------------------------------
(* Every variable has the type its declaration says. *)
ListTypeOK ==
  /\ call \in [Callers -> CallStates]
  /\ locked \in BOOLEAN
  /\ waiters \in Seq(Callers)
  /\ woken \subseteq Callers
  /\ cached \in Versions \cup {NoList}
  /\ expires \in 0 .. MaxNow + ttl
  /\ now \in 0 .. MaxNow
  /\ hub \in Versions
  /\ ttl \in TTLs
  /\ since \in [Callers -> Versions]
  /\ result \in [Callers -> Versions \cup {NoList}]
  /\ floor \in [Callers -> Versions]
  /\ before \in [Callers -> SUBSET Callers]

(***************************************************************************)
(* One fetch serves all who call while it runs and until the cache         *)
(* expires: with caching on, at most one caller fetches, and none while    *)
(* the cache is fresh.                                                     *)
(***************************************************************************)
OneFetchAtATime ==
  caching =>
    \A c \in Callers :
      call[c] = "fetching" => ~Fresh /\ \A d \in Callers : call[d] = "fetching" => d = c

(***************************************************************************)
(* The list never goes back in time: a call gets a list at least as new as *)
(* any that was returned before it began.  Without the lock a slow fetch   *)
(* could overwrite the result of a quick one that began later.             *)
(***************************************************************************)
ReadsNeverGoBack ==
  \A c \in Callers : call[c] = "answered" => floor[c] <= result[c]

(***************************************************************************)
(* With caching on, calls return in the order they were made.  The order   *)
(* in which alerts join the chain of analyses rests on this.               *)
(***************************************************************************)
AnswersInCallOrder ==
  caching =>
    \A c \in Callers :
      call[c] = "answered" => \A b \in before[c] : call[b] \in Returned

(* Every call returns or raises: the lock is never lost. *)
EveryCallReturns ==
  \A c \in Callers : (call[c] # "idle") ~> (call[c] \in Returned)
=============================================================================
