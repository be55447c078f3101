-------------------------- MODULE SystemList_proofs --------------------------
(***************************************************************************)
(* Proofs about SystemList, for any number of calls and any times.         *)
(***************************************************************************)
EXTENDS SystemReads, SequenceTheorems, TLAPS

(***************************************************************************)
(* Queued calls are the members of the queue, in the order they were made, *)
(* and the lock is handed over to the first.                               *)
(***************************************************************************)
IsQueue ==
  /\ \A c \in Callers :
       call[c] = "queued" <=> \E i \in 1 .. Len(waiters) : waiters[i] = c
  /\ \A i, j \in 1 .. Len(waiters) : i < j =>
       waiters[i] # waiters[j] /\ waiters[j] \notin before[waiters[i]]

QueueInv ==
  /\ IsQueue
  /\ \A c \in woken : waiters # << >> /\ c = waiters[1]
  /\ waiters # << >> \/ locked => caching

(***************************************************************************)
(* The lock is what keeps fetches apart: with caching on whoever fetches   *)
(* holds it, found the cache stale and is alone; the lock is handed over   *)
(* only when nobody holds it.                                              *)
(***************************************************************************)
LockInv ==
  /\ woken # {} => ~locked
  /\ caching =>
       \A c \in Callers :
         call[c] = "fetching" =>
           /\ locked /\ ~Fresh
           /\ \A d \in Callers : call[d] = "fetching" => d = c

(* With caching on a call that has got the lock has nobody before it.       *)
OrderInv ==
  /\ \A c \in Callers : \A b \in before[c] : call[b] # "idle" /\ b # c
  /\ caching =>
       \A c \in Callers :
         call[c] \in {"fetching", "answered"} =>
           \A b \in before[c] : call[b] \in Returned

(***************************************************************************)
(* With caching on the cache holds the newest list, which no fetch under   *)
(* way will undercut; without it there is none.                            *)
(***************************************************************************)
AgeInv ==
  /\ \A c \in Callers :
       /\ since[c] <= hub /\ floor[c] <= hub
       /\ result[c] # NoList => result[c] <= hub
       /\ call[c] = "fetching" => floor[c] <= since[c]
  /\ cached # NoList => caching /\ cached <= hub
  /\ caching =>
       \A c \in Callers :
         /\ result[c] # NoList => cached # NoList /\ result[c] <= cached
         /\ cached # NoList => floor[c] <= cached
         /\ cached = NoList => floor[c] = 0
         /\ call[c] = "fetching" /\ cached # NoList => cached <= since[c]

ListInv ==
  ListTypeOK /\ QueueInv /\ LockInv /\ OrderInv /\ AgeInv /\ ReadsNeverGoBack
-----------------------------------------------------------------------------
(* What is left of the queue when c leaves it. *)
LEMMA WithoutProperties ==
  ASSUME waiters \in Seq(Callers), NEW c \in Callers,
         \E i \in 1 .. Len(waiters) : waiters[i] = c
  PROVE  \E k \in 1 .. Len(waiters) :
           /\ waiters[k] = c
           /\ Without(c) \in Seq(Callers)
           /\ Len(Without(c)) = Len(waiters) - 1
           /\ \A i \in 1 .. Len(waiters) - 1 :
                Without(c)[i] = waiters[IF i < k THEN i ELSE i + 1]
<1> DEFINE k == Position(c)
           s == SubSeq(waiters, 1, k - 1)
           t == SubSeq(waiters, k + 1, Len(waiters))
<1>1. k \in 1 .. Len(waiters) /\ waiters[k] = c
  BY DEF Position
<1>2. Len(waiters) \in Nat /\ \A i \in 1 .. Len(waiters) : waiters[i] \in Callers
  BY ElementOfSeq, LenProperties
<1> HIDE DEF k
<1>3. /\ s \in Seq(Callers) /\ Len(s) = k - 1
      /\ \A i \in 1 .. k - 1 : s[i] = waiters[i]
  <2>1. k - 1 \in Int /\ \A i \in 1 .. k - 1 : waiters[i] \in Callers
    BY <1>1, <1>2
  <2> QED
    BY <1>1, <2>1, SubSeqProperties
<1>4. /\ t \in Seq(Callers) /\ Len(t) = Len(waiters) - k
      /\ \A i \in 1 .. Len(waiters) - k : t[i] = waiters[k + i]
  <2>1. k + 1 \in Int /\ \A i \in k + 1 .. Len(waiters) : waiters[i] \in Callers
    BY <1>1, <1>2
  <2> QED
    BY <1>1, <1>2, <2>1, SubSeqProperties
<1>5. Without(c) = s \o t
  BY DEF Without, k
<1> HIDE DEF s, t
<1>6. /\ s \o t \in Seq(Callers)
      /\ Len(s \o t) = Len(s) + Len(t)
      /\ \A i \in 1 .. Len(s) + Len(t) :
           (s \o t)[i] = IF i <= Len(s) THEN s[i] ELSE t[i - Len(s)]
  <2>1. s \in Seq(Callers) /\ t \in Seq(Callers)
    BY <1>3, <1>4
  <2> QED
    BY <2>1, ConcatProperties
<1>7. ASSUME NEW i \in 1 .. Len(waiters) - 1
      PROVE  Without(c)[i] = waiters[IF i < k THEN i ELSE i + 1]
  <2>1. i \in 1 .. Len(s) + Len(t)
    BY <1>1, <1>2, <1>3, <1>4
  <2>2. Without(c)[i] = IF i <= Len(s) THEN s[i] ELSE t[i - Len(s)]
    BY <1>5, <1>6, <2>1
  <2>3. CASE i < k
    BY <1>1, <1>2, <1>3, <2>2, <2>3
  <2>4. CASE ~(i < k)
    <3>1. i - Len(s) \in 1 .. Len(waiters) - k /\ ~(i <= Len(s))
      BY <1>1, <1>2, <1>3, <2>4
    <3>2. t[i - Len(s)] = waiters[k + (i - Len(s))] /\ k + (i - Len(s)) = i + 1
      BY <1>1, <1>2, <1>3, <1>4, <3>1
    <3> QED
      BY <2>2, <2>4, <3>1, <3>2
  <2> QED
    BY <2>3, <2>4
<1>8. Without(c) \in Seq(Callers) /\ Len(Without(c)) = Len(waiters) - 1
  BY <1>1, <1>2, <1>3, <1>4, <1>5, <1>6
<1> QED
  BY <1>1, <1>7, <1>8

LEMMA ListTypeStep == ListTypeOK /\ QueueInv /\ [ListNext]_listVars => ListTypeOK'
<1> SUFFICES ASSUME ListTypeOK, QueueInv, [ListNext]_listVars
             PROVE  ListTypeOK'
  OBVIOUS
<1> USE SystemListAssumption DEF ListTypeOK, Versions, CallStates, Returned
<1>f. ASSUME NEW queue \in Seq(Callers)
      PROVE  First(queue) \subseteq Callers
  BY <1>f, HeadTailProperties DEF First
<1>w. ASSUME NEW c \in Callers, call[c] = "queued"
      PROVE  Without(c) \in Seq(Callers)
  BY <1>w, WithoutProperties DEF QueueInv, IsQueue
<1>q. \A c \in woken : call[c] = "queued"
  <2> SUFFICES ASSUME NEW c \in woken
               PROVE  \E i \in 1 .. Len(waiters) : waiters[i] = c
    BY DEF QueueInv, IsQueue
  <2>1. waiters # << >> /\ c = waiters[1]
    BY DEF QueueInv
  <2>2. 1 \in 1 .. Len(waiters)
    BY <2>1, EmptySeq
  <2> QED
    BY <2>1, <2>2
<1>1. ASSUME NEW c \in Callers, CallHits(c)
      PROVE  ListTypeOK'
  BY <1>1 DEF CallHits, Begin, Answer, Fresh, cacheVars, worldVars
<1>2. ASSUME NEW c \in Callers, CallFetches(c)
      PROVE  ListTypeOK'
  BY <1>2 DEF CallFetches, Begin, StartFetch, caching, cacheVars, worldVars
<1>3. ASSUME NEW c \in Callers, CallQueues(c)
      PROVE  ListTypeOK'
  BY <1>3 DEF CallQueues, Begin, cacheVars, worldVars
<1>4. ASSUME NEW c \in Callers, ResumeHits(c)
      PROVE  ListTypeOK'
  BY <1>4, <1>f, <1>w, <1>q
     DEF ResumeHits, Answer, Fresh, ReleaseTo, cacheVars, worldVars, historyVars
<1>5. ASSUME NEW c \in Callers, ResumeFetches(c)
      PROVE  ListTypeOK'
  BY <1>5, <1>w, <1>q
     DEF ResumeFetches, StartFetch, caching, cacheVars, worldVars, historyVars
<1>6. ASSUME NEW c \in Callers, NEW list \in Versions, FetchReturns(c, list)
      PROVE  ListTypeOK'
  <2>1. ttl \in Nat /\ ttl' = ttl /\ now \in 0 .. MaxNow /\ now' = now
    BY <1>6 DEF FetchReturns, worldVars
  <2>2. cached' \in Versions \cup {NoList} /\ expires' \in 0 .. MaxNow + ttl'
    BY <1>6, <2>1 DEF FetchReturns, cacheVars
  <2>3. locked' \in BOOLEAN /\ waiters' \in Seq(Callers) /\ woken' \subseteq Callers
    BY <1>6, <1>f DEF FetchReturns, ReleaseTo
  <2> QED
    BY <1>6, <2>1, <2>2, <2>3 DEF FetchReturns, Answer, worldVars, historyVars
<1>7. ASSUME NEW c \in Callers, FetchRaises(c)
      PROVE  ListTypeOK'
  BY <1>7, <1>f DEF FetchRaises, ReleaseTo, cacheVars, worldVars, historyVars
<1>8. ASSUME NEW c \in Callers, CallCancelled(c)
      PROVE  ListTypeOK'
  BY <1>8, <1>f, <1>w, <1>q
     DEF CallCancelled, ReleaseTo, cacheVars, worldVars, historyVars
<1>9. CASE Tick
  BY <1>9 DEF Tick, cacheVars, historyVars
<1>10. CASE HubChanges
  BY <1>10 DEF HubChanges, cacheVars, historyVars
<1>11. CASE UNCHANGED listVars
  BY <1>11 DEF listVars
<1> QED
  BY <1>1, <1>2, <1>3, <1>4, <1>5, <1>6, <1>7, <1>8, <1>9, <1>10, <1>11
     DEF ListNext, AllReturned

(* Nobody joins or leaves the queue. *)
LEMMA QueueStays ==
  ASSUME ListTypeOK, IsQueue, NEW c \in Callers, call[c] # "queued",
         waiters' = waiters,
         \A d \in Callers : call'[d] = "queued" <=> call[d] = "queued",
         \A d \in Callers : d # c => before'[d] = before[d]
  PROVE  IsQueue'
<1>1. \A i \in 1 .. Len(waiters) : waiters[i] \in Callers /\ waiters[i] # c
  BY ElementOfSeq DEF ListTypeOK, IsQueue
<1> QED
  BY <1>1 DEF IsQueue

(* A queued call leaves the queue. *)
LEMMA QueueShrinks ==
  ASSUME ListTypeOK, IsQueue, NEW c \in Callers, call[c] = "queued",
         waiters' = Without(c),
         call'[c] # "queued",
         \A d \in Callers : d # c => call'[d] = call[d],
         before' = before
  PROVE  IsQueue'
<1>1. PICK k \in 1 .. Len(waiters) :
        /\ waiters[k] = c
        /\ waiters' \in Seq(Callers)
        /\ Len(waiters') = Len(waiters) - 1
        /\ \A i \in 1 .. Len(waiters) - 1 :
             waiters'[i] = waiters[IF i < k THEN i ELSE i + 1]
  <2>1. waiters \in Seq(Callers)
    BY DEF ListTypeOK
  <2>2. \E i \in 1 .. Len(waiters) : waiters[i] = c
    BY DEF IsQueue
  <2>3. \E k \in 1 .. Len(waiters) :
          /\ waiters[k] = c
          /\ Without(c) \in Seq(Callers)
          /\ Len(Without(c)) = Len(waiters) - 1
          /\ \A i \in 1 .. Len(waiters) - 1 :
               Without(c)[i] = waiters[IF i < k THEN i ELSE i + 1]
    BY <2>1, <2>2, WithoutProperties
  <2> QED
    BY <2>3
<1>2. Len(waiters) \in Nat
  BY LenProperties DEF ListTypeOK
<1>3. ASSUME NEW d \in Callers
      PROVE  call'[d] = "queued" <=> \E i \in 1 .. Len(waiters') : waiters'[i] = d
  <2>1. CASE d = c
    <3>1. \A i \in 1 .. Len(waiters) : i # k => waiters[i] # c
      BY <1>1, <1>2 DEF IsQueue
    <3> QED
      BY <1>1, <1>2, <2>1, <3>1
  <2>2. CASE d # c
    <3>1. ASSUME call'[d] = "queued"
          PROVE  \E i \in 1 .. Len(waiters') : waiters'[i] = d
      <4>1. PICK j \in 1 .. Len(waiters) : waiters[j] = d
        BY <2>2, <3>1 DEF IsQueue
      <4>2. j # k
        BY <1>1, <2>2, <4>1
      <4>3. CASE j < k
        <5>1. j \in 1 .. Len(waiters) - 1
          BY <1>2, <4>3
        <5> QED
          BY <1>1, <4>1, <4>3, <5>1
      <4>4. CASE ~(j < k)
        <5>1. j - 1 \in 1 .. Len(waiters) - 1 /\ ~(j - 1 < k) /\ (j - 1) + 1 = j
          BY <1>2, <4>2, <4>4
        <5> QED
          BY <1>1, <4>1, <5>1, ZenonT(40)
      <4> QED
        BY <4>3, <4>4
    <3>2. ASSUME NEW i \in 1 .. Len(waiters'), waiters'[i] = d
          PROVE  call'[d] = "queued"
      <4>1. \E j \in 1 .. Len(waiters) : waiters[j] = d
        BY <1>1, <1>2, <3>2, SMTT(30)
      <4> QED
        BY <2>2, <4>1 DEF IsQueue
    <3> QED
      BY <3>1, <3>2
  <2> QED
    BY <2>1, <2>2
<1>4. ASSUME NEW i \in 1 .. Len(waiters'), NEW j \in 1 .. Len(waiters'), i < j
      PROVE  waiters'[i] # waiters'[j] /\ waiters'[j] \notin before'[waiters'[i]]
  <2> DEFINE at(n) == IF n < k THEN n ELSE n + 1
  <2>1. /\ at(i) \in 1 .. Len(waiters) /\ at(j) \in 1 .. Len(waiters)
        /\ at(i) < at(j)
    BY <1>1, <1>2, <1>4
  <2>2. waiters'[i] = waiters[at(i)] /\ waiters'[j] = waiters[at(j)]
    BY <1>1, <1>2
  <2> HIDE DEF at
  <2> QED
    BY <2>1, <2>2 DEF IsQueue
<1> QED
  BY <1>3, <1>4 DEF IsQueue

(* A call joins the queue. *)
LEMMA QueueGrows ==
  ASSUME ListTypeOK, IsQueue, OrderInv, NEW c \in Callers, CallQueues(c)
  PROVE  IsQueue'
<1>1. /\ call[c] = "idle" /\ call'[c] = "queued"
      /\ \A d \in Callers : d # c => call'[d] = call[d] /\ before'[d] = before[d]
      /\ waiters' = Append(waiters, c)
  BY DEF CallQueues, Begin, ListTypeOK
<1>2. /\ Len(waiters) \in Nat /\ Len(waiters') = Len(waiters) + 1
      /\ \A i \in 1 .. Len(waiters) :
           waiters'[i] = waiters[i] /\ waiters[i] \in Callers /\ waiters[i] # c
      /\ waiters'[Len(waiters) + 1] = c
  BY <1>1, ElementOfSeq, LenProperties, SMTT(30) DEF ListTypeOK, IsQueue
<1>3. ASSUME NEW d \in Callers
      PROVE  call'[d] = "queued" <=> \E i \in 1 .. Len(waiters') : waiters'[i] = d
  <2>1. CASE d = c
    BY <1>1, <1>2, <2>1
  <2>2. CASE d # c
    BY <1>1, <1>2, <2>2 DEF IsQueue
  <2> QED
    BY <2>1, <2>2
<1>4. ASSUME NEW i \in 1 .. Len(waiters'), NEW j \in 1 .. Len(waiters'), i < j
      PROVE  waiters'[i] # waiters'[j] /\ waiters'[j] \notin before'[waiters'[i]]
  <2>1. i \in 1 .. Len(waiters) /\ before'[waiters'[i]] = before[waiters[i]]
    BY <1>1, <1>2, <1>4
  <2>2. CASE j \in 1 .. Len(waiters)
    BY <1>2, <1>4, <2>1, <2>2 DEF IsQueue
  <2>3. CASE j = Len(waiters) + 1
    BY <1>1, <1>2, <2>1, <2>3 DEF OrderInv
  <2> QED
    BY <1>2, <2>2, <2>3
<1> QED
  BY <1>3, <1>4 DEF IsQueue

(* The call the lock has been handed to is queued, and nobody fetches. *)
LEMMA WokenIsQueued ==
  ASSUME ListTypeOK, QueueInv, NEW c \in woken
  PROVE  c \in Callers /\ call[c] = "queued" /\ caching
<1>1. waiters # << >> /\ c = waiters[1] /\ caching /\ c \in Callers
  BY DEF QueueInv, ListTypeOK
<1>2. 1 \in 1 .. Len(waiters)
  BY <1>1, EmptySeq DEF ListTypeOK
<1> QED
  BY <1>1, <1>2 DEF QueueInv, IsQueue

LEMMA QueueStep ==
  ListTypeOK /\ QueueInv /\ OrderInv /\ [ListNext]_listVars => QueueInv'
<1> SUFFICES ASSUME ListTypeOK, QueueInv, OrderInv, [ListNext]_listVars
             PROVE  QueueInv'
  OBVIOUS
<1> USE DEF Returned
<1>q. IsQueue
  BY DEF QueueInv
<1>f. ASSUME NEW queue \in Seq(Callers), NEW c \in First(queue)
      PROVE  queue # << >> /\ c = queue[1]
  BY <1>f, HeadTailProperties DEF First
<1>w. ASSUME NEW c \in Callers, call[c] = "queued"
      PROVE  Without(c) \in Seq(Callers)
  BY <1>w, WithoutProperties DEF QueueInv, IsQueue, ListTypeOK
<1>1. ASSUME NEW c \in Callers, CallHits(c)
      PROVE  QueueInv'
  <2>1. IsQueue'
    BY <1>1, <1>q, QueueStays DEF CallHits, Begin, Answer, ListTypeOK
  <2> QED
    BY <1>1, <2>1 DEF CallHits, QueueInv, caching, worldVars
<1>2. ASSUME NEW c \in Callers, CallFetches(c)
      PROVE  QueueInv'
  <2>1. IsQueue'
    BY <1>2, <1>q, QueueStays DEF CallFetches, Begin, StartFetch, ListTypeOK
  <2> QED
    BY <1>2, <2>1 DEF CallFetches, StartFetch, QueueInv, caching, worldVars
<1>3. ASSUME NEW c \in Callers, CallQueues(c)
      PROVE  QueueInv'
  <2>1. IsQueue'
    BY <1>3, <1>q, QueueGrows
  <2>2. caching /\ caching'
    BY <1>3 DEF CallQueues, LockIsFree, QueueInv, caching, worldVars
  <2>3. ASSUME NEW d \in woken'
        PROVE  waiters' # << >> /\ d = waiters'[1]
    <3>1. d \in woken /\ waiters # << >> /\ d = waiters[1] /\ waiters' = Append(waiters, c)
      BY <1>3, <2>3 DEF CallQueues, QueueInv
    <3>2. Len(waiters) \in Nat \ {0}
      BY <3>1, EmptySeq DEF ListTypeOK
    <3> QED
      BY <3>1, <3>2, AppendProperties DEF ListTypeOK
  <2> QED
    BY <2>1, <2>2, <2>3 DEF QueueInv
<1>4. ASSUME NEW c \in Callers, ResumeHits(c)
      PROVE  QueueInv'
  <2>1. call[c] = "queued" /\ caching /\ caching'
    BY <1>4, WokenIsQueued DEF ResumeHits, caching, worldVars
  <2>2. IsQueue'
    BY <1>4, <1>q, <2>1, QueueShrinks
       DEF ResumeHits, Answer, ReleaseTo, ListTypeOK, historyVars
  <2>3. woken' = First(Without(c)) /\ waiters' = Without(c)
    BY <1>4 DEF ResumeHits, ReleaseTo
  <2> QED
    BY <1>f, <1>w, <2>1, <2>2, <2>3 DEF QueueInv
<1>5. ASSUME NEW c \in Callers, ResumeFetches(c)
      PROVE  QueueInv'
  <2>1. call[c] = "queued" /\ caching /\ caching'
    BY <1>5, WokenIsQueued DEF ResumeFetches, caching, worldVars
  <2>2. IsQueue'
    BY <1>5, <1>q, <2>1, QueueShrinks
       DEF ResumeFetches, StartFetch, ListTypeOK, historyVars
  <2> QED
    BY <1>5, <2>1, <2>2 DEF ResumeFetches, QueueInv
<1>r. ASSUME NEW c \in Callers, call[c] = "fetching", call' = [call EXCEPT ![c] = "raised"]
                \/ call' = [call EXCEPT ![c] = "answered"]
                \/ call' = [call EXCEPT ![c] = "cancelled"],
             UNCHANGED <<ttl, before>>,
             \/ caching /\ ReleaseTo(waiters)
             \/ ~caching /\ UNCHANGED <<locked, waiters, woken>>
      PROVE  QueueInv'
  <2>1. waiters' = waiters
    BY <1>r DEF ReleaseTo
  <2>2. \A d \in Callers : call'[d] = "queued" <=> call[d] = "queued"
    BY <1>r DEF ListTypeOK
  <2>3. IsQueue'
    BY <1>r, <1>q, <2>1, <2>2, QueueStays
  <2> QED
    BY <1>r, <1>f, <2>1, <2>3 DEF ReleaseTo, QueueInv, caching, ListTypeOK
<1>6. ASSUME NEW c \in Callers, NEW list \in Versions, FetchReturns(c, list)
      PROVE  QueueInv'
  BY <1>6, <1>r DEF FetchReturns, Answer, caching, worldVars, historyVars
<1>7. ASSUME NEW c \in Callers, FetchRaises(c)
      PROVE  QueueInv'
  BY <1>7, <1>r DEF FetchRaises, caching, worldVars, historyVars
<1>8. ASSUME NEW c \in Callers, CallCancelled(c)
      PROVE  QueueInv'
  <2>1. /\ call' = [call EXCEPT ![c] = "cancelled"]
        /\ ttl' = ttl /\ before' = before /\ (caching' <=> caching)
    BY <1>8 DEF CallCancelled, worldVars, historyVars, caching
  <2>2. CASE call[c] = "fetching" /\ caching /\ ReleaseTo(waiters)
    BY <1>r, <2>1, <2>2
  <2>3. CASE c \in woken /\ ReleaseTo(Without(c))
    <3>1. call[c] = "queued" /\ caching
      BY <2>3, WokenIsQueued
    <3>2. IsQueue'
      BY <1>q, <2>1, <2>3, <3>1, QueueShrinks DEF ReleaseTo, ListTypeOK
    <3> QED
      BY <1>f, <1>w, <2>1, <2>3, <3>1, <3>2 DEF ReleaseTo, QueueInv
  <2>4. CASE /\ call[c] = "queued" /\ c \notin woken
             /\ waiters' = Without(c)
             /\ UNCHANGED <<locked, woken>>
    <3>1. IsQueue'
      BY <1>q, <2>1, <2>4, QueueShrinks DEF ListTypeOK
    <3>2. PICK k \in 1 .. Len(waiters) :
            /\ waiters[k] = c
            /\ Without(c) \in Seq(Callers)
            /\ Len(Without(c)) = Len(waiters) - 1
            /\ \A i \in 1 .. Len(waiters) - 1 :
                 Without(c)[i] = waiters[IF i < k THEN i ELSE i + 1]
      <4>1. \E i \in 1 .. Len(waiters) : waiters[i] = c
        BY <1>q, <2>4 DEF IsQueue
      <4> QED
        BY <4>1, WithoutProperties DEF ListTypeOK
    <3>3. ASSUME NEW d \in woken
          PROVE  waiters' # << >> /\ d = waiters'[1]
      <4>1. d = waiters[1] /\ d # c
        BY <2>4, <3>3 DEF QueueInv
      <4>2. k > 1 /\ Len(waiters) \in Nat
        BY <3>2, <4>1, LenProperties DEF ListTypeOK
      <4>3. 1 \in 1 .. Len(waiters) - 1
        BY <3>2, <4>2
      <4>4. Without(c)[1] = waiters[1]
        BY <3>2, <4>2, <4>3
      <4>5. Without(c) # << >>
        BY <3>2, <4>3, EmptySeq
      <4> QED
        BY <2>4, <4>1, <4>4, <4>5
    <3>4. caching
      BY <3>2, EmptySeq DEF QueueInv
    <3> QED
      BY <2>1, <2>4, <3>1, <3>3, <3>4 DEF QueueInv
  <2>5. CASE ~caching /\ UNCHANGED <<locked, waiters, woken>>
    <3>1. call[c] = "fetching"
      <4>1. call[c] # "queued"
        BY <2>5, EmptySeq DEF QueueInv, IsQueue, ListTypeOK
      <4> QED
        BY <1>8, <4>1 DEF CallCancelled
    <3> QED
      BY <1>r, <2>1, <2>5, <3>1
  <2> QED
    BY <1>8, <2>2, <2>3, <2>4, <2>5 DEF CallCancelled
<1>9. CASE Tick \/ HubChanges \/ UNCHANGED listVars
  BY <1>9 DEF Tick, HubChanges, listVars, historyVars, cacheVars, QueueInv, IsQueue, caching
<1> QED
  BY <1>1, <1>2, <1>3, <1>4, <1>5, <1>6, <1>7, <1>8, <1>9 DEF ListNext, AllReturned

(* Nobody fetches while the lock is free or handed over. *)
LEMMA FreeMeansIdle ==
  ASSUME LockInv, caching, ~locked, NEW c \in Callers
  PROVE  call[c] # "fetching"
BY DEF LockInv

LEMMA LockStep ==
  ListTypeOK /\ QueueInv /\ LockInv /\ [ListNext]_listVars => LockInv'
<1> SUFFICES ASSUME ListTypeOK, QueueInv, LockInv, [ListNext]_listVars
             PROVE  LockInv'
  OBVIOUS
<1>t. call \in [Callers -> CallStates] /\ now \in Int /\ expires \in Int
  BY SystemListAssumption DEF ListTypeOK
<1>1. ASSUME NEW c \in Callers, CallHits(c)
      PROVE  LockInv'
  BY <1>1, <1>t DEF CallHits, Begin, Answer, LockInv, Fresh, caching, cacheVars, worldVars
<1>2. ASSUME NEW c \in Callers, CallFetches(c)
      PROVE  LockInv'
  <2>1. woken = {} /\ woken' = {} /\ ~locked
    BY <1>2 DEF CallFetches, LockIsFree, QueueInv
  <2> QED
    BY <1>2, <1>t, <2>1
       DEF CallFetches, StartFetch, LockInv, Fresh, caching, cacheVars, worldVars
<1>3. ASSUME NEW c \in Callers, CallQueues(c)
      PROVE  LockInv'
  BY <1>3, <1>t DEF CallQueues, LockInv, Fresh, caching, cacheVars, worldVars
<1>4. ASSUME NEW c \in Callers, ResumeHits(c)
      PROVE  LockInv'
  <2>1. ~locked /\ ~locked' /\ caching /\ ttl' = ttl
    BY <1>4, WokenIsQueued DEF ResumeHits, ReleaseTo, LockInv, worldVars
  <2>2. \A d \in Callers : call'[d] # "fetching"
    BY <1>4, <1>t, <2>1, FreeMeansIdle DEF ResumeHits, Answer
  <2> QED
    BY <2>1, <2>2 DEF LockInv
<1>5. ASSUME NEW c \in Callers, ResumeFetches(c)
      PROVE  LockInv'
  <2>1. ~locked /\ caching /\ locked' /\ woken' = {}
    BY <1>5, WokenIsQueued DEF ResumeFetches, StartFetch, LockInv
  <2>2. \A d \in Callers : call'[d] = "fetching" => d = c
    BY <1>5, <1>t, <2>1, FreeMeansIdle DEF ResumeFetches, StartFetch
  <2>3. ~Fresh'
    BY <1>5 DEF ResumeFetches, Fresh, cacheVars, worldVars
  <2> QED
    BY <2>1, <2>2, <2>3 DEF LockInv
(* Whoever fetches stops; with caching on nobody is left.                   *)
<1>r. ASSUME NEW c \in Callers, call[c] = "fetching",
             NEW state \in Returned, call' = [call EXCEPT ![c] = state],
             UNCHANGED worldVars,
             \/ caching /\ ReleaseTo(waiters)
             \/ ~caching /\ UNCHANGED <<locked, waiters, woken>>
      PROVE  LockInv'
  <2>1. caching => ~locked' /\ \A d \in Callers : call'[d] # "fetching"
    BY <1>r, <1>t DEF LockInv, ReleaseTo, Returned
  <2> QED
    BY <1>r, <2>1 DEF LockInv, caching, worldVars
<1>6. ASSUME NEW c \in Callers, NEW list \in Versions, FetchReturns(c, list)
      PROVE  LockInv'
  <2>1. "answered" \in Returned
    BY DEF Returned
  <2> QED
    BY <1>6, <1>r, <2>1 DEF FetchReturns, Answer
<1>7. ASSUME NEW c \in Callers, FetchRaises(c)
      PROVE  LockInv'
  <2>1. "raised" \in Returned
    BY DEF Returned
  <2> QED
    BY <1>7, <1>r, <2>1 DEF FetchRaises
<1>8. ASSUME NEW c \in Callers, CallCancelled(c)
      PROVE  LockInv'
  <2>1. /\ call' = [call EXCEPT ![c] = "cancelled"] /\ "cancelled" \in Returned
        /\ UNCHANGED <<cacheVars, worldVars>>
    BY <1>8 DEF CallCancelled, Returned
  <2>2. CASE call[c] = "fetching"
    <3>1. c \notin woken
      BY <2>2, WokenIsQueued
    <3> QED
      BY <1>8, <1>r, <2>1, <2>2, <3>1 DEF CallCancelled
  <2>3. CASE c \in woken /\ ReleaseTo(Without(c))
    BY <1>t, <2>1, <2>3, WokenIsQueued, FreeMeansIdle
       DEF LockInv, ReleaseTo, caching, worldVars
  <2>4. CASE UNCHANGED <<locked, woken>>
    BY <1>t, <2>1, <2>4 DEF LockInv, Fresh, caching, cacheVars, worldVars
  <2> QED
    BY <1>8, <2>2, <2>3, <2>4 DEF CallCancelled
<1>9. CASE Tick
  BY <1>9, <1>t DEF Tick, LockInv, Fresh, caching, cacheVars
<1>10. CASE HubChanges \/ UNCHANGED listVars
  BY <1>10 DEF HubChanges, listVars, LockInv, Fresh, caching, cacheVars
<1> QED
  BY <1>1, <1>2, <1>3, <1>4, <1>5, <1>6, <1>7, <1>8, <1>9, <1>10
     DEF ListNext, AllReturned

LEMMA OrderStep ==
  ListTypeOK /\ QueueInv /\ LockInv /\ OrderInv /\ [ListNext]_listVars => OrderInv'
<1> SUFFICES ASSUME ListTypeOK, QueueInv, LockInv, OrderInv, [ListNext]_listVars
             PROVE  OrderInv'
  OBVIOUS
<1>t. /\ call \in [Callers -> CallStates]
      /\ before \in [Callers -> SUBSET Callers]
  BY DEF ListTypeOK
<1> USE DEF CallStates, Returned
(* A call that finds the lock free: everybody before it has returned.       *)
<1>s. ASSUME NEW c \in Callers, Begin(c), NEW state \in CallStates,
             call' = [call EXCEPT ![c] = state], state # "idle",
             ttl' = ttl,
             state = "queued" \/ LockIsFree
      PROVE  OrderInv'
  <2>1. before' = [before EXCEPT ![c] = {b \in Callers : call[b] # "idle"}] /\ call[c] = "idle"
    BY <1>s DEF Begin
  <2>2. ASSUME caching, LockIsFree, NEW b \in Callers, call[b] # "idle"
        PROVE  call[b] \in Returned
    <3>1. call[b] # "queued"
      BY <2>2, EmptySeq DEF LockIsFree, QueueInv, IsQueue
    <3>2. call[b] # "fetching"
      BY <2>2, FreeMeansIdle DEF LockIsFree
    <3> QED
      BY <1>t, <2>2, <3>1, <3>2
  <2> QED
    BY <1>s, <1>t, <2>1, <2>2 DEF OrderInv, caching
(* A call the lock has been handed to: so they have.                        *)
<1>w. ASSUME NEW c \in woken, NEW b \in before[c]
      PROVE  call[b] \in Returned
  <2>1. c \in Callers /\ caching /\ ~locked /\ b \in Callers /\ call[b] # "idle" /\ b # c
    BY <1>w, <1>t, WokenIsQueued DEF LockInv, OrderInv
  <2>2. call[b] # "fetching"
    BY <2>1, FreeMeansIdle
  <2>3. ASSUME call[b] = "queued"
        PROVE  FALSE
    <3>1. PICK j \in 1 .. Len(waiters) : waiters[j] = b
      BY <2>1, <2>3 DEF QueueInv, IsQueue
    <3>2. c = waiters[1] /\ 1 \in 1 .. Len(waiters) /\ 1 < j
      BY <1>w, <2>1, <3>1, EmptySeq DEF QueueInv, ListTypeOK
    <3> QED
      BY <3>1, <3>2 DEF QueueInv, IsQueue
  <2> QED
    BY <1>t, <2>1, <2>2, <2>3
<1>1. ASSUME NEW c \in Callers, CallHits(c) \/ CallFetches(c) \/ CallQueues(c)
      PROVE  OrderInv'
  BY <1>1, <1>s DEF CallHits, CallFetches, CallQueues, Answer, StartFetch, worldVars
<1>2. ASSUME NEW c \in Callers, ResumeHits(c) \/ ResumeFetches(c)
      PROVE  OrderInv'
  <2>1. /\ c \in woken /\ before' = before /\ ttl' = ttl
        /\ \E state \in {"answered", "fetching"} : call' = [call EXCEPT ![c] = state]
    BY <1>2 DEF ResumeHits, ResumeFetches, Answer, StartFetch, worldVars, historyVars
  <2>2. call[c] = "queued"
    BY <2>1, WokenIsQueued
  <2> QED
    BY <1>t, <1>w, <2>1, <2>2 DEF OrderInv, caching
<1>3. ASSUME NEW c \in Callers,
             \/ \E list \in Versions : FetchReturns(c, list)
             \/ FetchRaises(c)
             \/ CallCancelled(c)
      PROVE  OrderInv'
  <2>1. /\ before' = before /\ ttl' = ttl
        /\ \E state \in Returned : call' = [call EXCEPT ![c] = state]
        /\ call[c] \in {"queued", "fetching"}
        /\ call'[c] = "answered" => call[c] = "fetching"
    BY <1>3, <1>t
       DEF FetchReturns, FetchRaises, CallCancelled, Answer, worldVars, historyVars
  <2> QED
    BY <1>t, <2>1 DEF OrderInv, caching
<1>4. CASE Tick \/ HubChanges \/ UNCHANGED listVars
  BY <1>4 DEF Tick, HubChanges, listVars, historyVars, OrderInv, caching
<1> QED
  BY <1>1, <1>2, <1>3, <1>4 DEF ListNext, AllReturned

(* What a call that begins now may expect: no more than the cache has.      *)
LEMMA NewestIsCached ==
  ASSUME ListTypeOK, AgeInv, NEW v \in Versions, IsNewest(v)
  PROVE  /\ v <= hub
         /\ caching /\ cached # NoList => v <= cached
         /\ caching /\ cached = NoList => v = 0
<1> USE SystemListAssumption DEF ListTypeOK, Versions
<1>1. CASE v = 0
  BY <1>1
<1>2. CASE \E b \in Callers : result[b] = v
  <2>1. PICK b \in Callers : result[b] = v
    BY <1>2
  <2>2. result[b] # NoList
    BY <2>1
  <2> QED
    BY <2>1, <2>2 DEF AgeInv
<1> QED
  BY <1>1, <1>2 DEF IsNewest

LEMMA AgeStep ==
  /\ ListTypeOK /\ QueueInv /\ LockInv /\ AgeInv /\ ReadsNeverGoBack
  /\ [ListNext]_listVars
  => AgeInv' /\ ReadsNeverGoBack'
<1> SUFFICES ASSUME ListTypeOK, QueueInv, LockInv, AgeInv, ReadsNeverGoBack,
                    [ListNext]_listVars
             PROVE  AgeInv' /\ ReadsNeverGoBack'
  OBVIOUS
<1>t. /\ call \in [Callers -> CallStates]
      /\ since \in [Callers -> Versions] /\ floor \in [Callers -> Versions]
      /\ result \in [Callers -> Versions \cup {NoList}]
      /\ hub \in Versions /\ cached \in Versions \cup {NoList}
      /\ Versions \subseteq Int /\ NoList \notin Versions
  BY SystemListAssumption DEF ListTypeOK, Versions
<1>b. ASSUME NEW c \in Callers, Begin(c)
      PROVE  \E v \in Versions :
               /\ floor' = [floor EXCEPT ![c] = v]
               /\ v <= hub
               /\ caching /\ cached # NoList => v <= cached
               /\ caching /\ cached = NoList => v = 0
  BY <1>b, NewestIsCached DEF Begin
<1>1. ASSUME NEW c \in Callers, CallHits(c)
      PROVE  AgeInv' /\ ReadsNeverGoBack'
  <2>1. PICK v \in Versions :
          /\ floor' = [floor EXCEPT ![c] = v]
          /\ v <= hub
          /\ caching /\ cached # NoList => v <= cached
    BY <1>1, <1>b DEF CallHits
  <2>2. cached # NoList /\ caching
    BY <1>1 DEF CallHits, Fresh, AgeInv
  <2>3. /\ call' = [call EXCEPT ![c] = "answered"] /\ result' = [result EXCEPT ![c] = cached]
        /\ UNCHANGED <<since, cacheVars, worldVars>>
    BY <1>1 DEF CallHits, Answer
  <2> QED
    BY <1>t, <2>1, <2>2, <2>3
       DEF AgeInv, ReadsNeverGoBack, caching, cacheVars, worldVars
<1>2. ASSUME NEW c \in Callers, CallFetches(c)
      PROVE  AgeInv' /\ ReadsNeverGoBack'
  <2>1. PICK v \in Versions :
          /\ floor' = [floor EXCEPT ![c] = v]
          /\ v <= hub
          /\ caching /\ cached # NoList => v <= cached
          /\ caching /\ cached = NoList => v = 0
    BY <1>2, <1>b DEF CallFetches
  <2>2. /\ call' = [call EXCEPT ![c] = "fetching"] /\ since' = [since EXCEPT ![c] = hub]
        /\ UNCHANGED <<result, cacheVars, worldVars>>
    BY <1>2 DEF CallFetches, StartFetch
  <2> QED
    BY <1>t, <2>1, <2>2 DEF AgeInv, ReadsNeverGoBack, caching, cacheVars, worldVars
<1>3. ASSUME NEW c \in Callers, CallQueues(c)
      PROVE  AgeInv' /\ ReadsNeverGoBack'
  <2>1. PICK v \in Versions :
          /\ floor' = [floor EXCEPT ![c] = v]
          /\ v <= hub
          /\ caching /\ cached # NoList => v <= cached
          /\ caching /\ cached = NoList => v = 0
    BY <1>3, <1>b DEF CallQueues
  <2>2. /\ call' = [call EXCEPT ![c] = "queued"]
        /\ UNCHANGED <<result, since, cacheVars, worldVars>>
    BY <1>3 DEF CallQueues
  <2> QED
    BY <1>t, <2>1, <2>2 DEF AgeInv, ReadsNeverGoBack, caching, cacheVars, worldVars
<1>4. ASSUME NEW c \in Callers, ResumeHits(c)
      PROVE  AgeInv' /\ ReadsNeverGoBack'
  <2>1. cached # NoList /\ caching
    BY <1>4 DEF ResumeHits, Fresh, AgeInv
  <2>2. /\ call' = [call EXCEPT ![c] = "answered"] /\ result' = [result EXCEPT ![c] = cached]
        /\ UNCHANGED <<since, floor, cacheVars, worldVars>>
    BY <1>4 DEF ResumeHits, Answer, historyVars
  <2> QED
    BY <1>t, <2>1, <2>2 DEF AgeInv, ReadsNeverGoBack, caching, cacheVars, worldVars
<1>5. ASSUME NEW c \in Callers, ResumeFetches(c)
      PROVE  AgeInv' /\ ReadsNeverGoBack'
  <2>1. /\ call' = [call EXCEPT ![c] = "fetching"] /\ since' = [since EXCEPT ![c] = hub]
        /\ UNCHANGED <<result, floor, cacheVars, worldVars>>
    BY <1>5 DEF ResumeFetches, StartFetch, historyVars
  <2> QED
    BY <1>t, <2>1 DEF AgeInv, ReadsNeverGoBack, caching, cacheVars, worldVars
<1>6. ASSUME NEW c \in Callers, NEW list \in Versions, FetchReturns(c, list)
      PROVE  AgeInv' /\ ReadsNeverGoBack'
  <2>1. /\ call' = [call EXCEPT ![c] = "answered"] /\ result' = [result EXCEPT ![c] = list]
        /\ UNCHANGED <<since, floor, hub, ttl>> /\ call[c] = "fetching"
        /\ since[c] <= list /\ list <= hub /\ floor[c] <= since[c] /\ list # NoList
    BY <1>6, <1>t DEF FetchReturns, Answer, historyVars, worldVars, AgeInv
  <2>2. CASE ~caching
    <3>1. cached' = cached
      BY <1>6, <2>2 DEF FetchReturns, cacheVars
    <3>2. \A d \in Callers :
            /\ result'[d] # NoList => result'[d] <= hub
            /\ call'[d] = "fetching" => floor[d] <= since[d]
      BY <1>t, <2>1 DEF AgeInv
    <3>3. AgeInv'
      BY <2>1, <2>2, <3>1, <3>2 DEF AgeInv, caching
    <3>4. floor[c] <= list
      <4>1. floor[c] \in Int /\ since[c] \in Int /\ list \in Int
        BY <1>t
      <4> QED
        BY <2>1, <4>1
    <3>5. ReadsNeverGoBack'
      BY <1>t, <2>1, <3>4 DEF ReadsNeverGoBack
    <3> QED
      BY <3>3, <3>5
  <2>3. CASE caching
    <3>1. cached' = list
      BY <1>6, <2>3 DEF FetchReturns
    <3>2. \A d \in Callers : call'[d] # "fetching"
      BY <1>t, <2>1, <2>3 DEF LockInv
    <3>3. cached # NoList => cached <= list
      <4>1. cached # NoList => cached <= since[c]
        BY <2>1, <2>3 DEF AgeInv
      <4>2. since[c] \in Int /\ list \in Int /\ (cached # NoList => cached \in Int)
        BY <1>t
      <4> QED
        BY <2>1, <4>1, <4>2
    <3>4. ASSUME NEW d \in Callers
          PROVE  /\ result'[d] # NoList => result'[d] <= list /\ result'[d] <= hub
                 /\ floor[d] <= list
      <4>1. floor[d] <= list
        BY <1>t, <2>1, <2>3, <3>3 DEF AgeInv, Versions
      <4>2. CASE d = c
        BY <1>t, <2>1, <4>1, <4>2
      <4>3. CASE d # c
        <5>1. result'[d] = result[d]
          BY <1>t, <2>1, <4>3
        <5>2. result[d] # NoList => /\ cached # NoList /\ result[d] <= cached
                                    /\ result[d] <= hub
          BY <2>3 DEF AgeInv
        <5>3. /\ list \in Int /\ (result[d] # NoList => result[d] \in Int)
              /\ (cached # NoList => cached \in Int)
          BY <1>t
        <5> QED
          BY <3>3, <4>1, <5>1, <5>2, <5>3
      <4> QED
        BY <4>2, <4>3
    <3> QED
      BY <1>t, <2>1, <2>3, <3>1, <3>2, <3>4 DEF AgeInv, ReadsNeverGoBack, caching
  <2> QED
    BY <2>2, <2>3
<1>7. ASSUME NEW c \in Callers, FetchRaises(c) \/ CallCancelled(c)
      PROVE  AgeInv' /\ ReadsNeverGoBack'
  <2>1. /\ \E state \in {"raised", "cancelled"} : call' = [call EXCEPT ![c] = state]
        /\ UNCHANGED <<since, result, floor, cacheVars, worldVars>>
    BY <1>7 DEF FetchRaises, CallCancelled, historyVars
  <2> QED
    BY <1>t, <2>1 DEF AgeInv, ReadsNeverGoBack, caching, cacheVars, worldVars
<1>8. CASE HubChanges
  <2>1. /\ hub' = hub + 1 /\ hub \in Int
        /\ UNCHANGED <<call, cached, ttl, since, result, floor>>
    BY <1>8, <1>t DEF HubChanges, cacheVars, historyVars
  <2>2. ASSUME NEW n \in Int, n <= hub
        PROVE  n <= hub'
    BY <2>1, <2>2
  <2>3. ASSUME NEW c \in Callers
        PROVE  /\ since[c] <= hub' /\ floor[c] <= hub'
               /\ result[c] # NoList => result[c] <= hub'
    BY <1>t, <2>2 DEF AgeInv
  <2>4. cached # NoList => cached <= hub'
    BY <1>t, <2>2 DEF AgeInv
  <2> QED
    BY <2>1, <2>3, <2>4 DEF AgeInv, ReadsNeverGoBack, caching
<1>9. CASE Tick \/ UNCHANGED listVars
  BY <1>9 DEF Tick, listVars, AgeInv, ReadsNeverGoBack, caching, cacheVars, historyVars
<1> QED
  BY <1>1, <1>2, <1>3, <1>4, <1>5, <1>6, <1>7, <1>8, <1>9 DEF ListNext, AllReturned

(***************************************************************************)
(* The inductive invariant of the cached list: the queue, the lock, the    *)
(* order of calls and the age of lists (QueryService.list_systems).        *)
(***************************************************************************)
THEOREM ListInvariant == ListSpec => []ListInv
<1>1. ListInit => ListInv
  <2> SUFFICES ASSUME ListInit
               PROVE  ListInv
    OBVIOUS
  <2> USE SystemListAssumption DEF ListInit
  <2>0. /\ MaxNow \in Nat /\ MaxVersion \in Nat /\ ttl \in Nat /\ ttl \in TTLs
        /\ 0 \in Versions
    BY DEF Versions
  <2>1. ListTypeOK
    <3>1. /\ call \in [Callers -> CallStates] /\ before \in [Callers -> SUBSET Callers]
          /\ waiters \in Seq(Callers)
      BY EmptySeq DEF CallStates
    <3>2. expires \in 0 .. MaxNow + ttl /\ now \in 0 .. MaxNow
      BY <2>0
    <3>3. /\ since \in [Callers -> Versions] /\ floor \in [Callers -> Versions]
          /\ result \in [Callers -> Versions \cup {NoList}]
      BY <2>0
    <3> QED
      BY <2>0, <3>1, <3>2, <3>3 DEF ListTypeOK
  <2>2. Len(waiters) = 0 /\ QueueInv
    BY DEF QueueInv, IsQueue
  <2>3. LockInv /\ OrderInv /\ AgeInv /\ ReadsNeverGoBack
    BY DEF LockInv, OrderInv, AgeInv, ReadsNeverGoBack
  <2> QED
    BY <2>1, <2>2, <2>3 DEF ListInv
<1>2. ListInv /\ [ListNext]_listVars => ListInv'
  BY ListTypeStep, QueueStep, LockStep, OrderStep, AgeStep DEF ListInv
<1> QED
  BY <1>1, <1>2, PTL DEF ListSpec

(* Every variable of the list keeps its type (QueryService). *)
THEOREM ListTypeCorrect == ListSpec => []ListTypeOK
<1>1. ListInv => ListTypeOK
  BY DEF ListInv
<1> QED
  BY <1>1, ListInvariant, PTL

(* With caching on list_systems makes one request at a time, and none while *)
(* the cache is fresh.                                                     *)
THEOREM FetchesAreSingle == ListSpec => []OneFetchAtATime
<1>1. ListInv => OneFetchAtATime
  BY DEF ListInv, LockInv, OneFetchAtATime
<1> QED
  BY <1>1, ListInvariant, PTL

(* list_systems never returns an older list than one returned before it     *)
(* was called, with caching and without.                                   *)
THEOREM ListsNeverGoBack == ListSpec => []ReadsNeverGoBack
<1>1. ListInv => ReadsNeverGoBack
  BY DEF ListInv
<1> QED
  BY <1>1, ListInvariant, PTL

(* With caching on calls of list_systems return in the order of the calls.  *)
THEOREM CallsReturnInOrder == ListSpec => []AnswersInCallOrder
<1>1. ListInv => AnswersInCallOrder
  BY DEF ListInv, OrderInv, AnswersInCallOrder
<1> QED
  BY <1>1, ListInvariant, PTL
-----------------------------------------------------------------------------
(***************************************************************************)
(* The calls as reads.  There is a newest list, and only calls that were   *)
(* answered have one.                                                      *)
(***************************************************************************)
NewestInv ==
  /\ \E v \in Versions : IsNewest(v)
  /\ \A c \in Callers : result[c] # NoList => call[c] = "answered"

ReadsInv == ListInv /\ NewestInv

(* There is one newest list. *)
LEMMA NewestIs == ListTypeOK => \A v \in Versions : IsNewest(v) => NewestList = v
<1> SUFFICES ASSUME ListTypeOK, NEW v \in Versions, IsNewest(v)
             PROVE  NewestList = v
  OBVIOUS
<1> DEFINE w == NewestList
<1>1. w \in Versions /\ IsNewest(w)
  BY DEF NewestList
<1> HIDE DEF w
<1>2. /\ Versions \subseteq Nat /\ NoList \notin Versions
      /\ result \in [Callers -> Versions \cup {NoList}]
  BY SystemListAssumption DEF ListTypeOK, Versions
<1>3. w = v
  BY <1>1, <1>2 DEF IsNewest
<1> QED
  BY <1>3 DEF w

LEMMA NewestIsNext ==
  ListTypeOK' => (\A v \in Versions : IsNewest(v) => NewestList = v)'
<1>1. ListTypeOK => \A v \in Versions : IsNewest(v) => NewestList = v
  BY NewestIs
<1> QED
  BY <1>1, PTL

(* An answer is the newest list, or leaves the newest what it was. *)
LEMMA AnswerIsNewest ==
  ASSUME ListTypeOK, NewestInv, NEW c \in Callers, call[c] # "answered",
         NEW list \in Versions, Answer(c, list), NEW v \in Versions, IsNewest(v)
  PROVE  LET w == IF v < list THEN list ELSE v
         IN  w \in Versions /\ IsNewest(w)'
<1> DEFINE w == IF v < list THEN list ELSE v
<1>1. /\ Versions \subseteq Nat /\ NoList \notin Versions
      /\ result \in [Callers -> Versions \cup {NoList}]
  BY SystemListAssumption DEF ListTypeOK, Versions
<1>2. result[c] = NoList /\ result' = [result EXCEPT ![c] = list]
  BY DEF NewestInv, Answer
<1>3. w \in Versions /\ v \in Nat /\ list \in Nat /\ v <= w /\ list <= w
  BY <1>1
<1>4. w = 0 \/ \E b \in Callers : result'[b] = w
  <2>1. CASE v < list
    BY <1>1, <1>2, <2>1
  <2>2. CASE ~(v < list) /\ v = 0
    BY <2>2
  <2>3. CASE ~(v < list) /\ v # 0
    <3>1. PICK b \in Callers : result[b] = v
      BY <2>3 DEF IsNewest
    <3>2. b # c /\ result'[b] = w
      BY <1>1, <1>2, <2>3, <3>1
    <3> QED
      BY <3>2
  <2> QED
    BY <2>1, <2>2, <2>3
<1>5. ASSUME NEW b \in Callers, result'[b] # NoList
      PROVE  result'[b] <= w
  <2>1. CASE b = c
    BY <1>1, <1>2, <1>3, <2>1
  <2>2. CASE b # c
    <3>1. result'[b] = result[b] /\ result[b] <= v /\ result[b] \in Nat
      BY <1>1, <1>2, <1>5, <2>2 DEF IsNewest
    <3> QED
      BY <1>3, <3>1
  <2> QED
    BY <2>1, <2>2
<1> QED
  BY <1>3, <1>4, <1>5 DEF IsNewest

LEMMA NewestStep ==
  ListTypeOK /\ QueueInv /\ NewestInv /\ [ListNext]_listVars => NewestInv'
<1> SUFFICES ASSUME ListTypeOK, QueueInv, NewestInv, [ListNext]_listVars
             PROVE  NewestInv'
  OBVIOUS
<1>t. /\ call \in [Callers -> CallStates]
      /\ result \in [Callers -> Versions \cup {NoList}]
      /\ cached \in Versions \cup {NoList} /\ woken \subseteq Callers
  BY DEF ListTypeOK
<1>1. ASSUME NEW c \in Callers, NEW list \in Versions, call[c] # "answered", Answer(c, list)
      PROVE  NewestInv'
  <2>1. PICK v \in Versions : IsNewest(v)
    BY DEF NewestInv
  <2>2. \E w \in Versions : IsNewest(w)'
    BY <1>1, <2>1, AnswerIsNewest
  <2>3. ASSUME NEW d \in Callers, result'[d] # NoList
        PROVE  call'[d] = "answered"
    BY <1>t, <1>1, <2>3 DEF NewestInv, Answer
  <2> QED
    BY <2>2, <2>3 DEF NewestInv
<1>2. ASSUME UNCHANGED result,
             \A d \in Callers : call[d] = "answered" => call'[d] = "answered"
      PROVE  NewestInv'
  BY <1>2 DEF NewestInv, IsNewest
<1>3. ASSUME NEW c \in Callers, CallHits(c)
      PROVE  NewestInv'
  BY <1>t, <1>1, <1>3 DEF CallHits, Begin, Fresh
<1>4. ASSUME NEW c \in Callers, CallFetches(c) \/ CallQueues(c)
      PROVE  NewestInv'
  BY <1>t, <1>2, <1>4 DEF CallFetches, CallQueues, Begin, StartFetch
<1>5. ASSUME NEW c \in Callers, ResumeHits(c)
      PROVE  NewestInv'
  BY <1>t, <1>1, <1>5, WokenIsQueued DEF ResumeHits, Fresh
<1>6. ASSUME NEW c \in Callers, ResumeFetches(c)
      PROVE  NewestInv'
  BY <1>t, <1>2, <1>6, WokenIsQueued DEF ResumeFetches, StartFetch
<1>7. ASSUME NEW c \in Callers, NEW list \in Versions, FetchReturns(c, list)
      PROVE  NewestInv'
  BY <1>1, <1>7 DEF FetchReturns
<1>8. ASSUME NEW c \in Callers, FetchRaises(c) \/ CallCancelled(c)
      PROVE  NewestInv'
  BY <1>t, <1>2, <1>8 DEF FetchRaises, CallCancelled
<1>9. CASE Tick \/ HubChanges \/ UNCHANGED listVars
  BY <1>2, <1>9 DEF Tick, HubChanges, listVars
<1> QED
  BY <1>3, <1>4, <1>5, <1>6, <1>7, <1>8, <1>9 DEF ListNext, AllReturned
-----------------------------------------------------------------------------
(* A call that has to wait, for the lock or for its fetch, is Call. *)
LEMMA WaitingIsCall ==
  ASSUME ReadsInv, ReadsInv', NEW c \in Callers, Begin(c),
         NEW s \in {"queued", "fetching"}, call' = [call EXCEPT ![c] = s],
         UNCHANGED <<result, worldVars>>
  PROVE  Reads!Call(c)
<1> USE DEF ReadsInv, ListInv
<1>t. /\ call \in [Callers -> CallStates] /\ floor \in [Callers -> Versions]
      /\ before \in [Callers -> SUBSET Callers]
  BY DEF ListTypeOK
<1>1. PICK v \in Versions : IsNewest(v) /\ floor' = [floor EXCEPT ![c] = v]
  BY DEF Begin
<1>2. NewestList = v /\ NewestList' = v
  <2>1. IsNewest(v)'
    BY <1>1 DEF IsNewest
  <2> QED
    BY <1>1, <2>1, NewestIs, NewestIsNext
<1>3. /\ call[c] = "idle"
      /\ before' = [before EXCEPT ![c] = {b \in Callers : call[b] # "idle"}]
  BY DEF Begin
<1>4. /\ c \notin CallsPending \cup CallsDone
      /\ CallsPending' = CallsPending \cup {c} /\ CallsDone' = CallsDone
  BY <1>t, <1>3 DEF CallsPending, CallsDone, Returned
<1>5. CallsAhead' = [CallsAhead EXCEPT ![c] = CallsPending]
  <2>1. ASSUME NEW d \in Callers
        PROVE  CallsAhead'[d] = [CallsAhead EXCEPT ![c] = CallsPending][d]
    <3>1. CASE d = c
      <4>1. CallsAhead'[c] = {b \in Callers : call[b] # "idle"} \cap CallsPending'
        BY <1>t, <1>3, <1>4 DEF CallsAhead
      <4>2. @ = CallsPending
        BY <1>3, <1>4 DEF CallsPending
      <4> QED
        BY <3>1, <4>1, <4>2 DEF CallsAhead
    <3>2. CASE d # c
      <4>1. c \notin before[d] /\ before'[d] = before[d]
        BY <1>t, <1>3, <3>2 DEF OrderInv
      <4> QED
        BY <1>4, <3>2, <4>1 DEF CallsAhead
    <3> QED
      BY <3>1, <3>2
  <2> QED
    BY <2>1 DEF CallsAhead
<1>6. LeastFloor' = [LeastFloor EXCEPT ![c] = NewestList]
  <2>1. ASSUME NEW d \in Callers
        PROVE  LeastFloor'[d] = [LeastFloor EXCEPT ![c] = NewestList][d]
    BY <1>t, <1>1, <1>2, <1>4 DEF LeastFloor
  <2> QED
    BY <2>1 DEF LeastFloor
<1> QED
  BY <1>2, <1>4, <1>5, <1>6 DEF Reads!Call, caching, worldVars

(* A call that ends, however it does, leaves the others as they are. *)
LEMMA EndingIsLeave ==
  ASSUME ReadsInv, NEW c \in Callers, call[c] \notin Returned,
         NEW s \in Returned, call' = [call EXCEPT ![c] = s],
         \A d \in Callers \ {c} : before'[d] = before[d] /\ floor'[d] = floor[d],
         UNCHANGED worldVars
  PROVE  Reads!Leave(c)
<1> USE DEF ReadsInv, ListInv
<1>t. call \in [Callers -> CallStates]
  BY DEF ListTypeOK
<1>1. CallsPending' = CallsPending \ {c} /\ CallsDone' = CallsDone \cup {c}
  BY <1>t DEF CallsPending, CallsDone, Returned
<1>2. CallsAhead' = [p \in Callers |-> IF p = c THEN {} ELSE CallsAhead[p] \ {c}]
  <2>1. ASSUME NEW p \in Callers
        PROVE  CallsAhead'[p] = IF p = c THEN {} ELSE CallsAhead[p] \ {c}
    BY <1>1 DEF CallsAhead
  <2> QED
    BY <2>1 DEF CallsAhead
<1>3. LeastFloor' = [LeastFloor EXCEPT ![c] = 0]
  <2>1. ASSUME NEW p \in Callers
        PROVE  LeastFloor'[p] = IF p = c THEN 0 ELSE LeastFloor[p]
    BY <1>1 DEF LeastFloor
  <2> QED
    BY <2>1 DEF LeastFloor
<1> QED
  BY <1>1, <1>2, <1>3 DEF Reads!Leave, caching, worldVars

(***************************************************************************)
(* An answer, from the cache or a fetch, is Return: what ListInv says of   *)
(* the state after it is what OrderedReads asks of the one before.         *)
(***************************************************************************)
LEMMA AnswerIsReturn ==
  ASSUME ReadsInv, ReadsInv', NEW c \in Callers, NEW list \in Versions,
         call[c] \notin Returned, Answer(c, list), caching => cached' = list,
         UNCHANGED worldVars,
         \/ call[c] # "idle" /\ UNCHANGED historyVars
         \/ Begin(c)
  PROVE  Reads!Return(c, list)
<1> USE DEF ReadsInv, ListInv
<1>t. /\ call \in [Callers -> CallStates] /\ floor \in [Callers -> Versions]
      /\ result \in [Callers -> Versions \cup {NoList}]
      /\ before \in [Callers -> SUBSET Callers]
      /\ hub \in Versions /\ Versions \subseteq Nat /\ NoList \notin Versions
  BY SystemListAssumption, SMTT(30) DEF ListTypeOK, Versions
<1>1. /\ call'[c] = "answered" /\ result'[c] = list /\ hub' = hub /\ caching' = caching
      /\ \A d \in Callers \ {c} : call'[d] = call[d] /\ result'[d] = result[d]
  BY <1>t DEF Answer, worldVars, caching
<1>2. /\ c \notin CallsDone
      /\ c \in CallsPending <=> call[c] # "idle"
  BY <1>t DEF CallsDone, CallsPending, CallStates
<1>3. PICK v \in Versions : IsNewest(v)
  BY DEF NewestInv
<1>4. NewestList = v /\ NewestList' = IF v < list THEN list ELSE v
  <2>1. call[c] # "answered"
    BY DEF Returned
  <2> QED
    BY <1>3, <2>1, AnswerIsNewest, NewestIs, NewestIsNext
<1>5. list \in Reads!LeastFor(c) .. hub
  <2>1. list <= hub /\ floor'[c] <= list
    BY <1>t, <1>1 DEF AgeInv, ReadsNeverGoBack
  <2>2. Reads!LeastFor(c) = floor'[c]
    <3>1. CASE call[c] # "idle"
      BY <1>2, <3>1 DEF Reads!LeastFor, LeastFloor, historyVars, Begin
    <3>2. CASE call[c] = "idle"
      <4>1. PICK u \in Versions : IsNewest(u) /\ floor' = [floor EXCEPT ![c] = u]
        BY <3>2 DEF Begin
      <4>2. floor'[c] = u /\ u = NewestList
        BY <1>t, <4>1, NewestIs
      <4> QED
        BY <1>2, <3>2, <4>2 DEF Reads!LeastFor
    <3> QED
      BY <3>1, <3>2
  <2>3. floor'[c] \in Nat /\ list \in Nat /\ hub \in Nat
    BY <1>t DEF ListTypeOK, Versions
  <2> QED
    BY <2>1, <2>2, <2>3
<1>6. ASSUME caching
      PROVE  Reads!AheadOf(c) = {} /\ NewestList <= list
  <2>1. \A b \in before'[c] : call'[b] \in Returned /\ b # c
    BY <1>1, <1>6 DEF OrderInv
  <2>2. before'[c] \in SUBSET Callers
    BY DEF ListTypeOK
  <2>3. before'[c] \cap CallsPending = {}
    BY <1>1, <2>1, <2>2 DEF CallsPending, Returned
  <2>4. Reads!AheadOf(c) = {}
    <3>1. CASE call[c] # "idle"
      BY <1>2, <2>3, <3>1 DEF Reads!AheadOf, CallsAhead, historyVars, Begin
    <3>2. CASE call[c] = "idle"
      <4>1. before'[c] = {b \in Callers : call[b] # "idle"}
        BY <1>t, <3>2 DEF Begin
      <4>2. CallsPending \subseteq before'[c]
        BY <4>1 DEF CallsPending
      <4> QED
        BY <1>2, <2>3, <3>2, <4>2 DEF Reads!AheadOf
    <3> QED
      BY <3>1, <3>2
  <2>5. v <= list
    <3>1. CASE v = 0
      BY <1>t, <3>1
    <3>2. CASE v # 0
      <4>1. PICK b \in Callers : result[b] = v
        BY <1>3, <3>2 DEF IsNewest
      <4>2. b # c /\ result'[b] = v
        BY <1>t, <1>1, <4>1 DEF NewestInv, Returned
      <4> QED
        BY <1>t, <1>1, <1>6, <4>2 DEF AgeInv
    <3> QED
      BY <3>1, <3>2
  <2> QED
    BY <1>4, <2>4, <2>5
<1>7. Reads!Leave(c)
  <2>1. \A d \in Callers \ {c} : before'[d] = before[d] /\ floor'[d] = floor[d]
    BY <1>t DEF historyVars, Begin
  <2> QED
    BY <2>1, EndingIsLeave DEF Answer, Returned
<1> QED
  BY <1>2, <1>4, <1>5, <1>6, <1>7 DEF Reads!Return

(***************************************************************************)
(* list_systems with its cache and its lock is an implementation of        *)
(* OrderedReads: the reads are of states the Hub's list was in, and with   *)
(* caching on they return in the order of the calls and never go back.     *)
(***************************************************************************)
THEOREM ReadsAreImplemented == ListSpec => ReadsImplemented
<1>1. ListSpec => []ReadsInv
  <2>1. ListInit => NewestInv
    BY SystemListAssumption DEF ListInit, NewestInv, IsNewest, Versions
  <2>2. ListTypeOK /\ QueueInv /\ NewestInv /\ [ListNext]_listVars => NewestInv'
    BY NewestStep
  <2>3. ListInv => ListTypeOK /\ QueueInv
    BY DEF ListInv
  <2> QED
    BY <2>1, <2>2, <2>3, ListInvariant, PTL DEF ListSpec, ReadsInv
<1>2. ReadsInv /\ ListInit => Reads!Init
  <2> SUFFICES ASSUME ReadsInv, ListInit
               PROVE  Reads!Init
    OBVIOUS
  <2>1. \A c \in Callers : call[c] = "idle" /\ result[c] = NoList
    BY DEF ListInit
  <2>2. CallsPending = {} /\ CallsDone = {}
    BY <2>1 DEF CallsPending, CallsDone, Returned
  <2>3. /\ CallsAhead = [c \in Callers |-> {}]
        /\ LeastFloor = [c \in Callers |-> 0]
    BY <2>2 DEF CallsAhead, LeastFloor
  <2>4. NewestList = 0
    <3>1. 0 \in Versions /\ IsNewest(0)
      BY <2>1, SystemListAssumption DEF IsNewest, Versions
    <3> QED
      BY <3>1, NewestIs DEF ReadsInv, ListInv
  <2> QED
    BY <2>2, <2>3, <2>4 DEF Reads!Init, ListInit, caching
<1>3. ReadsInv /\ ReadsInv' /\ [ListNext]_listVars => [Reads!Next]_(Reads!readVars)
  <2> SUFFICES ASSUME ReadsInv, ReadsInv', [ListNext]_listVars
               PROVE  Reads!Next \/ UNCHANGED Reads!readVars
    OBVIOUS
  <2>t. /\ call \in [Callers -> CallStates] /\ cached \in Versions \cup {NoList}
        /\ hub \in Nat /\ Versions \subseteq Nat /\ woken \subseteq Callers
        /\ ListTypeOK /\ QueueInv
    BY SystemListAssumption DEF ReadsInv, ListInv, ListTypeOK, Versions
  <2>r. ASSUME NEW c \in Callers, NEW list \in Versions, Reads!Return(c, list)
        PROVE  Reads!Next
    <3>1. list \in 0 .. hub
      <4>1. list \in Nat /\ list <= hub
        BY <2>t, <2>r DEF Reads!Return
      <4> QED
        BY <2>t, <4>1
    <3> QED
      BY <2>r, <3>1 DEF Reads!Next
  <2>n. ASSUME UNCHANGED result
        PROVE  UNCHANGED NewestList
    <3>1. PICK v \in Versions : IsNewest(v)
      BY DEF ReadsInv, NewestInv
    <3>2. IsNewest(v)'
      BY <2>n, <3>1 DEF IsNewest
    <3> QED
      BY <3>1, <3>2, NewestIs, NewestIsNext DEF ReadsInv, ListInv
  <2>s. ASSUME UNCHANGED <<call, result, worldVars, historyVars>>
        PROVE  UNCHANGED Reads!readVars
    BY <2>s, <2>n DEF Reads!readVars, CallsPending, CallsDone, CallsAhead, LeastFloor,
                      historyVars, worldVars, caching
  <2>1. ASSUME NEW c \in Callers, CallHits(c)
        PROVE  Reads!Next
    <3>1. cached \in Versions /\ cached' = cached /\ call[c] \notin Returned
      BY <2>t, <2>1 DEF CallHits, Fresh, Begin, cacheVars, Returned
    <3>2. PICK list \in Versions : list = cached
      BY <3>1
    <3> QED
      BY <2>1, <2>r, <3>1, <3>2, AnswerIsReturn DEF CallHits
  <2>2. ASSUME NEW c \in Callers, CallFetches(c) \/ CallQueues(c)
        PROVE  Reads!Next
    <3>1. Reads!Call(c)
      BY <2>2, WaitingIsCall DEF CallFetches, CallQueues, StartFetch
    <3> QED
      BY <3>1 DEF Reads!Next
  <2>3. ASSUME NEW c \in Callers, ResumeHits(c)
        PROVE  Reads!Next
    <3>1. cached \in Versions /\ cached' = cached /\ call[c] = "queued"
      BY <2>t, <2>3, WokenIsQueued DEF ResumeHits, Fresh, cacheVars
    <3>2. PICK list \in Versions : list = cached
      BY <3>1
    <3> QED
      BY <2>3, <2>r, <3>1, <3>2, AnswerIsReturn DEF ResumeHits, Returned
  <2>4. ASSUME NEW c \in Callers, ResumeFetches(c)
        PROVE  UNCHANGED Reads!readVars
    <3>1. call[c] = "queued" /\ call' = [call EXCEPT ![c] = "fetching"]
      BY <2>t, <2>4, WokenIsQueued DEF ResumeFetches, StartFetch
    <3>2. CallsPending' = CallsPending /\ CallsDone' = CallsDone
      BY <2>t, <3>1 DEF CallsPending, CallsDone, Returned
    <3> QED
      BY <2>4, <2>n, <3>2 DEF ResumeFetches, Reads!readVars, CallsAhead, LeastFloor,
                              historyVars, worldVars, caching
  <2>5. ASSUME NEW c \in Callers, NEW list \in Versions, FetchReturns(c, list)
        PROVE  Reads!Next
    BY <2>5, <2>r, AnswerIsReturn DEF FetchReturns, Returned
  <2>6. ASSUME NEW c \in Callers, FetchRaises(c) \/ CallCancelled(c)
        PROVE  Reads!Next
    <3>1. PICK s \in Returned : call' = [call EXCEPT ![c] = s]
      BY <2>6 DEF FetchRaises, CallCancelled, Returned
    <3>2. /\ call[c] \in {"queued", "fetching"}
          /\ UNCHANGED <<result, worldVars, historyVars>>
      BY <2>6 DEF FetchRaises, CallCancelled
    <3>3. Reads!Leave(c)
      BY <3>1, <3>2, EndingIsLeave DEF historyVars, Returned
    <3>4. Reads!GiveUp(c)
      BY <2>n, <3>2, <3>3 DEF Reads!GiveUp, CallsPending
    <3> QED
      BY <3>4 DEF Reads!Next
  <2>7. CASE Tick
    BY <2>7, <2>n DEF Tick, Reads!readVars, CallsPending, CallsDone, CallsAhead, LeastFloor,
                      historyVars, caching
  <2>8. CASE HubChanges
    <3>1. Reads!Change
      BY <2>8, <2>n DEF HubChanges, Reads!Change, CallsPending, CallsDone, CallsAhead,
                        LeastFloor, historyVars, caching
    <3> QED
      BY <3>1 DEF Reads!Next
  <2>9. CASE UNCHANGED listVars
    BY <2>9, <2>s DEF listVars, worldVars, historyVars
  <2> QED
    BY <2>1, <2>2, <2>3, <2>4, <2>5, <2>6, <2>7, <2>8, <2>9 DEF ListNext, AllReturned
<1> QED
  BY <1>1, <1>2, <1>3, PTL DEF ListSpec, ReadsImplemented, Reads!Spec
=============================================================================
