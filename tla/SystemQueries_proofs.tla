------------------------ MODULE SystemQueries_proofs ------------------------
(***************************************************************************)
(* Proofs about RecordPaging and SystemQueries for any number of records,  *)
(* queries and changes of the Hub, any page size and any cached list.      *)
(***************************************************************************)
EXTENDS SystemQueries, FiniteSetTheorems, SequenceTheorems, TLAPS

(* How many elements of a set are at most n. *)
UpTo(S, n) == {m \in S : m <= n}

LEMMA UpToIsFinite ==
  ASSUME NEW S \in SUBSET Nat, IsFiniteSet(S), NEW n \in Nat
  PROVE  /\ IsFiniteSet(UpTo(S, n))
         /\ Cardinality(UpTo(S, n)) \in Nat
         /\ Cardinality(UpTo(S, n)) <= Cardinality(S)
<1>1. UpTo(S, n) \subseteq S
  BY DEF UpTo
<1>2. QED
  BY <1>1, FS_Subset, FS_CardinalityType

(* A greater element has more elements below it. *)
LEMMA RanksDiffer ==
  ASSUME NEW S \in SUBSET Nat, IsFiniteSet(S), NEW m \in Nat, NEW n \in S, m < n
  PROVE  Cardinality(UpTo(S, m)) < Cardinality(UpTo(S, n))
<1>1. ASSUME NEW e \in UpTo(S, m)
      PROVE  e \in UpTo(S, n) \ {n}
  <2>1. e \in Nat /\ e \in S /\ e <= m /\ n \in Nat
    BY DEF UpTo
  <2>2. e <= n /\ e # n
    BY <2>1
  <2>3. QED
    BY <2>1, <2>2 DEF UpTo
<1>2. /\ IsFiniteSet(UpTo(S, n)) /\ n \in UpTo(S, n)
      /\ Cardinality(UpTo(S, n)) \in Nat
  BY UpToIsFinite DEF UpTo
<1>3. /\ IsFiniteSet(UpTo(S, n) \ {n})
      /\ Cardinality(UpTo(S, n) \ {n}) = Cardinality(UpTo(S, n)) - 1
  BY <1>2, FS_RemoveElement
<1>4. Cardinality(UpTo(S, m)) <= Cardinality(UpTo(S, n) \ {n})
  BY <1>1, <1>3, FS_Subset DEF UpTo
<1>5. Cardinality(UpTo(S, m)) \in Nat
  BY UpToIsFinite
<1>6. QED
  BY <1>2, <1>3, <1>4, <1>5

(* The ranks of the elements of a set are 1, 2 and so on up to its size.    *)
LEMMA EveryRankIsTaken ==
  ASSUME NEW S \in SUBSET Nat, IsFiniteSet(S), NEW k \in 1 .. Cardinality(S)
  PROVE  \E n \in S : Cardinality(UpTo(S, n)) = k
<1> DEFINE rank == [n \in S |-> Cardinality(UpTo(S, n))]
           taken == (1 .. Cardinality(S)) \ {k}
<1>1. Cardinality(S) \in Nat
  BY FS_CardinalityType
<1>2. \A n \in S : rank[n] \in 1 .. Cardinality(S)
  <2> SUFFICES ASSUME NEW n \in S
               PROVE  rank[n] \in 1 .. Cardinality(S)
    OBVIOUS
  <2>1. UpTo(S, n) # {}
    BY DEF UpTo
  <2>2. QED
    BY <1>1, <2>1, UpToIsFinite, FS_EmptySet
<1>3. /\ IsFiniteSet(taken)
      /\ Cardinality(taken) = Cardinality(S) - 1
  <2>1. IsFiniteSet(1 .. Cardinality(S)) /\ Cardinality(1 .. Cardinality(S)) = Cardinality(S)
    BY <1>1, FS_Interval
  <2>2. QED
    BY <2>1, FS_RemoveElement, ZenonT(40)
<1>4. SUFFICES ASSUME \A n \in S : rank[n] # k
               PROVE  FALSE
  BY DEF UpTo
<1>5. rank \in [S -> taken]
  BY <1>2, <1>4
<1>6. PICK m, n \in S : m # n /\ rank[m] = rank[n]
  <2> HIDE DEF rank, taken
  <2>1. Cardinality(taken) < Cardinality(S)
    BY <1>1, <1>3
  <2>2. QED
    BY <1>3, <1>5, <2>1, FS_PigeonHole
<1>7. m < n \/ n < m
  BY <1>6
<1>8. QED
  BY <1>6, <1>7, RanksDiffer, UpToIsFinite

(* InOrder lists every element of a set once. *)
LEMMA InOrderLists ==
  ASSUME NEW S \in SUBSET Nat, IsFiniteSet(S)
  PROVE  /\ Cardinality(S) \in Nat
         /\ InOrder(S) \in [1 .. Cardinality(S) -> S]
         /\ \A n \in S : \E k \in 1 .. Cardinality(S) : InOrder(S)[k] = n
         /\ \A j, k \in 1 .. Cardinality(S) : InOrder(S)[j] = InOrder(S)[k] => j = k
<1>1. Cardinality(S) \in Nat
  BY FS_CardinalityType
<1>2. InOrder(S) = [k \in 1 .. Cardinality(S) |->
                      CHOOSE n \in S : Cardinality(UpTo(S, n)) = k]
  BY DEF InOrder, UpTo
<1>3. ASSUME NEW k \in 1 .. Cardinality(S)
      PROVE  InOrder(S)[k] \in S /\ Cardinality(UpTo(S, InOrder(S)[k])) = k
  BY <1>2, EveryRankIsTaken
<1>4. ASSUME NEW n \in S
      PROVE  \E k \in 1 .. Cardinality(S) : InOrder(S)[k] = n
  <2> DEFINE k == Cardinality(UpTo(S, n))
  <2>1. n \in UpTo(S, n)
    BY DEF UpTo
  <2>2. k \in 1 .. Cardinality(S)
    BY <1>1, <2>1, UpToIsFinite, FS_EmptySet
  <2>3. InOrder(S)[k] \in S /\ Cardinality(UpTo(S, InOrder(S)[k])) = k
    BY <1>3, <2>2
  <2>4. InOrder(S)[k] = n
    <3> HIDE DEF k
    <3> DEFINE m == InOrder(S)[k]
    <3>1. k = Cardinality(UpTo(S, n))
      BY DEF k
    <3>2. m \in Nat /\ n \in Nat
      BY <2>3
    <3>3. ~(m < n) /\ ~(n < m)
      BY <2>3, <3>1, <3>2, RanksDiffer, UpToIsFinite
    <3>4. QED
      BY <3>2, <3>3
  <2>5. QED
    BY <2>2, <2>4
<1>5. QED
  BY <1>1, <1>2, <1>3, <1>4

(* The entries of a list whose id is one of some, and where they stood. *)
Places(list, ids) == {i \in DOMAIN list : list[i].id \in ids}

LEMMA MatchesKeeps ==
  ASSUME NEW E, NEW list \in Seq(E), NEW ids
  PROVE  /\ Matches(list, ids) \in Seq(E)
         /\ \E at \in [1 .. Len(Matches(list, ids)) -> Places(list, ids)] :
              /\ \A k \in 1 .. Len(Matches(list, ids)) : Matches(list, ids)[k] = list[at[k]]
              /\ \A i \in Places(list, ids) :
                   \E k \in 1 .. Len(Matches(list, ids)) : at[k] = i
              /\ \A j, k \in 1 .. Len(Matches(list, ids)) : at[j] = at[k] => j = k
<1> DEFINE P == Places(list, ids)
           at == InOrder(P)
<1>1. P \subseteq 1 .. Len(list) /\ Len(list) \in Nat
  BY DEF Places
<1>2. P \in SUBSET Nat /\ IsFiniteSet(P)
  <2>1. IsFiniteSet(1 .. Len(list))
    BY <1>1, FS_Interval
  <2>2. QED
    BY <1>1, <2>1, FS_Subset
<1>3. Matches(list, ids) = [k \in DOMAIN at |-> list[at[k]]]
  BY DEF Matches, Places
<1> HIDE DEF P, at
<1>4. /\ Cardinality(P) \in Nat
      /\ at \in [1 .. Cardinality(P) -> P]
      /\ \A i \in P : \E k \in 1 .. Cardinality(P) : at[k] = i
      /\ \A j, k \in 1 .. Cardinality(P) : at[j] = at[k] => j = k
  BY <1>2, InOrderLists DEF at
<1>5. /\ Matches(list, ids) \in Seq(E)
      /\ Len(Matches(list, ids)) = Cardinality(P)
  <2>1. \A k \in 1 .. Cardinality(P) : at[k] \in 1 .. Len(list)
    BY <1>1, <1>4
  <2>2. Matches(list, ids) \in [1 .. Cardinality(P) -> E]
    BY <1>3, <1>4, <2>1
  <2>3. QED
    BY <1>4, <2>2, IsASeq, LenProperties
<1>6. \A k \in 1 .. Cardinality(P) : Matches(list, ids)[k] = list[at[k]]
  BY <1>3, <1>4
<1>7. P = Places(list, ids)
  BY DEF P
<1>8. QED
  BY <1>4, <1>5, <1>6, <1>7

(* A list has exactly one entry of a record. *)
Once(list, r) ==
  \E i \in DOMAIN list : \A j \in DOMAIN list : list[j].id = r <=> j = i

LEMMA OnceKept ==
  ASSUME NEW E, NEW list \in Seq(E), NEW ids, NEW r \in ids, Once(list, r)
  PROVE  Once(Matches(list, ids), r)
<1> DEFINE found == Matches(list, ids)
<1>1. /\ found \in Seq(E)
      /\ \E at \in [1 .. Len(found) -> Places(list, ids)] :
           /\ \A k \in 1 .. Len(found) : found[k] = list[at[k]]
           /\ \A i \in Places(list, ids) : \E k \in 1 .. Len(found) : at[k] = i
           /\ \A j, k \in 1 .. Len(found) : at[j] = at[k] => j = k
  BY MatchesKeeps
<1> HIDE DEF found
<1>2. PICK at \in [1 .. Len(found) -> Places(list, ids)] :
        /\ \A k \in 1 .. Len(found) : found[k] = list[at[k]]
        /\ \A i \in Places(list, ids) : \E k \in 1 .. Len(found) : at[k] = i
        /\ \A j, k \in 1 .. Len(found) : at[j] = at[k] => j = k
  BY <1>1
<1>3. PICK i \in DOMAIN list : \A j \in DOMAIN list : list[j].id = r <=> j = i
  BY DEF Once
<1>4. i \in Places(list, ids)
  BY <1>3 DEF Places
<1>5. PICK k \in 1 .. Len(found) : at[k] = i
  BY <1>2, <1>4
<1>6. \A j \in 1 .. Len(found) : found[j].id = r <=> j = k
  BY <1>2, <1>3, <1>5 DEF Places
<1>7. Once(found, r)
  <2>1. DOMAIN found = 1 .. Len(found)
    BY <1>1
  <2>2. QED
    BY <1>6, <2>1, SMTT(30) DEF Once
<1>8. QED
  BY <1>7 DEF found

LEMMA OnceSelected ==
  ASSUME NEW E, NEW list \in Seq(E), NEW ids, NEW r \in ids,
         \A s \in ids : s = r, Once(list, r)
  PROVE  /\ Len(Matches(list, ids)) = 1
         /\ Matches(list, ids)[1].id = r
<1> DEFINE found == Matches(list, ids)
<1>1. /\ found \in Seq(E)
      /\ \E at \in [1 .. Len(found) -> Places(list, ids)] :
           /\ \A k \in 1 .. Len(found) : found[k] = list[at[k]]
           /\ \A i \in Places(list, ids) : \E k \in 1 .. Len(found) : at[k] = i
           /\ \A j, k \in 1 .. Len(found) : at[j] = at[k] => j = k
  BY MatchesKeeps, SMTT(30)
<1> HIDE DEF found
<1>2. PICK at \in [1 .. Len(found) -> Places(list, ids)] :
        /\ \A k \in 1 .. Len(found) : found[k] = list[at[k]]
        /\ \A i \in Places(list, ids) : \E k \in 1 .. Len(found) : at[k] = i
        /\ \A j, k \in 1 .. Len(found) : at[j] = at[k] => j = k
  BY <1>1
<1>3. PICK i \in DOMAIN list : \A j \in DOMAIN list : list[j].id = r <=> j = i
  BY DEF Once
<1>4. Places(list, ids) = {i}
  BY <1>3 DEF Places
<1>5. PICK k \in 1 .. Len(found) : at[k] = i
  BY <1>2, <1>4
<1>6. \A j \in 1 .. Len(found) : j = k
  BY <1>2, <1>4, <1>5
<1>7. Len(found) \in Nat
  BY <1>1
<1>8. Len(found) = 1
  <2>1. 1 \in 1 .. Len(found) /\ Len(found) \in 1 .. Len(found)
    BY <1>5, <1>7
  <2>2. QED
    BY <1>6, <2>1
<1>9. found[1].id = r
  <2>1. 1 \in 1 .. Len(found)
    BY <1>8
  <2>2. at[1] = i /\ found[1] = list[at[1]]
    BY <1>2, <1>4, <2>1
  <2>3. QED
    BY <1>3, <2>2
<1>10. QED
  BY <1>8, <1>9 DEF found
-----------------------------------------------------------------------------
States == {"new", "live", "gone"}
Entries == [id : Records, at : Nat]

HubTypeOK ==
  /\ hub \in [Collections -> [Records -> States]]
  /\ changes \in Nat

(* How many records come before page n. *)
Offset(n) == (n - 1) * PageSize

LEMMA Offsets ==
  ASSUME NEW n \in Nat \ {0}
  PROVE  /\ Offset(n) \in Nat
         /\ Offset(1) = 0
         /\ Offset(n + 1) = Offset(n) + PageSize
<1>1. PageSize \in Nat \ {0}
  BY PagingAssumption
<1>2. QED
  BY <1>1 DEF Offset

(* A page that is not behind the last one has records after it. *)
LEMMA PagesCover ==
  ASSUME NEW N \in Nat, NEW n \in Nat \ {0}, n >= (N + PageSize - 1) \div PageSize
  PROVE  N <= Offset(n) + PageSize
<1>1. PageSize \in Nat \ {0}
  BY PagingAssumption
<1> DEFINE a == N + PageSize - 1
           d == a \div PageSize
<1>2. a \in Nat /\ d \in Int /\ a < PageSize * d + PageSize
  BY <1>1
<1>3. Offset(n) + PageSize = PageSize * n
  BY <1>1 DEF Offset
<1>4. PageSize * d <= PageSize * n
  BY <1>1, <1>2
<1>5. QED
  BY <1>1, <1>2, <1>3, <1>4

LEMMA LiveIsFinite ==
  ASSUME NEW c \in Collections
  PROVE  /\ Live(c) \in SUBSET Nat /\ Live(c) \subseteq Records
         /\ IsFiniteSet(Live(c)) /\ Cardinality(Live(c)) \in Nat
<1>1. Live(c) \subseteq Records
  BY DEF Live
<1>2. QED
  BY <1>1, PagingAssumption, FS_Subset, FS_CardinalityType

LEMMA RankIsBounded ==
  ASSUME NEW c \in Collections, NEW r \in Records
  PROVE  /\ Rank(c, r) = Cardinality(UpTo(Live(c), r))
         /\ Rank(c, r) \in Nat
         /\ Rank(c, r) <= Cardinality(Live(c))
         /\ r \in Live(c) => Rank(c, r) > 0
<1>1. r \in Nat
  BY PagingAssumption
<1>2. Rank(c, r) = Cardinality(UpTo(Live(c), r))
  BY DEF Rank, UpTo
<1>3. /\ IsFiniteSet(UpTo(Live(c), r))
      /\ Cardinality(UpTo(Live(c), r)) \in Nat
      /\ Cardinality(UpTo(Live(c), r)) <= Cardinality(Live(c))
  BY <1>1, LiveIsFinite, UpToIsFinite
<1>4. r \in Live(c) => r \in UpTo(Live(c), r)
  BY <1>1 DEF UpTo
<1>5. r \in Live(c) => Cardinality(UpTo(Live(c), r)) # 0
  BY <1>3, <1>4, FS_EmptySet
<1>6. QED
  BY <1>2, <1>3, <1>5

(* A page holds the records whose ranks are its own, each of them once. *)
LEMMA PageHolds ==
  ASSUME HubTypeOK, NEW c \in Collections, NEW n \in Nat \ {0}
  PROVE  /\ Page(c, n) \in Seq(Entries)
         /\ \A i \in DOMAIN Page(c, n) :
              /\ Page(c, n)[i].id \in Live(c)
              /\ Rank(c, Page(c, n)[i].id) \in Offset(n) + 1 .. Offset(n) + PageSize
              /\ c = "systems" => Page(c, n)[i].at = changes
         /\ \A r \in Live(c) :
              Rank(c, r) \in Offset(n) + 1 .. Offset(n) + PageSize =>
                \E i \in DOMAIN Page(c, n) : Page(c, n)[i].id = r
         /\ \A i, j \in DOMAIN Page(c, n) : Page(c, n)[i].id = Page(c, n)[j].id => i = j
<1> DEFINE rows == {r \in Live(c) : Rank(c, r) \in Offset(n) + 1 .. Offset(n) + PageSize}
           ids == InOrder(rows)
           time == IF c = "systems" THEN changes ELSE 0
<1>1. Page(c, n) = [i \in DOMAIN ids |-> [id |-> ids[i], at |-> time]]
  BY DEF Page, Offset
<1>2. rows \in SUBSET Nat /\ IsFiniteSet(rows) /\ rows \subseteq Records
  <2>1. rows \subseteq Live(c)
    OBVIOUS
  <2>2. QED
    BY <2>1, LiveIsFinite, FS_Subset
<1>3. time \in Nat
  BY DEF HubTypeOK
<1>4. \A r : r \in rows <=>
        r \in Live(c) /\ Rank(c, r) \in Offset(n) + 1 .. Offset(n) + PageSize
  OBVIOUS
<1>5. c = "systems" => time = changes
  OBVIOUS
<1> HIDE DEF rows, ids, time
<1>6. /\ Cardinality(rows) \in Nat
      /\ ids \in [1 .. Cardinality(rows) -> rows]
      /\ \A r \in rows : \E k \in 1 .. Cardinality(rows) : ids[k] = r
      /\ \A j, k \in 1 .. Cardinality(rows) : ids[j] = ids[k] => j = k
  BY <1>2, InOrderLists DEF ids
<1>7. DOMAIN Page(c, n) = 1 .. Cardinality(rows)
  BY <1>1, <1>6
<1>8. \A i \in 1 .. Cardinality(rows) : Page(c, n)[i] = [id |-> ids[i], at |-> time]
  BY <1>1, <1>6
<1>9. Page(c, n) \in Seq(Entries)
  <2>1. \A i \in 1 .. Cardinality(rows) : Page(c, n)[i] \in Entries
    <3> SUFFICES ASSUME NEW i \in 1 .. Cardinality(rows)
                 PROVE  Page(c, n)[i] \in Entries
      OBVIOUS
    <3>1. ids[i] \in Records
      BY <1>2, <1>6
    <3>2. Page(c, n)[i] = [id |-> ids[i], at |-> time]
      BY <1>8
    <3>3. QED
      BY <1>3, <3>1, <3>2 DEF Entries
  <2>2. Page(c, n) \in [1 .. Cardinality(rows) -> Entries]
    BY <1>1, <1>7, <2>1
  <2>3. QED
    BY <1>6, <2>2, IsASeq
<1>10. QED
  BY <1>4, <1>5, <1>6, <1>7, <1>8, <1>9

(* Behind the last page there is nothing. *)
LEMMA NothingIsLeft ==
  ASSUME HubTypeOK, NEW c \in Collections, NEW n \in Nat \ {0}, IsLast(c, n),
         NEW r \in Live(c)
  PROVE  Rank(c, r) <= Offset(n) + PageSize
<1>1. Offset(n) \in Nat /\ PageSize \in Nat \ {0}
  BY Offsets, PagingAssumption
<1>2. r \in Records /\ Rank(c, r) \in Nat /\ Rank(c, r) <= Cardinality(Live(c))
  <2>1. r \in Records
    BY LiveIsFinite
  <2>2. QED
    BY <2>1, RankIsBounded
<1>3. CASE n >= TotalPages(c)
  <2>1. Cardinality(Live(c)) \in Nat
    BY LiveIsFinite
  <2>2. Cardinality(Live(c)) <= Offset(n) + PageSize
    BY <1>3, <2>1, PagesCover DEF TotalPages
  <2>3. QED
    BY <1>1, <1>2, <2>1, <2>2
<1>4. CASE Page(c, n) = << >>
  <2>1. SUFFICES ASSUME Rank(c, r) > Offset(n) + PageSize
                 PROVE  FALSE
    BY <1>1, <1>2
  <2>2. Offset(n) + 1 \in 1 .. Cardinality(Live(c))
    BY <1>1, <1>2, <2>1, LiveIsFinite
  <2>3. PICK s \in Live(c) : Cardinality(UpTo(Live(c), s)) = Offset(n) + 1
    BY <2>2, LiveIsFinite, EveryRankIsTaken
  <2>4. Rank(c, s) = Offset(n) + 1
    <3>1. s \in Records
      BY LiveIsFinite
    <3>2. QED
      BY <2>3, <3>1, RankIsBounded
  <2>5. Rank(c, s) \in Offset(n) + 1 .. Offset(n) + PageSize
    BY <1>1, <2>4
  <2>6. QED
    BY <1>4, <2>5, PageHolds
<1>5. QED
  BY <1>3, <1>4 DEF IsLast

-----------------------------------------------------------------------------
(***************************************************************************)
(* What a listing has of a collection, whose records are in the states h   *)
(* and were in the states `start' when it began.  The definitions speak of *)
(* states h, not of the variable hub, to compare one moment with another.  *)
(***************************************************************************)
LiveIn(h) == {r \in Records : h[r] = "live"}
RankIn(h, r) == Cardinality(UpTo(LiveIn(h), r))

SeenIn(h, start) == {r \in Records : start[r] # "gone" /\ h[r] # "new"}

Follows(a, b) == a = b \/ a = "new" \/ (a = "live" /\ b = "gone")

Went(h, start, r) ==
  \E s \in Records : s < r /\ h[s] = "gone" /\ start[s] # "gone"
Came(h, start, r) ==
  \E s \in Records : s < r /\ start[s] = "new" /\ h[s] # "new"

Stayed(h, start, r) == start[r] = "live" /\ h[r] = "live" /\ ~Went(h, start, r)

Has(rows, r) == \E i \in DOMAIN rows : rows[i].id = r

(* Of the records that stayed all those are listed that come before some    *)
(* place; of the records listed those come before it, and are listed once,  *)
(* before which none came.                                                 *)
Listed(h, start, rows, before) ==
  /\ \A r \in Records :
       Stayed(h, start, r) => Has(rows, r) \/ RankIn(h, r) > before
  /\ \A i \in DOMAIN rows :
       /\ h[rows[i].id] # "new"
       /\ ~Came(h, start, rows[i].id) =>
            /\ RankIn(h, rows[i].id) <= before
            /\ \A j \in DOMAIN rows : rows[j].id = rows[i].id => j = i

(* The more records have been there, the later it was.                     *)
LEMMA SeenStaysSeen ==
  ASSUME NEW h, NEW g, NEW start, \A s \in Records : Follows(h[s], g[s])
  PROVE  /\ Cardinality(SeenIn(h, start)) \in Nat
         /\ Cardinality(SeenIn(h, start)) <= Cardinality(SeenIn(g, start))
<1>1. SeenIn(h, start) \subseteq Records /\ SeenIn(g, start) \subseteq Records
  BY DEF SeenIn
<1>2. IsFiniteSet(SeenIn(h, start)) /\ IsFiniteSet(SeenIn(g, start))
  BY <1>1, PagingAssumption, FS_Subset
<1>3. SeenIn(h, start) \subseteq SeenIn(g, start)
  BY DEF SeenIn, Follows
<1>4. QED
  BY <1>2, <1>3, FS_Subset, FS_CardinalityType

LEMMA RankInIsNat ==
  ASSUME NEW h, NEW r \in Records
  PROVE  RankIn(h, r) \in Nat
<1>1. LiveIn(h) \in SUBSET Nat /\ IsFiniteSet(LiveIn(h)) /\ r \in Nat
  BY PagingAssumption, FS_Subset DEF LiveIn
<1>2. QED
  BY <1>1, UpToIsFinite DEF RankIn

LEMMA MoreLiveRankHigher ==
  ASSUME NEW h, NEW g, NEW r \in Records,
         \A s \in Records : s <= r /\ h[s] = "live" => g[s] = "live"
  PROVE  RankIn(h, r) <= RankIn(g, r)
<1>1. LiveIn(g) \in SUBSET Nat /\ IsFiniteSet(LiveIn(g)) /\ r \in Nat
  BY PagingAssumption, FS_Subset DEF LiveIn
<1>2. IsFiniteSet(UpTo(LiveIn(g), r))
  BY <1>1, UpToIsFinite
<1>3. UpTo(LiveIn(h), r) \subseteq UpTo(LiveIn(g), r)
  BY DEF UpTo, LiveIn
<1>4. QED
  BY <1>2, <1>3, FS_Subset DEF RankIn

(* Whatever becomes of the records, a listing stays as good as it is. *)
LEMMA ChangeKeepsListed ==
  ASSUME NEW start \in [Records -> States], NEW h \in [Records -> States],
         NEW g \in [Records -> States], NEW rows \in Seq(Entries), NEW before \in Nat,
         \A s \in Records : Follows(start[s], h[s]) /\ Follows(h[s], g[s]),
         Listed(h, start, rows, before)
  PROVE  Listed(g, start, rows, before)
<1>1. ASSUME NEW r \in Records, Stayed(g, start, r)
      PROVE  Has(rows, r) \/ RankIn(g, r) > before
  <2>1. Stayed(h, start, r)
    BY <1>1 DEF Stayed, Went, Follows
  <2>2. \A s \in Records : s <= r /\ h[s] = "live" => g[s] = "live"
    <3> SUFFICES ASSUME NEW s \in Records, s <= r, h[s] = "live", g[s] # "live"
                 PROVE  FALSE
      OBVIOUS
    <3>1. g[s] = "gone" /\ start[s] # "gone"
      BY DEF Follows, States
    <3>2. s < r
      BY <1>1, PagingAssumption DEF Stayed
    <3>3. QED
      BY <1>1, <3>1, <3>2 DEF Stayed, Went
  <2>3. RankIn(h, r) <= RankIn(g, r)
    BY <2>2, MoreLiveRankHigher
  <2>4. QED
    BY <2>1, <2>3, RankInIsNat DEF Listed
<1>2. ASSUME NEW i \in DOMAIN rows
      PROVE  /\ g[rows[i].id] # "new"
             /\ ~Came(g, start, rows[i].id) =>
                  /\ RankIn(g, rows[i].id) <= before
                  /\ \A j \in DOMAIN rows : rows[j].id = rows[i].id => j = i
  <2> DEFINE r == rows[i].id
  <2>1. r \in Records
    <3>1. rows[i] \in Entries
      OBVIOUS
    <3>2. QED
      BY <3>1 DEF Entries
  <2> HIDE DEF r
  <2>2. /\ h[r] # "new"
        /\ ~Came(h, start, r) =>
             /\ RankIn(h, r) <= before
             /\ \A j \in DOMAIN rows : rows[j].id = r => j = i
    BY <1>2 DEF Listed, r
  <2>3. g[r] # "new"
    BY <2>1, <2>2 DEF Follows
  <2>4. ASSUME ~Came(g, start, r)
        PROVE  /\ RankIn(g, r) <= before
               /\ \A j \in DOMAIN rows : rows[j].id = r => j = i
    <3>1. ~Came(h, start, r)
      BY <2>4 DEF Came, Follows
    <3>2. \A s \in Records : s <= r /\ g[s] = "live" => h[s] = "live"
      <4> SUFFICES ASSUME NEW s \in Records, s <= r, g[s] = "live", h[s] # "live"
                   PROVE  FALSE
        OBVIOUS
      <4>1. h[s] = "new" /\ start[s] = "new"
        BY DEF Follows, States
      <4>2. s < r
        BY <2>1, <2>2, <4>1, PagingAssumption
      <4>3. QED
        BY <2>4, <4>1, <4>2 DEF Came
    <3>3. RankIn(g, r) <= RankIn(h, r)
      BY <2>1, <3>2, MoreLiveRankHigher
    <3>4. QED
      BY <2>1, <2>2, <3>1, <3>3, RankInIsNat
  <2>5. QED
    BY <2>3, <2>4 DEF r
<1>3. QED
  BY <1>1, <1>2 DEF Listed

LEMMA RanksAgree ==
  ASSUME NEW c \in Collections
  PROVE  /\ Live(c) = LiveIn(hub[c])
         /\ \A r \in Records : Rank(c, r) = RankIn(hub[c], r)
<1>1. Live(c) = LiveIn(hub[c])
  BY DEF Live, LiveIn
<1>2. QED
  BY <1>1 DEF Rank, RankIn, UpTo

(* Another page makes a listing good as far as that page goes. *)
LEMMA PageKeepsListed ==
  ASSUME HubTypeOK, NEW c \in Collections, NEW n \in Nat \ {0},
         NEW start \in [Records -> States], NEW rows \in Seq(Entries),
         Listed(hub[c], start, rows, Offset(n))
  PROVE  /\ rows \o Page(c, n) \in Seq(Entries)
         /\ Listed(hub[c], start, rows \o Page(c, n), Offset(n) + PageSize)
<1> DEFINE h == hub[c]
           page == Page(c, n)
           all == rows \o page
           next == Offset(n) + PageSize
<1>1. /\ page \in Seq(Entries)
      /\ \A i \in DOMAIN page :
           /\ page[i].id \in Live(c)
           /\ Rank(c, page[i].id) \in Offset(n) + 1 .. next
      /\ \A r \in Live(c) :
           Rank(c, r) \in Offset(n) + 1 .. next => \E i \in DOMAIN page : page[i].id = r
      /\ \A i, j \in DOMAIN page : page[i].id = page[j].id => i = j
  BY PageHolds
<1>2. Offset(n) \in Nat /\ PageSize \in Nat /\ next \in Nat
  BY Offsets, PagingAssumption
<1>3. Live(c) = LiveIn(h) /\ \A r \in Records : Rank(c, r) = RankIn(h, r)
  BY RanksAgree
<1>4. Listed(h, start, rows, Offset(n))
  OBVIOUS
<1> HIDE DEF h, page, all, next
<1>5. \A i \in DOMAIN page :
        /\ page[i].id \in Records /\ h[page[i].id] = "live"
        /\ RankIn(h, page[i].id) > Offset(n) /\ RankIn(h, page[i].id) <= next
  <2> SUFFICES ASSUME NEW i \in DOMAIN page
               PROVE  /\ page[i].id \in Records /\ h[page[i].id] = "live"
                      /\ RankIn(h, page[i].id) > Offset(n)
                      /\ RankIn(h, page[i].id) <= next
    OBVIOUS
  <2>1. page[i].id \in Records /\ h[page[i].id] = "live"
    BY <1>1, <1>3 DEF LiveIn
  <2>2. RankIn(h, page[i].id) \in Offset(n) + 1 .. next
    BY <1>1, <1>3, <2>1
  <2>3. QED
    BY <1>2, <2>1, <2>2
<1>6. /\ all \in Seq(Entries)
      /\ Len(all) = Len(rows) + Len(page)
      /\ \A i \in 1 .. Len(rows) : all[i] = rows[i]
      /\ \A i \in 1 .. Len(page) : all[Len(rows) + i] = page[i]
      /\ Len(rows) \in Nat /\ Len(page) \in Nat
  BY <1>1 DEF all
<1>7. \A i \in DOMAIN all : \/ i \in DOMAIN rows /\ all[i] = rows[i]
                            \/ /\ i - Len(rows) \in DOMAIN page
                               /\ all[i] = page[i - Len(rows)]
  <2> SUFFICES ASSUME NEW i \in DOMAIN all
               PROVE  \/ i \in DOMAIN rows /\ all[i] = rows[i]
                      \/ /\ i - Len(rows) \in DOMAIN page
                         /\ all[i] = page[i - Len(rows)]
    OBVIOUS
  <2>1. i \in 1 .. Len(rows) + Len(page)
    BY <1>6
  <2>2. CASE i <= Len(rows)
    BY <1>6, <2>1, <2>2
  <2>3. CASE i > Len(rows)
    <3>1. i - Len(rows) \in 1 .. Len(page) /\ Len(rows) + (i - Len(rows)) = i
      BY <1>6, <2>1, <2>3
    <3>2. all[i] = page[i - Len(rows)]
      BY <1>6, <3>1
    <3>3. QED
      BY <1>1, <3>1, <3>2
  <2>4. QED
    BY <1>6, <2>1, <2>2, <2>3
<1>8. ASSUME NEW r \in Records, Stayed(h, start, r)
      PROVE  Has(all, r) \/ RankIn(h, r) > next
  <2>1. CASE Has(rows, r)
    BY <1>6, <2>1 DEF Has
  <2>2. CASE RankIn(h, r) > Offset(n) /\ RankIn(h, r) <= next
    <3>1. r \in Live(c) /\ Rank(c, r) \in Offset(n) + 1 .. next
      BY <1>2, <1>3, <1>8, <2>2, RankInIsNat DEF Stayed, LiveIn
    <3>2. PICK i \in DOMAIN page : page[i].id = r
      BY <1>1, <3>1
    <3>3. Len(rows) + i \in DOMAIN all /\ all[Len(rows) + i] = page[i]
      <4>1. i \in 1 .. Len(page)
        BY <1>1, <3>2
      <4>2. DOMAIN all = 1 .. Len(rows) + Len(page)
        BY ONLY <1>6
      <4>3. QED
        BY ONLY <1>6, <4>1, <4>2
    <3>4. all[Len(rows) + i].id = r
      BY ONLY <3>2, <3>3
    <3>5. QED
      BY ONLY <3>3, <3>4 DEF Has
  <2>3. QED
    BY <1>2, <1>4, <1>8, <2>1, <2>2, RankInIsNat DEF Listed
<1>9. ASSUME NEW i \in DOMAIN all
      PROVE  /\ h[all[i].id] # "new"
             /\ ~Came(h, start, all[i].id) =>
                  /\ RankIn(h, all[i].id) <= next
                  /\ \A j \in DOMAIN all : all[j].id = all[i].id => j = i
  <2>1. all[i].id \in Records
    <3>1. all[i] \in Entries
      BY <1>6
    <3>2. QED
      BY <3>1 DEF Entries
  <2>2. h[all[i].id] # "new"
    BY <1>4, <1>5, <1>7 DEF Listed
  <2>3. ASSUME ~Came(h, start, all[i].id)
        PROVE  RankIn(h, all[i].id) <= next
    <3>1. CASE i \in DOMAIN rows /\ all[i] = rows[i]
      <4>1. RankIn(h, all[i].id) <= Offset(n)
        BY <1>4, <2>3, <3>1 DEF Listed
      <4>2. next = Offset(n) + PageSize
        BY DEF next
      <4>3. QED
        BY <1>2, <2>1, <4>1, <4>2, RankInIsNat
    <3>2. CASE /\ i - Len(rows) \in DOMAIN page
               /\ all[i] = page[i - Len(rows)]
      BY <1>5, <3>2
    <3>3. QED
      BY <1>7, <3>1, <3>2
  <2>4. ASSUME ~Came(h, start, all[i].id), NEW j \in DOMAIN all, all[j].id = all[i].id
        PROVE  j = i
    <3>1. CASE i \in DOMAIN rows /\ all[i] = rows[i] /\ j \in DOMAIN rows /\ all[j] = rows[j]
      BY <1>4, <2>4, <3>1 DEF Listed
    <3>2. CASE /\ i - Len(rows) \in DOMAIN page /\ all[i] = page[i - Len(rows)]
               /\ j - Len(rows) \in DOMAIN page /\ all[j] = page[j - Len(rows)]
      <4>1. i - Len(rows) = j - Len(rows)
        BY <1>1, <2>4, <3>2
      <4>2. i \in Nat /\ j \in Nat
        BY <1>6
      <4>3. QED
        BY <1>6, <4>1, <4>2
    <3>3. ~(/\ i \in DOMAIN rows /\ all[i] = rows[i]
            /\ j - Len(rows) \in DOMAIN page /\ all[j] = page[j - Len(rows)])
      BY <1>2, <1>4, <1>5, <2>1, <2>4, RankInIsNat DEF Listed
    <3>4. ~(/\ j \in DOMAIN rows /\ all[j] = rows[j]
            /\ i - Len(rows) \in DOMAIN page /\ all[i] = page[i - Len(rows)])
      BY <1>2, <1>4, <1>5, <2>1, <2>4, RankInIsNat DEF Listed
    <3>5. QED
      BY <1>7, <2>4, <3>1, <3>2, <3>3, <3>4
  <2>5. QED
    BY <2>2, <2>3, <2>4
<1>10. Listed(h, start, all, next)
  BY <1>8, <1>9 DEF Listed
<1>11. QED
  BY <1>6, <1>10 DEF h, page, all, next

(* The last page completes a listing. *)
LEMMA LastPageCompletes ==
  ASSUME HubTypeOK, NEW c \in Collections, NEW n \in Nat \ {0}, IsLast(c, n),
         NEW start \in [Records -> States], NEW rows \in Seq(Entries),
         Listed(hub[c], start, rows, Offset(n))
  PROVE  /\ rows \o Page(c, n) \in Seq(Entries)
         /\ \A r \in Records :
              Stayed(hub[c], start, r) => Has(rows \o Page(c, n), r)
         /\ \A i, j \in DOMAIN (rows \o Page(c, n)) :
              (rows \o Page(c, n))[j].id = (rows \o Page(c, n))[i].id =>
                Came(hub[c], start, (rows \o Page(c, n))[i].id) \/ j = i
<1> DEFINE all == rows \o Page(c, n)
<1>1. all \in Seq(Entries) /\ Listed(hub[c], start, all, Offset(n) + PageSize)
  BY PageKeepsListed
<1> HIDE DEF all
<1>2. ASSUME NEW r \in Records, Stayed(hub[c], start, r)
      PROVE  Has(all, r)
  <2>1. r \in Live(c)
    BY <1>2 DEF Stayed, Live
  <2>2. RankIn(hub[c], r) <= Offset(n) + PageSize
    <3>1. Rank(c, r) = RankIn(hub[c], r)
      BY RanksAgree
    <3>2. QED
      BY <2>1, <3>1, NothingIsLeft
  <2>3. RankIn(hub[c], r) \in Nat /\ Offset(n) \in Nat /\ PageSize \in Nat
    BY RankInIsNat, Offsets, PagingAssumption
  <2>4. QED
    BY <1>1, <1>2, <2>2, <2>3 DEF Listed
<1>3. \A i, j \in DOMAIN all :
        all[j].id = all[i].id => Came(hub[c], start, all[i].id) \/ j = i
  BY <1>1 DEF Listed
<1>4. QED
  BY <1>1, <1>2, <1>3 DEF all

LEMMA CompleteIsListedWell ==
  ASSUME NEW c \in Collections, NEW L, L.rows \in Seq(Entries),
         \A r \in Records : Stayed(hub[c], L.start, r) => Has(L.rows, r),
         \A i, j \in DOMAIN L.rows :
           L.rows[j].id = L.rows[i].id => Came(hub[c], L.start, L.rows[i].id) \/ j = i
  PROVE  ListedWell(c, L)
<1> SUFFICES ASSUME NEW r \in Records
             PROVE  LET times == Cardinality({i \in DOMAIN L.rows : L.rows[i].id = r})
                    IN  /\ times = 0 => \/ Went(hub[c], L.start, r)
                                        \/ ~(L.start[r] = "live" /\ hub[c][r] = "live")
                        /\ times > 1 => Came(hub[c], L.start, r)
  BY DEF ListedWell, Went, Came
<1> DEFINE at == {i \in DOMAIN L.rows : L.rows[i].id = r}
<1>1. IsFiniteSet(at)
  <2>1. at \subseteq 1 .. Len(L.rows) /\ Len(L.rows) \in Nat
    OBVIOUS
  <2>2. IsFiniteSet(1 .. Len(L.rows))
    BY <2>1, FS_Interval
  <2> HIDE DEF at
  <2>3. QED
    BY <2>1, <2>2, FS_Subset
<1>2. \A i : i \in at <=> i \in DOMAIN L.rows /\ L.rows[i].id = r
  OBVIOUS
<1> HIDE DEF at
<1>3. ASSUME Cardinality(at) = 0, Stayed(hub[c], L.start, r)
      PROVE  FALSE
  <2>1. at = {}
    BY <1>1, <1>3, FS_EmptySet
  <2>2. QED
    BY <1>2, <1>3, <2>1 DEF Has
<1>4. ASSUME Cardinality(at) > 1, ~Came(hub[c], L.start, r)
      PROVE  FALSE
  <2>1. at # {}
    BY <1>1, <1>4, FS_EmptySet
  <2>2. PICK i : i \in at
    BY <2>1
  <2>3. \A j \in at : j = i
    BY <1>2, <1>4, <2>2
  <2>4. at = {i}
    BY <2>2, <2>3
  <2>5. Cardinality(at) = 1
    BY <2>4, FS_Singleton
  <2>6. QED
    BY <1>4, <2>5
<1>5. QED
  BY <1>3, <1>4 DEF Stayed, at

-----------------------------------------------------------------------------
(***************************************************************************)
(* The inductive invariant.  What is said of the listings rests on Listed; *)
(* a listing of systems and the cache it fills have a settled record once, *)
(* since nothing before it came or went.                                   *)
(***************************************************************************)
Initially(r) == IF r \in Present THEN "live" ELSE "new"

HubInv ==
  /\ HubTypeOK
  /\ \A c \in Collections, r \in Records : Follows(Initially(r), hub[c][r])

Listings == [page : Nat, rows : Seq(Entries), start : [Records -> States] \cup {<< >>}]
Phases == {"idle", "listing", "gathering", "rendering", "sending", "ended"}
ReadStates == {"no", "asked", "some", "missing"}
Outcomes == {"none", "denied", "usage", "bad_range", "list", "not_found",
             "ambiguous", "failed", "image", "health"}

QueryTypeOK ==
  /\ ask \in Asks
  /\ phase \in [Queries -> Phases]
  /\ listing \in [Queries -> [Collections -> Listings]]
  /\ read \in [Queries -> [Reads -> ReadStates]]
  /\ target \in [Queries -> SUBSET Records]
  /\ view \in [Queries -> SUBSET Entries]
  /\ outcome \in [Queries -> Outcomes]
  /\ left \in [Queries -> Int]
  /\ floor \in [Queries -> Nat]
  /\ errors \in [Queries -> SUBSET Reads]

CacheInv ==
  cached # NoList =>
    /\ cached \in Seq(Entries)
    /\ \A r \in Records : Settled(r) => Once(cached, r)

(* Nothing has happened to a query that has not begun. *)
IdleInv(q) ==
  phase[q] = "idle" =>
    /\ listing[q] = NoListings /\ read[q] = NoReads
    /\ view[q] = {} /\ errors[q] = {} /\ outcome[q] = "none"

(* What a query has was read after it began. *)
FreshInv(q) ==
  /\ floor[q] <= changes
  /\ \A e \in view[q] : e.at >= floor[q]
  /\ \A i \in DOMAIN listing[q]["systems"].rows :
       listing[q]["systems"].rows[i].at >= floor[q]

ListingGood(h, L) ==
  /\ L.start \in [Records -> States]
  /\ \A s \in Records : Follows(Initially(s), L.start[s]) /\ Follows(L.start[s], h[s])
  /\ Listed(h, L.start, L.rows, Offset(L.page))
  /\ L.page > 1 => Offset(L.page) < Cardinality(SeenIn(h, L.start))

ListingInv(q) ==
  \A c \in Collections : Underway(listing[q][c]) => ListingGood(hub[c], listing[q][c])

(* Health only makes its own reads, and never starts over. *)
HealthInv(q) ==
  ask[q].kind = "health" =>
    /\ \A r \in Reads : r \in errors[q] <=> read[q][r] = "missing"
    /\ \A c \in Collections : ~Underway(listing[q][c])
    /\ read[q]["summary"] # "asked"
    /\ phase[q] # "rendering"
    /\ outcome[q] # "image"

FailureInv(q) ==
  ask[q].kind # "health" =>
    errors[q] \subseteq (IF ask[q].kind = "history" THEN {"details"} ELSE {})

(* A selector that has been typed in full. *)
Typed(selector, r) ==
  r \in selector.id \/ (selector.id = {} /\ selector.name = {r})

FoundInv(q) ==
  \A r \in Records :
    Settled(r) /\ Typed(ask[q].selector, r) =>
      /\ outcome[q] \notin {"not_found", "ambiguous"}
      /\ read[q]["summary"] = "asked" => r \in target[q]

QueryInv(q) ==
  /\ IdleInv(q) /\ FreshInv(q) /\ ListingInv(q)
  /\ HealthInv(q) /\ FailureInv(q) /\ FoundInv(q)

QueriesInv ==
  /\ HubInv /\ QueryTypeOK /\ CacheInv
  /\ \A q \in Queries : QueryInv(q)

(* A record typed in full that a list has once is what is selected.        *)
LEMMA TypedIsSelected ==
  ASSUME NEW list \in Seq(Entries), NEW q \in Queries, ask \in Asks,
         NEW r \in Records, Once(list, r), Typed(ask[q].selector, r)
  PROVE  /\ Len(Selected(list, ask[q].selector)) = 1
         /\ Selected(list, ask[q].selector)[1].id = r
<1> DEFINE selector == ask[q].selector
<1>1. CASE r \in selector.id
  <2>1. \A s \in selector.id : s = r
    BY <1>1, QueriesAssumption
  <2>2. /\ Len(Matches(list, selector.id)) = 1
        /\ Matches(list, selector.id)[1].id = r
    <3> HIDE DEF selector
    <3>1. QED
      BY <1>1, <2>1, OnceSelected
  <2>3. Matches(list, selector.id) \in Seq(Entries)
    BY MatchesKeeps
  <2>4. /\ Matches(list, selector.id) # << >>
        /\ SubSeq(Matches(list, selector.id), 1, 1) = Matches(list, selector.id)
    BY <2>2, <2>3
  <2>5. Selected(list, selector) = SubSeq(Matches(list, selector.id), 1, 1)
    BY <2>4 DEF Selected
  <2>6. QED
    BY <2>2, <2>4, <2>5
<1>2. CASE selector.id = {} /\ selector.name = {r}
  <2>1. /\ Len(Matches(list, selector.name)) = 1
        /\ Matches(list, selector.name)[1].id = r
    <3> HIDE DEF selector
    <3>1. QED
      BY <1>2, OnceSelected
  <2>2. Matches(list, {}) = << >>
    <3>1. /\ Matches(list, {}) \in Seq(Entries)
          /\ \E at \in [1 .. Len(Matches(list, {})) -> Places(list, {})] : TRUE
      BY MatchesKeeps
    <3>2. Places(list, {}) = {}
      BY DEF Places
    <3>3. Len(Matches(list, {})) = 0
      <4> HIDE DEF selector
      <4>1. 1 .. Len(Matches(list, {})) = {}
        BY <3>1, <3>2
      <4>2. Len(Matches(list, {})) \in Nat
        BY <3>1
      <4>3. SUFFICES ASSUME Len(Matches(list, {})) # 0
                     PROVE  1 \in 1 .. Len(Matches(list, {}))
        BY <4>1
      <4>4. QED
        BY <4>2, <4>3
    <3>4. QED
      BY <3>1, <3>3
  <2>3. Matches(list, selector.name) # << >>
    BY <2>1
  <2>4. Selected(list, selector) = Matches(list, selector.name)
    BY <1>2, <2>2, <2>3 DEF Selected
  <2>5. QED
    BY <2>1, <2>4
<1>3. QED
  BY <1>1, <1>2 DEF Typed

(* A settled record stayed, and none before it came, since any listing began. *)
LEMMA SettledStays ==
  ASSUME HubInv, NEW r \in Records, Settled(r), NEW start \in [Records -> States],
         \A s \in Records : /\ Follows(Initially(s), start[s])
                            /\ Follows(start[s], hub["systems"][s])
  PROVE  Stayed(hub["systems"], start, r) /\ ~Came(hub["systems"], start, r)
<1> DEFINE h == hub["systems"]
<1>1. r \in Nat /\ h \in [Records -> States]
  BY PagingAssumption DEF HubInv, HubTypeOK, Collections
<1>2. h[r] = "live" /\ Initially(r) = "live"
  BY DEF Settled, Initially
<1>3. \A s \in Records : s < r => h[s] = Initially(s)
  BY DEF Settled, Initially
<1>4. \A s \in Records : Follows(Initially(s), start[s]) /\ Follows(start[s], h[s])
  OBVIOUS
<1> HIDE DEF h
<1>5. \A s \in Records : h[s] = Initially(s) => start[s] = h[s]
  BY <1>4 DEF Follows, Initially
<1>6. start[r] = "live"
  BY <1>2, <1>5
<1>7. QED
  BY <1>2, <1>3, <1>5, <1>6 DEF Stayed, Went, Came, h

LEMMA SettledIsListed ==
  ASSUME HubInv, NEW L \in Listings, Underway(L), ListingGood(hub["systems"], L),
         IsLast("systems", L.page), NEW r \in Records, Settled(r)
  PROVE  Once(L.rows \o Page("systems", L.page), r)
<1> DEFINE all == L.rows \o Page("systems", L.page)
<1>1. L.page \in Nat \ {0} /\ L.rows \in Seq(Entries) /\ HubTypeOK
  BY DEF Listings, Underway, HubInv
<1>2. /\ L.start \in [Records -> States]
      /\ Listed(hub["systems"], L.start, L.rows, Offset(L.page))
      /\ \A s \in Records : /\ Follows(Initially(s), L.start[s])
                            /\ Follows(L.start[s], hub["systems"][s])
  BY DEF ListingGood
<1>3. "systems" \in Collections
  BY DEF Collections
<1>4. /\ all \in Seq(Entries)
      /\ \A s \in Records : Stayed(hub["systems"], L.start, s) => Has(all, s)
      /\ \A i, j \in DOMAIN all :
           all[j].id = all[i].id => Came(hub["systems"], L.start, all[i].id) \/ j = i
  BY <1>1, <1>2, <1>3, LastPageCompletes
<1> HIDE DEF all
<1>5. Stayed(hub["systems"], L.start, r) /\ ~Came(hub["systems"], L.start, r)
  BY <1>2, SettledStays
<1>6. Once(all, r)
  BY <1>4, <1>5 DEF Has, Once
<1>7. QED
  BY <1>6 DEF all

(* What a page adds to a listing. *)
LEMMA WithPageHas ==
  ASSUME HubTypeOK, NEW c \in Collections, NEW L \in Listings, Underway(L)
  PROVE  /\ WithPage(c, L) \in Listings
         /\ WithPage(c, L).rows = L.rows \o Page(c, L.page)
         /\ WithPage(c, L).start = L.start
         /\ Underway(WithPage(c, L)) <=> ~IsLast(c, L.page)
         /\ ~IsLast(c, L.page) => WithPage(c, L).page = L.page + 1
<1>1. L.page \in Nat \ {0} /\ L.rows \in Seq(Entries)
  BY DEF Listings, Underway
<1>2. L.rows \o Page(c, L.page) \in Seq(Entries)
  BY <1>1, PageHolds
<1>3. /\ WithPage(c, L) = [L EXCEPT !.rows = L.rows \o Page(c, L.page),
                                    !.page = IF IsLast(c, L.page) THEN 0 ELSE L.page + 1]
  BY DEF WithPage
<1> DEFINE rows == L.rows \o Page(c, L.page)
           next == IF IsLast(c, L.page) THEN 0 ELSE L.page + 1
<1>4. next \in Nat /\ (next > 0 <=> ~IsLast(c, L.page))
  BY <1>1
<1>5. rows \in Seq(Entries) /\ WithPage(c, L) = [L EXCEPT !.rows = rows, !.page = next]
  BY <1>2, <1>3
<1>6. ~IsLast(c, L.page) => next = L.page + 1
  OBVIOUS
<1>7. rows = L.rows \o Page(c, L.page)
  OBVIOUS
<1> HIDE DEF rows, next
<1>8. WithPage(c, L) = [page |-> next, rows |-> rows, start |-> L.start]
  BY <1>5 DEF Listings
<1>9. QED
  BY <1>4, <1>5, <1>6, <1>7, <1>8 DEF Listings, Underway

(* A page that is not the last leaves some live record behind it.           *)
LEMMA NextPageIsSeen ==
  ASSUME HubTypeOK, NEW c \in Collections, NEW n \in Nat \ {0}, ~IsLast(c, n),
         NEW start, \A s \in Records : Follows(start[s], hub[c][s])
  PROVE  Offset(n + 1) < Cardinality(SeenIn(hub[c], start))
<1> DEFINE N == Cardinality(Live(c))
           d == (N + PageSize - 1) \div PageSize
<1>1. N \in Nat /\ PageSize \in Nat \ {0}
  BY LiveIsFinite, PagingAssumption
<1>2. n < d
  <2>1. ~(n >= d)
    BY DEF IsLast, TotalPages
  <2>2. d \in Int
    BY <1>1
  <2>3. QED
    BY <2>1, <2>2
<1> HIDE DEF N
<1>3. PageSize * d <= N + PageSize - 1
  BY <1>1
<1>4. PageSize * (n + 1) <= PageSize * d
  <2>1. d \in Int
    BY <1>1
  <2> HIDE DEF d
  <2>2. QED
    BY <1>1, <1>2, <2>1
<1>5. Offset(n + 1) = PageSize * (n + 1) - PageSize
  BY <1>1 DEF Offset
<1>6. Offset(n + 1) < N
  <2>1. d \in Int
    BY <1>1
  <2> HIDE DEF d
  <2>2. PageSize * (n + 1) \in Int /\ PageSize * d \in Int
    BY <1>1, <2>1
  <2>3. QED
    BY <1>1, <1>3, <1>4, <1>5, <2>2
<1>7. Live(c) \subseteq SeenIn(hub[c], start)
  BY DEF Live, SeenIn, Follows
<1>8. SeenIn(hub[c], start) \subseteq Records
  BY DEF SeenIn
<1>9. /\ IsFiniteSet(SeenIn(hub[c], start))
      /\ Cardinality(SeenIn(hub[c], start)) \in Nat
  BY <1>8, PagingAssumption, FS_Subset, FS_CardinalityType
<1>10. N <= Cardinality(SeenIn(hub[c], start))
  BY <1>7, <1>9, FS_Subset DEF N
<1>11. Offset(n + 1) \in Nat
  BY Offsets
<1>12. QED
  BY <1>1, <1>6, <1>9, <1>10, <1>11

LEMMA MorePagesStayGood ==
  ASSUME HubTypeOK, NEW c \in Collections, NEW L \in Listings, Underway(L),
         ListingGood(hub[c], L), ~IsLast(c, L.page)
  PROVE  ListingGood(hub[c], WithPage(c, L))
<1>1. L.page \in Nat \ {0} /\ L.rows \in Seq(Entries)
  BY DEF Listings, Underway
<1>2. Listed(hub[c], L.start, L.rows \o Page(c, L.page), Offset(L.page) + PageSize)
  BY <1>1, PageKeepsListed DEF ListingGood
<1>3. Offset(L.page + 1) = Offset(L.page) + PageSize
  BY <1>1, Offsets
<1>4. Offset(L.page + 1) < Cardinality(SeenIn(hub[c], L.start))
  BY <1>1, NextPageIsSeen DEF ListingGood
<1>5. QED
  BY <1>2, <1>3, <1>4, WithPageHas DEF ListingGood

(* The Hub: records only go from new to live to gone. *)
LEMMA HubGoesOn ==
  ASSUME HubInv, HubChanges
  PROVE  /\ HubInv'
         /\ changes' = changes + 1
         /\ \A c \in Collections, r \in Records : Follows(hub[c][r], hub'[c][r])
         /\ \A r \in Records : Settled(r)' => Settled(r)
<1>1. HubTypeOK /\ changes \in Nat /\ hub \in [Collections -> [Records -> States]]
  BY DEF HubInv, HubTypeOK
<1>2. changes' = changes + 1
  BY DEF HubChanges
<1>3. /\ hub' \in [Collections -> [Records -> States]]
      /\ \A c \in Collections, r \in Records : Follows(hub[c][r], hub'[c][r])
  <2>1. ASSUME NEW c \in Collections, NEW r \in Records, Created(c, r) \/ Deleted(c, r)
        PROVE  /\ hub' \in [Collections -> [Records -> States]]
               /\ \A d \in Collections, s \in Records : Follows(hub[d][s], hub'[d][s])
    BY <1>1, <2>1 DEF Created, Deleted, States, Follows
  <2>2. CASE UNCHANGED hub
    BY <1>1, <2>2 DEF Follows
  <2>3. QED
    BY <2>1, <2>2 DEF HubChanges, Updated
<1>4. \A c \in Collections, r \in Records :
        /\ Follows(Initially(r), hub[c][r])
        /\ Follows(Initially(r), hub'[c][r])
  BY <1>3 DEF HubInv, Follows, Initially
<1>5. HubInv'
  BY <1>1, <1>2, <1>3, <1>4 DEF HubInv, HubTypeOK, Initially
<1>6. ASSUME NEW r \in Records, Settled(r)'
      PROVE  Settled(r)
  <2>1. \A s \in Records : hub'["systems"][s] = Initially(s) =>
                           hub["systems"][s] = Initially(s)
    BY <1>3, <1>4 DEF Follows, Initially, Collections
  <2>2. QED
    BY <1>6, <2>1 DEF Settled, Initially
<1>7. QED
  BY <1>2, <1>3, <1>5, <1>6

-----------------------------------------------------------------------------
(* A step of a query leaves the others alone. *)
Others(q) ==
  \A p \in Queries \ {q} :
    /\ phase'[p] = phase[p] /\ listing'[p] = listing[p] /\ read'[p] = read[p]
    /\ target'[p] = target[p] /\ view'[p] = view[p] /\ outcome'[p] = outcome[p]
    /\ floor'[p] = floor[p] /\ errors'[p] = errors[p]

LEMMA OneQueryMoves ==
  ASSUME QueriesInv, NEW q \in Queries, UNCHANGED <<hub, changes, ask>>,
         QueryTypeOK', CacheInv', Others(q), QueryInv(q)'
  PROVE  QueriesInv'
<1>1. HubInv'
  BY DEF QueriesInv, HubInv, HubTypeOK, Follows, Initially
<1>2. \A r \in Records : Settled(r)' = Settled(r)
  BY DEF Settled
<1>3. ASSUME NEW p \in Queries \ {q}
      PROVE  QueryInv(p)'
  <2>1. QueryInv(p)
    BY DEF QueriesInv
  <2>2. /\ phase'[p] = phase[p] /\ listing'[p] = listing[p] /\ read'[p] = read[p]
        /\ target'[p] = target[p] /\ view'[p] = view[p] /\ outcome'[p] = outcome[p]
        /\ floor'[p] = floor[p] /\ errors'[p] = errors[p]
    BY DEF Others
  <2>3. IdleInv(p)' /\ FreshInv(p)'
    BY <2>1, <2>2 DEF QueryInv, IdleInv, FreshInv
  <2>4. ListingInv(p)'
    BY <2>1, <2>2 DEF QueryInv, ListingInv
  <2>5. HealthInv(p)' /\ FailureInv(p)'
    BY <2>1, <2>2 DEF QueryInv, HealthInv, FailureInv
  <2>6. FoundInv(p)'
    BY <1>2, <2>1, <2>2 DEF QueryInv, FoundInv
  <2>7. QED
    BY <2>3, <2>4, <2>5, <2>6 DEF QueryInv
<1>4. QED
  BY <1>1, <1>3 DEF QueriesInv

(* A query that begins now, or has begun. *)
Begun(q) ==
  \/ floor' = floor
  \/ phase[q] = "idle" /\ floor' = [floor EXCEPT ![q] = changes]

LEMMA BegunIsFresh ==
  ASSUME QueriesInv, NEW q \in Queries, Begun(q)
  PROVE  /\ floor' \in [Queries -> Nat]
         /\ \A p \in Queries \ {q} : floor'[p] = floor[p]
         /\ floor'[q] <= changes
         /\ \A e \in view[q] : e.at >= floor'[q]
<1>1. /\ floor \in [Queries -> Nat] /\ changes \in Nat /\ IdleInv(q) /\ FreshInv(q)
  BY DEF QueriesInv, QueryTypeOK, HubInv, HubTypeOK, QueryInv
<1>2. CASE floor' = floor
  BY <1>1, <1>2 DEF FreshInv
<1>3. CASE phase[q] = "idle" /\ floor' = [floor EXCEPT ![q] = changes]
  BY <1>1, <1>3 DEF IdleInv
<1>4. QED
  BY <1>2, <1>3 DEF Begun

LEMMA NothingYet ==
  /\ NoListing \in Listings /\ ~Underway(NoListing) /\ NoListing.rows = << >>
  /\ NoListings \in [Collections -> Listings]
  /\ \A c \in Collections : NoListings[c] = NoListing
  /\ NoReads \in [Reads -> ReadStates]
  /\ \A r \in Reads : NoReads[r] = "no"
  /\ "summary" \in Reads /\ "systems" \in Collections
<1>1. NoListing \in Listings
  BY DEF NoListing, Listings
<1>2. ~Underway(NoListing) /\ NoListing.rows = << >>
  BY DEF NoListing, Underway
<1>3. QED
  BY <1>1, <1>2 DEF NoListings, NoReads, ReadStates, Reads, Collections

(* An answer ends all a query was doing. *)
LEMMA SaysKeeps ==
  ASSUME QueriesInv, NEW q \in Queries, UNCHANGED <<hub, changes, ask, errors, target>>,
         NEW what \in Outcomes, NEW n \in Int, Says(q, what, n), Begun(q), CacheInv',
         view' = view \/ view' = [view EXCEPT ![q] = {}],
         ask[q].kind = "health" => errors[q] = {} /\ what # "image",
         \A r \in Records : Settled(r) /\ Typed(ask[q].selector, r) =>
                              what \notin {"not_found", "ambiguous"}
  PROVE  QueriesInv'
<1>1. QueryTypeOK /\ QueryInv(q)
  BY DEF QueriesInv
<1>2. /\ phase' = [phase EXCEPT ![q] = "sending"]
      /\ outcome' = [outcome EXCEPT ![q] = what]
      /\ left' = [left EXCEPT ![q] = n]
      /\ listing' = [listing EXCEPT ![q] = NoListings]
      /\ read' = [read EXCEPT ![q] = NoReads]
  BY DEF Says
<1>3. /\ floor' \in [Queries -> Nat]
      /\ \A p \in Queries \ {q} : floor'[p] = floor[p]
      /\ floor'[q] <= changes
      /\ \A e \in view[q] : e.at >= floor'[q]
  BY BegunIsFresh
<1>4. /\ view' \in [Queries -> SUBSET Entries]
      /\ \A p \in Queries \ {q} : view'[p] = view[p]
      /\ \A e \in view'[q] : e.at >= floor'[q]
  BY <1>1, <1>3 DEF QueryTypeOK
<1>5. QueryTypeOK'
  BY <1>1, <1>2, <1>3, <1>4, NothingYet DEF QueryTypeOK, Phases
<1>6. Others(q)
  BY <1>1, <1>2, <1>3, <1>4 DEF Others, QueryTypeOK
<1>7. /\ phase'[q] = "sending" /\ outcome'[q] = what
      /\ listing'[q] = NoListings /\ read'[q] = NoReads
  BY <1>1, <1>2 DEF QueryTypeOK
<1>8. IdleInv(q)' /\ FreshInv(q)' /\ ListingInv(q)'
  <2>1. IdleInv(q)'
    BY <1>7 DEF IdleInv
  <2>2. FreshInv(q)'
    BY <1>3, <1>4, <1>7, NothingYet DEF FreshInv
  <2>3. ListingInv(q)'
    BY <1>7, NothingYet DEF ListingInv
  <2>4. QED
    BY <2>1, <2>2, <2>3
<1>9. HealthInv(q)' /\ FailureInv(q)'
  BY <1>1, <1>7, NothingYet DEF HealthInv, FailureInv, QueryInv
<1>10. FoundInv(q)'
  BY <1>7, NothingYet DEF FoundInv, Settled
<1>11. QED
  BY <1>5, <1>6, <1>8, <1>9, <1>10, OneQueryMoves DEF QueryInv

LEMMA OpenedIsGood ==
  ASSUME HubInv, NEW c \in Collections
  PROVE  /\ Opened(c) \in Listings
         /\ Opened(c).rows = << >>
         /\ ListingGood(hub[c], Opened(c))
<1>1. hub[c] \in [Records -> States]
  BY DEF HubInv, HubTypeOK
<1>2. Opened(c) = [page |-> 1, rows |-> << >>, start |-> hub[c]]
  BY DEF Opened
<1>3. Offset(1) = 0
  BY Offsets
<1>4. \A r \in Records : hub[c][r] = "live" => RankIn(hub[c], r) > 0
  <2> SUFFICES ASSUME NEW r \in Records, hub[c][r] = "live"
               PROVE  RankIn(hub[c], r) > 0
    OBVIOUS
  <2>1. r \in Live(c)
    BY DEF Live
  <2>2. QED
    BY <2>1, RanksAgree, RankIsBounded
<1>5. Listed(hub[c], hub[c], << >>, 0)
  BY <1>4 DEF Listed, Stayed
<1>6. \A s \in Records : Follows(Initially(s), hub[c][s]) /\ Follows(hub[c][s], hub[c][s])
  BY DEF HubInv, Follows
<1>7. QED
  BY <1>1, <1>2, <1>3, <1>5, <1>6 DEF ListingGood, Listings

(* A query that sets out to read keeps what it has. *)
LEMMA AsksForKeeps ==
  ASSUME QueriesInv, NEW q \in Queries, NEW reads \in SUBSET Reads, AsksFor(q, reads),
         UNCHANGED <<hub, changes, ask, errors, view>>, Begun(q), CacheInv',
         target' = target \/ \E r \in Records : target' = [target EXCEPT ![q] = {r}],
         ask[q].kind = "health" => errors[q] = {} /\ "summary" \notin reads,
         \A r \in Records :
           "summary" \in reads /\ Settled(r) /\ Typed(ask[q].selector, r) =>
             r \in target'[q]
  PROVE  QueriesInv'
<1> DEFINE asked == [r \in Reads |-> IF r \in reads THEN "asked" ELSE "no"]
           opened == [c \in Collections |-> IF c \in ListingsOf(ask[q].kind)
                                              THEN Opened(c) ELSE NoListing]
<1>1. QueryTypeOK /\ QueryInv(q) /\ HubInv
  BY DEF QueriesInv
<1>2. /\ phase' = [phase EXCEPT ![q] = "gathering"]
      /\ read' = [read EXCEPT ![q] = asked]
      /\ listing' = [listing EXCEPT ![q] = opened]
      /\ outcome' = outcome /\ left' = left
  BY DEF AsksFor
<1>3. /\ asked \in [Reads -> ReadStates]
      /\ \A r \in Reads : asked[r] # "missing"
      /\ asked["summary"] = "asked" => "summary" \in reads
  BY NothingYet DEF ReadStates
<1>4. /\ opened \in [Collections -> Listings]
      /\ opened["systems"].rows = << >>
      /\ \A c \in Collections : Underway(opened[c]) => ListingGood(hub[c], opened[c])
      /\ ask[q].kind = "health" => \A c \in Collections : ~Underway(opened[c])
  <2>1. \A c \in Collections :
          /\ opened[c] = Opened(c) \/ opened[c] = NoListing
          /\ ask[q].kind = "health" => opened[c] = NoListing
    BY DEF ListingsOf
  <2>2. opened = [c \in Collections |-> opened[c]]
    OBVIOUS
  <2> HIDE DEF opened
  <2>3. \A c \in Collections :
          /\ opened[c] \in Listings /\ opened[c].rows = << >>
          /\ Underway(opened[c]) => ListingGood(hub[c], opened[c])
          /\ ask[q].kind = "health" => ~Underway(opened[c])
    BY <1>1, <2>1, OpenedIsGood, NothingYet
  <2>4. QED
    BY <2>2, <2>3, NothingYet
<1> HIDE DEF asked, opened
<1>5. /\ floor' \in [Queries -> Nat]
      /\ \A p \in Queries \ {q} : floor'[p] = floor[p]
      /\ floor'[q] <= changes
      /\ \A e \in view[q] : e.at >= floor'[q]
  BY BegunIsFresh
<1>6. /\ target' \in [Queries -> SUBSET Records]
      /\ \A p \in Queries \ {q} : target'[p] = target[p]
  <2>1. target \in [Queries -> SUBSET Records]
    BY <1>1 DEF QueryTypeOK
  <2>2. CASE target' = target
    BY <2>1, <2>2
  <2>3. ASSUME NEW r \in Records, target' = [target EXCEPT ![q] = {r}]
        PROVE  /\ target' \in [Queries -> SUBSET Records]
               /\ \A p \in Queries \ {q} : target'[p] = target[p]
    BY <2>1, <2>3
  <2>4. QED
    BY <2>2, <2>3
<1>7. QueryTypeOK'
  BY <1>1, <1>2, <1>3, <1>4, <1>5, <1>6 DEF QueryTypeOK, Phases
<1>8. Others(q)
  BY <1>1, <1>2, <1>5, <1>6 DEF Others, QueryTypeOK
<1>9. phase'[q] = "gathering" /\ read'[q] = asked /\ listing'[q] = opened
  BY <1>1, <1>2 DEF QueryTypeOK
<1>10. IdleInv(q)' /\ FreshInv(q)' /\ ListingInv(q)'
  <2>1. IdleInv(q)'
    BY <1>9 DEF IdleInv
  <2>2. FreshInv(q)'
    BY <1>4, <1>5, <1>9 DEF FreshInv
  <2>3. ListingInv(q)'
    BY <1>4, <1>9 DEF ListingInv
  <2>4. QED
    BY <2>1, <2>2, <2>3
<1>11. HealthInv(q)' /\ FailureInv(q)'
  BY <1>1, <1>2, <1>3, <1>4, <1>9, NothingYet DEF HealthInv, FailureInv, QueryInv
<1>12. FoundInv(q)'
  BY <1>1, <1>2, <1>3, <1>9 DEF FoundInv, Settled, QueryInv
<1>13. QED
  BY <1>7, <1>8, <1>10, <1>11, <1>12, OneQueryMoves DEF QueryInv

LEMMA CacheKeeps ==
  ASSUME QueriesInv, UNCHANGED <<hub, cached>>
  PROVE  CacheInv'
BY DEF CacheInv, Settled, QueriesInv

(* A query that gets a list of systems: what it finds there is right. *)
LEMMA HasListKeeps ==
  ASSUME QueriesInv, NEW q \in Queries, NEW list \in Seq(Entries), HasList(q, list),
         UNCHANGED <<hub, changes, ask, errors>>, Begun(q), CacheInv',
         ask[q].kind # "health",
         \A r \in Records : Settled(r) => Once(list, r),
         ask[q].kind = "overview" => \A i \in DOMAIN list : list[i].at >= floor'[q]
  PROVE  QueriesInv'
<1> DEFINE found == Selected(list, ask[q].selector)
           named == ask[q].kind \in {"status", "history"}
<1>1. QueryTypeOK /\ QueryInv(q)
  BY DEF QueriesInv
<1>2. \A r \in Records : Settled(r) /\ Typed(ask[q].selector, r) =>
                           Len(found) = 1 /\ found[1].id = r
  BY <1>1, TypedIsSelected DEF QueryTypeOK
<1>3. \/ ~named /\ Says(q, "list", 1) /\ UNCHANGED <<view, target>>
      \/ ~named /\ ask[q].kind # "list" /\ Overview(q, list) /\ UNCHANGED target
      \/ named /\ Len(found) = 1 /\ Gathers(q, found[1])
      \/ /\ named /\ Len(found) # 1
         /\ Says(q, IF found = << >> THEN "not_found" ELSE "ambiguous", 1)
         /\ UNCHANGED <<target, view>>
  BY DEF HasList
<1> HIDE DEF found, named
<1>4. CASE ~named /\ Says(q, "list", 1) /\ UNCHANGED <<view, target>>
  <2>1. "list" \in Outcomes /\ 1 \in Int
    BY DEF Outcomes
  <2>2. QED
    BY <1>4, <2>1, SaysKeeps
<1>5. CASE ~named /\ ask[q].kind # "list" /\ Overview(q, list) /\ UNCHANGED target
  <2>1. ask[q].kind = "overview"
    <3>1. ask[q].kind \in {"list", "overview", "status", "history", "health"}
      BY <1>1, QueriesAssumption DEF QueryTypeOK
    <3>2. QED
      BY <1>5, <3>1 DEF named
  <2>2. /\ view' = [view EXCEPT ![q] = Range(list)]
        /\ phase' = [phase EXCEPT ![q] = "rendering"]
        /\ listing' = [listing EXCEPT ![q] = NoListings]
        /\ left' = [left EXCEPT ![q] = (Len(list) + Rows - 1) \div Rows]
        /\ outcome' = outcome /\ read' = read
    BY <1>5 DEF Overview
  <2>3. (Len(list) + Rows - 1) \div Rows \in Int
    BY QueriesAssumption
  <2>4. Range(list) \subseteq Entries /\ \A e \in Range(list) : e.at >= floor'[q]
    BY <2>1 DEF Range
  <2>5. /\ floor' \in [Queries -> Nat]
        /\ \A p \in Queries \ {q} : floor'[p] = floor[p]
        /\ floor'[q] <= changes
    BY BegunIsFresh
  <2>6. QueryTypeOK'
    BY <1>1, <1>5, <2>2, <2>3, <2>4, <2>5, NothingYet DEF QueryTypeOK, Phases
  <2>7. Others(q)
    BY <1>1, <1>5, <2>2, <2>5 DEF Others, QueryTypeOK
  <2>8. /\ phase'[q] = "rendering" /\ view'[q] = Range(list)
        /\ listing'[q] = NoListings
    BY <1>1, <2>2 DEF QueryTypeOK
  <2>9. IdleInv(q)' /\ ListingInv(q)' /\ FailureInv(q)' /\ HealthInv(q)'
    <3>1. IdleInv(q)' /\ FailureInv(q)' /\ HealthInv(q)'
      BY <1>1, <2>1, <2>8 DEF IdleInv, QueryInv, FailureInv, HealthInv
    <3>2. ListingInv(q)'
      BY <2>8, NothingYet DEF ListingInv
    <3>3. QED
      BY <3>1, <3>2
  <2>10. FreshInv(q)'
    BY <2>4, <2>5, <2>8, NothingYet DEF FreshInv
  <2>11. FoundInv(q)'
    BY <1>1, <1>5, <2>2 DEF FoundInv, Settled, QueryInv
  <2>12. QED
    BY <2>6, <2>7, <2>9, <2>10, <2>11, OneQueryMoves DEF QueryInv
<1>6. CASE named /\ Len(found) = 1 /\ Gathers(q, found[1])
  <2>1. /\ AsksFor(q, ReadsOf(ask[q].kind))
        /\ target' = [target EXCEPT ![q] = {found[1].id}]
        /\ view' = view
    BY <1>6 DEF Gathers
  <2>2. ReadsOf(ask[q].kind) \subseteq Reads
    BY <1>6 DEF named, ReadsOf, Reads, HealthReads
  <2>3. found[1].id \in Records
    <3>1. found \in Seq(Entries)
      <4>1. \A ids : Matches(list, ids) \in Seq(Entries)
        BY MatchesKeeps
      <4>2. \A s \in Seq(Entries) : s # << >> => SubSeq(s, 1, 1) \in Seq(Entries)
        OBVIOUS
      <4>3. QED
        BY <4>1, <4>2 DEF found, Selected
    <3>2. found[1] \in Entries
      BY <1>6, <3>1
    <3>3. QED
      BY <3>2 DEF Entries
  <2>4. \A r \in Records : Settled(r) /\ Typed(ask[q].selector, r) => r \in target'[q]
    BY <1>1, <1>2, <2>1 DEF QueryTypeOK
  <2>5. QED
    BY <2>1, <2>2, <2>3, <2>4, AsksForKeeps
<1>7. CASE /\ named /\ Len(found) # 1
           /\ Says(q, IF found = << >> THEN "not_found" ELSE "ambiguous", 1)
           /\ UNCHANGED <<target, view>>
  <2>1. PICK what \in {"not_found", "ambiguous"} : Says(q, what, 1)
    BY <1>7
  <2>2. what \in Outcomes /\ 1 \in Int
    BY DEF Outcomes
  <2>3. QED
    BY <1>2, <1>7, <2>1, <2>2, SaysKeeps
<1>8. QED
  BY <1>3, <1>4, <1>5, <1>6, <1>7

-----------------------------------------------------------------------------
(* The actions of a query. *)
LEMMA BeginsKeep ==
  ASSUME QueriesInv, NEW q \in Queries,
         Refused(q) \/ CacheServes(q) \/ ListsSystems(q) \/ AsksHealth(q)
  PROVE  QueriesInv'
<1>1. QueryTypeOK /\ QueryInv(q) /\ HubInv /\ CacheInv
  BY DEF QueriesInv
<1>2. phase[q] = "idle" /\ Begun(q) /\ UNCHANGED <<hub, changes, ask, errors>>
  BY DEF Refused, CacheServes, ListsSystems, AsksHealth, Begin, Begun, hubVars
<1>3. /\ listing[q] = NoListings /\ read[q] = NoReads
      /\ view[q] = {} /\ errors[q] = {} /\ outcome[q] = "none"
  BY <1>1, <1>2 DEF QueryInv, IdleInv
<1>4. CASE Refused(q)
  <2>1. PICK what \in {"denied", "usage", "bad_range"} : Says(q, what, 1)
    BY <1>4 DEF Refused, Refusal
  <2>2. what \in Outcomes /\ 1 \in Int /\ what \notin {"image", "not_found", "ambiguous"}
    BY DEF Outcomes
  <2>3. UNCHANGED <<view, target>> /\ CacheInv'
    BY <1>4, CacheKeeps DEF Refused, hubVars
  <2>4. QED
    BY <1>2, <1>3, <2>1, <2>2, <2>3, SaysKeeps
<1>5. CASE CacheServes(q)
  <2>1. /\ ask[q].kind \notin {"overview", "health"}
        /\ cached # NoList /\ HasList(q, cached) /\ CacheInv'
    BY <1>5, CacheKeeps DEF CacheServes, hubVars
  <2>2. cached \in Seq(Entries) /\ \A r \in Records : Settled(r) => Once(cached, r)
    BY <1>1, <2>1 DEF CacheInv
  <2>3. QED
    BY <1>2, <2>1, <2>2, HasListKeeps
<1>6. CASE ListsSystems(q)
  <2> DEFINE opened == [NoListings EXCEPT !["systems"] = Opened("systems")]
  <2>1. /\ ask[q].kind # "health"
        /\ phase' = [phase EXCEPT ![q] = "listing"]
        /\ listing' = [listing EXCEPT ![q]["systems"] = Opened("systems")]
        /\ UNCHANGED <<cached, read, target, view, outcome, left>>
    BY <1>6 DEF ListsSystems
  <2>2. /\ opened \in [Collections -> Listings]
        /\ opened["systems"].rows = << >>
        /\ \A c \in Collections : Underway(opened[c]) => ListingGood(hub[c], opened[c])
    BY <1>1, OpenedIsGood, NothingYet
  <2>3. listing' = [listing EXCEPT ![q] = opened]
    BY <1>3, <2>1
  <2> HIDE DEF opened
  <2>4. /\ floor' \in [Queries -> Nat]
        /\ \A p \in Queries \ {q} : floor'[p] = floor[p]
        /\ floor'[q] <= changes
        /\ \A e \in view[q] : e.at >= floor'[q]
    BY <1>2, BegunIsFresh
  <2>5. QueryTypeOK'
    BY <1>1, <1>2, <2>1, <2>2, <2>3, <2>4, ZenonT(40) DEF QueryTypeOK, Phases
  <2>6. Others(q)
    BY <1>1, <1>2, <2>1, <2>3, <2>4 DEF Others, QueryTypeOK
  <2>7. phase'[q] = "listing" /\ listing'[q] = opened
    BY <1>1, <2>1, <2>3 DEF QueryTypeOK
  <2>8. IdleInv(q)' /\ FailureInv(q)' /\ HealthInv(q)' /\ FoundInv(q)'
    BY <1>1, <1>2, <2>1, <2>7
    DEF IdleInv, QueryInv, FailureInv, HealthInv, FoundInv, Settled
  <2>9. FreshInv(q)'
    <3>1. view'[q] = view[q] /\ changes' = changes
      BY <1>2, <2>1
    <3>2. DOMAIN listing'[q]["systems"].rows = {}
      BY <2>2, <2>7
    <3>3. QED
      BY <2>4, <3>1, <3>2 DEF FreshInv
  <2>10. ListingInv(q)'
    BY <1>2, <2>2, <2>7 DEF ListingInv
  <2>11. QED
    BY <1>2, <2>1, <2>5, <2>6, <2>8, <2>9, <2>10, CacheKeeps, OneQueryMoves DEF QueryInv
<1>7. CASE AsksHealth(q)
  <2>1. /\ AsksFor(q, HealthReads) /\ UNCHANGED <<cached, target, view>>
    BY <1>7 DEF AsksHealth
  <2>2. HealthReads \subseteq Reads /\ "summary" \notin HealthReads
    BY DEF HealthReads, Reads
  <2>3. QED
    BY <1>2, <1>3, <2>1, <2>2, CacheKeeps, AsksForKeeps
<1>8. QED
  BY <1>4, <1>5, <1>6, <1>7

(* A list of systems that is complete. *)
LEMMA ListArrivesKeeps ==
  ASSUME QueriesInv, NEW q \in Queries, NEW rows \in Seq(Entries), ListArrives(q, rows),
         UNCHANGED <<hub, changes, ask, errors, floor>>, ask[q].kind # "health",
         \A r \in Records : Settled(r) => Once(rows, r),
         \A i \in DOMAIN rows : rows[i].at >= floor[q]
  PROVE  QueriesInv'
<1> DEFINE ids == Records \ Invalid
           valid == Matches(rows, ids)
<1>1. \/ /\ Says(q, "failed", 1) /\ UNCHANGED <<cached, target, view>>
      \/ /\ HasList(q, valid)
         /\ cached' = IF ask[q].kind = "overview" THEN cached ELSE valid
  BY DEF ListArrives
<1>2. valid \in Seq(Entries) /\ \A i \in DOMAIN valid : valid[i].at >= floor[q]
  <2> HIDE DEF ids
  <2>1. /\ valid \in Seq(Entries)
        /\ \E at \in [1 .. Len(valid) -> Places(rows, ids)] :
             /\ \A k \in 1 .. Len(valid) : valid[k] = rows[at[k]]
             /\ \A i \in Places(rows, ids) : \E k \in 1 .. Len(valid) : at[k] = i
             /\ \A j, k \in 1 .. Len(valid) : at[j] = at[k] => j = k
    BY MatchesKeeps, SMTT(30)
  <2> HIDE DEF valid
  <2>2. PICK at \in [1 .. Len(valid) -> Places(rows, ids)] :
          \A k \in 1 .. Len(valid) : valid[k] = rows[at[k]]
    BY <2>1
  <2>3. ASSUME NEW i \in DOMAIN valid
        PROVE  valid[i].at >= floor[q]
    <3>1. i \in 1 .. Len(valid)
      BY <2>1
    <3>2. valid[i] = rows[at[i]] /\ at[i] \in DOMAIN rows
      BY <2>2, <3>1 DEF Places
    <3>3. QED
      BY <3>2
  <2>4. QED
    BY <2>1, <2>3
<1>3. \A r \in Records : Settled(r) => Once(valid, r)
  <2>1. \A r \in Records : Settled(r) => r \in Records \ Invalid
    BY DEF Settled
  <2>2. QED
    BY <2>1, OnceKept
<1> HIDE DEF valid
<1>4. Begun(q)
  BY DEF Begun
<1>5. CASE Says(q, "failed", 1) /\ UNCHANGED <<cached, target, view>>
  <2>1. "failed" \in Outcomes /\ 1 \in Int
    BY DEF Outcomes
  <2>2. QED
    BY <1>4, <1>5, <2>1, CacheKeeps, SaysKeeps
<1>6. CASE /\ HasList(q, valid)
           /\ cached' = IF ask[q].kind = "overview" THEN cached ELSE valid
  <2>1. CacheInv'
    <3>1. \A r \in Records : Settled(r)' = Settled(r)
      BY DEF Settled
    <3>2. CacheInv
      BY DEF QueriesInv
    <3>3. QED
      BY <1>2, <1>3, <1>6, <3>1, <3>2 DEF CacheInv
  <2>2. QED
    BY <1>2, <1>3, <1>4, <1>6, <2>1, HasListKeeps
<1>7. QED
  BY <1>1, <1>5, <1>6

LEMMA PagesKeep ==
  ASSUME QueriesInv, NEW q \in Queries, NEW c \in Collections,
         PageArrives(q, c) \/ PageFails(q, c)
  PROVE  QueriesInv'
<1> DEFINE L == listing[q][c]
           next == WithPage(c, L)
<1>1. QueryTypeOK /\ QueryInv(q) /\ HubInv /\ HubTypeOK
  BY DEF QueriesInv, HubInv
<1>2. L \in Listings /\ Underway(L) /\ UNCHANGED <<hub, changes, ask, errors, floor>>
  BY <1>1 DEF PageArrives, PageFails, QueryTypeOK, hubVars
<1>3. /\ ListingGood(hub[c], L)
      /\ ask[q].kind # "health"
      /\ phase[q] # "idle"
  <2>1. ask[q].kind # "health" /\ ListingGood(hub[c], L)
    BY <1>1, <1>2 DEF QueryInv, HealthInv, ListingInv
  <2>2. phase[q] # "idle"
    BY <1>1, <1>2, NothingYet DEF QueryInv, IdleInv
  <2>3. QED
    BY <2>1, <2>2
<1>4. /\ next \in Listings
      /\ next.rows = L.rows \o Page(c, L.page)
      /\ Underway(next) <=> ~IsLast(c, L.page)
  BY <1>1, <1>2, WithPageHas
<1>5. Underway(next) => ListingGood(hub[c], next)
  BY <1>1, <1>2, <1>3, <1>4, MorePagesStayGood
<1>6. c = "systems" => \A i \in DOMAIN next.rows : next.rows[i].at >= floor[q]
  <2> SUFFICES ASSUME c = "systems", NEW i \in DOMAIN next.rows
               PROVE  next.rows[i].at >= floor[q]
    OBVIOUS
  <2> DEFINE page == Page(c, L.page)
  <2>1. L.page \in Nat \ {0} /\ L.rows \in Seq(Entries)
    BY <1>2 DEF Listings, Underway
  <2>2. page \in Seq(Entries) /\ \A j \in DOMAIN page : page[j].at = changes
    BY <1>1, <2>1, PageHolds, ZenonT(40)
  <2>3. /\ floor[q] <= changes /\ floor[q] \in Nat /\ changes \in Nat
        /\ \A j \in DOMAIN L.rows : L.rows[j].at >= floor[q]
    BY <1>1 DEF QueryInv, FreshInv, QueryTypeOK, HubTypeOK
  <2>4. next.rows = L.rows \o page
    BY <1>4
  <2> HIDE DEF next, page, L
  <2>5. i \in 1 .. Len(L.rows) + Len(page)
    BY <2>1, <2>2, <2>4
  <2>6. CASE i <= Len(L.rows)
    <3>1. next.rows[i] = L.rows[i] /\ i \in DOMAIN L.rows
      BY <2>1, <2>2, <2>4, <2>5, <2>6
    <3>2. QED
      BY <2>3, <3>1
  <2>7. CASE i > Len(L.rows)
    <3>1. next.rows[i] = page[i - Len(L.rows)] /\ i - Len(L.rows) \in DOMAIN page
      BY <2>1, <2>2, <2>4, <2>5, <2>7
    <3>2. QED
      BY <2>2, <2>3, <3>1
  <2>8. QED
    BY <2>1, <2>5, <2>6, <2>7
<1>7. CASE PageFails(q, c)
  <2>1. Says(q, "failed", 1) /\ UNCHANGED <<cached, target, view>> /\ Begun(q)
    BY <1>7 DEF PageFails, Begun
  <2>2. "failed" \in Outcomes /\ 1 \in Int
    BY DEF Outcomes
  <2>3. QED
    BY <1>2, <1>3, <2>1, <2>2, CacheKeeps, SaysKeeps
<1>8. CASE PageArrives(q, c) /\ (Underway(next) \/ c # "systems")
  <2>1. /\ listing' = [listing EXCEPT ![q][c] = next]
        /\ UNCHANGED <<cached, phase, read, target, view, outcome, left>>
    BY <1>8 DEF PageArrives
  <2> HIDE DEF next, L
  <2>2. listing'[q] = [listing[q] EXCEPT ![c] = next]
    BY <1>1, <2>1 DEF QueryTypeOK
  <2>3. QueryTypeOK'
    BY <1>1, <1>2, <1>4, <2>1 DEF QueryTypeOK
  <2>4. Others(q)
    BY <1>1, <1>2, <2>1 DEF Others, QueryTypeOK
  <2>5. listing[q] \in [Collections -> Listings]
    BY <1>1 DEF QueryTypeOK
  <2>6. \A d \in Collections : listing'[q][d] = IF d = c THEN next ELSE listing[q][d]
    BY <2>2, <2>5
  <2>7. IdleInv(q)' /\ FailureInv(q)' /\ HealthInv(q)' /\ FoundInv(q)'
    BY <1>1, <1>2, <1>3, <2>1
    DEF IdleInv, QueryInv, FailureInv, HealthInv, FoundInv, Settled
  <2>8. FreshInv(q)'
    BY <1>1, <1>2, <1>6, <2>1, <2>6, NothingYet DEF FreshInv, QueryInv
  <2>9. ListingInv(q)'
    BY <1>1, <1>2, <1>5, <2>6 DEF ListingInv, QueryInv
  <2>10. QED
    BY <1>2, <2>1, <2>3, <2>4, <2>7, <2>8, <2>9, CacheKeeps, OneQueryMoves DEF QueryInv
<1>9. CASE PageArrives(q, c) /\ ~(Underway(next) \/ c # "systems")
  <2>1. ListArrives(q, next.rows) /\ c = "systems" /\ IsLast(c, L.page)
    BY <1>4, <1>9 DEF PageArrives
  <2>2. \A r \in Records : Settled(r) => Once(next.rows, r)
    BY <1>1, <1>2, <1>3, <1>4, <2>1, SettledIsListed
  <2>3. next.rows \in Seq(Entries)
    BY <1>4 DEF Listings
  <2> HIDE DEF next, L
  <2>4. QED
    BY <1>2, <1>3, <1>6, <2>1, <2>2, <2>3, ListArrivesKeeps
<1>10. QED
  BY <1>7, <1>8, <1>9

LEMMA ReadsKeep ==
  ASSUME QueriesInv, NEW q \in Queries,
         SummaryReturns(q) \/ \E r \in Reads : ReadReturns(q, r) \/ ReadFails(q, r)
  PROVE  QueriesInv'
<1>1. QueryTypeOK /\ QueryInv(q) /\ HubInv
  BY DEF QueriesInv
<1>2. UNCHANGED <<hub, changes, ask, cached, target, floor>> /\ CacheInv' /\ Begun(q)
  BY CacheKeeps DEF SummaryReturns, ReadReturns, ReadFails, hubVars, Begun
<1>3. phase[q] # "idle"
  BY <1>1, NothingYet DEF SummaryReturns, ReadReturns, ReadFails, QueryInv, IdleInv
<1>4. CASE SummaryReturns(q)
  <2>1. /\ read[q]["summary"] = "asked" /\ errors' = errors
        /\ view' = [view EXCEPT ![q] = Summary(q)]
        /\ \/ Summary(q) = {} /\ Says(q, "not_found", 1)
           \/ /\ read' = [read EXCEPT ![q]["summary"] = "some"]
              /\ UNCHANGED <<phase, outcome, left, listing>>
    BY <1>4 DEF SummaryReturns
  <2>2. ask[q].kind # "health"
    BY <1>1, <2>1 DEF QueryInv, HealthInv
  <2>3. CASE Summary(q) = {} /\ Says(q, "not_found", 1)
    <3>1. ASSUME NEW r \in Records, Settled(r), Typed(ask[q].selector, r)
          PROVE  FALSE
      <4>1. r \in target[q]
        BY <1>1, <2>1, <3>1 DEF QueryInv, FoundInv
      <4>2. r \in Live("systems")
        BY <3>1 DEF Settled, Live
      <4>3. [id |-> r, at |-> changes] \in Summary(q)
        BY <4>1, <4>2 DEF Summary
      <4>4. QED
        BY <2>3, <4>3
    <3>2. "not_found" \in Outcomes /\ 1 \in Int
      BY DEF Outcomes
    <3>3. view' = [view EXCEPT ![q] = {}]
      BY <2>1, <2>3
    <3>4. QED
      BY <1>2, <2>1, <2>2, <2>3, <3>1, <3>2, <3>3, SaysKeeps
  <2>4. CASE /\ read' = [read EXCEPT ![q]["summary"] = "some"]
             /\ UNCHANGED <<phase, outcome, left, listing>>
    <3>1. Summary(q) \subseteq Entries /\ \A e \in Summary(q) : e.at = changes
      BY <1>1 DEF Summary, Entries, QueryTypeOK, HubInv, HubTypeOK
    <3>2. QueryTypeOK'
      BY <1>1, <1>2, <2>1, <2>4, <3>1 DEF QueryTypeOK, ReadStates
    <3>3. Others(q)
      BY <1>1, <1>2, <2>1, <2>4 DEF Others, QueryTypeOK
    <3>4. read'[q]["summary"] = "some" /\ view'[q] = Summary(q)
      BY <1>1, <2>1, <2>4, NothingYet DEF QueryTypeOK
    <3>5. IdleInv(q)' /\ FailureInv(q)' /\ HealthInv(q)' /\ ListingInv(q)'
      BY <1>1, <1>2, <1>3, <2>1, <2>2, <2>4
      DEF IdleInv, QueryInv, FailureInv, HealthInv, ListingInv
    <3>6. FoundInv(q)'
      BY <1>1, <1>2, <2>4, <3>4 DEF QueryInv, FoundInv, Settled
    <3>7. FreshInv(q)'
      <4>1. floor[q] <= changes /\ floor[q] \in Nat /\ changes \in Nat
        BY <1>1 DEF QueryInv, FreshInv, QueryTypeOK, HubInv, HubTypeOK
      <4>2. QED
        BY <1>1, <1>2, <2>4, <3>1, <3>4, <4>1 DEF QueryInv, FreshInv
    <3>8. QED
      BY <1>2, <3>2, <3>3, <3>5, <3>6, <3>7, OneQueryMoves DEF QueryInv
  <2>5. QED
    BY <2>1, <2>3, <2>4
<1>5. ASSUME NEW r \in Reads, ReadReturns(q, r)
      PROVE  QueriesInv'
  <2>1. /\ r # "summary" /\ read[q][r] = "asked"
        /\ read' = [read EXCEPT ![q][r] = "some"]
        /\ UNCHANGED <<errors, phase, listing, view, outcome, left>>
    BY <1>5 DEF ReadReturns
  <2>2. \A s \in Reads : read'[q][s] = IF s = r THEN "some" ELSE read[q][s]
    BY <1>1, <2>1 DEF QueryTypeOK
  <2>3. QueryTypeOK'
    BY <1>1, <1>2, <2>1 DEF QueryTypeOK, ReadStates
  <2>4. Others(q)
    BY <1>1, <1>2, <2>1 DEF Others, QueryTypeOK
  <2>5. IdleInv(q)' /\ FailureInv(q)' /\ ListingInv(q)' /\ FreshInv(q)'
    BY <1>1, <1>2, <1>3, <2>1 DEF IdleInv, QueryInv, FailureInv, ListingInv, FreshInv
  <2>6. HealthInv(q)' /\ FoundInv(q)'
    BY <1>1, <1>2, <2>1, <2>2, NothingYet DEF QueryInv, HealthInv, FoundInv, Settled
  <2>7. QED
    BY <1>2, <2>3, <2>4, <2>5, <2>6, OneQueryMoves DEF QueryInv
<1>6. ASSUME NEW r \in Reads, ReadFails(q, r)
      PROVE  QueriesInv'
  <2>1. /\ read[q][r] = "asked" /\ view' = view
        /\ \/ /\ IsOptional(q, r)
              /\ read' = [read EXCEPT ![q][r] = "missing"]
              /\ errors' = [errors EXCEPT ![q] = @ \cup {r}]
              /\ UNCHANGED <<phase, outcome, left, listing>>
           \/ ~IsOptional(q, r) /\ Says(q, "failed", 1) /\ UNCHANGED errors
    BY <1>6 DEF ReadFails, MarksMissing
  <2>2. CASE ~IsOptional(q, r) /\ Says(q, "failed", 1) /\ UNCHANGED errors
    <3>1. "failed" \in Outcomes /\ 1 \in Int
      BY DEF Outcomes
    <3>2. ask[q].kind # "health"
      BY <2>2 DEF IsOptional
    <3>3. QED
      BY <1>2, <2>1, <2>2, <3>1, <3>2, SaysKeeps
  <2>3. CASE /\ IsOptional(q, r)
             /\ read' = [read EXCEPT ![q][r] = "missing"]
             /\ errors' = [errors EXCEPT ![q] = @ \cup {r}]
             /\ UNCHANGED <<phase, outcome, left, listing>>
    <3>1. \A s \in Reads : read'[q][s] = IF s = r THEN "missing" ELSE read[q][s]
      BY <1>1, <2>3 DEF QueryTypeOK
    <3>2. errors'[q] = errors[q] \cup {r}
      BY <1>1, <2>3 DEF QueryTypeOK
    <3>3. QueryTypeOK'
      BY <1>1, <1>2, <2>1, <2>3 DEF QueryTypeOK, ReadStates
    <3>4. Others(q)
      BY <1>1, <1>2, <2>1, <2>3 DEF Others, QueryTypeOK
    <3>5. IdleInv(q)' /\ ListingInv(q)' /\ FreshInv(q)'
      BY <1>1, <1>2, <1>3, <2>1, <2>3 DEF IdleInv, QueryInv, ListingInv, FreshInv
    <3>6. HealthInv(q)' /\ FoundInv(q)'
      BY <1>1, <1>2, <2>3, <3>1, <3>2, NothingYet
      DEF QueryInv, HealthInv, FoundInv, Settled
    <3>7. FailureInv(q)'
      BY <1>1, <1>2, <2>3, <3>2 DEF QueryInv, FailureInv, IsOptional
    <3>8. QED
      BY <1>2, <3>3, <3>4, <3>5, <3>6, <3>7, OneQueryMoves DEF QueryInv
  <2>4. QED
    BY <2>1, <2>2, <2>3
<1>7. QED
  BY <1>4, <1>5, <1>6

LEMMA EndsKeep ==
  ASSUME QueriesInv, NEW q \in Queries,
         Gathered(q) \/ Rendered(q) \/ MessageSent(q) \/ SendFails(q)
  PROVE  QueriesInv'
<1>1. QueryTypeOK /\ QueryInv(q) /\ HubInv
  BY DEF QueriesInv
<1>2. /\ UNCHANGED <<hub, changes, ask, errors, cached, target, view, floor>>
      /\ CacheInv' /\ Begun(q)
  BY CacheKeeps DEF Gathered, Rendered, MessageSent, SendFails, hubVars, Begun
<1>3. CASE Rendered(q)
  <2>1. phase[q] = "rendering" /\ (Says(q, "image", left[q]) \/ Says(q, "failed", 1))
    BY <1>3 DEF Rendered
  <2>2. ask[q].kind # "health"
    BY <1>1, <2>1 DEF QueryInv, HealthInv
  <2>3. left[q] \in Int /\ 1 \in Int /\ "image" \in Outcomes /\ "failed" \in Outcomes
    BY <1>1 DEF QueryTypeOK, Outcomes
  <2>4. QED
    BY <1>2, <2>1, <2>2, <2>3, SaysKeeps
<1>4. CASE Gathered(q) \/ MessageSent(q) \/ SendFails(q)
  <2>1. /\ phase[q] # "idle" /\ phase' \in [Queries -> Phases] /\ phase'[q] # "idle"
        /\ ask[q].kind = "health" => phase'[q] # "rendering"
        /\ \A p \in Queries \ {q} : phase'[p] = phase[p]
    BY <1>1, <1>4
    DEF Gathered, MessageSent, SendFails, QueryTypeOK, Phases, QueryInv, HealthInv
  <2>2. /\ outcome' \in [Queries -> Outcomes]
        /\ outcome'[q] \in {outcome[q], "health"}
        /\ \A p \in Queries \ {q} : outcome'[p] = outcome[p]
    BY <1>1, <1>4 DEF Gathered, MessageSent, SendFails, QueryTypeOK, Outcomes
  <2>3. left' \in [Queries -> Int] /\ UNCHANGED <<listing, read>>
    BY <1>1, <1>4 DEF Gathered, MessageSent, SendFails, QueryTypeOK
  <2>4. QueryTypeOK' /\ Others(q)
    BY <1>1, <1>2, <2>1, <2>2, <2>3 DEF QueryTypeOK, Others
  <2>5. IdleInv(q)' /\ FreshInv(q)' /\ ListingInv(q)' /\ FailureInv(q)'
    BY <1>1, <1>2, <2>1, <2>3 DEF QueryInv, IdleInv, FreshInv, ListingInv, FailureInv
  <2>6. HealthInv(q)' /\ FoundInv(q)'
    BY <1>1, <1>2, <2>1, <2>2, <2>3 DEF QueryInv, HealthInv, FoundInv, Settled
  <2>7. QED
    BY <1>2, <2>4, <2>5, <2>6, OneQueryMoves DEF QueryInv
<1>5. QED
  BY <1>3, <1>4

(* The Hub changes while queries read. *)
LEMMA HubKeeps ==
  ASSUME QueriesInv, HubStep
  PROVE  QueriesInv'
<1>1. HubInv /\ QueryTypeOK /\ CacheInv /\ HubChanges
      /\ UNCHANGED <<ask, phase, cached, listing, read, target, view, outcome, left,
                     floor, errors>>
  BY DEF QueriesInv, HubStep, queryVars
<1>2. /\ HubInv'
      /\ changes' = changes + 1
      /\ \A c \in Collections, r \in Records : Follows(hub[c][r], hub'[c][r])
      /\ \A r \in Records : Settled(r)' => Settled(r)
  BY <1>1, HubGoesOn
<1>3. QueryTypeOK' /\ CacheInv'
  BY <1>1, <1>2 DEF QueryTypeOK, CacheInv
<1>4. ASSUME NEW q \in Queries
      PROVE  QueryInv(q)'
  <2>1. QueryInv(q)
    BY DEF QueriesInv
  <2>2. IdleInv(q)' /\ HealthInv(q)' /\ FailureInv(q)'
    BY <1>1, <2>1 DEF QueryInv, IdleInv, HealthInv, FailureInv
  <2>3. FreshInv(q)'
    <3>1. floor[q] \in Nat /\ changes \in Nat
      BY <1>1 DEF QueryTypeOK, HubInv, HubTypeOK
    <3>2. QED
      BY <1>1, <1>2, <2>1, <3>1 DEF QueryInv, FreshInv
  <2>4. FoundInv(q)'
    BY <1>1, <1>2, <2>1 DEF QueryInv, FoundInv
  <2>5. ASSUME NEW c \in Collections, Underway(listing[q][c])
        PROVE  ListingGood(hub[c], listing[q][c])'
    <3> DEFINE L == listing[q][c]
    <3>1. L \in Listings /\ L.page \in Nat \ {0} /\ ListingGood(hub[c], L)
      BY <1>1, <2>1, <2>5
      DEF QueryTypeOK, Listings, Underway, QueryInv, ListingInv
    <3>2. /\ L.start \in [Records -> States] /\ L.rows \in Seq(Entries)
          /\ Offset(L.page) \in Nat
          /\ hub[c] \in [Records -> States] /\ hub'[c] \in [Records -> States]
      BY <1>1, <1>2, <3>1, Offsets DEF ListingGood, Listings, HubInv, HubTypeOK
    <3>3. L' = L
      BY <1>1
    <3> HIDE DEF L
    <3>4. \A s \in Records : /\ Follows(Initially(s), L.start[s])
                             /\ Follows(L.start[s], hub[c][s])
                             /\ Follows(hub[c][s], hub'[c][s])
      BY <1>2, <3>1 DEF ListingGood
    <3>5. Listed(hub'[c], L.start, L.rows, Offset(L.page))
      BY <3>1, <3>2, <3>4, ChangeKeepsListed DEF ListingGood
    <3>6. \A s \in Records : Follows(L.start[s], hub'[c][s])
      BY <3>4 DEF Follows
    <3>7. L.page > 1 => Offset(L.page) < Cardinality(SeenIn(hub'[c], L.start))
      <4>1. /\ Cardinality(SeenIn(hub[c], L.start)) \in Nat
            /\ Cardinality(SeenIn(hub'[c], L.start)) \in Nat
            /\ Cardinality(SeenIn(hub[c], L.start))
                 <= Cardinality(SeenIn(hub'[c], L.start))
        <5>1. \A s \in Records : Follows(hub'[c][s], hub'[c][s])
          BY DEF Follows
        <5>2. QED
          BY <3>4, <5>1, SeenStaysSeen
      <4>2. QED
        BY <3>1, <3>2, <4>1 DEF ListingGood
    <3>8. ListingGood(hub'[c], L)
      BY <3>2, <3>4, <3>5, <3>6, <3>7 DEF ListingGood
    <3>9. QED
      BY <3>3, <3>8 DEF L
  <2>6. ListingInv(q)'
    BY <1>1, <2>5 DEF ListingInv
  <2>7. QED
    BY <2>2, <2>3, <2>4, <2>6 DEF QueryInv
<1>5. QED
  BY <1>2, <1>3, <1>4 DEF QueriesInv

LEMMA QueriesStart ==
  ASSUME QueriesInit
  PROVE  QueriesInv
<1>1. HubInv
  BY DEF QueriesInit, HubInit, HubInv, HubTypeOK, States, Follows, Initially
<1>2. QueryTypeOK
  BY NothingYet DEF QueriesInit, QueryTypeOK, Phases, Outcomes
<1>3. CacheInv
  BY DEF QueriesInit, CacheInv
<1>4. ASSUME NEW q \in Queries
      PROVE  QueryInv(q)
  <2>1. /\ listing[q] = NoListings /\ read[q] = NoReads /\ view[q] = {}
        /\ errors[q] = {} /\ outcome[q] = "none" /\ phase[q] = "idle" /\ floor[q] = 0
        /\ changes = 0
    BY DEF QueriesInit, HubInit
  <2>2. IdleInv(q) /\ HealthInv(q) /\ FailureInv(q) /\ FoundInv(q)
    BY <2>1, NothingYet DEF IdleInv, HealthInv, FailureInv, FoundInv
  <2>3. FreshInv(q) /\ ListingInv(q)
    BY <2>1, NothingYet DEF FreshInv, ListingInv
  <2>4. QED
    BY <2>2, <2>3 DEF QueryInv
<1>5. QED
  BY <1>1, <1>2, <1>3, <1>4 DEF QueriesInv

(* The invariant holds of every behaviour: of any number of queries, over   *)
(* any records, whatever the page size, the Hub and the cache do.          *)
THEOREM QueriesInvariant == Spec => []QueriesInv
<1>1. QueriesInit => QueriesInv
  BY QueriesStart
<1>2. QueriesInv /\ [Next]_vars => QueriesInv'
  <2> SUFFICES ASSUME QueriesInv, [Next]_vars
               PROVE  QueriesInv'
    OBVIOUS
  <2>1. CASE HubStep
    BY <2>1, HubKeeps
  <2>2. ASSUME NEW q \in Queries, QueryStep(q)
        PROVE  QueriesInv'
    BY <2>2, BeginsKeep, PagesKeep, ReadsKeep, EndsKeep DEF QueryStep
  <2>3. CASE UNCHANGED vars
    BY <2>3
    DEF vars, hubVars, queryVars, QueriesInv, HubInv, HubTypeOK, QueryTypeOK, CacheInv,
        Settled, QueryInv, IdleInv, FreshInv, ListingInv, HealthInv, FailureInv, FoundInv
  <2>4. QED
    BY <2>1, <2>2, <2>3 DEF Next, Done
<1>3. QED
  BY <1>1, <1>2, PTL DEF Spec

(* A listing misses or repeats a record that was there all the time only   *)
(* where pages shifted under it (_list_records).                           *)
THEOREM PagingIsHonest == Spec => []ListingsAreComplete
<1>1. QueriesInv => ListingsAreComplete
  <2> SUFFICES ASSUME QueriesInv, NEW q \in Queries, NEW c \in Collections,
                      Underway(listing[q][c]), IsLast(c, listing[q][c].page)
               PROVE  ListedWell(c, WithPage(c, listing[q][c]))
    BY DEF ListingsAreComplete
  <2> DEFINE L == listing[q][c]
             next == WithPage(c, L)
  <2>1. /\ HubTypeOK /\ L \in Listings /\ Underway(L) /\ IsLast(c, L.page)
        /\ ListingGood(hub[c], L)
    BY DEF QueriesInv, HubInv, QueryTypeOK, QueryInv, ListingInv
  <2>2. next.rows = L.rows \o Page(c, L.page) /\ next.start = L.start
    BY <2>1, WithPageHas
  <2> HIDE DEF L, next
  <2>3. /\ L.page \in Nat \ {0} /\ L.rows \in Seq(Entries)
        /\ L.start \in [Records -> States]
        /\ Listed(hub[c], L.start, L.rows, Offset(L.page))
    BY <2>1 DEF Listings, Underway, ListingGood
  <2>4. /\ next.rows \in Seq(Entries)
        /\ \A r \in Records : Stayed(hub[c], next.start, r) => Has(next.rows, r)
        /\ \A i, j \in DOMAIN next.rows :
             next.rows[j].id = next.rows[i].id =>
               Came(hub[c], next.start, next.rows[i].id) \/ j = i
    BY <2>1, <2>2, <2>3, LastPageCompletes, ZenonT(40)
  <2>5. ListedWell(c, next)
    BY <2>4, CompleteIsListedWell
  <2>6. QED
    BY <2>5 DEF next, L
<1>2. QED
  BY <1>1, QueriesInvariant, PTL

(* A listing outlasts the collection it reads only by what that grows:     *)
(* no request is for a page behind every record there has been.            *)
THEOREM PagesNeverRunAhead == Spec => []PagesFollowTheHub
<1>1. QueriesInv => PagesFollowTheHub
  <2> SUFFICES ASSUME QueriesInv, NEW q \in Queries, NEW c \in Collections,
                      listing[q][c].page > 1
               PROVE  (listing[q][c].page - 1) * PageSize
                        < Cardinality(SeenSince(c, listing[q][c].start))
    BY DEF PagesFollowTheHub
  <2>1. listing[q][c].page \in Nat
    BY DEF QueriesInv, QueryTypeOK, Listings
  <2>2. ListingGood(hub[c], listing[q][c])
    BY <2>1 DEF QueriesInv, QueryInv, ListingInv, Underway
  <2>3. SeenSince(c, listing[q][c].start) = SeenIn(hub[c], listing[q][c].start)
    BY DEF SeenSince, SeenIn
  <2>4. QED
    BY <2>2, <2>3 DEF ListingGood, Offset
<1>2. QED
  BY <1>1, QueriesInvariant, PTL

(* No image shows a system as it was before the query began, although the  *)
(* query may have found it in a list that was cached long ago.             *)
THEOREM ImagesAreLive == Spec => []ViewsAreLive
<1>1. QueriesInv => ViewsAreLive
  BY DEF QueriesInv, QueryInv, FreshInv, ViewsAreLive
<1>2. QED
  BY <1>1, QueriesInvariant, PTL

(* A failed read of the health, or of a history's hardware details, costs  *)
(* its own part and nothing else; any other failed read keeps the image    *)
(* from being shown.                                                       *)
THEOREM PartsFailAlone == Spec => []FailuresStayApart
<1>1. QueriesInv => FailuresStayApart
  <2> SUFFICES ASSUME QueriesInv, NEW q \in Queries
               PROVE  /\ ask[q].kind = "health" /\ phase[q] = "ended" =>
                           HealthReads \cap errors[q]
                             = {r \in HealthReads : read[q][r] = "missing"}
                      /\ outcome[q] = "image" =>
                           errors[q] \subseteq
                             (IF ask[q].kind = "history" THEN {"details"} ELSE {})
    BY DEF FailuresStayApart
  <2>1. HealthReads \subseteq Reads
    BY DEF HealthReads, Reads
  <2>2. QED
    BY <2>1 DEF QueriesInv, QueryInv, HealthInv, FailureInv
<1>2. QED
  BY <1>1, QueriesInvariant, PTL

(* A system typed in full that was always there, with none before it ever  *)
(* coming or going, is never reported as not found or ambiguous.           *)
THEOREM TypedSystemsAreFound == Spec => []FoundIfAlwaysThere
<1>1. QueriesInv => FoundIfAlwaysThere
  <2> SUFFICES ASSUME QueriesInv, NEW q \in Queries,
                      outcome[q] \in {"not_found", "ambiguous"}
               PROVE  /\ \A r \in ask[q].selector.id : ~Settled(r)
                      /\ \A r \in Records :
                           ask[q].selector.id = {} /\ ask[q].selector.name = {r} =>
                             ~Settled(r)
    BY DEF FoundIfAlwaysThere
  <2>1. FoundInv(q) /\ ask[q].selector.id \subseteq Records
    BY QueriesAssumption DEF QueriesInv, QueryInv, QueryTypeOK
  <2>2. \A r \in Records : Settled(r) => ~Typed(ask[q].selector, r)
    BY <2>1 DEF FoundInv
  <2>3. QED
    BY <2>1, <2>2 DEF Typed
<1>2. QED
  BY <1>1, QueriesInvariant, PTL
=============================================================================
