---------------------------- MODULE RecordPaging ----------------------------
(***************************************************************************)
(* BeszelClient._list_records: a collection of the Hub is read page by     *)
(* page, while records are created and deleted.  Records are numbered in   *)
(* the order the request sorts them by: systems by name, samples by time.  *)
(***************************************************************************)
EXTENDS Integers, Sequences, FiniteSets

CONSTANTS
  Records,     \* records a collection can have
  Present,     \* those there at first
  PageSize,    \* perPage
  MaxChanges   \* bound: the Hub changes so often

ASSUME PagingAssumption ==
  /\ Records \subseteq Nat /\ IsFiniteSet(Records)
  /\ Present \subseteq Records
  /\ PageSize \in Nat \ {0}
  /\ MaxChanges \in Nat

Collections == {"systems", "system_stats"}

VARIABLES
  hub,      \* state of each record: an id is never used again
  changes   \* changes of the Hub: what it read is as old as their number then

hubVars == <<hub, changes>>

HubInit ==
  /\ hub = [c \in Collections |->
              [r \in Records |-> IF r \in Present THEN "live" ELSE "new"]]
  /\ changes = 0

Live(c) == {r \in Records : hub[c][r] = "live"}

(* The numbers of a finite set, the least first. *)
InOrder(S) ==
  [k \in 1 .. Cardinality(S) |->
     CHOOSE n \in S : Cardinality({m \in S : m <= n}) = k]

Rank(c, r) == Cardinality({s \in Live(c) : s <= r})

(* A page and the number of pages, as the Hub finds them at that moment. *)
Page(c, n) ==
  LET before == (n - 1) * PageSize
      ids == InOrder({r \in Live(c) : Rank(c, r) \in before + 1 .. before + PageSize})
  IN  [i \in DOMAIN ids |->
         [id |-> ids[i], at |-> IF c = "systems" THEN changes ELSE 0]]

TotalPages(c) == (Cardinality(Live(c)) + PageSize - 1) \div PageSize

(* A listing: the page it asks for, the rows it has and, as a history       *)
(* variable, the collection when it began.                                 *)
NoListing == [page |-> 0, rows |-> << >>, start |-> << >>]

Opened(c) == [page |-> 1, rows |-> << >>, start |-> hub[c]]

Underway(listing) == listing.page > 0

(* Faulty variant: the last page is taken for one past the end. *)
IsLastEarly(c, n) == n + 1 >= TotalPages(c) \/ Page(c, n) = << >>

(* Faulty variant: only an empty page is taken for the end. *)
IsLastWhenEmpty(c, n) == Page(c, n) = << >>

IsLast(c, n) == n >= TotalPages(c) \/ Page(c, n) = << >>

WithPage(c, listing) ==
  [listing EXCEPT !.rows = @ \o Page(c, listing.page),
                  !.page = IF IsLast(c, @) THEN 0 ELSE @ + 1]

(* The Hub: agents report, systems are added and removed, samples come at  *)
(* the end and go when they are old.  MaxChanges and Records keep it from   *)
(* growing for ever, which would keep a listing under way for ever.        *)
Created(c, r) ==
  /\ hub[c][r] = "new"
  /\ c # "systems" => \A s \in Records : hub[c][s] # "new" => s < r
  /\ hub' = [hub EXCEPT ![c][r] = "live"]

Deleted(c, r) ==
  /\ hub[c][r] = "live"
  /\ c # "systems" => \A s \in Live(c) : r <= s
  /\ hub' = [hub EXCEPT ![c][r] = "gone"]

Updated == Live("systems") # {} /\ UNCHANGED hub

HubChanges ==
  /\ changes < MaxChanges
  /\ changes' = changes + 1
  /\ \/ \E c \in Collections, r \in Records : Created(c, r) \/ Deleted(c, r)
     \/ Updated

(* The records that have been there at some time since a listing began. *)
SeenSince(c, start) == {r \in Records : start[r] # "gone" /\ hub[c][r] # "new"}

(* A listing that lasts while records come and go: a record there all the  *)
(* time is missed only if one before it was deleted, and is listed twice   *)
(* only if one before it was created.                                      *)
ListedWell(c, listing) ==
  \A r \in Records :
    LET times == Cardinality({i \in DOMAIN listing.rows : listing.rows[i].id = r})
        went == \E s \in Records : s < r /\ hub[c][s] = "gone"
                                         /\ listing.start[s] # "gone"
        came == \E s \in Records : s < r /\ listing.start[s] = "new"
                                         /\ hub[c][s] # "new"
    IN  /\ times = 0 => went \/ ~(listing.start[r] = "live" /\ hub[c][r] = "live")
        /\ times > 1 => came
=============================================================================
