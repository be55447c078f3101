--------------------------- MODULE SystemQueries ---------------------------
(***************************************************************************)
(* The queries of a chat user: the commands and LLM tools of core/plugin,  *)
(* QueryService (core/beszel/service) and the reads of BeszelClient it     *)
(* makes, for Hub records that change meanwhile.  The turns callers take   *)
(* at the cached list are SystemList's; here a list that was fetched may   *)
(* serve any later query, or not.                                          *)
(*                                                                         *)
(* One action is what a query runs between two suspensions.  Reads that    *)
(* are still under way when a query has failed go on and are ignored.      *)
(***************************************************************************)
EXTENDS RecordPaging, Functions

CONSTANTS
  Queries,   \* queries
  Asks,      \* what the queries can ask for, as functions
  Invalid,   \* system records that break the contract
  Rows,      \* render.page_size: systems on an overview image
  NoList     \* nothing is cached

(* The ids of systems differ in more than case: at most one has been typed. *)
ASSUME QueriesAssumption ==
  /\ Rows \in Nat \ {0}
  /\ Asks \subseteq
       [Queries ->
          [kind : {"list", "overview", "status", "history", "health"},
           selector : [id : SUBSET Records, name : SUBSET Records,
                       partial : SUBSET Records, empty : BOOLEAN],
           allowed : BOOLEAN, known_range : BOOLEAN]]
  /\ \A a \in Asks, q \in Queries :
       \A r, s \in a[q].selector.id : r = s

VARIABLES
  ask,      \* what each query asks for
  phase,    \* where it is
  cached,   \* _cached_systems
  listing,  \* its listing of each collection
  read,     \* the state of its other reads
  target,   \* the system selected, as a set
  view,     \* summaries it shows
  outcome,  \* what it answers
  left,     \* messages still to be sent
  floor,    \* history variable: the changes of the Hub when it began
  errors    \* history variable: reads it did without

queryVars == <<ask, phase, listing, read, target, view, outcome, left, floor,
               errors>>
vars == <<hubVars, cached, queryVars>>

(* Reads whose pages are left out: the record or records come as one. *)
Reads == {"summary", "details", "metrics", "containers", "container_history",
          "container_states", "failed_services", "failed_smart_devices"}

HealthReads == {"container_states", "failed_services", "failed_smart_devices"}

NoReads == [r \in Reads |-> "no"]
NoListings == [c \in Collections |-> NoListing]

QueriesInit ==
  /\ HubInit
  /\ ask \in Asks
  /\ phase = [q \in Queries |-> "idle"]
  /\ cached = NoList
  /\ listing = [q \in Queries |-> NoListings]
  /\ read = [q \in Queries |-> NoReads]
  /\ target = [q \in Queries |-> {}]
  /\ view = [q \in Queries |-> {}]
  /\ outcome = [q \in Queries |-> "none"]
  /\ left = [q \in Queries |-> 0]
  /\ floor = [q \in Queries |-> 0]
  /\ errors = [q \in Queries |-> {}]

(***************************************************************************)
(* select_system: the first exact id, else the one system with that exact  *)
(* name, else the one whose name has the selector in it.  A selector is    *)
(* the sets of systems it matches in these ways.                           *)
(***************************************************************************)
Matches(list, ids) ==
  LET at == InOrder({i \in DOMAIN list : list[i].id \in ids})
  IN  [k \in DOMAIN at |-> list[at[k]]]

(* Faulty variant: names that contain the selector count as names. *)
SelectedLoosely(list, selector) ==
  IF Matches(list, selector.id) # << >>
    THEN SubSeq(Matches(list, selector.id), 1, 1)
    ELSE Matches(list, selector.partial)

Selected(list, selector) ==
  CASE Matches(list, selector.id) # << >> -> SubSeq(Matches(list, selector.id), 1, 1)
    [] OTHER -> IF Matches(list, selector.name) # << >>
                  THEN Matches(list, selector.name)
                  ELSE Matches(list, selector.partial)

(* _history_arguments and HistoryRange.parse leave a range known or not;   *)
(* access, selector and range are looked at before any request.            *)
Refusal(a) ==
  LET blank == a.kind \in {"status", "history"} /\ a.selector.empty
      unknown == a.kind = "history" /\ ~a.known_range
  IN  CASE ~a.allowed                       -> "denied"
        [] a.allowed /\ blank               -> "usage"
        [] a.allowed /\ ~blank /\ unknown   -> "bad_range"
        [] OTHER                            -> "none"

(* A query has its messages: one text, or the images. *)
Says(q, what, messages) ==
  /\ phase' = [phase EXCEPT ![q] = "sending"]
  /\ outcome' = [outcome EXCEPT ![q] = what]
  /\ left' = [left EXCEPT ![q] = messages]
  /\ listing' = [listing EXCEPT ![q] = NoListings]
  /\ read' = [read EXCEPT ![q] = NoReads]

Begin(q) ==
  /\ phase[q] = "idle"
  /\ floor' = [floor EXCEPT ![q] = changes]

(* The four concurrent reads of status and history, the three of health. *)
ReadsOf(kind) ==
  CASE kind = "status"  -> {"summary", "details", "metrics", "containers"}
    [] kind = "history" -> {"summary", "details", "container_history"}
    [] kind = "health"  -> HealthReads

ListingsOf(kind) ==
  IF kind = "history" THEN {"system_stats"} ELSE {}

AsksFor(q, reads) ==
  /\ phase' = [phase EXCEPT ![q] = "gathering"]
  /\ read' = [read EXCEPT ![q] =
       [r \in Reads |-> IF r \in reads THEN "asked" ELSE "no"]]
  /\ listing' = [listing EXCEPT ![q] =
       [c \in Collections |-> IF c \in ListingsOf(ask[q].kind)
                                THEN Opened(c) ELSE NoListing]]
  /\ UNCHANGED <<outcome, left>>

(* Faulty variant: the summary is the entry of the list. *)
GathersFromList(q, entry) ==
  /\ AsksFor(q, ReadsOf(ask[q].kind) \ {"summary"})
  /\ target' = [target EXCEPT ![q] = {entry.id}]
  /\ view' = [view EXCEPT ![q] = {entry}]

(* The list only resolves the selector. *)
Gathers(q, entry) ==
  /\ AsksFor(q, ReadsOf(ask[q].kind))
  /\ target' = [target EXCEPT ![q] = {entry.id}]
  /\ UNCHANGED view

(* The overview is drawn from the list. *)
Overview(q, list) ==
  /\ view' = [view EXCEPT ![q] = Range(list)]
  /\ phase' = [phase EXCEPT ![q] = "rendering"]
  /\ listing' = [listing EXCEPT ![q] = NoListings]
  /\ left' = [left EXCEPT ![q] = (Len(list) + Rows - 1) \div Rows]
  /\ UNCHANGED <<outcome, read>>

(* The query has its list of systems. *)
HasList(q, list) ==
  LET found == Selected(list, ask[q].selector)
      named == ask[q].kind \in {"status", "history"}
  IN  \/ /\ ~named
         /\ IF ask[q].kind = "list" \/ list = << >>
              THEN Says(q, "list", 1) /\ UNCHANGED view
              ELSE Overview(q, list)
         /\ UNCHANGED target
      \/ /\ named /\ Len(found) = 1
         /\ Gathers(q, found[1])
      \/ /\ named /\ Len(found) # 1
         /\ Says(q, IF found = << >> THEN "not_found" ELSE "ambiguous", 1)
         /\ UNCHANGED <<target, view>>

(***************************************************************************)
(* A query begins: it is refused, served from the cached list, or asks the *)
(* Hub.  get_overview always asks; health is asked for one system's id.    *)
(***************************************************************************)
Refused(q) ==
  /\ Begin(q)
  /\ Refusal(ask[q]) # "none"
  /\ Says(q, Refusal(ask[q]), 1)
  /\ UNCHANGED <<hubVars, ask, errors, cached, target, view>>

CacheServes(q) ==
  /\ Begin(q)
  /\ Refusal(ask[q]) = "none"
  /\ ask[q].kind \notin {"overview", "health"}
  /\ cached # NoList
  /\ HasList(q, cached)
  /\ UNCHANGED <<hubVars, ask, errors, cached>>

ListsSystems(q) ==
  /\ Begin(q)
  /\ Refusal(ask[q]) = "none"
  /\ ask[q].kind # "health"
  /\ phase' = [phase EXCEPT ![q] = "listing"]
  /\ listing' = [listing EXCEPT ![q]["systems"] = Opened("systems")]
  /\ UNCHANGED <<hubVars, ask, errors, cached, read, target, view, outcome, left>>

AsksHealth(q) ==
  /\ Begin(q)
  /\ ask[q].kind = "health"
  /\ AsksFor(q, HealthReads)
  /\ UNCHANGED <<hubVars, ask, errors, cached, target, view>>

(* list_systems leaves out the records that break the contract, unless all  *)
(* of them do, and fills the cache.                                        *)
ListArrives(q, rows) ==
  \E valid \in {Matches(rows, Records \ Invalid)} :
    IF valid = << >> /\ rows # << >>
      THEN /\ Says(q, "failed", 1)
           /\ UNCHANGED <<cached, target, view>>
      ELSE /\ HasList(q, valid)
           /\ cached' = IF ask[q].kind = "overview" THEN cached ELSE valid

(* A page arrives, which may be the last. *)
PageArrives(q, c) ==
  /\ Underway(listing[q][c])
  /\ \E next \in {WithPage(c, listing[q][c])} :
       IF Underway(next) \/ c # "systems"
         THEN /\ listing' = [listing EXCEPT ![q][c] = next]
              /\ UNCHANGED <<cached, phase, read, target, view, outcome, left>>
         ELSE ListArrives(q, next.rows)
  /\ UNCHANGED <<hubVars, ask, errors, floor>>

PageFails(q, c) ==
  /\ Underway(listing[q][c])
  /\ Says(q, "failed", 1)
  /\ UNCHANGED <<hubVars, ask, errors, cached, target, view, floor>>

(***************************************************************************)
(* Another read returns.  The summary of a system that is gone is an error *)
(* of its own; details that are gone or not there are no error.            *)
(***************************************************************************)
Summary(q) == {[id |-> r, at |-> changes] : r \in target[q] \cap Live("systems")}

SummaryReturns(q) ==
  /\ read[q]["summary"] = "asked"
  /\ view' = [view EXCEPT ![q] = Summary(q)]
  /\ IF Summary(q) = {}
       THEN Says(q, "not_found", 1)
       ELSE /\ read' = [read EXCEPT ![q]["summary"] = "some"]
            /\ UNCHANGED <<phase, outcome, left, listing>>
  /\ UNCHANGED <<hubVars, ask, errors, cached, target, floor>>

ReadReturns(q, r) ==
  /\ r # "summary"
  /\ read[q][r] = "asked"
  /\ read' = [read EXCEPT ![q][r] = "some"]
  /\ UNCHANGED <<hubVars, ask, errors, cached, phase, listing, target, view, outcome,
                 left, floor>>

(* Faulty variant: a part of the health that cannot be read is empty. *)
MarksEmpty(q, r) == read' = [read EXCEPT ![q][r] = "some"]

(* A read that may fail on its own leaves its part out. *)
MarksMissing(q, r) == read' = [read EXCEPT ![q][r] = "missing"]

IsOptional(q, r) ==
  \/ ask[q].kind = "health"
  \/ ask[q].kind = "history" /\ r = "details"

ReadFails(q, r) ==
  /\ read[q][r] = "asked"
  /\ IF IsOptional(q, r)
       THEN /\ MarksMissing(q, r)
            /\ errors' = [errors EXCEPT ![q] = @ \cup {r}]
            /\ UNCHANGED <<phase, outcome, left, listing>>
       ELSE Says(q, "failed", 1) /\ UNCHANGED errors
  /\ UNCHANGED <<hubVars, ask, cached, target, view, floor>>

(* All reads have returned: the view is drawn, or handed to its caller. *)
Gathered(q) ==
  /\ phase[q] = "gathering"
  /\ \A r \in Reads : read[q][r] # "asked"
  /\ \A c \in Collections : ~Underway(listing[q][c])
  /\ phase' = [phase EXCEPT ![q] = IF ask[q].kind = "health" THEN "ended"
                                                             ELSE "rendering"]
  /\ outcome' = [outcome EXCEPT ![q] = IF ask[q].kind = "health" THEN "health"
                                                                 ELSE @]
  /\ left' = [left EXCEPT ![q] = IF ask[q].kind = "health" THEN 0 ELSE 1]
  /\ UNCHANGED <<hubVars, ask, errors, cached, listing, read, target, view, floor>>

(* The renderer returns the images, or raises. *)
Rendered(q) ==
  /\ phase[q] = "rendering"
  /\ \/ Says(q, "image", left[q])
     \/ Says(q, "failed", 1)
  /\ UNCHANGED <<hubVars, ask, errors, cached, target, view, floor>>

(* One message after the other; a failure keeps the rest from being sent. *)
MessageSent(q) ==
  /\ phase[q] = "sending"
  /\ left' = [left EXCEPT ![q] = @ - 1]
  /\ phase' = [phase EXCEPT ![q] = IF left[q] = 1 THEN "ended" ELSE @]
  /\ UNCHANGED <<hubVars, ask, errors, cached, listing, read, target, view, outcome, floor>>

SendFails(q) ==
  /\ phase[q] = "sending"
  /\ phase' = [phase EXCEPT ![q] = "ended"]
  /\ left' = [left EXCEPT ![q] = 0]
  /\ UNCHANGED <<hubVars, ask, errors, cached, listing, read, target, view,
                 outcome, floor>>

QueryStep(q) ==
  \/ Refused(q) \/ CacheServes(q) \/ ListsSystems(q) \/ AsksHealth(q)
  \/ \E c \in Collections : PageArrives(q, c) \/ PageFails(q, c)
  \/ SummaryReturns(q)
  \/ \E r \in Reads : ReadReturns(q, r) \/ ReadFails(q, r)
  \/ Gathered(q) \/ Rendered(q) \/ MessageSent(q) \/ SendFails(q)

HubStep == HubChanges /\ UNCHANGED <<cached, queryVars>>

Done == (\A q \in Queries : phase[q] = "ended") /\ UNCHANGED vars

Next == HubStep \/ (\E q \in Queries : QueryStep(q)) \/ Done

Spec == QueriesInit /\ [][Next]_vars

-----------------------------------------------------------------------------
(***************************************************************************)
(* A listing that lasts while records come and go is wrong only where it   *)
(* cannot be helped: a record that was there all the time is missing only  *)
(* if one before it was deleted, and is there twice only if one before it  *)
(* was created (_list_records).                                            *)
(***************************************************************************)
ListingsAreComplete ==
  \A q \in Queries, c \in Collections :
    Underway(listing[q][c]) /\ IsLast(c, listing[q][c].page)
      => ListedWell(c, WithPage(c, listing[q][c]))

(***************************************************************************)
(* A listing never asks for a page behind all the records there have been  *)
(* since it began.  _list_records counts neither pages nor requests, so     *)
(* this is what bounds them: a listing of a Hub that stands still asks for *)
(* each page once, and one of a Hub that grows lasts as long as it grows   *)
(* by a page per request, be it for ever.                                  *)
(***************************************************************************)
PagesFollowTheHub ==
  \A q \in Queries, c \in Collections :
    LET page == listing[q][c].page
    IN  page > 1 =>
          (page - 1) * PageSize < Cardinality(SeenSince(c, listing[q][c].start))

(***************************************************************************)
(* What an overview, status or history image shows of a system is at least *)
(* as new as the query, whatever the cached list says; a system that was   *)
(* gone when the query began is not shown (get_overview, get_system_detail *)
(* and get_system_history read past the cache).                            *)
(***************************************************************************)
ViewsAreLive ==
  \A q \in Queries :
    outcome[q] = "image" =>
      \A e \in view[q] : e.at >= floor[q]

(***************************************************************************)
(* A system whose name or id has been typed in full is found, however the  *)
(* list was cached or paged, if it has always been there and no system     *)
(* before it has come or gone (select_system).                             *)
(***************************************************************************)
Settled(r) ==
  /\ \A s \in Records : s < r => hub["systems"][s] = (IF s \in Present THEN "live" ELSE "new")
  /\ r \in Present \ Invalid
  /\ hub["systems"][r] = "live"

FoundIfAlwaysThere ==
  \A q \in Queries :
    outcome[q] \in {"not_found", "ambiguous"} =>
      /\ \A r \in ask[q].selector.id : ~Settled(r)
      /\ \A r \in Records :
           ask[q].selector.id = {} /\ ask[q].selector.name = {r} => ~Settled(r)

(***************************************************************************)
(* One failed read costs no more than its own part: a part of a system's   *)
(* health is missing exactly if its read failed, a history lacks at most   *)
(* the hardware details, and no image hides the failure of another read    *)
(* (get_system_health, get_system_history).                                *)
(***************************************************************************)
FailuresStayApart ==
  \A q \in Queries :
    /\ ask[q].kind = "health" /\ phase[q] = "ended" =>
         HealthReads \cap errors[q] = {r \in HealthReads : read[q][r] = "missing"}
    /\ outcome[q] = "image" =>
         errors[q] \subseteq (IF ask[q].kind = "history" THEN {"details"} ELSE {})
=============================================================================
