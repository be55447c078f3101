--------------------------- MODULE AnalysisHistory ---------------------------
(***************************************************************************)
(* The bounded list of earlier diagnoses a node keeps in memory, and the   *)
(* choice of those a new prompt carries (core/analysis.py).  A record      *)
(* stands for an AnalysisRecord: the alert it summarises and that alert's  *)
(* acceptance time.  Times are in seconds.                                 *)
(***************************************************************************)
EXTENDS Integers, Sequences

CONSTANTS
  ContextHours,  \* webhook.analysis_context_hours; 0 disables the history
  RecentHours,   \* webhook.analysis_context_recent_hours
  MaxRecords     \* webhook.analysis_context_max_records

ASSUME HistoryAssumption ==
  /\ ContextHours \in Nat
  /\ RecentHours \in Nat
  /\ MaxRecords \in Nat \ {0}

ContextSeconds == ContextHours * 3600

RecentSeconds ==
  (IF RecentHours < ContextHours THEN RecentHours ELSE ContextHours) * 3600

(* Faulty variant: a full deque refuses the new record. *)
KeepOldRecords(kept, record) ==
  IF Len(kept) < MaxRecords THEN Append(kept, record) ELSE kept

(***************************************************************************)
(* deque(maxlen=MaxRecords).append: a full deque drops its oldest record.  *)
(***************************************************************************)
KeepRecord(kept, record) ==
  IF Len(kept) < MaxRecords THEN Append(kept, record)
                            ELSE Append(Tail(kept), record)

(* Faulty variant: the recent window is closed at its end. *)
SelectHistoryLate(kept, t) ==
  LET Age(i)   == t - kept[i].time
      inWindow == {i \in DOMAIN kept : Age(i) >= 0 /\ Age(i) <= ContextSeconds}
      recent   == {i \in inWindow : Age(i) <= RecentSeconds}
      lastOne  == {i \in inWindow : \A j \in inWindow : j <= i}
  IN  {kept[i] : i \in IF recent # {} THEN recent ELSE lastOne}

(***************************************************************************)
(* Every record of the recent window; when there is none, the last record  *)
(* of the context window.  Records from the future of t are left out.      *)
(***************************************************************************)
SelectHistory(kept, t) ==
  LET Age(i)   == t - kept[i].time
      inWindow == {i \in DOMAIN kept : Age(i) >= 0 /\ Age(i) <= ContextSeconds}
      recent   == {i \in inWindow : Age(i) < RecentSeconds}
      lastOne  == {i \in inWindow : \A j \in inWindow : j <= i}
  IN  {kept[i] : i \in IF recent # {} THEN recent ELSE lastOne}
=============================================================================
