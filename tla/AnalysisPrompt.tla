--------------------------- MODULE AnalysisPrompt ---------------------------
(***************************************************************************)
(* What the prompt of a diagnosis says of the last hour                    *)
(* (extract_analysis_context, core/analysis) and how it is cut to size     *)
(* (_fit_payload).  Times are minutes; a point is what one system_stats    *)
(* record says of each metric, or None.                                    *)
(***************************************************************************)
EXTENDS Integers, Sequences, FiniteSets, FiniteSetsExt, SequencesExt, Functions

None == -1

Primary == {"cpu_pct", "mem_pct", "disk_pct"}

(* A percentage out of its range is no reading. *)
Pct(value) == IF value \in 0 .. 100 THEN value ELSE None

Greatest(S) == IF S = {} THEN None ELSE Max(S)

(***************************************************************************)
(* A metric over the hour that ends at ref: its samples, and the baseline  *)
(* from those before the last quarter, which takes three of them.          *)
(***************************************************************************)
InWindow(points, ref) == DOMAIN points \cap ref - 60 .. ref

Samples(points, metric, ref) ==
  [t \in {t \in InWindow(points, ref) : Pct(points[t][metric]) # None} |->
     points[t][metric]]

OldTimes(samples, ref) == {t \in DOMAIN samples : t < ref - 15}

(* Faulty variant: the sample on the boundary is in neither part. *)
RecentTimesOpen(samples, ref) == {t \in DOMAIN samples : t > ref - 15}

RecentTimes(samples, ref) == {t \in DOMAIN samples : t >= ref - 15}

(* The sum of the samples at the given times, as the number of units.      *)
SumOver(samples, times) ==
  Cardinality(UNION {{t} \X (1 .. samples[t]) : t \in times})

Series(samples, ref) ==
  LET old == OldTimes(samples, ref)
      recent == RecentTimes(samples, ref)
  IN  [baseline |-> IF Cardinality(old) >= 3
                      THEN SumOver(samples, old) ELSE None,
       peak_15m |-> Greatest({samples[t] : t \in recent}),
       peak_60m |-> Greatest(Range(samples)),
       old      |-> Cardinality(old),
       recent   |-> Cardinality(recent),
       hour     |-> Cardinality(DOMAIN samples)]

(* The latest value is the snapshot's, else the last sample's. *)
Latest(samples, snapshot) ==
  CASE Pct(snapshot) # None -> snapshot
    [] Pct(snapshot) = None /\ DOMAIN samples # {} -> samples[Max(DOMAIN samples)]
    [] OTHER -> None

(* A metric that is not primary is left out while all it says is zero. *)
IsReported(samples, latest, metric) ==
  /\ latest # None
  /\ metric \notin Primary => \E v \in Range(samples) \cup {latest} : v > 0

(* Two successive times more than one and a half intervals apart. *)
HasGap(times, interval) ==
  \E t \in times :
    /\ \E u \in times : u > t
    /\ \A u \in times : u > t => 2 * (u - t) > 3 * interval

Summary(points, snapshot, ref, interval) ==
  LET series == [m \in DOMAIN snapshot |-> Samples(points, m, ref)]
      stats == [m \in DOMAIN snapshot |-> Series(series[m], ref)]
      primary == Primary \cap DOMAIN snapshot
  IN  [stats     |-> stats,
       reported  |-> {m \in DOMAIN snapshot :
                        IsReported(series[m], Latest(series[m], snapshot[m]), m)},
       baseline_points |-> Max({stats[m].old : m \in primary}),
       recent_points   |-> Max({stats[m].recent : m \in primary}),
       gaps_detected   |-> \/ HasGap(InWindow(points, ref), interval)
                           \/ \E m \in primary : HasGap(DOMAIN series[m], interval),
       insufficient_baseline |->
         \E m \in primary : stats[m].hour > 0 /\ stats[m].old < 3]

(***************************************************************************)
(* The containers worth a look (_top_containers): each has its peak in the *)
(* hour or, failing that, its latest value, of CPU and of memory, or None. *)
(* They are ranked by their greater share of the busiest one's.            *)
(***************************************************************************)
RankValue(c, what) == IF c[what].peak # None THEN c[what].peak ELSE c[what].latest

Usage(c, what) == IF RankValue(c, what) = None THEN 0 ELSE RankValue(c, what)

Busiest(all, what) == Max({0} \cup {Usage(all[n], what) : n \in DOMAIN all})

(* Faulty variant: only the CPU counts. *)
ScoreCpu(all, n) == Usage(all[n], "cpu") * Busiest(all, "mem")

(* Scores share the denominator Busiest(cpu) * Busiest(mem), where 0 is 1. *)
Score(all, n) ==
  Max({Usage(all[n], "cpu") * Max({1, Busiest(all, "mem")}),
       Usage(all[n], "mem") * Max({1, Busiest(all, "cpu")})})

Candidates(all) ==
  {n \in DOMAIN all : Usage(all[n], "cpu") > 0 \/ Usage(all[n], "mem") > 0}

Outranks(all, n, o) ==
  LET key(c) == <<Score(all, c), Usage(all[c], "cpu"), Usage(all[c], "mem"), -c>>
  IN  \E i \in 1 .. 4 : /\ key(n)[i] > key(o)[i]
                        /\ \A j \in 1 .. i - 1 : key(n)[j] = key(o)[j]

TopContainers(all) ==
  {n \in Candidates(all) :
     Cardinality({o \in Candidates(all) : Outranks(all, o, n)}) < 3}

(***************************************************************************)
(* The payload, for its size: texts and names in characters, of which each *)
(* takes `width' bytes, everything else in bytes.  failed_names and        *)
(* unhealthy are the lengths of names.  An entry has a name, of a disk, a   *)
(* container or the hottest sensor; more text, the status of a container   *)
(* or the model of a failed disk; and a rest.  Lists are in the order used. *)
(***************************************************************************)
MaxUserJsonBytes == 3200

TotalOf(seq) == FoldLeft(LAMBDA sum, n : sum + n, 0, seq)

EntryBytes(width, e) == width * (e.name + e.more) + e.rest

EntriesOf(width, seq) ==
  FoldLeft(LAMBDA sum, e : sum + EntryBytes(width, e), 0, seq)

Bytes(p) ==
  p.fixed + p.hardware
  + p.width * (p.title + p.message + p.node + p.os
               + TotalOf(p.unhealthy) + TotalOf(p.failed_names))
  + EntriesOf(p.width, p.extra_disks) + EntriesOf(p.width, p.containers)
  + EntriesOf(p.width, p.smart_failed)
  + SumFunction([m \in DOMAIN p.metrics |-> EntryBytes(p.width, p.metrics[m])])

Fits(p) == Bytes(p) <= MaxUserJsonBytes

Cut(length, limit) == Min({length, limit})

CutNames(seq, limit) == [i \in DOMAIN seq |-> Cut(seq[i], limit)]

CutEntries(seq, limit) ==
  [i \in DOMAIN seq |-> [seq[i] EXCEPT !.name = Cut(@, limit)]]

CutMore(seq, limit) ==
  [i \in DOMAIN seq |-> [seq[i] EXCEPT !.more = Cut(@, limit)]]

FirstOf(seq, n) == SubSeq(seq, 1, Cut(Len(seq), n))

(* What stands for a metric that is not there. *)
NoEntry == [name |-> 0, more |-> 0, rest |-> 0]

Droppable ==
  <<"temp_max_c", "net_sent_mib_s", "net_recv_mib_s", "disk_await_ms",
    "disk_read_mib_s", "disk_write_mib_s", "cpu_steal_pct", "disk_util_pct">>

ShortenAlert(p) ==
  [p EXCEPT !.message = Cut(@, 120), !.title = Cut(@, 40)]

ShortenNames(p) ==
  [p EXCEPT !.node = Cut(@, 32),
            !.containers = CutEntries(@, 32),
            !.smart_failed = CutEntries(@, 32),
            !.unhealthy = CutNames(@, 32),
            !.failed_names = CutNames(@, 32)]

(* The steps, in this order, until the payload fits. *)
Steps(p) ==
  <<"hardware", "alert", "extra_disks">> \o Droppable \o <<"names">>
  \o [i \in DOMAIN p.containers |-> "container"]
  \o <<"unhealthy", "failed_names", "smart_failed">>

Reduced(p, step) ==
  CASE step = "hardware"     -> [p EXCEPT !.hardware = 0]
    [] step = "alert"        -> ShortenAlert(p)
    [] step = "extra_disks"  -> [p EXCEPT !.extra_disks = << >>]
    [] step \in DOMAIN p.metrics -> [p EXCEPT !.metrics[step] = NoEntry]
    [] step = "names"        -> ShortenNames(p)
    [] step = "container"    -> [p EXCEPT !.containers = Front(@)]
    [] step = "unhealthy"    -> [p EXCEPT !.unhealthy = << >>]
    [] step = "failed_names" -> [p EXCEPT !.failed_names = << >>]
    [] step = "smart_failed" -> [p EXCEPT !.smart_failed = << >>]

(* Faulty variant: only the steps mark the payload as cut. *)
InitiallyTruncatedNever(texts) == FALSE

(* The field limits that apply first are looked at in what is listed: 80,  *)
(* 240 and 64 characters.                                                  *)
InitiallyTruncated(texts) ==
  \/ texts.title > 80 \/ texts.message > 240 \/ texts.node > 64
  \/ \E i \in DOMAIN texts.containers : texts.containers[i].name > 64
  \/ \E n \in Range(FirstOf(texts.unhealthy, 5)) : n > 64
  \/ \E n \in Range(FirstOf(texts.failed_names, 5)) : n > 64

(* Other limits, of texts and of lists, are never told of.                 *)
Capped(texts) ==
  [texts EXCEPT !.os = Cut(@, 32),
                !.metrics["temp_max_c"].name = Cut(@, 32),
                !.extra_disks = CutEntries(FirstOf(@, 3), 32),
                !.containers = CutMore(@, 40),
                !.unhealthy = FirstOf(@, 5),
                !.failed_names = FirstOf(@, 5),
                !.smart_failed = CutMore(CutEntries(FirstOf(@, 3), 32), 48)]

Limited(texts) ==
  [Capped(texts) EXCEPT
     !.title = Cut(@, 80), !.message = Cut(@, 240), !.node = Cut(@, 64),
     !.containers = CutEntries(@, 64),
     !.unhealthy = CutNames(@, 64), !.failed_names = CutNames(@, 64)]
=============================================================================
