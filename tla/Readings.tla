------------------------------ MODULE Readings ------------------------------
(***************************************************************************)
(* What a user or a model is shown of a node's samples: the prompt of a    *)
(* diagnosis and the charts of a history image, for one input at a time.   *)
(* None of this suspends; only _fit_payload takes several steps, one for   *)
(* each thing it leaves out.                                               *)
(***************************************************************************)
EXTENDS AnalysisPrompt, ChartTicks, HistoryCharts

CONSTANT Inputs   \* what there is to show, of each kind

Kinds == {"series", "containers", "payload", "history", "capacity", "ticks", "curve"}

(* A number, or what stands for one that is missing. *)
Maybe == Nat \cup {None}

Entry == [name : Nat, more : Nat, rest : Nat]

(* What the records of the last hour say, at most one at a time.           *)
AreRecords(points) == DOMAIN points \subseteq Int /\ IsFiniteSet(DOMAIN points)

AreContainers(all) ==
  /\ DOMAIN all \subseteq Int /\ IsFiniteSet(DOMAIN all)
  /\ \A n \in DOMAIN all :
       all[n] \in [cpu : [peak : Maybe, latest : Maybe],
                  mem : [peak : Maybe, latest : Maybe]]

PromptTexts ==
  [width : Nat, fixed : Nat, title : Nat, message : Nat, node : Nat, os : Nat,
   hardware : Nat, extra_disks : Seq(Entry), metrics : [Range(Droppable) -> Entry],
   containers : Seq(Entry), unhealthy : Seq(Nat), failed_names : Seq(Nat),
   smart_failed : Seq(Entry)]

Units == {"percent", "bytes", "temperature", "bytes_per_second", "watts", "rpm", "load"}

(* Samples of each container; what the Hub records as a percentage is one. *)
IsHistory(h) ==
  /\ DOMAIN h.all \subseteq Int /\ IsFiniteSet(DOMAIN h.all)
  /\ \A n \in DOMAIN h.all :
       /\ DOMAIN h.all[n] \subseteq Int /\ IsFiniteSet(DOMAIN h.all[n])
       /\ \A t \in DOMAIN h.all[n] :
            /\ h.all[n][t] \in Maybe
            /\ h.unit = "percent" => h.all[n][t] <= 100
  /\ h.unit \in Units
  /\ h.interval \in Nat /\ h.end \in Int /\ h.duration \in Nat
  /\ h.threshold \in Int

AreAmounts(samples) ==
  /\ DOMAIN samples \subseteq Int /\ IsFiniteSet(DOMAIN samples)
  /\ \A t \in DOMAIN samples :
       samples[t] \in [used : Maybe, total : Maybe, percent : 0 .. 100 \cup {None}]

(* Clocks are changed by half an hour or an hour, where they are.          *)
IsAxis(a) ==
  /\ a.start \in Int /\ a.span \in Nat \ {0} /\ a.width \in Nat
  /\ a.zone.before \in Int /\ a.zone.after \in Int /\ a.zone.change \in Int
  /\ a.zone.after - a.zone.before \in {-60, -30, 0, 30, 60}

(* The points of a curve, from the first to the last. *)
Point == [x : Int, y : Int]

ArePoints(points) ==
  /\ points \in Seq(Point)
  /\ \A i \in 1 .. Len(points) - 1 : points[i].x <= points[i + 1].x

ASSUME InputsAssumption ==
  /\ DOMAIN Inputs = Kinds
  /\ \A i \in Inputs["series"] :
       AreRecords(i.points) /\ i.ref \in Int /\ i.interval \in Nat
  /\ \A i \in Inputs["containers"] : AreContainers(i.all)
  /\ \A i \in Inputs["payload"] : i.texts \in PromptTexts
  /\ \A i \in Inputs["history"] : IsHistory(i)
  /\ \A i \in Inputs["capacity"] : AreAmounts(i.samples)
  /\ \A i \in Inputs["ticks"] : IsAxis(i.axis)
  /\ \A i \in Inputs["curve"] : ArePoints(i.points)

VARIABLES
  about,   \* the kind of what is shown
  input,   \* the samples, sizes or window
  output,  \* what has been made of them
  shown,   \* something has
  step     \* steps of _fit_payload taken

vars == <<about, input, output, shown, step>>

Init ==
  /\ about \in DOMAIN Inputs
  /\ input \in Inputs[about]
  /\ output = {}
  /\ shown = FALSE
  /\ step = 0

Makes(what, result) ==
  /\ about = what
  /\ ~shown
  /\ shown' = TRUE
  /\ output' = result
  /\ UNCHANGED <<about, input, step>>

Summarise ==
  Makes("series", Summary(input.points, input.snapshot, input.ref, input.interval))

RankContainers == Makes("containers", TopContainers(input.all))

(* The payload as it is first put together. *)
Payload(texts) ==
  [texts |-> Limited(texts), truncated |-> InitiallyTruncated(texts)]

Build == Makes("payload", Payload(input.texts))

(* A payload that does not fit is marked before anything is left out. *)
LeaveOut ==
  LET steps == Steps(Limited(input.texts))
  IN  /\ about = "payload"
      /\ shown
      /\ ~Fits(output.texts)
      /\ step < Len(steps)
      /\ step' = step + 1
      /\ output' = [texts |-> Reduced(output.texts, steps[step + 1]),
                    truncated |-> TRUE]
      /\ UNCHANGED <<about, input, shown>>

Times(all) == UNION {DOMAIN all[n] : n \in DOMAIN all}

(* Containers of which some value is finite; the window counts all times. *)
HistoryCard(h) ==
  LET all == {n \in DOMAIN h.all : DOMAIN Finite(h.all[n]) # {}}
      series == [n \in all |-> Finite(h.all[n])]
      kept == Kept(series, h.unit, h.threshold)
      values == UNION {Range(series[n]) : n \in kept}
  IN  [series   |-> Restrict(series, kept),
       extra    |-> Cardinality(all \ kept),
       segments |-> [n \in kept |-> Segments(DOMAIN series[n], h.interval)],
       window   |-> WindowOf(h.end, h.duration, Times(h.all)),
       min      |-> AxisMin(h.unit, values),
       max      |-> AxisMax(h.unit, values, 0)]

DrawHistory == Makes("history", HistoryCard(input))

CapacityCard(samples) ==
  LET capacity == Capacity(samples)
      percentages == {samples[t].percent : t \in DOMAIN samples} \ {Absent}
  IN  [amounts |-> Finite([t \in DOMAIN samples |-> Amount(samples, t)]),
       max |-> AxisMax(IF capacity > 0 THEN "bytes" ELSE "percent",
                       percentages, capacity)]

DrawCapacity == Makes("capacity", CapacityCard(input.samples))

PlaceTicks ==
  Makes("ticks", [marks |-> Marks(input.axis), labels |-> Labels(input.axis)])

(* The two control points of the curve between each point and the next. *)
Curve(points) ==
  LET tangent == [i \in DOMAIN points |-> Tangent(points, i)]
  IN  [i \in 1 .. Len(points) - 1 |->
         <<Rise(points, i, tangent[i]), Rise(points, i, tangent[i + 1])>>]

SmoothCurve == Makes("curve", Curve(input.points))

Done == shown /\ UNCHANGED vars

Next ==
  \/ Summarise \/ RankContainers \/ Build \/ LeaveOut \/ DrawHistory
  \/ DrawCapacity \/ PlaceTicks \/ SmoothCurve \/ Done

Spec == Init /\ [][Next]_vars

-----------------------------------------------------------------------------
Shown(what) == about = what /\ shown

(***************************************************************************)
(* What the model is told of the quality of the data agrees with the data  *)
(* it is given: every sample of the hour is in the baseline or among the   *)
(* recent ones, peaks and baseline fit each other, a metric without a      *)
(* baseline is announced, and so is every hole in what the samples cover   *)
(* (_process_metric_series, extract_analysis_context).                     *)
(***************************************************************************)
QualityIsHonest ==
  Shown("series") =>
    \A m \in DOMAIN input.snapshot :
      LET s == output.stats[m]
          times == DOMAIN Samples(input.points, m, input.ref)
      IN  /\ s.old + s.recent = s.hour
          /\ s.peak_15m <= s.peak_60m
          /\ s.baseline # None => s.baseline <= s.old * s.peak_60m
          /\ m \in Primary =>
               /\ s.hour > 0 /\ s.baseline = None => output.insufficient_baseline
               /\ times # {} /\ ~output.gaps_detected =>
                    2 * (Max(times) - Min(times))
                      <= 3 * input.interval * (Cardinality(times) - 1)

(***************************************************************************)
(* No container is left out that uses more of the CPU and more of the      *)
(* memory than one that is listed, and the busiest of each is listed       *)
(* unless three others tie with it (_top_containers).                      *)
(***************************************************************************)
NoneIsOutshone ==
  Shown("containers") =>
    LET all == input.all
        use(n, what) == Usage(all[n], what)
    IN  /\ \A n \in output, o \in DOMAIN all \ output :
             ~(use(o, "cpu") > use(n, "cpu") /\ use(o, "mem") > use(n, "mem"))
        /\ \A what \in {"cpu", "mem"} :
             \/ Busiest(all, what) = 0
             \/ \E n \in output : use(n, what) = Busiest(all, what)
             \/ Cardinality({n \in output :
                  \E other \in {"cpu", "mem"} : use(n, other) = Busiest(all, other)}) = 3

(***************************************************************************)
(* A prompt that is sent fits and none is given up that could be made to   *)
(* fit.  A prompt that does not say it was cut has every title, message    *)
(* and name of the node, of a container or of a service in full, and all   *)
(* that _fit_payload could have left out: all it lacks are the ends of the *)
(* other texts and of the lists, of which nobody is told (Capped).         *)
(***************************************************************************)
Smallest(texts) ==
  [ShortenNames(ShortenAlert(Limited(texts))) EXCEPT
     !.hardware = 0, !.extra_disks = << >>, !.metrics = [m \in DOMAIN @ |-> NoEntry],
     !.containers = << >>, !.unhealthy = << >>, !.failed_names = << >>,
     !.smart_failed = << >>]

PromptIsHonest ==
  Shown("payload") =>
    /\ ~output.truncated => output.texts = Capped(input.texts)
    /\ step = Len(Steps(Limited(input.texts))) /\ ~Fits(output.texts) =>
         ~Fits(Smallest(input.texts))
    /\ Fits(Limited(input.texts)) => output.texts = Limited(input.texts)

(***************************************************************************)
(* "Tell the model when the initial field limits already cut any text"     *)
(* (extract_analysis_context): what a prompt has that fits and does not    *)
(* say it was cut, it has in full.                                         *)
(***************************************************************************)
InFull(list, source) == \A i \in DOMAIN list : list[i] = source[i]

EveryCutIsTold ==
  Shown("payload") /\ Fits(output.texts) /\ ~output.truncated =>
    LET has == output.texts
        full == input.texts
    IN  /\ \A text \in {"title", "message", "node", "os"} : has[text] = full[text]
        /\ has.metrics = full.metrics
        /\ \A list \in {"extra_disks", "containers", "unhealthy", "failed_names",
                         "smart_failed"} : InFull(has[list], full[list])

(***************************************************************************)
(* A chart shows every sample it has: in its window, on its axis, on a     *)
(* line that breaks at gaps and only there; containers that are left out   *)
(* are counted and peak below those that are shown (split_series_points,   *)
(* build_history, _axis_bounds, _container_history_cards).                 *)
(***************************************************************************)
Together(segments, t, u) == \E s \in segments : {t, u} \subseteq s

ChartsShowEverySample ==
  /\ Shown("history") =>
       /\ Cardinality(DOMAIN output.series) + output.extra
            = Cardinality({n \in DOMAIN input.all :
                             DOMAIN Finite(input.all[n]) # {}})
       /\ \A n \in DOMAIN output.series :
            LET times == DOMAIN output.series[n]
            IN  /\ UNION output.segments[n] = times
                /\ \A t, u \in times :
                     t < u /\ (\A v \in times : v <= t \/ v >= u) =>
                       (Together(output.segments[n], t, u)
                          <=> 2 * (u - t) <= 3 * input.interval)
                /\ \A t \in times :
                     /\ t \in output.window.start .. output.window.end
                     /\ 100 * output.series[n][t] \in output.min .. output.max
       /\ \A o \in DOMAIN input.all \ DOMAIN output.series :
            LET hidden == Finite(input.all[o])
            IN  DOMAIN hidden # {} =>
                  /\ DOMAIN output.series # {}
                  /\ \A n \in DOMAIN output.series :
                       Peak(hidden) <= Peak(output.series[n])
  /\ Shown("capacity") =>
       \A t \in DOMAIN output.amounts : output.amounts[t] \in 0 .. output.max

(***************************************************************************)
(* Labels lie on the plot and do not run into each other, ticks are in the *)
(* window, no instant has two, where no local time comes twice every       *)
(* instant on a round local time has one, and where local time runs on     *)
(* evenly none of them loses its label to the next (_ticks).               *)
(***************************************************************************)
IsRound(tick, wall) ==
  wall % Minutes[tick.unit] = 0 /\ Field(tick.unit, wall) % tick.step = 0

TicksAreReadable ==
  Shown("ticks") =>
    LET a == input.axis
        tick == Interval(a.span)
        labels == output.labels
        marks == output.marks
        instants == {Instant(a.zone, w) : w \in marks}
        runsEvenly == a.zone.before = a.zone.after /\ tick.unit # "day"
        hasRoom == IsWide(a.span, a.width, LabelStep(a.span, a.width))
    IN  /\ \A w, u \in labels : w < u =>
             LeftOf(a, u) - LeftOf(a, w) >= (TickLabelWidth + TickMinGap) * a.span
        /\ \A w \in labels :
             /\ LeftOf(a, w) >= PlotLeft * a.span
             /\ LeftOf(a, w) + TickLabelWidth * a.span <= (PlotLeft + a.width) * a.span
        /\ \A w, u \in marks : w < u => Instant(a.zone, w) < Instant(a.zone, u)
        /\ instants \subseteq a.start .. a.start + a.span
        /\ ~Repeats(a.zone) =>
             \A i \in a.start .. a.start + a.span :
               IsRound(tick, Wall(a.zone, i)) => i \in instants
        /\ runsEvenly /\ hasRoom => labels = Boxes(a)

(***************************************************************************)
(* The curve never leaves the range of the two samples it joins: both      *)
(* control points lie between them (_path).                                *)
(***************************************************************************)
CurveStaysBetween ==
  Shown("curve") =>
    \A i \in DOMAIN output :
      LET dy == input.points[i + 1].y - input.points[i].y
          between(rise) ==
            /\ rise[1] \in (IF dy < 0 THEN dy * rise[2] .. 0 ELSE 0 .. dy * rise[2])
      IN  between(output[i][1]) /\ between(output[i][2])
=============================================================================
