--------------------------- MODULE HistoryCharts ---------------------------
(***************************************************************************)
(* What a history image shows of the samples (core/rendering/presenter and *)
(* templates/charts): which containers, which axis and window, where lines *)
(* break, and the curve between two samples.  A series is a function from  *)
(* minutes to values, Absent where the value is not finite.                *)
(***************************************************************************)
EXTENDS Integers, Sequences, FiniteSets, FiniteSetsExt, Functions

Absent == -1

Finite(series) ==
  Restrict(series, {t \in DOMAIN series : series[t] # Absent})

(***************************************************************************)
(* split_series_points: a segment starts after each gap of more than one   *)
(* and a half intervals.                                                   *)
(***************************************************************************)
Previous(times, t) == {u \in times : u < t}

(* Faulty variant: the sample after a gap ends the segment before it. *)
StartsSegmentLate(times, t, interval) ==
  \/ Previous(times, t) = {}
  \/ LET p == Max(Previous(times, t))
     IN  Previous(times, p) # {} /\ 2 * (p - Max(Previous(times, p))) > 3 * interval

StartsSegment(times, t, interval) ==
  \/ Previous(times, t) = {}
  \/ 2 * (t - Max(Previous(times, t))) > 3 * interval

Segments(times, interval) ==
  LET starts == {t \in times : StartsSegment(times, t, interval)}
  IN  {{u \in times : u >= s /\ \A r \in starts : r > s => u < r} : s \in starts}

(***************************************************************************)
(* build_history: all cards span the range that ends at the query, made    *)
(* wider by samples outside of it.                                         *)
(***************************************************************************)
WindowOf(end, duration, times) ==
  [start |-> Min({end - duration} \cup times), end |-> Max({end} \cup times)]

(***************************************************************************)
(* _axis_bounds, in hundredths, for values that are not negative, and the  *)
(* greatest of none is d.                                                  *)
(***************************************************************************)
GreatestOr(values, d) == IF values = {} THEN d ELSE Max(values)

AxisMin(unit, values) ==
  IF unit = "temperature"
    THEN Max({0, 100 * (IF values = {} THEN 30 ELSE Min(values)) - 500}) ELSE 0

AxisMax(unit, values, capacity) ==
  LET max == GreatestOr(values, 1)
  IN  CASE unit = "percent" ->
             IF values = {} \/ max <= 0 \/ max >= 85 THEN 10000
                                              ELSE Max({1000, 115 * max})
        [] unit = "bytes" ->
             Max({100, IF capacity > 0 THEN 100 * capacity ELSE 110 * max})
        [] unit = "temperature" ->
             Max({AxisMin(unit, values) + 1000,
                  100 * GreatestOr(values, 70) + 500})
        [] unit = "bytes_per_second" -> Max({100, 115 * max})
        [] unit = "watts"            -> Max({1000, 115 * max})
        [] unit = "rpm"              -> Max({10000, 115 * GreatestOr(values, 1000)})
        [] unit = "load"             -> Max({20, 115 * max})

(***************************************************************************)
(* _container_history_cards: of the containers, those whose peak is at     *)
(* least the threshold's share of the axis, and the busiest in any case.   *)
(***************************************************************************)
Peak(series) == Max(Range(series))

IsBusiest(all, n) ==
  \A o \in DOMAIN all :
    /\ Peak(all[o]) <= Peak(all[n])
    /\ Peak(all[o]) = Peak(all[n]) => n <= o

Kept(all, unit, threshold) ==
  LET axis == AxisMax(unit, UNION {Range(all[n]) : n \in DOMAIN all}, 0)
      busy == {n \in DOMAIN all : 10000 * Peak(all[n]) >= axis * threshold}
  IN  CASE threshold <= 0 -> DOMAIN all
        [] threshold > 0 /\ busy # {} -> busy
        [] OTHER -> {n \in DOMAIN all : IsBusiest(all, n)}

(***************************************************************************)
(* _capacity_history: used and total amounts, or a percentage of the total *)
(* where the amount is unknown, as amounts within the total; without any   *)
(* total, as percentages.  Amounts are in hundredths.                      *)
(***************************************************************************)
Capacity(samples) == Max({0} \cup {samples[t].total : t \in DOMAIN samples})

Amount(samples, t) ==
  LET s == samples[t]
      total == IF s.total > 0 THEN s.total ELSE Capacity(samples)
  IN  CASE Capacity(samples) = 0 ->
             IF s.percent = Absent THEN Absent ELSE 100 * s.percent
        [] Capacity(samples) > 0 /\ s.used # Absent -> Min({100 * s.used, 100 * total})
        [] Capacity(samples) > 0 /\ s.used = Absent /\ s.percent # Absent ->
             Min({s.percent * total, 100 * total})
        [] OTHER -> Absent

(***************************************************************************)
(* _path: the curve from point i to the next is a cubic whose control      *)
(* points follow the tangents at both ends.  Slopes and tangents are       *)
(* quotients <<numerator, denominator>> with a positive denominator.       *)
(***************************************************************************)
Slope(points, i) ==
  LET dx == points[i + 1].x - points[i].x
  IN  IF dx = 0 THEN <<0, 1>> ELSE <<points[i + 1].y - points[i].y, dx>>

(* Faulty variant: the mean of the slopes, also at a peak. *)
TangentMean(points, i) ==
  LET m0 == Slope(points, Max({1, i - 1}))
      m1 == Slope(points, Min({i, Len(points) - 1}))
  IN  <<m0[1] * m1[2] + m1[1] * m0[2], 2 * m0[2] * m1[2]>>

(* The harmonic mean of the slopes on both sides, 0 at a peak. *)
Tangent(points, i) ==
  LET m0 == Slope(points, i - 1)
      m1 == Slope(points, i)
      sum == m0[1] * m1[2] + m1[1] * m0[2]
  IN  CASE i = 1           -> Slope(points, 1)
        [] i = Len(points) -> Slope(points, i - 1)
        [] 1 < i /\ i < Len(points) /\ m0[1] * m1[1] <= 0 -> <<0, 1>>
        [] OTHER ->
             IF sum > 0 THEN <<2 * m0[1] * m1[1], sum>>
                        ELSE <<-2 * m0[1] * m1[1], -sum>>

(* How far a control point is from its end, as a quotient. *)
Rise(points, i, tangent) ==
  <<tangent[1] * (points[i + 1].x - points[i].x), 3 * tangent[2]>>
=============================================================================
