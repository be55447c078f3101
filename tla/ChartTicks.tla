----------------------------- MODULE ChartTicks -----------------------------
(***************************************************************************)
(* _ticks (core/rendering/templates/charts): the ticks of a time axis, on  *)
(* round local times.  Times are minutes; a zone has one change of its     *)
(* offset; the first month of the local calendar has 31 days.              *)
(***************************************************************************)
EXTENDS Integers, Sequences, FiniteSets, FiniteSetsExt

PlotLeft == 6
TickLabelWidth == 32
TickMinGap == 12

Tick(unit, step, minutes) == [unit |-> unit, step |-> step, minutes |-> minutes]

TickIntervals ==
  <<Tick("minute", 1, 1), Tick("minute", 5, 5), Tick("minute", 15, 15),
    Tick("minute", 30, 30), Tick("hour", 1, 60), Tick("hour", 3, 180),
    Tick("hour", 6, 360), Tick("hour", 12, 720), Tick("day", 1, 1440),
    Tick("day", 2, 2880)>>

LabelSteps ==
  [minute |-> {1, 5, 10, 15, 20, 30, 60},
   hour   |-> {1, 2, 3, 4, 6, 8, 12, 24},
   day    |-> {1, 2, 3, 4, 5, 7, 10, 15}]

Minutes == [minute |-> 1, hour |-> 60, day |-> 1440]

(***************************************************************************)
(* The interval closest by ratio to span / count; quotients are compared   *)
(* after multiplication.                                                   *)
(***************************************************************************)
Count(span) ==
  CASE span > 20160 -> 30
    [] span > 2880 /\ span <= 20160 -> 7
    [] OTHER -> 12

Interval(span) ==
  LET count == Count(span)
      below == Cardinality({i \in DOMAIN TickIntervals :
                              TickIntervals[i].minutes * count <= span})
      index == Min({Max({below, 1}), Len(TickIntervals) - 1})
      lower == TickIntervals[index]
      upper == TickIntervals[index + 1]
  IN  IF (span * span) \div (lower.minutes * count) < upper.minutes * count
        THEN lower ELSE upper

(* The smallest step of labels that leaves room between them, or the last. *)
IsWide(span, width, n) ==
  n * Minutes[Interval(span).unit] * width >= (TickLabelWidth + TickMinGap) * span

LabelStep(span, width) ==
  LET tick == Interval(span)
      steps == LabelSteps[tick.unit]
      wide == {n \in steps : n % tick.step = 0 /\ IsWide(span, width, n)}
  IN  IF wide = {} THEN Max(steps) ELSE Min(wide)

(***************************************************************************)
(* Local time, and the instant of a local time: of two the first, and of   *)
(* one that the clocks skip, as if they had not changed yet.               *)
(***************************************************************************)
Wall(zone, instant) ==
  instant + (IF instant < zone.change THEN zone.before ELSE zone.after)

Instant(zone, wall) ==
  IF wall < zone.change + Max({zone.before, zone.after})
    THEN wall - zone.before ELSE wall - zone.after

Repeats(zone) == zone.after < zone.before

Field(unit, wall) ==
  CASE unit = "minute" -> wall % 60
    [] unit = "hour"   -> (wall \div 60) % 24
    [] unit = "day"    -> (wall \div 1440) % 31

(* The local times looked at, from the unit that the window begins in. *)
Walls(a) ==
  LET unit == Minutes[Interval(a.span).unit]
      from == (Wall(a.zone, a.start) \div unit) * unit
  IN  {from + k * unit : k \in 0 .. (Wall(a.zone, a.start + a.span) - from) \div unit}

Due(a) ==
  LET tick == Interval(a.span)
  IN  {w \in Walls(a) : /\ Field(tick.unit, w) % tick.step = 0
                        /\ Instant(a.zone, w) \in a.start .. a.start + a.span}

(* Faulty variant: a skipped hour is marked, and the next one over it. *)
MarksTwice(a) == Due(a)

(* A local time the clocks skip takes the place of the one it falls on. *)
Marks(a) ==
  LET due == Due(a)
  IN  {w \in due : \A v \in due : v < w => Instant(a.zone, v) < Instant(a.zone, w)}

(* Places are multiplied by the span. *)
Place(a, wall) == PlotLeft * a.span + (Instant(a.zone, wall) - a.start) * a.width

LeftOf(a, wall) == Place(a, wall) - (TickLabelWidth \div 2) * a.span

(* Marks that are due a label, and have room for one on the plot. *)
Boxes(a) ==
  LET unit == Interval(a.span).unit
      step == LabelStep(a.span, a.width)
  IN  {w \in Marks(a) :
         /\ Field(unit, w) % step = 0
         /\ LeftOf(a, w) >= PlotLeft * a.span
         /\ LeftOf(a, w) + TickLabelWidth * a.span <= (PlotLeft + a.width) * a.span}

(* One is kept if it is not too close to the next that is kept. *)
IsThinned(kept, left, gap) ==
  \A w \in DOMAIN left :
    LET later == {u \in kept : u > w}
    IN  w \in kept <=> (later = {} \/ left[Min(later)] - left[w] >= gap)

Labels(a) ==
  LET left == [w \in Boxes(a) |-> LeftOf(a, w)]
  IN  CHOOSE kept \in SUBSET DOMAIN left :
        IsThinned(kept, left, (TickLabelWidth + TickMinGap) * a.span)
=============================================================================
