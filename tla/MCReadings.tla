----------------------------- MODULE MCReadings -----------------------------
(***************************************************************************)
(* Inputs for checking Readings, around each boundary.                     *)
(***************************************************************************)
EXTENDS Readings, TLC

Read(cpu, mem, load) ==
  [cpu_pct |-> cpu, mem_pct |-> mem, swap_pct |-> load]

(* Points on both sides of the window and of the last quarter. *)
PointTimes == {-1, 0, 43, 44, 45, 60}

SeriesInputs ==
  LET stats == {Read(None, None, 0), Read(101, 2, 0), Read(3, 0, 1), Read(1, None, None)}
  IN  {[ref |-> 60, interval |-> i, points |-> p, snapshot |-> s] :
         i \in {1, 10},
         p \in UNION {[T -> stats] : T \in SUBSET PointTimes},
         s \in {Read(None, None, None), Read(0, 100, 1)}}

(* A container from history, or from the snapshot alone, or with one of    *)
(* its values missing.                                                     *)
Used(cpu, mem) ==
  [cpu |-> [peak |-> cpu, latest |-> 9],
   mem |-> [peak |-> None, latest |-> mem]]

ContainerInputs ==
  {[all |-> f] :
     f \in UNION {[1 .. n -> {Used(c, m) : c \in {0, 1, 2}, m \in {None, 0, 1, 2}}] :
                    n \in {1, 4}}}

(* Texts and lists at both sides of their limits, one or three bytes a     *)
(* character, and payloads that fit at once, after some steps or never.    *)
Named(n, name, more, rest) ==
  [i \in 1 .. n |-> [name |-> name, more |-> more, rest |-> rest]]

Texts(width, fixed, message, node, n, name) ==
  [width |-> width, fixed |-> fixed, title |-> 80, message |-> message,
   node |-> node, os |-> 32, hardware |-> 40,
   extra_disks |-> Named(3, 32, 0, 10),
   metrics |-> [m \in Range(Droppable) |->
                  [name |-> IF m = "temp_max_c" THEN 32 ELSE 0, more |-> 0, rest |-> 60]],
   containers |-> Named(n, name, 40, 100),
   unhealthy |-> [i \in 1 .. n |-> name],
   failed_names |-> [i \in 1 .. n |-> name],
   smart_failed |-> Named(n, 32, 48, 20)]

(* One text or list beyond a limit that is not told of; behind the end of  *)
(* a list, a name that is too long is none.                                *)
Beyond(texts) ==
  {[texts EXCEPT !.os = 33],
   [texts EXCEPT !.metrics["temp_max_c"].name = 33],
   [texts EXCEPT !.extra_disks = Named(3, 33, 0, 10)],
   [texts EXCEPT !.extra_disks = Named(4, 32, 0, 10)],
   [texts EXCEPT !.containers[2].more = 41],
   [texts EXCEPT !.smart_failed[2].name = 33],
   [texts EXCEPT !.smart_failed[2].more = 49],
   [texts EXCEPT !.smart_failed = Named(4, 32, 48, 20)]}
  \cup
  {[texts EXCEPT ![list] = [i \in 1 .. 6 |-> IF i = long THEN 65 ELSE 20]] :
     list \in {"unhealthy", "failed_names"}, long \in {5, 6}}

PayloadInputs ==
  {[texts |-> t] :
     t \in {Texts(w, f, m, d, n, x) :
              w \in {1, 3}, f \in {600, 1500, 2400, 3100}, m \in {100, 240, 241},
              d \in {64, 65}, n \in 0 .. 3, x \in {32, 33, 65}}
           \cup UNION {Beyond(Texts(w, f, 100, 64, 3, 32)) :
                          w \in {1, 3}, f \in {600, 1500, 3100}}}

ChartTimes == {-2, 0, 1, 2, 60, 61}

HistoryInputs ==
  {[all |-> f, interval |-> 1, end |-> 60, duration |-> 60,
    threshold |-> h, unit |-> u] :
     f \in {<<a, b, c>> :
              a \in UNION {[T -> {None, 4}] : T \in SUBSET ChartTimes},
              b \in {<< >>, [t \in {0, 61} |-> t], [t \in {1, 2} |-> None]},
              c \in {<< >>, [t \in {0, 1} |-> 0], [t \in {0} |-> 4]}},
     h \in {0, 10, 50}, u \in {"percent", "bytes"}}
  \cup
  {[all |-> <<[t \in 0 .. 2 |-> IF t = 1 THEN low ELSE high]>>,
    interval |-> 1, end |-> 60, duration |-> 60, threshold |-> 0, unit |-> u] :
     low \in {0, 1, 84}, high \in {0, 1, 84, 85, 100},
     u \in {"percent", "bytes", "temperature", "bytes_per_second", "watts",
            "rpm", "load"}}

CapacityInputs ==
  {[samples |-> f] :
     f \in [1 .. 2 -> [used : {None, 0, 3, 9}, total : {None, 0, 4, 8},
                       percent : {None, 0, 50, 100}]]}

(* The five ranges, one a sample has widened, at three widths of the plot, *)
(* and a change of the clocks before, in or after the window.              *)
TickInputs ==
  {[axis |-> [start |-> s, span |-> n, width |-> w,
              zone |-> [before |-> b, after |-> b + d, change |-> s + c]]] :
     s \in {0, 47, 1435, 43205}, n \in {60, 61, 720, 1440, 10080, 43200},
     w \in {444, 470, 484}, b \in {0, 480},
     d \in {-60, -30, 0, 30, 60}, c \in {17, 150, 300}}

CurveInputs ==
  {[points |-> [i \in DOMAIN p |-> [x |-> xs[i], y |-> p[i]]]] :
     xs \in {<<0, 1, 2, 3>>, <<0, 1, 1, 4>>, <<0, 3, 4, 9>>},
     p \in UNION {[1 .. n -> {0, 1, 2, 7}] : n \in 2 .. 4}}

MCInputs ==
  [series |-> SeriesInputs, containers |-> ContainerInputs,
   payload |-> PayloadInputs, history |-> HistoryInputs,
   capacity |-> CapacityInputs, ticks |-> TickInputs, curve |-> CurveInputs]
=============================================================================
