-------------------------- MODULE Readings_proofs --------------------------
(***************************************************************************)
(* Proofs about what the prompt and the charts say of the samples, for     *)
(* inputs of every size.  Each is about a pure algorithm; that finite sets *)
(* of numbers have a greatest member is what stands for induction.         *)
(***************************************************************************)
EXTENDS Readings, FiniteSetTheorems, SequenceTheorems, TLAPS

(* A family of finite sets has a member none of the others is part of. *)
LEMMA SmallestSet ==
  ASSUME NEW S, NEW T, T \subseteq FiniteSubsetsOf(S), T # {}
  PROVE  \E x \in T : \A y \in T : y \subseteq x => y = x
<1>2. PICK x \in T : \A y \in T : ~(<<y, x>> \in StrictSubsetOrdering(S))
  BY FS_StrictSubsetOrderingWellFounded, WFMin
<1>3. \A y \in T : y \subseteq x => <<y, x>> \in StrictSubsetOrdering(S) \/ y = x
  BY DEF StrictSubsetOrdering, FiniteSubsetsOf
<1>4. QED
  BY <1>2, <1>3

LEMMA GreatestExists ==
  ASSUME NEW S \in SUBSET Int, IsFiniteSet(S), S # {}
  PROVE  \E x \in S : \A y \in S : x >= y
<1> DEFINE Above(x) == {y \in S : y >= x}
           T == {Above(x) : x \in S}
<1>1. \A x : IsFiniteSet(Above(x)) /\ Above(x) \in SUBSET S
  BY FS_Subset
<1>3. PICK A \in T : \A B \in T : B \subseteq A => B = A
  <2>1. T \subseteq FiniteSubsetsOf(S) /\ T # {}
    BY <1>1 DEF FiniteSubsetsOf
  <2> HIDE DEF T
  <2>2. QED
    BY <2>1, SmallestSet
<1>4. PICK x \in S : A = Above(x)
  BY <1>3
<1>5. ASSUME NEW y \in S, ~(x >= y)
      PROVE  FALSE
  <2>1. x \in Int /\ y \in Int
    OBVIOUS
  <2>2. Above(y) \subseteq Above(x)
    <3> SUFFICES ASSUME NEW z \in S, z >= y PROVE z >= x
      OBVIOUS
    <3>1. z \in Int
      OBVIOUS
    <3>2. QED
      BY <1>5, <2>1, <3>1
  <2>3. x \in Above(x) /\ x \notin Above(y)
    BY <1>5, <2>1
  <2>4. Above(y) \in T
    BY <1>5
  <2>5. QED
    BY <1>3, <1>4, <2>2, <2>3, <2>4
<1>6. QED
  BY <1>5

(* The greatest and the least of finitely many numbers are among them.       *)
LEMMA MaxFinite ==
  ASSUME NEW S \in SUBSET Int, IsFiniteSet(S), S # {}
  PROVE  Max(S) \in S /\ \A y \in S : Max(S) >= y
BY GreatestExists DEF Max

LEMMA MinFinite ==
  ASSUME NEW S \in SUBSET Int, IsFiniteSet(S), S # {}
  PROVE  Min(S) \in S /\ \A y \in S : Min(S) <= y
<1> DEFINE N == {-x : x \in S}
<1> DEFINE neg == [x \in S |-> -x]
<1>0. neg \in Surjection(S, N)
  BY DEF Surjection
<1>1. IsFiniteSet(N) /\ N \in SUBSET Int /\ N # {}
  <2>1. IsFiniteSet(N)
    <3> HIDE DEF N, neg
    <3>1. QED
      BY <1>0, FS_Surjection
  <2>2. N # {}
    OBVIOUS
  <2>3. QED
    BY <2>1, <2>2
<1>2. PICK x \in N : \A y \in N : x >= y
  BY <1>1, GreatestExists
<1>3. PICK m \in S : x = -m
  BY <1>2
<1>4. \A y \in S : m <= y
  <2> TAKE y \in S
  <2>1. -y \in N /\ m \in Int /\ y \in Int
    OBVIOUS
  <2>2. -m >= -y
    BY <1>2, <1>3, <2>1
  <2>3. QED
    BY <2>1, <2>2
<1>5. QED
  BY <1>4 DEF Min

-----------------------------------------------------------------------------
(***************************************************************************)
(* The curve between two samples (_path).                                  *)
(***************************************************************************)
LEMMA Products ==
  ASSUME NEW a \in Int, NEW b \in Int
  PROVE  /\ a * b \in Int
         /\ a >= 0 /\ b >= 0 => a * b >= 0
         /\ a > 0 /\ b > 0 => a * b > 0
         /\ a < 0 /\ b > 0 => a * b < 0
         /\ a <= 0 /\ b >= 0 => a * b <= 0
         /\ a <= 0 /\ b <= 0 => a * b >= 0
OBVIOUS

(* A quotient is between 0 and three times the slope dy / dx: the control   *)
(* point that is a third of the way along it lies between the two points.  *)
Gentle(t, dx, dy) ==
  /\ t[1] \in Int /\ t[2] \in Int /\ t[2] > 0
  /\ dy >= 0 => 0 <= t[1] * dx /\ t[1] * dx <= dy * (3 * t[2])
  /\ dy < 0 => t[1] * dx <= 0 /\ dy * (3 * t[2]) <= t[1] * dx

(* The harmonic mean of two slopes of the same sign is gentle to both.      *)
LEMMA HarmonicIsGentle ==
  ASSUME NEW a \in Int, NEW b \in Int, b > 0, NEW c \in Int, NEW d \in Int, d > 0,
         a * c > 0
  PROVE  LET sum == a * d + c * b
             mean == IF sum > 0 THEN <<2 * a * c, sum>> ELSE <<-2 * a * c, -sum>>
         IN  Gentle(mean, b, a) /\ Gentle(mean, d, c)
<1> DEFINE p == a * d
           q == c * b
<1>1. p \in Int /\ q \in Int /\ a * p \in Int /\ a * q \in Int /\ c * p \in Int /\ c * q \in Int
  BY Products
<1>2. /\ (2 * a * c) * b = 2 * (a * q) /\ (2 * a * c) * d = 2 * (c * p)
      /\ (-2 * a * c) * b = -(2 * (a * q)) /\ (-2 * a * c) * d = -(2 * (c * p))
      /\ a * (3 * (p + q)) = 3 * (a * p) + 3 * (a * q)
      /\ c * (3 * (p + q)) = 3 * (c * p) + 3 * (c * q)
      /\ a * (3 * (-(p + q))) = -(3 * (a * p) + 3 * (a * q))
      /\ c * (3 * (-(p + q))) = -(3 * (c * p) + 3 * (c * q))
      /\ 2 * a * c \in Int /\ -2 * a * c \in Int
  OBVIOUS
<1>3. (a > 0 /\ c > 0) \/ (a < 0 /\ c < 0)
  BY Products
<1>4. CASE a > 0 /\ c > 0
  <2>1. p > 0 /\ q > 0
    BY <1>4, Products
  <2>2. a * p > 0 /\ a * q > 0 /\ c * p > 0 /\ c * q > 0
    BY <1>1, <1>4, <2>1, Products
  <2> HIDE DEF p, q
  <2>3. Gentle(<<2 * a * c, p + q>>, b, a) /\ Gentle(<<2 * a * c, p + q>>, d, c)
    BY <1>1, <1>2, <1>4, <2>1, <2>2 DEF Gentle
  <2>4. p + q > 0
    BY <1>1, <2>1
  <2>5. QED
    BY <2>3, <2>4 DEF p, q
<1>5. CASE a < 0 /\ c < 0
  <2>1. p < 0 /\ q < 0
    BY <1>5, Products
  <2>2. a * p >= 0 /\ a * q >= 0 /\ c * p >= 0 /\ c * q >= 0
    BY <1>1, <1>5, <2>1, Products
  <2> HIDE DEF p, q
  <2>3. Gentle(<<-2 * a * c, -(p + q)>>, b, a) /\ Gentle(<<-2 * a * c, -(p + q)>>, d, c)
    BY <1>1, <1>2, <1>5, <2>1, <2>2 DEF Gentle
  <2>4. ~(p + q > 0)
    BY <1>1, <2>1
  <2>5. QED
    BY <2>3, <2>4 DEF p, q
<1>6. QED
  BY <1>3, <1>4, <1>5

(* The slopes on the way from each point to the next are quotients.         *)
LEMMA SlopeIsQuotient ==
  ASSUME NEW points, ArePoints(points), NEW i \in 1 .. Len(points) - 1
  PROVE  LET dx == points[i + 1].x - points[i].x
             dy == points[i + 1].y - points[i].y
             m == Slope(points, i)
         IN  /\ dx \in Int /\ dx >= 0 /\ dy \in Int
             /\ m[1] \in Int /\ m[2] \in Int /\ m[2] > 0
             /\ dx = 0 => m = <<0, 1>>
             /\ dx > 0 => m = <<dy, dx>>
<1>1. /\ i \in DOMAIN points /\ i + 1 \in DOMAIN points
      /\ points[i] \in Point /\ points[i + 1] \in Point
      /\ points[i].x <= points[i + 1].x
  <2>1. points \in Seq(Point) /\ Len(points) \in Nat /\ DOMAIN points = 1 .. Len(points)
    BY DEF ArePoints
  <2>2. i \in DOMAIN points /\ i + 1 \in DOMAIN points
    BY <2>1
  <2>3. points[i] \in Point /\ points[i + 1] \in Point
    <3>1. \A k \in DOMAIN points : points[k] \in Point
      BY <2>1
    <3>2. QED
      BY <2>2, <3>1
  <2>4. QED
    BY <2>2, <2>3 DEF ArePoints
<1>2. QED
  BY <1>1 DEF Slope, Point

(* Both tangents of a stretch of the curve are gentle to its slope.         *)
LEMMA TangentsAreGentle ==
  ASSUME NEW points, ArePoints(points), NEW i \in 1 .. Len(points) - 1,
         NEW e \in {i, i + 1}
  PROVE  Gentle(Tangent(points, e),
                points[i + 1].x - points[i].x, points[i + 1].y - points[i].y)
<1> DEFINE dx == points[i + 1].x - points[i].x
           dy == points[i + 1].y - points[i].y
           n == Len(points)
<1>1. n \in Nat /\ i \in Nat /\ 1 <= i /\ i + 1 <= n /\ (e = i \/ e = i + 1)
  BY DEF ArePoints
<1>2. dx \in Int /\ dx >= 0 /\ dy \in Int
  BY SlopeIsQuotient
<1>3. Gentle(Slope(points, i), dx, dy)
  <2>1. CASE dx = 0
    BY <1>2, <2>1, SlopeIsQuotient DEF Gentle
  <2>2. CASE dx > 0
    <3>1. Slope(points, i) = <<dy, dx>>
      BY <2>2, SlopeIsQuotient
    <3>2. /\ dy >= 0 => dy * dx >= 0
          /\ dy < 0 => dy * dx < 0
          /\ dy * (3 * dx) = 3 * (dy * dx)
          /\ dy * dx \in Int
      BY <1>2, <2>2, SMTT(30)
    <3> HIDE DEF dx, dy
    <3>3. QED
      BY <1>2, <2>2, <3>1, <3>2 DEF Gentle
  <2>3. QED
    BY <1>2, <2>1, <2>2
<1>4. Gentle(<<0, 1>>, dx, dy)
  <2> HIDE DEF dx, dy
  <2>1. QED
    BY <1>2 DEF Gentle
<1>5. CASE e = 1 \/ e = n
  <2>1. Tangent(points, e) = Slope(points, i)
    <3>1. CASE e = 1
      <4>1. e = i /\ i = 1 /\ e # Len(points)
        <5> HIDE DEF dx, dy, n
        <5>1. e = i /\ i = 1
          BY <1>1, <3>1
        <5>2. n # 1
          BY <1>1, <5>1
        <5>3. QED
          BY <5>1, <5>2 DEF n
      <4>2. Tangent(points, e) = Slope(points, 1)
        BY <4>1 DEF Tangent
      <4>3. QED
        BY <4>1, <4>2
    <3>2. CASE e = n /\ e # 1
      <4>1. e - 1 = i /\ e = Len(points) /\ ~(e < Len(points)) /\ e # 1
        BY <1>1, <3>2
      <4>2. Tangent(points, e) = Slope(points, e - 1)
        BY <4>1 DEF Tangent
      <4>3. QED
        BY <4>1, <4>2
    <3>3. QED
      BY <1>5, <3>1, <3>2
  <2>2. QED
    BY <1>3, <2>1
<1>6. CASE 1 < e /\ e < n
  <2> DEFINE m0 == Slope(points, e - 1)
             m1 == Slope(points, e)
  <2>1. e \in Nat /\ e - 1 \in 1 .. Len(points) - 1 /\ e \in 1 .. Len(points) - 1
    BY <1>1, <1>6
  <2>2. /\ m0[1] \in Int /\ m0[2] \in Int /\ m0[2] > 0
        /\ m1[1] \in Int /\ m1[2] \in Int /\ m1[2] > 0
    BY <2>1, SlopeIsQuotient
  <2>3. CASE m0[1] * m1[1] <= 0
    <3>1. Tangent(points, e) = <<0, 1>>
      BY <1>6, <2>1, <2>3 DEF Tangent
    <3>2. QED
      BY <1>4, <3>1
  <2>4. CASE ~(m0[1] * m1[1] <= 0)
    <3>1. m0[1] * m1[1] > 0
      BY <2>2, <2>4
    <3>2. Tangent(points, e) =
            LET sum == m0[1] * m1[2] + m1[1] * m0[2]
            IN  IF sum > 0 THEN <<2 * m0[1] * m1[1], sum>>
                           ELSE <<-2 * m0[1] * m1[1], -sum>>
      BY <1>6, <2>1, <2>4 DEF Tangent
    <3>3. /\ Gentle(Tangent(points, e), m0[2], m0[1])
          /\ Gentle(Tangent(points, e), m1[2], m1[1])
      <4> HIDE DEF m0, m1
      <4>1. QED
        BY <2>2, <3>1, <3>2, HarmonicIsGentle, ZenonT(40)
    <3>4. dx > 0 => Slope(points, i) = <<dy, dx>>
      BY SlopeIsQuotient
    <3>5. dx # 0
      <4> SUFFICES ASSUME dx = 0 PROVE FALSE
        OBVIOUS
      <4>1. Slope(points, i)[1] = 0
        BY SlopeIsQuotient
      <4>2. m0[1] = 0 \/ m1[1] = 0
        BY <1>1, <4>1
      <4>3. QED
        BY <2>2, <3>1, <4>2
    <3>6. Slope(points, i) = <<dy, dx>>
      BY <1>2, <3>4, <3>5
    <3>7. e = i \/ e - 1 = i
      BY <1>1
    <3>8. QED
      BY <3>3, <3>6, <3>7
  <2>5. QED
    BY <2>3, <2>4
<1>7. QED
  BY <1>1, <1>5, <1>6

LEMMA CurveIsBetween ==
  ASSUME NEW points, ArePoints(points), NEW i \in DOMAIN Curve(points)
  PROVE  LET dy == points[i + 1].y - points[i].y
             between(rise) ==
               rise[1] \in (IF dy < 0 THEN dy * rise[2] .. 0 ELSE 0 .. dy * rise[2])
         IN  between(Curve(points)[i][1]) /\ between(Curve(points)[i][2])
<1> DEFINE dx == points[i + 1].x - points[i].x
           dy == points[i + 1].y - points[i].y
           between(rise) ==
             rise[1] \in (IF dy < 0 THEN dy * rise[2] .. 0 ELSE 0 .. dy * rise[2])
<1>1. /\ i \in 1 .. Len(points) - 1 /\ i \in DOMAIN points /\ i + 1 \in DOMAIN points
      /\ Curve(points)[i] = <<Rise(points, i, Tangent(points, i)),
                              Rise(points, i, Tangent(points, i + 1))>>
  BY DEF Curve, ArePoints
<1>2. dx \in Int /\ dy \in Int
  BY <1>1, SlopeIsQuotient
<1>3. ASSUME NEW t, Gentle(t, dx, dy)
      PROVE  between(Rise(points, i, t))
  <2>1. Rise(points, i, t) = <<t[1] * dx, 3 * t[2]>>
    BY DEF Rise
  <2>2. t[1] * dx \in Int /\ dy * (3 * t[2]) \in Int
    BY <1>2, <1>3 DEF Gentle
  <2> HIDE DEF dx, dy
  <2>3. QED
    BY <1>2, <1>3, <2>1, <2>2, SMTT(30) DEF Gentle
<1>4. Gentle(Tangent(points, i), dx, dy) /\ Gentle(Tangent(points, i + 1), dx, dy)
  BY <1>1, TangentsAreGentle
<1> HIDE DEF dx, between
<1>5. between(Rise(points, i, Tangent(points, i)))
      /\ between(Rise(points, i, Tangent(points, i + 1)))
  BY <1>3, <1>4
<1>6. QED
  BY <1>1, <1>5 DEF between

(***************************************************************************)
(* Nothing but its algorithm decides what is shown of an input, once.      *)
(***************************************************************************)
Results ==
  /\ about \in Kinds /\ input \in Inputs[about]
  /\ Shown("series") =>
       output = Summary(input.points, input.snapshot, input.ref, input.interval)
  /\ Shown("ticks") =>
       output = [marks |-> Marks(input.axis), labels |-> Labels(input.axis)]
  /\ Shown("curve") => output = Curve(input.points)
  /\ Shown("containers") => output = TopContainers(input.all)
  /\ Shown("history") => output = HistoryCard(input)
  /\ Shown("capacity") => output = CapacityCard(input.samples)

LEMMA ResultsInvariant == Spec => []Results
<1>1. Init => Results
  BY InputsAssumption DEF Init, Results, Shown
<1>2. Results /\ [Next]_vars => Results'
  <2> SUFFICES ASSUME Results, [Next]_vars
               PROVE  Results'
    OBVIOUS
  <2> USE DEF Results, Shown, Makes
  <2>1. CASE Summarise
    BY <2>1 DEF Summarise
  <2>2. CASE RankContainers
    BY <2>2 DEF RankContainers
  <2>3. CASE Build
    BY <2>3 DEF Build
  <2>4. CASE LeaveOut
    BY <2>4 DEF LeaveOut
  <2>5. CASE DrawHistory
    BY <2>5 DEF DrawHistory
  <2>6. CASE DrawCapacity
    BY <2>6 DEF DrawCapacity
  <2>7. CASE PlaceTicks
    BY <2>7 DEF PlaceTicks
  <2>8. CASE SmoothCurve
    BY <2>8 DEF SmoothCurve
  <2>9. CASE Done \/ UNCHANGED vars
    BY <2>9 DEF Done, vars
  <2> QED
    BY <2>1, <2>2, <2>3, <2>4, <2>5, <2>6, <2>7, <2>8, <2>9 DEF Next
<1> QED
  BY <1>1, <1>2, PTL DEF Spec

(***************************************************************************)
(* Both control points of a stretch of the curve lie between the samples   *)
(* it joins, so that it shows no value that was not measured (_path).      *)
(***************************************************************************)
THEOREM CurvesStayBetween == Spec => []CurveStaysBetween
<1>1. Results => CurveStaysBetween
  <2> SUFFICES ASSUME Results, Shown("curve"), NEW i \in DOMAIN output
               PROVE  LET dy == input.points[i + 1].y - input.points[i].y
                          between(rise) ==
                            rise[1] \in (IF dy < 0 THEN dy * rise[2] .. 0
                                                   ELSE 0 .. dy * rise[2])
                      IN  between(output[i][1]) /\ between(output[i][2])
    BY DEF CurveStaysBetween
  <2>1. output = Curve(input.points) /\ ArePoints(input.points)
    BY InputsAssumption DEF Results, Shown
  <2> QED
    BY <2>1, CurveIsBetween
<1> QED
  BY <1>1, ResultsInvariant, PTL

-----------------------------------------------------------------------------
(***************************************************************************)
(* The ranking of containers (_top_containers).                            *)
(***************************************************************************)
(* What a function with a finite domain returns is finite.                 *)
LEMMA FiniteValues ==
  ASSUME NEW f, f = [x \in DOMAIN f |-> f[x]], IsFiniteSet(DOMAIN f)
  PROVE  IsFiniteSet({f[x] : x \in DOMAIN f})
<1>1. f \in Surjection(DOMAIN f, {f[x] : x \in DOMAIN f})
  BY DEF Surjection
<1> QED
  BY <1>1, FS_Surjection

Whats == {"cpu", "mem"}

LEMMA UsageType ==
  ASSUME NEW all, AreContainers(all), NEW n \in DOMAIN all, NEW what \in Whats
  PROVE  Usage(all[n], what) \in Nat
BY DEF AreContainers, Whats, Usage, RankValue, Maybe

(* No container uses more than the busiest, which is one of them.          *)
LEMMA BusiestIsGreatest ==
  ASSUME NEW all, AreContainers(all), NEW what \in Whats
  PROVE  /\ Busiest(all, what) \in Nat
         /\ \A n \in DOMAIN all : Usage(all[n], what) <= Busiest(all, what)
         /\ Busiest(all, what) > 0 =>
              \E n \in DOMAIN all : Usage(all[n], what) = Busiest(all, what)
<1> DEFINE f == [n \in DOMAIN all |-> Usage(all[n], what)]
           used == {Usage(all[n], what) : n \in DOMAIN all}
           S == {0} \cup used
<1>1. \A n \in DOMAIN all : Usage(all[n], what) \in Nat
  BY UsageType
<1>2. IsFiniteSet(used)
  <2>1. used = {f[n] : n \in DOMAIN f}
    OBVIOUS
  <2>2. IsFiniteSet(DOMAIN f)
    BY DEF AreContainers
  <2> HIDE DEF used
  <2> QED
    BY <2>1, <2>2, FiniteValues
<1>3. IsFiniteSet(S) /\ S \in SUBSET Int /\ S # {}
  <2>1. IsFiniteSet(used \cup {0})
    <3> HIDE DEF used
    <3> QED
      BY <1>2, FS_AddElement
  <2> QED
    BY <1>1, <2>1
<1>4. Max(S) \in S /\ \A y \in S : Max(S) >= y
  <2> HIDE DEF S
  <2> QED
    BY <1>3, MaxFinite
<1>5. Busiest(all, what) = Max(S)
  BY DEF Busiest
<1> HIDE DEF f
<1>6. Max(S) = 0 \/ \E n \in DOMAIN all : Usage(all[n], what) = Max(S)
  BY <1>4
<1> HIDE DEF S
<1>7. Max(S) \in Nat
  BY <1>1, <1>6
<1>8. \A n \in DOMAIN all : Usage(all[n], what) <= Max(S)
  BY <1>1, <1>4, <1>7 DEF S
<1> QED
  BY <1>5, <1>6, <1>7, <1>8

(* The greater of two numbers.                                             *)
LEMMA MaxOfTwo ==
  ASSUME NEW a \in Int, NEW b \in Int
  PROVE  /\ Max({a, b}) \in Int
         /\ Max({a, b}) >= a /\ Max({a, b}) >= b
         /\ Max({a, b}) = a \/ Max({a, b}) = b
<1>1. IsFiniteSet({a, b})
  <2>1. IsFiniteSet({a} \cup {b})
    BY FS_Singleton, FS_AddElement
  <2>2. {a} \cup {b} = {a, b}
    OBVIOUS
  <2> QED
    BY <2>1, <2>2
<1> QED
  BY <1>1, MaxFinite

(* The share of the busiest one's CPU or memory is out of this.            *)
Full(all) == Max({1, Busiest(all, "cpu")}) * Max({1, Busiest(all, "mem")})

LEMMA ScoreBounds ==
  ASSUME NEW all, AreContainers(all), NEW n \in DOMAIN all
  PROVE  /\ Score(all, n) \in Int /\ Full(all) \in Int
         /\ Score(all, n) <= Full(all)
         /\ \A what \in Whats :
              Busiest(all, what) > 0 /\ Usage(all[n], what) = Busiest(all, what)
                => Score(all, n) = Full(all)
         /\ Score(all, n) = Full(all) =>
              \E what \in Whats : Usage(all[n], what) = Busiest(all, what)
<1> DEFINE c == Usage(all[n], "cpu")
           m == Usage(all[n], "mem")
           B == Busiest(all, "cpu")
           C == Busiest(all, "mem")
           M == Max({1, B})
           N == Max({1, C})
<1>1. c \in Nat /\ m \in Nat /\ B \in Nat /\ C \in Nat /\ c <= B /\ m <= C
  BY UsageType, BusiestIsGreatest DEF Whats
<1>2. /\ M \in Int /\ M >= 1 /\ M >= B /\ (M = 1 \/ M = B)
      /\ N \in Int /\ N >= 1 /\ N >= C /\ (N = 1 \/ N = C)
  <2> HIDE DEF B, C
  <2>1. B \in Int /\ C \in Int /\ 1 \in Int
    BY <1>1
  <2> QED
    BY <2>1, MaxOfTwo
<1>3. Score(all, n) = Max({c * N, m * M}) /\ Full(all) = M * N
  BY DEF Score, Full
<1> HIDE DEF c, m, B, C, M, N
<1>4. /\ c * N \in Int /\ m * M \in Int /\ M * N \in Int
      /\ c * N <= M * N /\ m * M <= M * N
      /\ c * N = M * N => c = M
      /\ m * M = M * N => m = N
  <2>1. \A a, b, k \in Int : k >= 1 => /\ a <= b => a * k <= b * k
                                       /\ a * k = b * k => a = b
    <3> SUFFICES ASSUME NEW a \in Int, NEW b \in Int, NEW k \in Int, k >= 1
                 PROVE  /\ a <= b => a * k <= b * k
                        /\ a * k = b * k => a = b
      OBVIOUS
    <3>1. (b - a) * k = b * k - a * k /\ (b - a) \in Int /\ a * k \in Int /\ b * k \in Int
      OBVIOUS
    <3>2. /\ b - a >= 0 => (b - a) * k >= 0
          /\ b - a > 0 => (b - a) * k > 0
          /\ b - a < 0 => (b - a) * k < 0
      BY <3>1, Products
    <3> QED
      BY <3>1, <3>2
  <2>2. N * M = M * N
    BY <1>2
  <2> QED
    BY <1>1, <1>2, <2>1, <2>2
<1>5. /\ Score(all, n) \in Int /\ Score(all, n) >= c * N /\ Score(all, n) >= m * M
      /\ Score(all, n) = c * N \/ Score(all, n) = m * M
  BY <1>3, <1>4, MaxOfTwo
<1>6. Score(all, n) <= Full(all)
  BY <1>3, <1>4, <1>5
<1>7. ASSUME (B > 0 /\ c = B) \/ (C > 0 /\ m = C)
      PROVE  Score(all, n) = Full(all)
  <2>1. B > 0 /\ c = B => c = M
    BY <1>1, <1>2
  <2>2. C > 0 /\ m = C => m = N
    BY <1>1, <1>2
  <2>3. c = M => c * N = M * N
    OBVIOUS
  <2>4. m = N => m * M = M * N
    BY <1>2
  <2> QED
    BY <1>3, <1>4, <1>5, <1>6, <1>7, <2>1, <2>2, <2>3, <2>4
<1>8. ASSUME Score(all, n) = Full(all)
      PROVE  c = B \/ m = C
  <2>1. c = M \/ m = N
    BY <1>3, <1>4, <1>5, <1>8
  <2> QED
    BY <1>1, <1>2, <2>1
<1>9. \A what \in Whats : what = "cpu" \/ what = "mem"
  BY DEF Whats
<1>10. Full(all) \in Int
  BY <1>3, <1>4
<1>11. \A what \in Whats :
         Busiest(all, what) > 0 /\ Usage(all[n], what) = Busiest(all, what)
           => Score(all, n) = Full(all)
  <2> TAKE what \in Whats
  <2>1. CASE what = "cpu"
    BY <1>7, <2>1 DEF c, B
  <2>2. CASE what = "mem"
    BY <1>7, <2>2 DEF m, C
  <2> QED
    BY <1>9, <2>1, <2>2
<1>12. Score(all, n) = Full(all) =>
         \E what \in Whats : Usage(all[n], what) = Busiest(all, what)
  BY <1>8 DEF c, m, B, C, Whats
<1> QED
  BY <1>5, <1>6, <1>10, <1>11, <1>12

(***************************************************************************)
(* Outranks orders the candidates, and no two are equal in it.             *)
(***************************************************************************)
LEMMA OutranksUnfolds ==
  ASSUME NEW all, NEW n, NEW o
  PROVE  Outranks(all, n, o) <=>
           \/ Score(all, n) > Score(all, o)
           \/ /\ Score(all, n) = Score(all, o)
              /\ \/ Usage(all[n], "cpu") > Usage(all[o], "cpu")
                 \/ /\ Usage(all[n], "cpu") = Usage(all[o], "cpu")
                    /\ \/ Usage(all[n], "mem") > Usage(all[o], "mem")
                       \/ /\ Usage(all[n], "mem") = Usage(all[o], "mem")
                          /\ -n > -o
<1> DEFINE key(c) == <<Score(all, c), Usage(all[c], "cpu"), Usage(all[c], "mem"), -c>>
<1>1. /\ key(n)[1] = Score(all, n) /\ key(n)[2] = Usage(all[n], "cpu")
      /\ key(n)[3] = Usage(all[n], "mem") /\ key(n)[4] = -n
      /\ key(o)[1] = Score(all, o) /\ key(o)[2] = Usage(all[o], "cpu")
      /\ key(o)[3] = Usage(all[o], "mem") /\ key(o)[4] = -o
  OBVIOUS
<1>2. Outranks(all, n, o) <=>
        \E i \in 1 .. 4 : /\ key(n)[i] > key(o)[i]
                          /\ \A j \in 1 .. i - 1 : key(n)[j] = key(o)[j]
  BY DEF Outranks
<1> HIDE DEF key
<1>3. /\ 1 .. 4 = {1, 2, 3, 4} /\ 1 .. 1 - 1 = {} /\ 1 .. 2 - 1 = {1}
      /\ 1 .. 3 - 1 = {1, 2} /\ 1 .. 4 - 1 = {1, 2, 3}
  OBVIOUS
<1>4. Outranks(all, n, o) <=>
        \/ key(n)[1] > key(o)[1]
        \/ key(n)[2] > key(o)[2] /\ key(n)[1] = key(o)[1]
        \/ key(n)[3] > key(o)[3] /\ key(n)[1] = key(o)[1] /\ key(n)[2] = key(o)[2]
        \/ /\ key(n)[4] > key(o)[4] /\ key(n)[1] = key(o)[1]
           /\ key(n)[2] = key(o)[2] /\ key(n)[3] = key(o)[3]
  BY <1>2, <1>3
<1> QED
  BY <1>1, <1>4

LEMMA OutranksOrders ==
  ASSUME NEW all, AreContainers(all),
         NEW n \in DOMAIN all, NEW o \in DOMAIN all, NEW p \in DOMAIN all
  PROVE  /\ ~Outranks(all, n, n)
         /\ n # o => Outranks(all, n, o) \/ Outranks(all, o, n)
         /\ Outranks(all, n, o) => ~Outranks(all, o, n)
         /\ Outranks(all, n, o) /\ Outranks(all, o, p) => Outranks(all, n, p)
<1>1. \A c \in {n, o, p} : /\ c \in Int /\ Score(all, c) \in Int
                           /\ Usage(all[c], "cpu") \in Int /\ Usage(all[c], "mem") \in Int
  BY ScoreBounds, UsageType DEF AreContainers, Whats
<1>2. \A a, b \in {n, o, p} :
        Outranks(all, a, b) <=>
           \/ Score(all, a) > Score(all, b)
           \/ /\ Score(all, a) = Score(all, b)
              /\ \/ Usage(all[a], "cpu") > Usage(all[b], "cpu")
                 \/ /\ Usage(all[a], "cpu") = Usage(all[b], "cpu")
                    /\ \/ Usage(all[a], "mem") > Usage(all[b], "mem")
                       \/ /\ Usage(all[a], "mem") = Usage(all[b], "mem")
                          /\ -a > -b
  BY OutranksUnfolds
<1>3. ~Outranks(all, n, n)
  BY <1>1, <1>2
<1>4. n # o => Outranks(all, n, o) \/ Outranks(all, o, n)
  BY <1>1, <1>2
<1>5. Outranks(all, n, o) => ~Outranks(all, o, n)
  BY <1>1, <1>2
<1>6. Outranks(all, n, o) /\ Outranks(all, o, p) => Outranks(all, n, p)
  BY <1>1, <1>2
<1> QED
  BY <1>3, <1>4, <1>5, <1>6

Above(all, n) == {o \in Candidates(all) : Outranks(all, o, n)}

LEMMA CandidatesFinite ==
  ASSUME NEW all, AreContainers(all)
  PROVE  /\ Candidates(all) \subseteq DOMAIN all /\ IsFiniteSet(Candidates(all))
         /\ \A n : /\ Above(all, n) \subseteq Candidates(all)
                   /\ IsFiniteSet(Above(all, n)) /\ Cardinality(Above(all, n)) \in Nat
<1>1. Candidates(all) \subseteq DOMAIN all
  BY DEF Candidates
<1>2. IsFiniteSet(Candidates(all))
  BY <1>1, FS_Subset DEF AreContainers
<1>3. \A n : Above(all, n) \subseteq Candidates(all)
  BY DEF Above
<1>4. \A n : IsFiniteSet(Above(all, n))
  BY <1>2, <1>3, FS_Subset
<1> QED
  BY <1>1, <1>2, <1>3, <1>4, FS_CardinalityType

(* What outranks a container has fewer above it.                           *)
LEMMA AboveShrinks ==
  ASSUME NEW all, AreContainers(all), NEW n \in DOMAIN all, NEW o \in DOMAIN all,
         Outranks(all, o, n)
  PROVE  /\ Above(all, o) \subseteq Above(all, n)
         /\ Cardinality(Above(all, o)) <= Cardinality(Above(all, n))
<1>1. Above(all, o) \subseteq Above(all, n)
  BY CandidatesFinite, OutranksOrders DEF Above
<1> QED
  BY <1>1, CandidatesFinite, FS_Subset

(* Some candidates have a first.                                           *)
LEMMA FirstExists ==
  ASSUME NEW all, AreContainers(all), NEW S \in SUBSET Candidates(all), S # {}
  PROVE  \E x \in S : \A y \in S \ {x} : Outranks(all, x, y)
<1> DEFINE T == {Above(all, x) : x \in S}
<1>1. PICK A \in T : \A B \in T : B \subseteq A => B = A
  <2>1. T \subseteq FiniteSubsetsOf(Candidates(all)) /\ T # {}
    BY CandidatesFinite DEF FiniteSubsetsOf
  <2> HIDE DEF T
  <2> QED
    BY <2>1, SmallestSet
<1>2. PICK x \in S : A = Above(all, x)
  BY <1>1
<1>3. ASSUME NEW y \in S \ {x}, ~Outranks(all, x, y)
      PROVE  FALSE
  <2>1. x \in DOMAIN all /\ y \in DOMAIN all /\ y \in Candidates(all)
    BY CandidatesFinite
  <2>2. Outranks(all, y, x)
    BY <1>3, <2>1, OutranksOrders
  <2>3. Above(all, y) \subseteq Above(all, x)
    BY <2>1, <2>2, AboveShrinks
  <2>4. y \in Above(all, x) /\ y \notin Above(all, y)
    BY <2>1, <2>2, OutranksOrders DEF Above
  <2> QED
    BY <1>1, <1>2, <2>3, <2>4
<1> QED
  BY <1>3

LEMMA SmallSets ==
  ASSUME NEW a, NEW b, NEW c, a # b, a # c, b # c
  PROVE  /\ IsFiniteSet({}) /\ Cardinality({}) = 0
         /\ IsFiniteSet({a}) /\ Cardinality({a}) = 1
         /\ IsFiniteSet({a, b}) /\ Cardinality({a, b}) = 2
         /\ IsFiniteSet({a, b, c}) /\ Cardinality({a, b, c}) = 3
<1>1. {a, b} = {a} \cup {b} /\ {a, b, c} = {a, b} \cup {c}
  OBVIOUS
<1>2. IsFiniteSet({}) /\ Cardinality({}) = 0 /\ IsFiniteSet({a}) /\ Cardinality({a}) = 1
  BY FS_EmptySet, FS_Singleton
<1>3. IsFiniteSet({a} \cup {b}) /\ Cardinality({a} \cup {b}) = 1 + 1
  BY <1>2, FS_AddElement
<1>4. IsFiniteSet({a, b} \cup {c}) /\ Cardinality({a, b} \cup {c}) = 2 + 1
  BY <1>1, <1>3, FS_AddElement
<1> QED
  BY <1>1, <1>2, <1>3, <1>4

(* Of three candidates or more, three are listed.                          *)
LEMMA ThreeAreListed ==
  ASSUME NEW all, AreContainers(all), NEW b, Cardinality(Above(all, b)) >= 3
  PROVE  Cardinality(TopContainers(all)) = 3
<1> DEFINE C == Candidates(all)
<1>1. C \subseteq DOMAIN all /\ IsFiniteSet(C) /\ Above(all, b) \subseteq C
  BY CandidatesFinite
<1>2. ASSUME NEW S, IsFiniteSet(S), Cardinality(S) <= 2
      PROVE  C \ S # {}
  <2> SUFFICES ASSUME C \subseteq S PROVE FALSE
    OBVIOUS
  <2>1. Cardinality(Above(all, b)) <= Cardinality(S)
    BY <1>1, <1>2, FS_Subset
  <2> QED
    BY <1>2, <2>1, CandidatesFinite, FS_CardinalityType
<1>3. PICK x \in C : \A y \in C \ {x} : Outranks(all, x, y)
  <2>1. C # {}
    BY <1>2, FS_EmptySet
  <2> QED
    BY <2>1, FirstExists
<1>4. PICK y \in C \ {x} : \A z \in C \ {x, y} : Outranks(all, y, z)
  <2>1. C \ {x} # {}
    <3>1. IsFiniteSet({x}) /\ Cardinality({x}) = 1
      BY FS_Singleton
    <3> QED
      BY <1>2, <3>1
  <2>2. PICK y \in C \ {x} : \A z \in (C \ {x}) \ {y} : Outranks(all, y, z)
    BY <2>1, FirstExists
  <2> QED
    BY <2>2
<1>5. PICK z \in C \ {x, y} : \A w \in C \ {x, y, z} : Outranks(all, z, w)
  <2>1. C \ {x, y} # {}
    <3>1. IsFiniteSet({x, y}) /\ Cardinality({x, y}) = 2
      <4>1. y \notin {x} /\ {x} \cup {y} = {x, y}
        BY <1>4
      <4>2. IsFiniteSet({x}) /\ Cardinality({x}) = 1
        BY FS_Singleton
      <4>3. IsFiniteSet({x} \cup {y}) /\ Cardinality({x} \cup {y}) = 1 + 1
        BY <4>1, <4>2, FS_AddElement
      <4> QED
        BY <4>1, <4>3
    <3> QED
      BY <1>2, <3>1
  <2>2. PICK z \in C \ {x, y} : \A w \in (C \ {x, y}) \ {z} : Outranks(all, z, w)
    BY <2>1, FirstExists
  <2> QED
    BY <2>2
<1>6. /\ Above(all, x) = {} /\ Above(all, y) = {x} /\ Above(all, z) = {x, y}
      /\ \A w \in C \ {x, y, z} : {x, y, z} \subseteq Above(all, w)
  BY <1>1, <1>3, <1>4, <1>5, OutranksOrders DEF Above
<1>7. /\ Cardinality({}) = 0 /\ Cardinality({x}) = 1 /\ Cardinality({x, y}) = 2
      /\ Cardinality({x, y, z}) = 3
  BY <1>4, <1>5, SmallSets
<1>8. \A w \in C \ {x, y, z} : ~(Cardinality(Above(all, w)) < 3)
  <2> TAKE w \in C \ {x, y, z}
  <2>1. Cardinality({x, y, z}) <= Cardinality(Above(all, w))
    BY <1>6, CandidatesFinite, FS_Subset
  <2> QED
    BY <1>7, <2>1, CandidatesFinite
<1>9. TopContainers(all) = {x, y, z}
  <2>1. TopContainers(all) = {n \in C : Cardinality(Above(all, n)) < 3}
    BY DEF TopContainers, Above
  <2> QED
    BY <1>6, <1>7, <1>8, <2>1
<1> QED
  BY <1>7, <1>9

(***************************************************************************)
(* No container is left out that uses more of the CPU and of the memory    *)
(* than one that is listed, and the busiest of each is listed unless three *)
(* others tie with it (_top_containers).                                   *)
(***************************************************************************)
LEMMA MoreOfBothOutranks ==
  ASSUME NEW all, AreContainers(all), NEW n \in DOMAIN all, NEW o \in DOMAIN all,
         Usage(all[o], "cpu") > Usage(all[n], "cpu"),
         Usage(all[o], "mem") > Usage(all[n], "mem")
  PROVE  Outranks(all, o, n)
<1> DEFINE c == Usage(all[n], "cpu")
           d == Usage(all[o], "cpu")
           m == Usage(all[n], "mem")
           k == Usage(all[o], "mem")
           M == Max({1, Busiest(all, "cpu")})
           N == Max({1, Busiest(all, "mem")})
<1>1. c \in Int /\ d \in Int /\ m \in Int /\ k \in Int /\ d > c /\ k > m
  BY UsageType DEF Whats
<1>2. M \in Int /\ M >= 1 /\ N \in Int /\ N >= 1
  <2> DEFINE B == Busiest(all, "cpu")
             C == Busiest(all, "mem")
  <2>1. B \in Int /\ C \in Int /\ 1 \in Int
    BY BusiestIsGreatest DEF Whats
  <2> HIDE DEF B, C
  <2>2. Max({1, B}) \in Int /\ Max({1, B}) >= 1
    BY <2>1, MaxOfTwo
  <2>3. Max({1, C}) \in Int /\ Max({1, C}) >= 1
    BY <2>1, MaxOfTwo
  <2> QED
    BY <2>2, <2>3 DEF B, C
<1>3. Score(all, n) = Max({c * N, m * M}) /\ Score(all, o) = Max({d * N, k * M})
  BY DEF Score
<1> HIDE DEF c, d, m, k, M, N
<1>4. /\ c * N \in Int /\ d * N \in Int /\ m * M \in Int /\ k * M \in Int
      /\ d * N > c * N /\ k * M > m * M
  <2>1. (d - c) * N = d * N - c * N /\ (k - m) * M = k * M - m * M
    BY <1>1, <1>2
  <2>2. (d - c) * N > 0 /\ (k - m) * M > 0
    BY <1>1, <1>2, Products
  <2>3. c * N \in Int /\ d * N \in Int /\ m * M \in Int /\ k * M \in Int
    BY <1>1, <1>2
  <2> QED
    BY <2>1, <2>2, <2>3
<1>5. Score(all, o) > Score(all, n)
  <2>1. /\ Score(all, o) \in Int /\ Score(all, o) >= d * N /\ Score(all, o) >= k * M
        /\ Score(all, n) = c * N \/ Score(all, n) = m * M
    BY <1>3, <1>4, MaxOfTwo, ZenonT(40)
  <2> QED
    BY <1>4, <2>1
<1> QED
  BY <1>5, OutranksUnfolds

LEMMA TopIsNotOutshone ==
  ASSUME NEW all, AreContainers(all), NEW n \in TopContainers(all),
         NEW o \in DOMAIN all \ TopContainers(all),
         Usage(all[o], "cpu") > Usage(all[n], "cpu"),
         Usage(all[o], "mem") > Usage(all[n], "mem")
  PROVE  FALSE
<1>1. /\ TopContainers(all) = {c \in Candidates(all) : Cardinality(Above(all, c)) < 3}
      /\ n \in DOMAIN all /\ o \in DOMAIN all
  BY CandidatesFinite DEF TopContainers, Above
<1>2. o \in Candidates(all)
  BY <1>1, UsageType DEF Candidates, Whats
<1>3. Cardinality(Above(all, o)) <= Cardinality(Above(all, n))
  BY <1>1, MoreOfBothOutranks, AboveShrinks
<1>4. Cardinality(Above(all, o)) < 3
  BY <1>1, <1>3, CandidatesFinite
<1> QED
  BY <1>1, <1>2, <1>4

LEMMA BusiestIsListed ==
  ASSUME NEW all, AreContainers(all), NEW what \in Whats, Busiest(all, what) # 0,
         \A n \in TopContainers(all) : Usage(all[n], what) # Busiest(all, what)
  PROVE  Cardinality({n \in TopContainers(all) :
            \E other \in Whats : Usage(all[n], other) = Busiest(all, other)}) = 3
<1> DEFINE Top == TopContainers(all)
<1>0. Top = {c \in Candidates(all) : Cardinality(Above(all, c)) < 3}
  BY DEF TopContainers, Above
<1>1. PICK b \in DOMAIN all : Usage(all[b], what) = Busiest(all, what)
  BY BusiestIsGreatest
<1>2. Busiest(all, what) > 0
  BY BusiestIsGreatest
<1>3. b \in Candidates(all) /\ Score(all, b) = Full(all)
  <2>1. Usage(all[b], "cpu") > 0 \/ Usage(all[b], "mem") > 0
    BY <1>1, <1>2 DEF Whats
  <2> QED
    BY <1>1, <1>2, <2>1, ScoreBounds DEF Candidates
<1>4. Cardinality(Above(all, b)) >= 3
  BY <1>0, <1>1, <1>3, CandidatesFinite
<1>5. ASSUME NEW n \in Top
      PROVE  \E other \in Whats : Usage(all[n], other) = Busiest(all, other)
  <2>1. n \in DOMAIN all /\ n # b /\ Cardinality(Above(all, n)) < 3
    BY <1>0, <1>1, CandidatesFinite
  <2>2. ~Outranks(all, b, n)
    BY <1>4, <2>1, AboveShrinks, CandidatesFinite
  <2>3. Outranks(all, n, b)
    BY <2>1, <2>2, OutranksOrders
  <2>4. Score(all, n) >= Score(all, b)
    BY <2>1, <2>3, OutranksUnfolds, ScoreBounds
  <2>5. Score(all, n) = Full(all)
    BY <1>3, <2>1, <2>4, ScoreBounds
  <2> QED
    BY <2>1, <2>5, ScoreBounds
<1>6. {n \in Top : \E other \in Whats : Usage(all[n], other) = Busiest(all, other)} = Top
  BY <1>5
<1> QED
  BY <1>4, <1>6, ThreeAreListed

THEOREM BusiestAreListed == Spec => []NoneIsOutshone
<1>1. Results => NoneIsOutshone
  <2> SUFFICES ASSUME Results, Shown("containers")
               PROVE  NoneIsOutshone
    BY DEF NoneIsOutshone
  <2>1. output = TopContainers(input.all) /\ AreContainers(input.all)
    BY InputsAssumption DEF Results, Shown
  <2>2. \A n \in output, o \in DOMAIN input.all \ output :
          ~(/\ Usage(input.all[o], "cpu") > Usage(input.all[n], "cpu")
            /\ Usage(input.all[o], "mem") > Usage(input.all[n], "mem"))
    BY <2>1, TopIsNotOutshone
  <2>3. \A what \in Whats :
          \/ Busiest(input.all, what) = 0
          \/ \E n \in output : Usage(input.all[n], what) = Busiest(input.all, what)
          \/ Cardinality({n \in output :
               \E other \in Whats :
                 Usage(input.all[n], other) = Busiest(input.all, other)}) = 3
    BY <2>1, BusiestIsListed
  <2> QED
    BY <2>2, <2>3 DEF NoneIsOutshone, Whats
<1> QED
  BY <1>1, ResultsInvariant, PTL

-----------------------------------------------------------------------------
(***************************************************************************)
(* The lines of a chart (split_series_points).                             *)
(***************************************************************************)
LEMMA SegmentsCover ==
  ASSUME NEW times \in SUBSET Int, IsFiniteSet(times), NEW interval \in Nat
  PROVE  UNION Segments(times, interval) = times
<1> DEFINE starts == {t \in times : StartsSegment(times, t, interval)}
           segment(s) == {u \in times : u >= s /\ \A r \in starts : r > s => u < r}
<1>1. Segments(times, interval) = {segment(s) : s \in starts}
  BY DEF Segments
<1>2. ASSUME NEW t \in times
      PROVE  \E s \in starts : t \in segment(s)
  <2> DEFINE before == {s \in starts : s <= t}
  <2>1. before \in SUBSET Int /\ IsFiniteSet(before)
    <3>1. before \in SUBSET times
      OBVIOUS
    <3> QED
      BY <3>1, FS_Subset
  <2>2. before # {}
    <3>1. Min(times) \in times /\ \A y \in times : Min(times) <= y
      BY MinFinite
    <3> DEFINE m == Min(times)
    <3> HIDE DEF m
    <3>2. m \in Int /\ t \in Int /\ \A y \in times : y \in Int /\ m <= y
      BY <3>1 DEF m
    <3>3. Previous(times, m) = {}
      <4>1. \A y \in times : ~(y < m)
        BY <3>2
      <4> QED
        BY <4>1 DEF Previous
    <3>4. m \in before
      BY <3>1, <3>2, <3>3 DEF StartsSegment, m
    <3> QED
      BY <3>4
  <2> HIDE DEF before
  <2>3. Max(before) \in before /\ \A y \in before : Max(before) >= y
    BY <2>1, <2>2, MaxFinite
  <2> DEFINE s == Max(before)
  <2> HIDE DEF s
  <2>4. s \in starts /\ s \in Int /\ s <= t /\ t \in Int
    BY <2>1, <2>3 DEF s, before
  <2>5. ASSUME NEW r \in starts, r > s
        PROVE  t < r
    <3> SUFFICES ASSUME ~(t < r) PROVE FALSE
      OBVIOUS
    <3>1. r \in Int /\ r <= t
      BY <2>4
    <3>2. s >= r
      BY <2>3, <3>1 DEF before, s
    <3> QED
      BY <2>4, <2>5, <3>1, <3>2
  <2>6. t \in segment(s)
    BY <2>4, <2>5
  <2> QED
    BY <2>4, <2>6
<1>3. \A s \in starts : segment(s) \subseteq times
  OBVIOUS
<1> HIDE DEF starts, segment
<1> QED
  BY <1>1, <1>2, <1>3

(* Two samples with none in between are on one line unless they are more   *)
(* than one and a half intervals apart.                                    *)
LEMMA LinesBreakAtGaps ==
  ASSUME NEW times \in SUBSET Int, IsFiniteSet(times), NEW interval \in Nat,
         NEW t \in times, NEW u \in times, t < u,
         \A v \in times : v <= t \/ v >= u
  PROVE  Together(Segments(times, interval), t, u) <=> 2 * (u - t) <= 3 * interval
<1> DEFINE starts == {x \in times : StartsSegment(times, x, interval)}
           segment(s) == {x \in times : x >= s /\ \A r \in starts : r > s => x < r}
<1>1. Segments(times, interval) = {segment(s) : s \in starts}
  BY DEF Segments
<1>2. t \in Int /\ u \in Int
  OBVIOUS
<1>3. u \in starts <=> 2 * (u - t) > 3 * interval
  <2> DEFINE P == Previous(times, u)
  <2>1. P \in SUBSET Int /\ P \in SUBSET times /\ t \in P /\ \A v \in P : v <= t
    <3>1. P = {v \in times : v < u}
      BY DEF Previous
    <3> HIDE DEF P
    <3>2. ASSUME NEW v \in P
          PROVE  v <= t
      <4>1. v \in Int /\ v < u /\ (v <= t \/ v >= u)
        BY <3>1
      <4> QED
        BY <1>2, <4>1
    <3> QED
      BY <3>1, <3>2
  <2> HIDE DEF P
  <2>2. IsFiniteSet(P)
    BY <2>1, FS_Subset
  <2>3. Max(P) \in P /\ \A y \in P : Max(P) >= y
    BY <2>1, <2>2, MaxFinite
  <2>4. Max(P) = t
    <3> DEFINE m == Max(P)
    <3> HIDE DEF m
    <3>1. m \in Int /\ m <= t /\ m >= t
      BY <2>1, <2>3 DEF m
    <3> QED
      BY <1>2, <3>1 DEF m
  <2> QED
    BY <2>1, <2>4 DEF StartsSegment, P
<1>4. ASSUME u \notin starts
      PROVE  Together(Segments(times, interval), t, u)
  <2>1. PICK s \in starts : t \in segment(s)
    BY <1>1, SegmentsCover
  <2>2. s \in Int /\ s <= t
    BY <2>1
  <2>3. ASSUME NEW r \in starts, r > s
        PROVE  u < r
    <3>1. t < r /\ r \in Int /\ r # u /\ (r <= t \/ r >= u)
      BY <1>4, <2>1, <2>3
    <3> QED
      BY <1>2, <3>1
  <2>4. u \in segment(s)
    BY <1>2, <2>2, <2>3
  <2> HIDE DEF starts, segment
  <2> QED
    BY <1>1, <2>1, <2>4 DEF Together
<1>5. ASSUME u \in starts, NEW s \in starts, t \in segment(s), u \in segment(s)
      PROVE  FALSE
  <2>1. s <= t /\ s \in Int
    BY <1>5
  <2>2. u > s
    BY <1>2, <2>1
  <2> QED
    BY <1>2, <1>5, <2>2
<1> HIDE DEF starts, segment
<1>6. Together(Segments(times, interval), t, u) => u \notin starts
  BY <1>1, <1>5 DEF Together
<1>7. 2 * (u - t) > 3 * interval <=> ~(2 * (u - t) <= 3 * interval)
  BY <1>2
<1> QED
  BY <1>3, <1>4, <1>6, <1>7

(***************************************************************************)
(* The axis of a chart (_axis_bounds).                                     *)
(***************************************************************************)
LEMMA AxisMaxOfSome ==
  ASSUME NEW unit \in Units, NEW values \in SUBSET Nat, IsFiniteSet(values),
         values # {}
  PROVE  LET max == Max(values)
         IN  /\ max \in Nat /\ \A v \in values : v <= max
             /\ AxisMin(unit, values) \in Int /\ AxisMax(unit, values, 0) \in Int
             /\ \A v \in values : AxisMin(unit, values) <= 100 * v
             /\ unit # "percent" \/ max <= 100 => AxisMax(unit, values, 0) >= 100 * max
<1> DEFINE max == Max(values)
           min == Min(values)
<1>1. max \in values /\ min \in values /\ \A v \in values : v <= max /\ min <= v
  BY MaxFinite, MinFinite
<1>2. max \in Nat /\ min \in Nat
  BY <1>1
<1>3. GreatestOr(values, 1) = max /\ GreatestOr(values, 70) = max
      /\ GreatestOr(values, 1000) = max
  BY ZenonT(40) DEF GreatestOr
<1>4. AxisMin(unit, values) =
        IF unit = "temperature" THEN Max({0, 100 * min - 500}) ELSE 0
  BY DEF AxisMin
<1> HIDE DEF max, min
<1>5. /\ AxisMin(unit, values) \in Int
      /\ AxisMin(unit, values) <= 100 * min \/ AxisMin(unit, values) = 0
  <2> DEFINE low == 100 * min - 500
  <2>1. low \in Int /\ 0 \in Int
    BY <1>2
  <2> HIDE DEF low
  <2>2. Max({0, low}) \in Int /\ (Max({0, low}) = 0 \/ Max({0, low}) = low)
    BY <2>1, MaxOfTwo
  <2> QED
    BY <1>2, <1>4, <2>2 DEF low
<1>6. \A v \in values : AxisMin(unit, values) <= 100 * v
  <2> TAKE v \in values
  <2>1. v \in Nat /\ min <= v
    BY <1>1
  <2> QED
    BY <1>2, <1>5, <2>1
<1>7. /\ AxisMax(unit, values, 0) \in Int
      /\ unit # "percent" \/ max <= 100 => AxisMax(unit, values, 0) >= 100 * max
  <2>0. \A a, b \in Int : /\ Max({a, b}) \in Int
                          /\ Max({a, b}) >= b
    BY MaxOfTwo
  <2>1. CASE unit = "percent"
    <3>1. AxisMax(unit, values, 0) =
            IF max <= 0 \/ max >= 85 THEN 10000 ELSE Max({1000, 115 * max})
      BY <1>2, <1>3, <2>1 DEF AxisMax
    <3>2. Max({1000, 115 * max}) \in Int /\ Max({1000, 115 * max}) >= 115 * max
      BY <1>2, <2>0
    <3> QED
      BY <1>2, <2>1, <3>1, <3>2
  <2>2. CASE unit = "bytes"
    <3>1. AxisMax(unit, values, 0) = Max({100, 110 * max})
      BY <1>3, <2>2 DEF AxisMax
    <3>2. Max({100, 110 * max}) \in Int /\ Max({100, 110 * max}) >= 110 * max
      BY <1>2, <2>0
    <3> QED
      BY <1>2, <3>1, <3>2
  <2>3. CASE unit = "temperature"
    <3>1. AxisMax(unit, values, 0) =
            Max({AxisMin(unit, values) + 1000, 100 * max + 500})
      BY <1>3, <2>3 DEF AxisMax
    <3>2. AxisMax(unit, values, 0) \in Int /\ AxisMax(unit, values, 0) >= 100 * max + 500
      <4>1. AxisMin(unit, values) + 1000 \in Int /\ 100 * max + 500 \in Int
        BY <1>2, <1>5
      <4> QED
        BY <2>0, <3>1, <4>1
    <3> QED
      BY <1>2, <3>2
  <2>4. CASE unit \in {"bytes_per_second", "watts", "rpm", "load"}
    <3>1. PICK a \in {100, 1000, 10000, 20} :
             AxisMax(unit, values, 0) = Max({a, 115 * max})
      <4>1. ASSUME unit = "bytes_per_second"
            PROVE  AxisMax(unit, values, 0) = Max({100, 115 * max})
        BY <1>3, <4>1 DEF AxisMax
      <4>2. ASSUME unit = "watts"
            PROVE  AxisMax(unit, values, 0) = Max({1000, 115 * max})
        BY <1>3, <4>2 DEF AxisMax
      <4>3. ASSUME unit = "rpm"
            PROVE  AxisMax(unit, values, 0) = Max({10000, 115 * max})
        BY <1>3, <4>3 DEF AxisMax
      <4>4. ASSUME unit = "load"
            PROVE  AxisMax(unit, values, 0) = Max({20, 115 * max})
        BY <1>3, <4>4 DEF AxisMax
      <4> QED
        BY <2>4, <4>1, <4>2, <4>3, <4>4
    <3>2. AxisMax(unit, values, 0) \in Int /\ AxisMax(unit, values, 0) >= 115 * max
      <4>1. 115 * max \in Int
        BY <1>2
      <4> QED
        BY <2>0, <3>1, <4>1
    <3> QED
      BY <1>2, <3>2
  <2> QED
    BY <2>1, <2>2, <2>3, <2>4 DEF Units
<1> QED
  BY <1>1, <1>2, <1>5, <1>6, <1>7 DEF max

(***************************************************************************)
(* The containers that are kept (_container_history_cards).                *)
(***************************************************************************)
IsSeries(s) ==
  /\ s = [t \in DOMAIN s |-> s[t]]
  /\ DOMAIN s \subseteq Int /\ IsFiniteSet(DOMAIN s) /\ DOMAIN s # {}
  /\ \A t \in DOMAIN s : s[t] \in Nat

LEMMA PeakIsGreatest ==
  ASSUME NEW s, IsSeries(s)
  PROVE  /\ Range(s) \subseteq Nat /\ IsFiniteSet(Range(s)) /\ Range(s) # {}
         /\ Peak(s) \in Range(s) /\ \A t \in DOMAIN s : s[t] <= Peak(s)
<1>1. Range(s) = {s[t] : t \in DOMAIN s}
  BY DEF Range
<1>2. Range(s) \subseteq Nat /\ IsFiniteSet(Range(s)) /\ Range(s) # {}
  BY <1>1, FiniteValues DEF IsSeries
<1>3. Max(Range(s)) \in Range(s) /\ \A y \in Range(s) : Max(Range(s)) >= y
  BY <1>2, MaxFinite
<1>4. ASSUME NEW t \in DOMAIN s
      PROVE  s[t] <= Peak(s)
  <2>1. s[t] \in Range(s)
    BY <1>1
  <2>2. Max(Range(s)) >= s[t] /\ Max(Range(s)) \in Int /\ s[t] \in Int
    BY <1>2, <1>3, <2>1
  <2> QED
    BY <2>2 DEF Peak
<1> QED
  BY <1>2, <1>3, <1>4 DEF Peak

AreSeries(all) ==
  /\ DOMAIN all \subseteq Int /\ IsFiniteSet(DOMAIN all)
  /\ \A n \in DOMAIN all : IsSeries(all[n])

LEMMA BusiestExists ==
  ASSUME NEW all, AreSeries(all), DOMAIN all # {}
  PROVE  \E n \in DOMAIN all : IsBusiest(all, n)
<1> DEFINE D == DOMAIN all
           peak == [n \in D |-> Peak(all[n])]
           peaks == {peak[n] : n \in DOMAIN peak}
<1>1. \A n \in D : Peak(all[n]) \in Nat
  BY PeakIsGreatest DEF AreSeries
<1>2. IsFiniteSet(peaks) /\ peaks \in SUBSET Int /\ peaks # {}
  <2>1. peak = [n \in DOMAIN peak |-> peak[n]] /\ IsFiniteSet(DOMAIN peak)
    BY DEF AreSeries
  <2>2. peaks \in SUBSET Int /\ peaks # {}
    BY <1>1
  <2> HIDE DEF peak
  <2> QED
    BY <2>1, <2>2, FiniteValues
<1>3. PICK p \in peaks : \A q \in peaks : p >= q
  <2> HIDE DEF peaks
  <2> QED
    BY <1>2, GreatestExists
<1> DEFINE S == {n \in D : Peak(all[n]) = p}
<1>4. S \in SUBSET Int /\ IsFiniteSet(S) /\ S # {}
  <2>1. S \in SUBSET D /\ S # {}
    BY <1>3
  <2> QED
    BY <2>1, FS_Subset DEF AreSeries
<1>5. Min(S) \in S /\ \A y \in S : Min(S) <= y
  <2> HIDE DEF S
  <2> QED
    BY <1>4, MinFinite
<1> DEFINE m == Min(S)
<1> HIDE DEF m
<1>6. m \in D /\ Peak(all[m]) = p /\ \A o \in D : Peak(all[o]) = p => m <= o
  BY <1>5 DEF m
<1>7. ASSUME NEW o \in D
      PROVE  Peak(all[o]) <= Peak(all[m])
  <2>1. Peak(all[o]) \in peaks
    OBVIOUS
  <2>2. p >= Peak(all[o]) /\ Peak(all[o]) \in Int /\ p \in Int
    BY <1>1, <1>3, <1>6, <2>1
  <2> QED
    BY <1>6, <2>2
<1> QED
  BY <1>6, <1>7 DEF IsBusiest

(* Some containers are kept, and those that are not peak below them.       *)
LEMMA HiddenPeakLower ==
  ASSUME NEW all, AreSeries(all), NEW unit \in Units, NEW threshold \in Int
  PROVE  /\ Kept(all, unit, threshold) \subseteq DOMAIN all
         /\ \A o \in DOMAIN all \ Kept(all, unit, threshold) :
              /\ Kept(all, unit, threshold) # {}
              /\ \A n \in Kept(all, unit, threshold) : Peak(all[o]) <= Peak(all[n])
<1> DEFINE values == UNION {Range(all[n]) : n \in DOMAIN all}
           axis == AxisMax(unit, values, 0)
           busy == {n \in DOMAIN all : 10000 * Peak(all[n]) >= axis * threshold}
           K == Kept(all, unit, threshold)
<1>1. \A n \in DOMAIN all : Peak(all[n]) \in Nat
  BY PeakIsGreatest DEF AreSeries
<1>2. K = CASE threshold <= 0 -> DOMAIN all
            [] threshold > 0 /\ busy # {} -> busy
            [] OTHER -> {n \in DOMAIN all : IsBusiest(all, n)}
  BY DEF Kept
<1>3. ASSUME DOMAIN all # {}
      PROVE  axis \in Int
  <2> DEFINE range == [n \in DOMAIN all |-> Range(all[n])]
             ranges == {range[n] : n \in DOMAIN range}
  <2>1. \A n \in DOMAIN all : /\ Range(all[n]) \subseteq Nat /\ IsFiniteSet(Range(all[n]))
                              /\ Range(all[n]) # {}
    BY PeakIsGreatest DEF AreSeries
  <2>2. values = UNION ranges
    OBVIOUS
  <2>3. \A T \in ranges : IsFiniteSet(T) /\ T \subseteq Nat /\ T # {}
    BY <2>1
  <2>4. ranges # {}
    BY <1>3
  <2>5. IsFiniteSet(ranges)
    <3>1. range = [n \in DOMAIN range |-> range[n]] /\ IsFiniteSet(DOMAIN range)
      BY DEF AreSeries
    <3> HIDE DEF range
    <3> QED
      BY <3>1, FiniteValues
  <2> HIDE DEF ranges, values
  <2>6. IsFiniteSet(values) /\ values \in SUBSET Nat /\ values # {}
    BY <2>2, <2>3, <2>4, <2>5, FS_UNION
  <2> QED
    BY <2>6, AxisMaxOfSome
<1>4. K \subseteq DOMAIN all
  BY <1>2
<1>5. ASSUME NEW o \in DOMAIN all \ K
      PROVE  K # {} /\ \A n \in K : Peak(all[o]) <= Peak(all[n])
  <2>1. threshold > 0
    BY <1>2, <1>5
  <2>2. CASE busy # {}
    <3>1. K = busy
      BY <1>2, <2>1, <2>2
    <3>2. ASSUME NEW n \in busy
          PROVE  Peak(all[o]) <= Peak(all[n])
      <4> DEFINE a == Peak(all[o])
                 b == Peak(all[n])
                 c == axis * threshold
      <4>1. a \in Nat /\ b \in Nat
        BY <1>1
      <4>2. c \in Int
        BY <1>3, Products
      <4>3. 10000 * b >= c /\ ~(10000 * a >= c)
        BY <1>5, <3>1
      <4> HIDE DEF a, b, c
      <4>4. a <= b
        BY <4>1, <4>2, <4>3
      <4> QED
        BY <4>4 DEF a, b
    <3> HIDE DEF busy, K
    <3> QED
      BY <2>2, <3>1, <3>2
  <2>3. CASE busy = {}
    <3>1. K = {n \in DOMAIN all : IsBusiest(all, n)}
      BY <1>2, <2>1, <2>3
    <3>2. K # {}
      BY <3>1, BusiestExists
    <3> HIDE DEF K
    <3>3. ASSUME NEW n \in K
          PROVE  Peak(all[o]) <= Peak(all[n])
      BY <3>1 DEF IsBusiest
    <3> QED
      BY <3>2, <3>3
  <2> HIDE DEF busy, K
  <2> QED
    BY <2>2, <2>3
<1> QED
  BY <1>4, <1>5

(***************************************************************************)
(* The window that all cards of an image share (build_history).            *)
(***************************************************************************)
LEMMA WindowHoldsAll ==
  ASSUME NEW end \in Int, NEW duration \in Nat, NEW times \in SUBSET Int,
         IsFiniteSet(times), NEW t \in times
  PROVE  LET w == WindowOf(end, duration, times) IN t \in w.start .. w.end
<1> DEFINE S == {end - duration} \cup times
           T == {end} \cup times
<1>1. IsFiniteSet(S) /\ IsFiniteSet(T)
  <2>1. \A x : IsFiniteSet(times \cup {x})
    BY FS_AddElement
  <2>2. \A x : times \cup {x} = {x} \cup times
    OBVIOUS
  <2> QED
    BY <2>1, <2>2
<1>2. S \in SUBSET Int /\ T \in SUBSET Int /\ t \in S /\ t \in T
  OBVIOUS
<1>3. WindowOf(end, duration, times) = [start |-> Min(S), end |-> Max(T)]
  BY DEF WindowOf
<1> HIDE DEF S, T
<1>4. Min(S) \in Int /\ Min(S) <= t /\ Max(T) \in Int /\ Max(T) >= t
  BY <1>1, <1>2, MinFinite, MaxFinite
<1> QED
  BY <1>3, <1>4

LEMMA HistoryIsFinite ==
  ASSUME NEW h, IsHistory(h)
  PROVE  /\ Times(h.all) \in SUBSET Int /\ IsFiniteSet(Times(h.all))
         /\ \A n \in DOMAIN h.all : DOMAIN Finite(h.all[n]) \subseteq Times(h.all)
<1> DEFINE domain == [n \in DOMAIN h.all |-> DOMAIN h.all[n]]
           domains == {domain[n] : n \in DOMAIN domain}
<1>1. \A n \in DOMAIN h.all : DOMAIN h.all[n] \subseteq Int /\ IsFiniteSet(DOMAIN h.all[n])
  BY DEF IsHistory
<1>2. Times(h.all) = UNION domains
  BY DEF Times
<1>3. \A T \in domains : IsFiniteSet(T) /\ T \subseteq Int
  BY <1>1
<1>4. IsFiniteSet(domains)
  <2>1. domain = [n \in DOMAIN domain |-> domain[n]] /\ IsFiniteSet(DOMAIN domain)
    BY DEF IsHistory
  <2> HIDE DEF domain
  <2> QED
    BY <2>1, FiniteValues
<1>5. \A n \in DOMAIN h.all : DOMAIN Finite(h.all[n]) \subseteq Times(h.all)
  BY DEF Times, Finite, Restrict
<1> HIDE DEF domains
<1>6. Times(h.all) \in SUBSET Int
  BY <1>2, <1>3
<1> QED
  BY <1>2, <1>3, <1>4, <1>5, <1>6, FS_UNION

LEMMA FiniteIsSeries ==
  ASSUME NEW h, IsHistory(h), NEW n \in DOMAIN h.all, DOMAIN Finite(h.all[n]) # {}
  PROVE  /\ IsSeries(Finite(h.all[n]))
         /\ h.unit = "percent" =>
              \A t \in DOMAIN Finite(h.all[n]) : Finite(h.all[n])[t] <= 100
<1> DEFINE s == h.all[n]
           times == {t \in DOMAIN s : s[t] # Absent}
<1>1. Finite(s) = [t \in times |-> s[t]]
  BY DEF Finite, Restrict
<1>2. DOMAIN s \subseteq Int /\ IsFiniteSet(DOMAIN s)
      /\ \A t \in DOMAIN s : s[t] \in Maybe /\ (h.unit = "percent" => s[t] <= 100)
  BY DEF IsHistory
<1>3. times \subseteq Int /\ IsFiniteSet(times)
  <2>1. times \in SUBSET (DOMAIN s)
    OBVIOUS
  <2> QED
    BY <1>2, <2>1, FS_Subset
<1>4. \A t \in times : s[t] \in Nat
  BY <1>2 DEF Maybe, None, Absent
<1> QED
  BY <1>1, <1>2, <1>3, <1>4 DEF IsSeries

LEMMA CardShowsEverySample ==
  ASSUME NEW h, IsHistory(h)
  PROVE  LET c == HistoryCard(h)
             all == {n \in DOMAIN h.all : DOMAIN Finite(h.all[n]) # {}}
         IN  /\ Cardinality(DOMAIN c.series) + c.extra = Cardinality(all)
             /\ \A n \in DOMAIN c.series :
                  LET times == DOMAIN c.series[n]
                  IN  /\ UNION c.segments[n] = times
                      /\ \A t, u \in times :
                           t < u /\ (\A v \in times : v <= t \/ v >= u) =>
                             (Together(c.segments[n], t, u)
                                <=> 2 * (u - t) <= 3 * h.interval)
                      /\ \A t \in times :
                           /\ t \in c.window.start .. c.window.end
                           /\ 100 * c.series[n][t] \in c.min .. c.max
             /\ \A o \in DOMAIN h.all \ DOMAIN c.series :
                  LET hidden == Finite(h.all[o])
                  IN  DOMAIN hidden # {} =>
                        /\ DOMAIN c.series # {}
                        /\ \A n \in DOMAIN c.series : Peak(hidden) <= Peak(c.series[n])
<1> DEFINE c == HistoryCard(h)
           all == {n \in DOMAIN h.all : DOMAIN Finite(h.all[n]) # {}}
           series == [n \in all |-> Finite(h.all[n])]
           kept == Kept(series, h.unit, h.threshold)
           range == [n \in kept |-> Range(series[n])]
           values == UNION {Range(series[n]) : n \in kept}
           window == WindowOf(h.end, h.duration, Times(h.all))
<1>1. /\ c.series = [n \in kept |-> series[n]]
      /\ c.extra = Cardinality(all \ kept)
      /\ c.segments = [n \in kept |-> Segments(DOMAIN series[n], h.interval)]
      /\ c.window = window
      /\ c.min = AxisMin(h.unit, values) /\ c.max = AxisMax(h.unit, values, 0)
  BY DEF HistoryCard, Restrict
<1>2. /\ all \subseteq DOMAIN h.all /\ DOMAIN h.all \subseteq Int /\ IsFiniteSet(all)
      /\ h.unit \in Units /\ h.threshold \in Int /\ h.interval \in Nat
      /\ h.end \in Int /\ h.duration \in Nat
  <2>1. IsFiniteSet(DOMAIN h.all) /\ all \in SUBSET DOMAIN h.all
    BY DEF IsHistory
  <2>2. IsFiniteSet(all)
    BY <2>1, FS_Subset
  <2> QED
    BY <2>1, <2>2 DEF IsHistory
<1>3. \A n \in all : /\ series[n] = Finite(h.all[n]) /\ IsSeries(series[n])
                     /\ DOMAIN series[n] \subseteq Times(h.all)
                     /\ h.unit = "percent" => \A t \in DOMAIN series[n] : series[n][t] <= 100
  BY FiniteIsSeries, HistoryIsFinite
<1>4. AreSeries(series) /\ DOMAIN series = all
  BY <1>2, <1>3 DEF AreSeries
<1>5. /\ kept \subseteq all
      /\ \A o \in all \ kept :
           kept # {} /\ \A n \in kept : Peak(series[o]) <= Peak(series[n])
  <2> HIDE DEF series, all
  <2> QED
    BY <1>2, <1>4, HiddenPeakLower
<1> HIDE DEF all, series, kept
<1>6. Cardinality(DOMAIN c.series) + c.extra = Cardinality(all)
  <2>1. DOMAIN c.series = kept
    BY <1>1
  <2>2. all \cap kept = kept
    BY <1>5
  <2>3. Cardinality(all \ kept) = Cardinality(all) - Cardinality(kept)
    BY <1>2, <2>2, FS_Difference
  <2>4. Cardinality(all) \in Nat /\ Cardinality(kept) \in Nat
    BY <1>2, <1>5, FS_Subset, FS_CardinalityType
  <2> QED
    BY <1>1, <2>1, <2>3, <2>4
<1>7. ASSUME NEW n \in kept
      PROVE  /\ UNION Segments(DOMAIN series[n], h.interval) = DOMAIN series[n]
             /\ \A t, u \in DOMAIN series[n] :
                  t < u /\ (\A v \in DOMAIN series[n] : v <= t \/ v >= u) =>
                    (Together(Segments(DOMAIN series[n], h.interval), t, u)
                       <=> 2 * (u - t) <= 3 * h.interval)
             /\ \A t \in DOMAIN series[n] :
                  /\ t \in window.start .. window.end
                  /\ 100 * series[n][t] \in AxisMin(h.unit, values) .. AxisMax(h.unit, values, 0)
  <2> DEFINE times == DOMAIN series[n]
  <2>1. /\ IsSeries(series[n]) /\ times \in SUBSET Int /\ IsFiniteSet(times)
        /\ times \subseteq Times(h.all)
    BY <1>3, <1>5 DEF IsSeries
  <2>2. UNION Segments(times, h.interval) = times
    BY <1>2, <2>1, SegmentsCover
  <2>3. \A t, u \in times :
          t < u /\ (\A v \in times : v <= t \/ v >= u) =>
            (Together(Segments(times, h.interval), t, u) <=> 2 * (u - t) <= 3 * h.interval)
    BY <1>2, <2>1, LinesBreakAtGaps
  <2>4. \A t \in times : t \in window.start .. window.end
    BY <1>2, <2>1, HistoryIsFinite, WindowHoldsAll
  <2>5. /\ values \in SUBSET Nat /\ IsFiniteSet(values)
        /\ h.unit = "percent" => \A v \in values : v <= 100
        /\ \A t \in times : series[n][t] \in values
    <3>1. \A m \in kept : Range(series[m]) \subseteq Nat /\ IsFiniteSet(Range(series[m]))
      BY <1>3, <1>5, PeakIsGreatest
    <3> DEFINE ranges == {range[m] : m \in DOMAIN range}
    <3>2. values = UNION ranges /\ \A T \in ranges : T \subseteq Nat /\ IsFiniteSet(T)
      BY <3>1
    <3>3. IsFiniteSet(ranges)
      <4>1. range = [m \in DOMAIN range |-> range[m]] /\ IsFiniteSet(DOMAIN range)
        BY <1>2, <1>5, FS_Subset
      <4> HIDE DEF range
      <4> QED
        BY <4>1, FiniteValues
    <3>4. h.unit = "percent" => \A v \in values : v <= 100
      BY <1>3, <1>5 DEF Range
    <3>5. \A t \in times : series[n][t] \in values
      BY DEF Range
    <3> HIDE DEF values, ranges
    <3>6. IsFiniteSet(values) /\ values \subseteq Nat
      BY <3>2, <3>3, FS_UNION
    <3> QED
      BY <3>4, <3>5, <3>6
  <2>6. ASSUME NEW t \in times
        PROVE  100 * series[n][t] \in AxisMin(h.unit, values) .. AxisMax(h.unit, values, 0)
    <3> DEFINE v == series[n][t]
               max == Max(values)
    <3>1. v \in values /\ values # {}
      BY <2>5
    <3> HIDE DEF v, values
    <3>2. /\ max \in Nat /\ \A w \in values : w <= max
          /\ AxisMin(h.unit, values) \in Int /\ AxisMax(h.unit, values, 0) \in Int
          /\ \A w \in values : AxisMin(h.unit, values) <= 100 * w
          /\ h.unit # "percent" \/ max <= 100 => AxisMax(h.unit, values, 0) >= 100 * max
      BY <1>2, <2>5, <3>1, AxisMaxOfSome
    <3>3. h.unit = "percent" => max <= 100
      <4>1. values \in SUBSET Int
        BY <2>5
      <4>2. max \in values
        BY <2>5, <3>1, <4>1, MaxFinite
      <4> QED
        BY <2>5, <4>2
    <3>4. v \in Nat /\ v <= max /\ AxisMin(h.unit, values) <= 100 * v
      BY <2>5, <3>1, <3>2
    <3>5. 100 * v \in AxisMin(h.unit, values) .. AxisMax(h.unit, values, 0)
      BY <3>2, <3>3, <3>4
    <3> QED
      BY <3>5 DEF v
  <2> QED
    BY <2>2, <2>3, <2>4, <2>6
<1>8. ASSUME NEW o \in DOMAIN h.all \ DOMAIN c.series, DOMAIN Finite(h.all[o]) # {}
      PROVE  /\ DOMAIN c.series # {}
             /\ \A n \in DOMAIN c.series : Peak(Finite(h.all[o])) <= Peak(c.series[n])
  <2>1. DOMAIN c.series = kept /\ \A n \in kept : c.series[n] = series[n]
    BY <1>1
  <2>2. o \in all \ kept /\ series[o] = Finite(h.all[o])
    BY <1>3, <1>8, <2>1 DEF all
  <2> QED
    BY <1>5, <2>1, <2>2
<1> HIDE DEF values, window
<1>9. ASSUME NEW n \in DOMAIN c.series
      PROVE  LET times == DOMAIN c.series[n]
             IN  /\ UNION c.segments[n] = times
                 /\ \A t, u \in times :
                      t < u /\ (\A v \in times : v <= t \/ v >= u) =>
                        (Together(c.segments[n], t, u)
                           <=> 2 * (u - t) <= 3 * h.interval)
                 /\ \A t \in times :
                      /\ t \in c.window.start .. c.window.end
                      /\ 100 * c.series[n][t] \in c.min .. c.max
  <2>1. /\ n \in kept /\ c.series[n] = series[n]
        /\ c.segments[n] = Segments(DOMAIN series[n], h.interval)
    BY <1>1
  <2> HIDE DEF c
  <2> QED
    BY <1>1, <1>7, <2>1
<1> HIDE DEF c
<1> QED
  BY <1>6, <1>8, <1>9 DEF c, all

(***************************************************************************)
(* Amounts against the total (_capacity_history).                          *)
(***************************************************************************)
LEMMA CapacityIsGreatest ==
  ASSUME NEW samples, AreAmounts(samples)
  PROVE  /\ Capacity(samples) \in Nat
         /\ \A t \in DOMAIN samples : samples[t].total <= Capacity(samples)
<1> DEFINE total == [t \in DOMAIN samples |-> samples[t].total]
           totals == {samples[t].total : t \in DOMAIN samples}
           S == {0} \cup totals
<1>1. \A t \in DOMAIN samples : samples[t].total \in Int
  BY DEF AreAmounts, Maybe, None
<1>2. IsFiniteSet(totals)
  <2>1. totals = {total[t] : t \in DOMAIN total} /\ IsFiniteSet(DOMAIN total)
    BY DEF AreAmounts
  <2> HIDE DEF totals
  <2> QED
    BY <2>1, FiniteValues
<1>3. IsFiniteSet(S) /\ S \in SUBSET Int /\ S # {}
  <2>1. IsFiniteSet(totals \cup {0})
    <3> HIDE DEF totals
    <3> QED
      BY <1>2, FS_AddElement
  <2>2. S = totals \cup {0} /\ \A x \in totals : x \in Int
    BY <1>1
  <2> HIDE DEF totals, S
  <2> QED
    BY <2>1, <2>2
<1>4. Capacity(samples) = Max(S) /\ 0 \in S
      /\ \A t \in DOMAIN samples : samples[t].total \in S
  BY DEF Capacity
<1> HIDE DEF S
<1>5. Max(S) \in S /\ \A y \in S : Max(S) >= y
  BY <1>3, MaxFinite
<1> DEFINE c == Max(S)
<1> HIDE DEF c
<1>6. c \in Int /\ c >= 0
  BY <1>3, <1>4, <1>5 DEF c
<1>7. \A t \in DOMAIN samples : samples[t].total <= c
  <2> TAKE t \in DOMAIN samples
  <2>1. c >= samples[t].total
    BY <1>4, <1>5 DEF c
  <2> QED
    BY <1>1, <1>6, <2>1
<1> QED
  BY <1>4, <1>6, <1>7 DEF c

LEMMA MinOfTwo ==
  ASSUME NEW a \in Int, NEW b \in Int
  PROVE  /\ Min({a, b}) <= a /\ Min({a, b}) <= b
         /\ Min({a, b}) = a \/ Min({a, b}) = b
<1>1. IsFiniteSet({a, b})
  <2>1. IsFiniteSet({a} \cup {b})
    BY FS_Singleton, FS_AddElement
  <2>2. {a} \cup {b} = {a, b}
    OBVIOUS
  <2> QED
    BY <2>1, <2>2
<1> QED
  BY <1>1, MinFinite

LEMMA AmountsFit ==
  ASSUME NEW samples, AreAmounts(samples),
         NEW t \in DOMAIN CapacityCard(samples).amounts
  PROVE  CapacityCard(samples).amounts[t] \in 0 .. CapacityCard(samples).max
<1> DEFINE capacity == Capacity(samples)
           percentages == {samples[u].percent : u \in DOMAIN samples} \ {Absent}
           s == samples[t]
           amount == Amount(samples, t)
           max == AxisMax(IF capacity > 0 THEN "bytes" ELSE "percent",
                          percentages, capacity)
<1>1. /\ t \in DOMAIN samples /\ amount # Absent
      /\ CapacityCard(samples).amounts[t] = amount
      /\ CapacityCard(samples).max = max
  BY DEF CapacityCard, Finite, Restrict
<1>2. /\ s.used \in Nat \cup {-1} /\ s.total \in Nat \cup {-1}
      /\ s.percent \in 0 .. 100 \cup {-1} /\ Absent = -1
  BY <1>1 DEF AreAmounts, Maybe, None, Absent
<1>3. capacity \in Nat /\ s.total <= capacity
  BY <1>1, CapacityIsGreatest
<1>4. percentages \in SUBSET 0 .. 100 /\ IsFiniteSet(percentages)
  <2> DEFINE percent == [u \in DOMAIN samples |-> samples[u].percent]
             all == {percent[u] : u \in DOMAIN percent}
  <2>1. percent = [u \in DOMAIN percent |-> percent[u]] /\ IsFiniteSet(DOMAIN percent)
    BY DEF AreAmounts
  <2>2. percentages = all \ {Absent}
    OBVIOUS
  <2>3. percentages \in SUBSET 0 .. 100
    BY DEF AreAmounts, None, Absent
  <2>4. IsFiniteSet(all)
    <3> HIDE DEF percent
    <3> QED
      BY <2>1, FiniteValues
  <2> HIDE DEF all, percentages
  <2>5. IsFiniteSet(all \ {Absent})
    BY <2>4, FS_Difference
  <2> QED
    BY <2>2, <2>3, <2>5
<1>5. CASE capacity = 0
  <2>1. amount = 100 * s.percent /\ s.percent \in percentages
    BY <1>1, <1>5 DEF Amount
  <2>2. s.percent \in 0 .. 100
    BY <1>4, <2>1
  <2> DEFINE m == Max(percentages)
  <2>3. percentages \in SUBSET Int /\ percentages # {}
    <3> HIDE DEF percentages
    <3> QED
      BY <1>4, <2>1
  <2> HIDE DEF percentages
  <2>4. m \in percentages /\ \A p \in percentages : m >= p
    BY <1>4, <2>3, MaxFinite
  <2>5. max = IF m <= 0 \/ m >= 85 THEN 10000 ELSE Max({1000, 115 * m})
    <3>1. max = AxisMax("percent", percentages, 0)
      BY <1>5
    <3>2. GreatestOr(percentages, 1) = m
      BY <2>3 DEF GreatestOr
    <3>3. m \in Int
      BY <2>3, <2>4
    <3> HIDE DEF m
    <3>4. AxisMax("percent", percentages, 0) =
            IF m <= 0 \/ m >= 85 THEN 10000 ELSE Max({1000, 115 * m})
      BY <2>3, <3>2, <3>3 DEF AxisMax
    <3> HIDE DEF max
    <3> QED
      BY <3>1, <3>4
  <2> HIDE DEF m, max, s, amount, capacity
  <2>6. m \in 0 .. 100 /\ s.percent <= m
    BY <1>4, <2>1, <2>2, <2>4
  <2>7. 115 * m \in Int /\ 1000 \in Int
    BY <2>6
  <2>8. Max({1000, 115 * m}) \in Int /\ Max({1000, 115 * m}) >= 115 * m
    BY <2>7, MaxOfTwo
  <2>9. amount \in 0 .. max
    BY <2>1, <2>2, <2>5, <2>6, <2>8
  <2> QED
    BY <1>1, <2>9
<1>6. CASE capacity > 0
  <2> DEFINE total == IF s.total > 0 THEN s.total ELSE capacity
  <2>1. total \in Nat /\ total <= capacity
    BY <1>2, <1>3
  <2>2. \/ s.used # Absent /\ amount = Min({100 * s.used, 100 * total})
        \/ s.percent # Absent /\ amount = Min({s.percent * total, 100 * total})
    BY <1>1, <1>3, <1>6 DEF Amount
  <2>3. max = Max({100, 100 * capacity})
    BY <1>6 DEF AxisMax
  <2> HIDE DEF max, amount, capacity, total, s
  <2>4. max \in Int /\ max >= 100 * capacity
    <3>1. 100 * capacity \in Int /\ 100 \in Int
      BY <1>3
    <3> QED
      BY <2>3, <3>1, MaxOfTwo
  <2>5. \E a \in Nat : amount = Min({a, 100 * total})
    <3>1. s.used # Absent => 100 * s.used \in Nat
      BY <1>2
    <3>2. s.percent # Absent => s.percent * total \in Nat
      BY <1>2, <2>1
    <3> QED
      BY <2>2, <3>1, <3>2
  <2>6. PICK a \in Nat : amount = Min({a, 100 * total})
    BY <2>5
  <2> DEFINE b == 100 * total
  <2>7. b \in Nat /\ b <= 100 * capacity /\ a \in Int /\ b \in Int
    BY <1>3, <2>1
  <2> HIDE DEF b
  <2>8. Min({a, b}) <= b /\ (Min({a, b}) = a \/ Min({a, b}) = b)
    BY <2>7, MinOfTwo
  <2>9. amount = Min({a, b})
    BY <2>6 DEF b
  <2>10. amount \in 0 .. max
    BY <1>3, <2>4, <2>7, <2>8, <2>9
  <2> QED
    BY <1>1, <2>10
<1> QED
  BY <1>3, <1>5, <1>6

(***************************************************************************)
(* A chart shows every sample it has: in its window, on its axis, on a     *)
(* line that breaks at gaps and only there; containers that are left out   *)
(* are counted and peak below those that are shown.                        *)
(***************************************************************************)
THEOREM ChartsAreComplete == Spec => []ChartsShowEverySample
<1>1. Results => ChartsShowEverySample
  <2> SUFFICES ASSUME Results
               PROVE  ChartsShowEverySample
    OBVIOUS
  <2>1. ASSUME Shown("history")
        PROVE  output = HistoryCard(input) /\ IsHistory(input)
    BY <2>1, InputsAssumption DEF Results, Shown
  <2>2. ASSUME Shown("capacity"), NEW t \in DOMAIN output.amounts
        PROVE  output.amounts[t] \in 0 .. output.max
    <3>1. output = CapacityCard(input.samples) /\ AreAmounts(input.samples)
      BY <2>2, InputsAssumption DEF Results, Shown
    <3> QED
      BY <2>2, <3>1, AmountsFit
  <2> QED
    BY <2>1, <2>2, CardShowsEverySample DEF ChartsShowEverySample
<1> QED
  BY <1>1, ResultsInvariant, PTL

-----------------------------------------------------------------------------
(***************************************************************************)
(* What is left out of a prompt (_fit_payload).                            *)
(***************************************************************************)
LEMMA CutNumber ==
  ASSUME NEW a \in Nat, NEW b \in Nat
  PROVE  Cut(a, b) \in Nat /\ (a <= b => Cut(a, b) = a)
<1>1. Min({a, b}) <= a /\ Min({a, b}) <= b /\ (Min({a, b}) = a \/ Min({a, b}) = b)
  BY MinOfTwo
<1> QED
  BY <1>1 DEF Cut

LEMMA CutIsLess ==
  ASSUME NEW a \in Nat, NEW b \in Nat
  PROVE  Cut(a, b) <= a
<1>1. Min({a, b}) <= a
  BY MinOfTwo
<1> QED
  BY <1>1 DEF Cut

LEMMA CutNamesType ==
  ASSUME NEW seq \in Seq(Nat), NEW limit \in Nat
  PROVE  /\ CutNames(seq, limit) \in Seq(Nat)
         /\ (\A i \in DOMAIN seq : seq[i] <= limit) => CutNames(seq, limit) = seq
<1>1. Len(seq) \in Nat /\ DOMAIN seq = 1 .. Len(seq) /\ \A i \in DOMAIN seq : seq[i] \in Nat
  OBVIOUS
<1>2. \A i \in DOMAIN seq : /\ Cut(seq[i], limit) \in Nat
                            /\ seq[i] <= limit => Cut(seq[i], limit) = seq[i]
  BY <1>1, CutNumber
<1>3. CutNames(seq, limit) \in Seq(Nat)
  BY <1>1, <1>2 DEF CutNames
<1>4. seq = [i \in DOMAIN seq |-> seq[i]]
  OBVIOUS
<1> QED
  BY <1>2, <1>3, <1>4 DEF CutNames

LEMMA CutEntriesType ==
  ASSUME NEW seq \in Seq(Entry), NEW limit \in Nat
  PROVE  /\ CutEntries(seq, limit) \in Seq(Entry)
         /\ Len(CutEntries(seq, limit)) = Len(seq)
         /\ (\A i \in DOMAIN seq : seq[i].name <= limit) => CutEntries(seq, limit) = seq
<1>1. Len(seq) \in Nat /\ DOMAIN seq = 1 .. Len(seq) /\ \A i \in DOMAIN seq : seq[i] \in Entry
  OBVIOUS
<1>2. ASSUME NEW e \in Entry
      PROVE  /\ [e EXCEPT !.name = Cut(@, limit)] \in Entry
             /\ e.name <= limit => [e EXCEPT !.name = Cut(@, limit)] = e
  <2> DEFINE name == Cut(e.name, limit)
  <2>1. e.name \in Nat
    BY DEF Entry
  <2>2. name \in Nat /\ (e.name <= limit => name = e.name)
    BY <2>1, CutNumber
  <2> HIDE DEF name
  <2>3. [e EXCEPT !.name = name] \in Entry /\ (name = e.name => [e EXCEPT !.name = name] = e)
    BY <2>2 DEF Entry
  <2> QED
    BY <2>2, <2>3 DEF name
<1>3. CutEntries(seq, limit) = [i \in 1 .. Len(seq) |-> [seq[i] EXCEPT !.name = Cut(@, limit)]]
  BY <1>1 DEF CutEntries
<1>4. CutEntries(seq, limit) \in Seq(Entry) /\ Len(CutEntries(seq, limit)) = Len(seq)
  BY <1>1, <1>2, <1>3
<1>5. seq = [i \in 1 .. Len(seq) |-> seq[i]]
  OBVIOUS
<1> QED
  BY <1>1, <1>2, <1>3, <1>4, <1>5

LEMMA CutMoreType ==
  ASSUME NEW seq \in Seq(Entry), NEW limit \in Nat
  PROVE  /\ CutMore(seq, limit) \in Seq(Entry)
         /\ DOMAIN CutMore(seq, limit) = DOMAIN seq
         /\ \A i \in DOMAIN seq : CutMore(seq, limit)[i].name = seq[i].name
<1>1. Len(seq) \in Nat /\ DOMAIN seq = 1 .. Len(seq) /\ \A i \in DOMAIN seq : seq[i] \in Entry
  OBVIOUS
<1>2. ASSUME NEW e \in Entry
      PROVE  /\ [e EXCEPT !.more = Cut(@, limit)] \in Entry
             /\ [e EXCEPT !.more = Cut(@, limit)].name = e.name
  <2> DEFINE more == Cut(e.more, limit)
  <2>1. e.more \in Nat
    BY DEF Entry
  <2>2. more \in Nat
    BY <2>1, CutNumber
  <2> HIDE DEF more
  <2>3. [e EXCEPT !.more = more] \in Entry /\ [e EXCEPT !.more = more].name = e.name
    BY <2>2 DEF Entry
  <2> QED
    BY <2>3 DEF more
<1>3. CutMore(seq, limit) = [i \in 1 .. Len(seq) |-> [seq[i] EXCEPT !.more = Cut(@, limit)]]
  BY <1>1 DEF CutMore
<1>4. CutMore(seq, limit) \in Seq(Entry)
  BY <1>1, <1>2, <1>3
<1>5. \A i \in 1 .. Len(seq) : CutMore(seq, limit)[i].name = seq[i].name
  <2> TAKE i \in 1 .. Len(seq)
  <2>1. CutMore(seq, limit)[i] = [seq[i] EXCEPT !.more = Cut(@, limit)]
    BY <1>3
  <2> QED
    BY <1>1, <1>2, <2>1
<1> QED
  BY <1>1, <1>3, <1>4, <1>5

LEMMA FirstOfType ==
  ASSUME NEW S, NEW seq \in Seq(S), NEW n \in Nat
  PROVE  FirstOf(seq, n) \in Seq(S)
<1>1. Len(seq) \in Nat
  OBVIOUS
<1>2. Cut(Len(seq), n) \in Nat /\ Cut(Len(seq), n) <= Len(seq)
  BY <1>1, CutNumber, CutIsLess
<1> QED
  BY <1>2 DEF FirstOf

(* The limits that nobody is told of touch no title, message or name of    *)
(* the node or of a container.                                             *)
LEMMA CappedTexts ==
  ASSUME NEW texts \in PromptTexts
  PROVE  LET t == Capped(texts)
         IN  /\ t \in PromptTexts
             /\ t.title = texts.title /\ t.message = texts.message /\ t.node = texts.node
             /\ DOMAIN t.containers = DOMAIN texts.containers
             /\ \A i \in DOMAIN t.containers : t.containers[i].name = texts.containers[i].name
             /\ t.unhealthy = FirstOf(texts.unhealthy, 5)
             /\ t.failed_names = FirstOf(texts.failed_names, 5)
<1> DEFINE hottest == [texts.metrics["temp_max_c"] EXCEPT !.name = Cut(@, 32)]
           os == Cut(texts.os, 32)
           metrics == [texts.metrics EXCEPT !["temp_max_c"] = hottest]
           disks == CutEntries(FirstOf(texts.extra_disks, 3), 32)
           containers == CutMore(texts.containers, 40)
           unhealthy == FirstOf(texts.unhealthy, 5)
           failed == FirstOf(texts.failed_names, 5)
           smart == CutMore(CutEntries(FirstOf(texts.smart_failed, 3), 32), 48)
<1>1. /\ texts.os \in Nat /\ texts.metrics \in [Range(Droppable) -> Entry]
      /\ texts.extra_disks \in Seq(Entry) /\ texts.containers \in Seq(Entry)
      /\ texts.smart_failed \in Seq(Entry)
      /\ texts.unhealthy \in Seq(Nat) /\ texts.failed_names \in Seq(Nat)
  BY DEF PromptTexts
<1>2. os \in Nat
  <2>1. 32 \in Nat
    OBVIOUS
  <2> QED
    BY <1>1, <2>1, CutNumber
<1>3. metrics \in [Range(Droppable) -> Entry]
  <2>1. "temp_max_c" \in Range(Droppable)
    BY DEF Droppable, Range
  <2>2. texts.metrics["temp_max_c"] \in Entry
    BY <1>1, <2>1
  <2>3. \A e \in Entry : [e EXCEPT !.name = Cut(@, 32)] \in Entry
    <3>1. \A a \in Nat : Cut(a, 32) \in Nat
      BY CutNumber
    <3> QED
      BY <3>1 DEF Entry
  <2>4. hottest \in Entry
    BY <2>2, <2>3
  <2> HIDE DEF hottest
  <2> QED
    BY <1>1, <2>1, <2>4
<1>4. disks \in Seq(Entry)
  <2>1. FirstOf(texts.extra_disks, 3) \in Seq(Entry) /\ 32 \in Nat
    BY <1>1, FirstOfType
  <2> QED
    BY <2>1, CutEntriesType
<1>5. /\ containers \in Seq(Entry) /\ DOMAIN containers = DOMAIN texts.containers
      /\ \A i \in DOMAIN containers : containers[i].name = texts.containers[i].name
  <2>1. 40 \in Nat /\ texts.containers \in Seq(Entry)
    BY <1>1
  <2>2. /\ containers \in Seq(Entry) /\ DOMAIN containers = DOMAIN texts.containers
        /\ \A i \in DOMAIN texts.containers :
             containers[i].name = texts.containers[i].name
    BY <2>1, CutMoreType, ZenonT(60)
  <2> QED
    BY <2>2
<1>6. unhealthy \in Seq(Nat) /\ failed \in Seq(Nat)
  <2>1. 5 \in Nat
    OBVIOUS
  <2> QED
    BY <1>1, <2>1, FirstOfType
<1>7. smart \in Seq(Entry)
  <2>1. FirstOf(texts.smart_failed, 3) \in Seq(Entry) /\ 32 \in Nat /\ 48 \in Nat
    BY <1>1, FirstOfType
  <2>2. CutEntries(FirstOf(texts.smart_failed, 3), 32) \in Seq(Entry)
    BY <2>1, CutEntriesType
  <2> QED
    BY <2>1, <2>2, CutMoreType
<1>8. Capped(texts) =
        [texts EXCEPT !.os = os, !.metrics = metrics, !.extra_disks = disks,
                      !.containers = containers, !.unhealthy = unhealthy,
                      !.failed_names = failed, !.smart_failed = smart]
  <2> HIDE DEF os, disks, containers, unhealthy, failed, smart
  <2>1. [texts EXCEPT !.metrics["temp_max_c"].name = Cut(@, 32)] = [texts EXCEPT !.metrics = metrics]
    BY <1>1 DEF PromptTexts
  <2> QED
    BY <1>1, <2>1 DEF Capped, PromptTexts, os, disks, containers, unhealthy, failed, smart
<1> HIDE DEF os, metrics, disks, containers, unhealthy, failed, smart
<1>9. /\ Capped(texts) \in PromptTexts
      /\ Capped(texts).title = texts.title /\ Capped(texts).message = texts.message
      /\ Capped(texts).node = texts.node /\ Capped(texts).containers = containers
      /\ Capped(texts).unhealthy = unhealthy /\ Capped(texts).failed_names = failed
  BY <1>2, <1>3, <1>4, <1>5, <1>6, <1>7, <1>8, ZenonT(40) DEF PromptTexts
<1> QED
  BY <1>5, <1>9 DEF unhealthy, failed

LEMMA SameTexts ==
  ASSUME NEW p \in PromptTexts
  PROVE  [p EXCEPT !.title = p.title, !.message = p.message, !.node = p.node,
                   !.containers = p.containers,
                   !.unhealthy = p.unhealthy, !.failed_names = p.failed_names] = p
BY DEF PromptTexts

(* A prompt that is not marked has had no other limit applied to it.       *)
LEMMA LimitedTexts ==
  ASSUME NEW texts \in PromptTexts
  PROVE  /\ Limited(texts) \in PromptTexts
         /\ ~InitiallyTruncated(texts) => Limited(texts) = Capped(texts)
<1> DEFINE t == Capped(texts)
<1>0. /\ t \in PromptTexts
      /\ t.title = texts.title /\ t.message = texts.message /\ t.node = texts.node
      /\ DOMAIN t.containers = DOMAIN texts.containers
      /\ \A i \in DOMAIN t.containers : t.containers[i].name = texts.containers[i].name
      /\ t.unhealthy = FirstOf(texts.unhealthy, 5)
      /\ t.failed_names = FirstOf(texts.failed_names, 5)
  BY CappedTexts
<1>1. Limited(texts) =
        [t EXCEPT !.title = Cut(t.title, 80), !.message = Cut(t.message, 240),
                  !.node = Cut(t.node, 64),
                  !.containers = CutEntries(t.containers, 64),
                  !.unhealthy = CutNames(t.unhealthy, 64),
                  !.failed_names = CutNames(t.failed_names, 64)]
  BY DEF Limited
<1> HIDE DEF t
<1>2. /\ t.title \in Nat /\ t.message \in Nat /\ t.node \in Nat
      /\ t.containers \in Seq(Entry)
      /\ t.unhealthy \in Seq(Nat) /\ t.failed_names \in Seq(Nat)
  BY <1>0 DEF PromptTexts
<1>3. /\ Cut(t.title, 80) \in Nat /\ Cut(t.message, 240) \in Nat
      /\ Cut(t.node, 64) \in Nat
      /\ CutEntries(t.containers, 64) \in Seq(Entry)
      /\ CutNames(t.unhealthy, 64) \in Seq(Nat)
      /\ CutNames(t.failed_names, 64) \in Seq(Nat)
  <2>1. 80 \in Nat /\ 240 \in Nat /\ 64 \in Nat
    OBVIOUS
  <2>2. /\ Cut(t.title, 80) \in Nat /\ Cut(t.message, 240) \in Nat
        /\ Cut(t.node, 64) \in Nat
    BY <1>2, <2>1, CutNumber
  <2>3. CutEntries(t.containers, 64) \in Seq(Entry)
    BY <1>2, <2>1, CutEntriesType
  <2>4. /\ CutNames(t.unhealthy, 64) \in Seq(Nat)
        /\ CutNames(t.failed_names, 64) \in Seq(Nat)
    BY <1>2, <2>1, CutNamesType
  <2> QED
    BY <2>2, <2>3, <2>4
<1>4. Limited(texts) \in PromptTexts
  <2> DEFINE title == Cut(t.title, 80)
             message == Cut(t.message, 240)
             node == Cut(t.node, 64)
             containers == CutEntries(t.containers, 64)
             unhealthy == CutNames(t.unhealthy, 64)
             failed == CutNames(t.failed_names, 64)
  <2>1. Limited(texts) =
          [t EXCEPT !.title = title, !.message = message, !.node = node,
                    !.containers = containers,
                    !.unhealthy = unhealthy, !.failed_names = failed]
    BY <1>1
  <2>2. /\ title \in Nat /\ message \in Nat /\ node \in Nat
        /\ containers \in Seq(Entry) /\ unhealthy \in Seq(Nat) /\ failed \in Seq(Nat)
    BY <1>3
  <2> HIDE DEF title, message, node, containers, unhealthy, failed
  <2> QED
    BY <1>0, <2>1, <2>2, ZenonT(40) DEF PromptTexts
<1>5. ASSUME ~InitiallyTruncated(texts)
      PROVE  Limited(texts) = t
  <2>0. \A seq \in Seq(Nat) : \A i \in DOMAIN seq : seq[i] \in Range(seq) /\ seq[i] \in Nat
    BY DEF Range
  <2>1. Cut(t.title, 80) = t.title
    <3>1. t.title <= 80 /\ 80 \in Nat
      BY <1>0, <1>2, <1>5 DEF InitiallyTruncated
    <3> QED
      BY <1>2, <3>1, CutNumber
  <2>2. Cut(t.message, 240) = t.message
    <3>1. t.message <= 240 /\ 240 \in Nat
      BY <1>0, <1>2, <1>5 DEF InitiallyTruncated
    <3> QED
      BY <1>2, <3>1, CutNumber
  <2>3. Cut(t.node, 64) = t.node
    <3>1. t.node <= 64 /\ 64 \in Nat
      BY <1>0, <1>2, <1>5 DEF InitiallyTruncated
    <3> QED
      BY <1>2, <3>1, CutNumber
  <2>4. CutEntries(t.containers, 64) = t.containers
    <3>1. \A i \in DOMAIN t.containers : t.containers[i].name <= 64
      <4> TAKE i \in DOMAIN t.containers
      <4>1. t.containers[i] \in Entry
        BY <1>2
      <4>2. ~(texts.containers[i].name > 64)
        BY <1>0, <1>5 DEF InitiallyTruncated
      <4>3. t.containers[i].name = texts.containers[i].name
        BY <1>0
      <4> QED
        BY <4>1, <4>2, <4>3 DEF Entry
    <3> QED
      BY <1>2, <3>1, CutEntriesType
  <2>5. CutNames(t.unhealthy, 64) = t.unhealthy
    <3>1. \A i \in DOMAIN t.unhealthy : t.unhealthy[i] <= 64
      <4> TAKE i \in DOMAIN t.unhealthy
      <4>1. t.unhealthy[i] \in Range(t.unhealthy) /\ t.unhealthy[i] \in Nat
        BY <1>2, <2>0
      <4>2. ~(t.unhealthy[i] > 64)
        BY <1>0, <1>5, <4>1 DEF InitiallyTruncated
      <4> QED
        BY <4>1, <4>2
    <3> QED
      BY <1>2, <3>1, CutNamesType
  <2>6. CutNames(t.failed_names, 64) = t.failed_names
    <3>1. \A i \in DOMAIN t.failed_names : t.failed_names[i] <= 64
      <4> TAKE i \in DOMAIN t.failed_names
      <4>1. t.failed_names[i] \in Range(t.failed_names) /\ t.failed_names[i] \in Nat
        BY <1>2, <2>0
      <4>2. ~(t.failed_names[i] > 64)
        BY <1>0, <1>5, <4>1 DEF InitiallyTruncated
      <4> QED
        BY <4>1, <4>2
    <3> QED
      BY <1>2, <3>1, CutNamesType
  <2> QED
    BY <1>0, <1>1, <2>1, <2>2, <2>3, <2>4, <2>5, <2>6, SameTexts
<1> QED
  BY <1>4, <1>5 DEF t

(* The steps in order: fifteen, and one for each container.                *)
StepAt(k, n) ==
  CASE k = 1 -> "hardware"
    [] k = 2 -> "alert"
    [] k = 3 -> "extra_disks"
    [] k \in 4 .. 11 -> Droppable[k - 3]
    [] k = 12 -> "names"
    [] k \in 13 .. 12 + n -> "container"
    [] k = 13 + n -> "unhealthy"
    [] k = 14 + n -> "failed_names"
    [] k = 15 + n -> "smart_failed"

StepNames ==
  {"hardware", "alert", "extra_disks", "names", "container", "unhealthy",
   "failed_names", "smart_failed"} \cup Range(Droppable)

LEMMA StepsInOrder ==
  ASSUME NEW p \in PromptTexts
  PROVE  LET n == Len(p.containers)
         IN  /\ n \in Nat
             /\ Len(Steps(p)) = 15 + n
             /\ \A k \in 1 .. 15 + n : Steps(p)[k] = StepAt(k, n)
<1> DEFINE n == Len(p.containers)
           first == <<"hardware", "alert", "extra_disks">>
           names == <<"names">>
           each == [i \in DOMAIN p.containers |-> "container"]
           last == <<"unhealthy", "failed_names", "smart_failed">>
           s1 == first \o Droppable
           s2 == s1 \o names
           s3 == s2 \o each
           s4 == s3 \o last
<1>1. n \in Nat /\ DOMAIN p.containers = 1 .. n
  <2>1. p.containers \in Seq(Entry)
    BY DEF PromptTexts
  <2> QED
    BY <2>1
<1>2. /\ first \in Seq(StepNames) /\ Len(first) = 3
      /\ Droppable \in Seq(StepNames) /\ Len(Droppable) = 8
      /\ names \in Seq(StepNames) /\ Len(names) = 1
      /\ each \in Seq(StepNames) /\ Len(each) = n
      /\ last \in Seq(StepNames) /\ Len(last) = 3
  <2>1. first \in Seq(StepNames) /\ Len(first) = 3
    BY DEF StepNames
  <2>2. Droppable \in Seq(StepNames) /\ Len(Droppable) = 8
    <3>1. Droppable \in Seq(Range(Droppable)) /\ Len(Droppable) = 8
      BY DEF Droppable, Range
    <3>2. Range(Droppable) \subseteq StepNames
      BY DEF StepNames
    <3> HIDE DEF StepNames
    <3> QED
      BY <3>1, <3>2
  <2>3. names \in Seq(StepNames) /\ Len(names) = 1
    BY DEF StepNames
  <2>4. each \in Seq(StepNames) /\ Len(each) = n
    <3>1. "container" \in StepNames
      BY DEF StepNames
    <3> QED
      BY <1>1, <3>1
  <2>5. last \in Seq(StepNames) /\ Len(last) = 3
    BY DEF StepNames
  <2> QED
    BY <2>1, <2>2, <2>3, <2>4, <2>5
<1>3. /\ first[1] = "hardware" /\ first[2] = "alert" /\ first[3] = "extra_disks"
      /\ names[1] = "names"
      /\ \A i \in 1 .. n : each[i] = "container"
      /\ last[1] = "unhealthy" /\ last[2] = "failed_names" /\ last[3] = "smart_failed"
  BY <1>1
<1>4. Steps(p) = s4
  BY DEF Steps
<1> HIDE DEF first, names, each, last
<1>5. /\ s1 \in Seq(StepNames) /\ Len(s1) = 11
      /\ \A k \in 1 .. 11 : s1[k] = IF k <= 3 THEN first[k] ELSE Droppable[k - 3]
  <2>1. /\ s1 \in Seq(StepNames) /\ Len(s1) = Len(first) + Len(Droppable)
        /\ \A i \in 1 .. Len(first) + Len(Droppable) :
             s1[i] = IF i <= Len(first) THEN first[i] ELSE Droppable[i - Len(first)]
    <3>1. first \in Seq(StepNames) /\ Droppable \in Seq(StepNames)
      BY <1>2
    <3> QED
      BY <3>1, ConcatProperties
  <2>2. Len(first) = 3 /\ Len(first) + Len(Droppable) = 11
    BY <1>2
  <2> HIDE DEF s1
  <2> QED
    BY <2>1, <2>2
<1> HIDE DEF s1
<1>6. /\ s2 \in Seq(StepNames) /\ Len(s2) = 12
      /\ \A k \in 1 .. 12 : s2[k] = IF k <= 11 THEN s1[k] ELSE names[k - 11]
  <2>1. /\ s2 \in Seq(StepNames) /\ Len(s2) = Len(s1) + Len(names)
        /\ \A i \in 1 .. Len(s1) + Len(names) :
             s2[i] = IF i <= Len(s1) THEN s1[i] ELSE names[i - Len(s1)]
    <3>1. s1 \in Seq(StepNames) /\ names \in Seq(StepNames)
      BY <1>2, <1>5
    <3> QED
      BY <3>1, ConcatProperties
  <2>2. Len(s1) = 11 /\ Len(s1) + Len(names) = 12
    BY <1>2, <1>5
  <2> HIDE DEF s2
  <2> QED
    BY <2>1, <2>2
<1> HIDE DEF s2
<1>7. /\ s3 \in Seq(StepNames) /\ Len(s3) = 12 + n
      /\ \A k \in 1 .. 12 + n : s3[k] = IF k <= 12 THEN s2[k] ELSE each[k - 12]
  <2>1. /\ s3 \in Seq(StepNames) /\ Len(s3) = Len(s2) + Len(each)
        /\ \A i \in 1 .. Len(s2) + Len(each) :
             s3[i] = IF i <= Len(s2) THEN s2[i] ELSE each[i - Len(s2)]
    <3>1. s2 \in Seq(StepNames) /\ each \in Seq(StepNames)
      BY <1>1, <1>2, <1>6
    <3> QED
      BY <3>1, ConcatProperties
  <2>2. Len(s2) = 12 /\ Len(s2) + Len(each) = 12 + n
    BY <1>1, <1>2, <1>6
  <2> HIDE DEF s3, n
  <2> QED
    BY <2>1, <2>2
<1> HIDE DEF s3
<1>8. /\ Len(s4) = 15 + n
      /\ \A k \in 1 .. 15 + n : s4[k] = IF k <= 12 + n THEN s3[k] ELSE last[k - (12 + n)]
  <2>1. /\ s4 \in Seq(StepNames) /\ Len(s4) = Len(s3) + Len(last)
        /\ \A i \in 1 .. Len(s3) + Len(last) :
             s4[i] = IF i <= Len(s3) THEN s3[i] ELSE last[i - Len(s3)]
    <3>1. s3 \in Seq(StepNames) /\ last \in Seq(StepNames)
      BY <1>1, <1>2, <1>7
    <3> QED
      BY <3>1, ConcatProperties
  <2>2. Len(s3) = 12 + n /\ Len(s3) + Len(last) = 15 + n
    BY <1>1, <1>2, <1>7
  <2> HIDE DEF s4, n
  <2> QED
    BY <2>1, <2>2
<1> HIDE DEF s4, n
<1>9. ASSUME NEW k \in 1 .. 15 + n
      PROVE  s4[k] = StepAt(k, n)
  <2>0. ASSUME k <= 11
        PROVE  s4[k] = s1[k]
    <3>1. k \in 1 .. 12 + n /\ k \in 1 .. 12
      BY <1>1, <2>0
    <3>2. s4[k] = s3[k]
      BY <1>1, <1>8, <3>1
    <3>3. s3[k] = s2[k]
      BY <1>1, <1>7, <3>1
    <3>4. s2[k] = s1[k]
      BY <1>6, <2>0, <3>1
    <3> QED
      BY <3>2, <3>3, <3>4
  <2>1. CASE k <= 3
    <3>1. s4[k] = first[k] /\ (k = 1 \/ k = 2 \/ k = 3)
      BY <1>1, <1>5, <2>0, <2>1
    <3>2. StepAt(1, n) = "hardware" /\ StepAt(2, n) = "alert" /\ StepAt(3, n) = "extra_disks"
      BY <1>1 DEF StepAt
    <3> QED
      BY <1>3, <3>1, <3>2
  <2>2. CASE k \in 4 .. 11
    <3>1. s4[k] = s1[k] /\ k \in 1 .. 11 /\ ~(k <= 3)
      BY <2>0, <2>2
    <3>2. s4[k] = Droppable[k - 3]
      BY <1>5, <3>1
    <3>3. /\ k # 1 /\ k # 2 /\ k # 3 /\ k # 12 /\ k \notin 13 .. 12 + n
          /\ k # 13 + n /\ k # 14 + n /\ k # 15 + n
      BY <1>1, <2>2
    <3>4. StepAt(k, n) = Droppable[k - 3]
      BY ONLY <2>2, <3>3, ZenonT(30) DEF StepAt
    <3> QED
      BY ONLY <3>2, <3>4
  <2>3. CASE k = 12
    <3>1. s4[k] = "names"
      BY <1>1, <1>3, <1>6, <1>7, <1>8, <2>3
    <3> QED
      BY <1>1, <2>3, <3>1 DEF StepAt
  <2>4. CASE k \in 13 .. 12 + n
    <3>1. s4[k] = each[k - 12] /\ k - 12 \in 1 .. n
      BY <1>1, <1>7, <1>8, <2>4
    <3> QED
      BY <1>1, <1>3, <2>4, <3>1 DEF StepAt
  <2>5. CASE k > 12 + n
    <3>1. s4[k] = last[k - (12 + n)] /\ (k = 13 + n \/ k = 14 + n \/ k = 15 + n)
      BY <1>1, <1>8, <2>5
    <3>2. CASE k = 13 + n
      BY <1>1, <1>3, <3>1, <3>2 DEF StepAt
    <3>3. CASE k = 14 + n
      BY <1>1, <1>3, <3>1, <3>3 DEF StepAt
    <3>4. CASE k = 15 + n
      BY <1>1, <1>3, <3>1, <3>4 DEF StepAt
    <3> QED
      BY <3>1, <3>2, <3>3, <3>4
  <2> QED
    BY <1>1, <2>1, <2>2, <2>3, <2>4, <2>5
<1> QED
  BY <1>1, <1>4, <1>8, <1>9 DEF n

(***************************************************************************)
(* What is known of a payload r after k steps from p.                      *)
(***************************************************************************)
Containers(k, n) == IF k <= 12 THEN n ELSE IF k <= 12 + n THEN 12 + n - k ELSE 0

LeftOut(p, r, k) ==
  LET n == Len(p.containers)
  IN  /\ r \in PromptTexts
      /\ r.width = p.width /\ r.fixed = p.fixed /\ r.os = p.os
      /\ k >= 1 => r.hardware = 0
      /\ r.title = IF k >= 2 THEN Cut(p.title, 40) ELSE p.title
      /\ r.message = IF k >= 2 THEN Cut(p.message, 120) ELSE p.message
      /\ k >= 3 => r.extra_disks = << >>
      /\ \A i \in 1 .. 8 : k >= 3 + i => r.metrics[Droppable[i]] = NoEntry
      /\ r.node = IF k >= 12 THEN Cut(p.node, 32) ELSE p.node
      /\ Len(r.containers) = Containers(k, n)
      /\ k >= 13 + n => r.unhealthy = << >>
      /\ k >= 14 + n => r.failed_names = << >>
      /\ k >= 15 + n => r.smart_failed = << >>

LEMMA DroppableNames ==
  /\ Range(Droppable) = {Droppable[i] : i \in 1 .. 8}
  /\ \A i \in 1 .. 8 : Droppable[i] \in Range(Droppable)
  /\ \A i, j \in 1 .. 8 : Droppable[i] = Droppable[j] => i = j
  /\ {"hardware", "alert", "extra_disks", "names", "container", "unhealthy",
      "failed_names", "smart_failed"} \cap Range(Droppable) = {}
BY DEF Droppable, Range

LEMMA ReducedBy ==
  ASSUME NEW r \in PromptTexts
  PROVE  /\ Reduced(r, "hardware") = [r EXCEPT !.hardware = 0]
         /\ Reduced(r, "alert") = ShortenAlert(r)
         /\ Reduced(r, "extra_disks") = [r EXCEPT !.extra_disks = << >>]
         /\ \A i \in 1 .. 8 :
              Reduced(r, Droppable[i]) = [r EXCEPT !.metrics[Droppable[i]] = NoEntry]
         /\ Reduced(r, "names") = ShortenNames(r)
         /\ Reduced(r, "container") = [r EXCEPT !.containers = Front(@)]
         /\ Reduced(r, "unhealthy") = [r EXCEPT !.unhealthy = << >>]
         /\ Reduced(r, "failed_names") = [r EXCEPT !.failed_names = << >>]
         /\ Reduced(r, "smart_failed") = [r EXCEPT !.smart_failed = << >>]
<1>1. DOMAIN r.metrics = Range(Droppable)
  BY DEF PromptTexts
<1>2. \A s \in {"hardware", "alert", "extra_disks", "names", "container", "unhealthy",
                "failed_names", "smart_failed"} : s \notin DOMAIN r.metrics
  BY <1>1, DroppableNames
<1>3. ASSUME NEW i \in 1 .. 8
      PROVE  Reduced(r, Droppable[i]) = [r EXCEPT !.metrics[Droppable[i]] = NoEntry]
  <2>1. Droppable[i] \in DOMAIN r.metrics
    BY <1>1, DroppableNames
  <2>2. Droppable[i] \notin {"hardware", "alert", "extra_disks", "names", "container",
                             "unhealthy", "failed_names", "smart_failed"}
    BY <1>2, <2>1
  <2> QED
    BY <2>1, <2>2 DEF Reduced
<1>4. Reduced(r, "hardware") = [r EXCEPT !.hardware = 0]
  BY <1>2 DEF Reduced
<1>5. Reduced(r, "alert") = ShortenAlert(r)
  BY <1>2 DEF Reduced
<1>6. Reduced(r, "extra_disks") = [r EXCEPT !.extra_disks = << >>]
  BY <1>2 DEF Reduced
<1>7. Reduced(r, "names") = ShortenNames(r)
  BY <1>2 DEF Reduced
<1>8. Reduced(r, "container") = [r EXCEPT !.containers = Front(@)]
  BY <1>2 DEF Reduced
<1>9. Reduced(r, "unhealthy") = [r EXCEPT !.unhealthy = << >>]
  BY <1>2 DEF Reduced
<1>10. Reduced(r, "failed_names") = [r EXCEPT !.failed_names = << >>]
  BY <1>2 DEF Reduced
<1>11. Reduced(r, "smart_failed") = [r EXCEPT !.smart_failed = << >>]
  BY <1>2 DEF Reduced
<1> QED
  BY <1>3, <1>4, <1>5, <1>6, <1>7, <1>8, <1>9, <1>10, <1>11

SameBut(r, q, what) ==
  /\ q \in PromptTexts /\ q.width = r.width /\ q.fixed = r.fixed /\ q.os = r.os
  /\ "title" \in what \/ q.title = r.title
  /\ "message" \in what \/ q.message = r.message
  /\ "node" \in what \/ q.node = r.node
  /\ "hardware" \in what \/ q.hardware = r.hardware
  /\ "extra_disks" \in what \/ q.extra_disks = r.extra_disks
  /\ "metrics" \in what \/ q.metrics = r.metrics
  /\ "containers" \in what \/ q.containers = r.containers
  /\ "unhealthy" \in what \/ q.unhealthy = r.unhealthy
  /\ "failed_names" \in what \/ q.failed_names = r.failed_names
  /\ "smart_failed" \in what \/ q.smart_failed = r.smart_failed

LEMMA LateStep ==
  ASSUME NEW k \in Nat, k >= 12
  PROVE  /\ k >= 1 /\ k >= 2 /\ k >= 3 /\ \A i \in 1 .. 8 : k >= 3 + i
         /\ k + 1 >= 1 /\ k + 1 >= 2 /\ k + 1 >= 3 /\ k + 1 >= 12
         /\ \A i \in 1 .. 8 : k + 1 >= 3 + i
OBVIOUS

Lists == {"unhealthy", "failed_names", "smart_failed"}

(* Behind the containers only lists are emptied.                           *)
LEMMA ListsGoLast ==
  ASSUME NEW p \in PromptTexts, NEW r, NEW q, NEW k \in Nat,
         k >= 12 + Len(p.containers), LeftOut(p, r, k),
         NEW what \in Lists, SameBut(r, q, {what}),
         LET n == Len(p.containers)
         IN  /\ k + 1 >= 13 + n => q.unhealthy = << >>
             /\ k + 1 >= 14 + n => q.failed_names = << >>
             /\ k + 1 >= 15 + n => q.smart_failed = << >>
  PROVE  LeftOut(p, q, k + 1)
<1> DEFINE n == Len(p.containers)
<1>1. n \in Nat
  BY StepsInOrder
<1> HIDE DEF n
<1>2. k >= 12 + n
  BY DEF n
<1>3. k >= 12 /\ Containers(k, n) = 0 /\ Containers(k + 1, n) = 0
  BY <1>1, <1>2 DEF Containers
<1>4. /\ r.width = p.width /\ r.fixed = p.fixed /\ r.os = p.os /\ r.hardware = 0
      /\ r.title = Cut(p.title, 40) /\ r.message = Cut(p.message, 120)
      /\ r.extra_disks = << >> /\ \A i \in 1 .. 8 : r.metrics[Droppable[i]] = NoEntry
      /\ r.node = Cut(p.node, 32) /\ Len(r.containers) = 0
  BY <1>3, LateStep DEF LeftOut, n
<1>5. /\ q \in PromptTexts /\ q.width = p.width /\ q.fixed = p.fixed /\ q.os = p.os /\ q.hardware = 0
      /\ q.title = Cut(p.title, 40) /\ q.message = Cut(p.message, 120)
      /\ q.extra_disks = << >> /\ \A i \in 1 .. 8 : q.metrics[Droppable[i]] = NoEntry
      /\ q.node = Cut(p.node, 32) /\ Len(q.containers) = Containers(k + 1, n)
  BY <1>3, <1>4 DEF SameBut, Lists
<1>6. k + 1 >= 2 /\ k + 1 >= 12
  BY <1>3
<1> QED
  BY <1>5, <1>6 DEF LeftOut, n

LEMMA OneMoreStep ==
  ASSUME NEW p \in PromptTexts, NEW r, NEW k \in Nat, k < 15 + Len(p.containers),
         LeftOut(p, r, k)
  PROVE  LeftOut(p, Reduced(r, StepAt(k + 1, Len(p.containers))), k + 1)
<1> DEFINE n == Len(p.containers)
           s == StepAt(k + 1, n)
           q == Reduced(r, s)
<1>1. n \in Nat
  BY StepsInOrder
<1>2. r \in PromptTexts
  BY DEF LeftOut
<1> HIDE DEF n
<1>3. CASE k = 0
  <2>1. s = "hardware"
    BY <1>1, <1>3 DEF StepAt
  <2>2. q = [r EXCEPT !.hardware = 0]
    BY <1>2, <2>1, ReducedBy
  <2> HIDE DEF q, s
  <2>3. SameBut(r, q, {"hardware"}) /\ q.hardware = 0
    BY <1>2, <2>2 DEF SameBut, PromptTexts
  <2>4. LeftOut(p, q, k + 1)
    BY <1>1, <1>3, <2>3 DEF LeftOut, SameBut, Containers, n
  <2> QED
    BY <2>4 DEF q, s, n
<1>4. CASE k = 1
  <2>1. s = "alert"
    BY <1>1, <1>4 DEF StepAt
  <2>2. q = ShortenAlert(r)
    BY <1>2, <2>1, ReducedBy
  <2> HIDE DEF q, s
  <2> DEFINE message == Cut(r.message, 120)
             title == Cut(r.title, 40)
  <2>3. message \in Nat /\ title \in Nat
    <3>1. r.message \in Nat /\ r.title \in Nat /\ 120 \in Nat /\ 40 \in Nat
      BY <1>2 DEF PromptTexts
    <3> QED
      BY <3>1, CutNumber
  <2>4. q = [r EXCEPT !.message = message, !.title = title]
    BY <2>2 DEF ShortenAlert
  <2> HIDE DEF message, title
  <2>5. SameBut(r, q, {"message", "title"}) /\ q.message = message /\ q.title = title
    BY <1>2, <2>3, <2>4 DEF SameBut, PromptTexts
  <2>6. message = Cut(p.message, 120) /\ title = Cut(p.title, 40)
    BY <1>4 DEF LeftOut, message, title
  <2>7. LeftOut(p, q, k + 1)
    BY <1>1, <1>4, <2>5, <2>6 DEF LeftOut, SameBut, Containers, n
  <2> QED
    BY <2>7 DEF q, s, n
<1>5. CASE k = 2
  <2>1. s = "extra_disks"
    BY <1>1, <1>5 DEF StepAt
  <2>2. q = [r EXCEPT !.extra_disks = << >>]
    BY <1>2, <2>1, ReducedBy
  <2> HIDE DEF q, s
  <2> DEFINE none == << >>
  <2>3. none \in Seq(Entry) /\ q = [r EXCEPT !.extra_disks = none]
    BY <2>2
  <2> HIDE DEF none
  <2>4. SameBut(r, q, {"extra_disks"}) /\ q.extra_disks = none
    BY <1>2, <2>3 DEF SameBut, PromptTexts
  <2>5. LeftOut(p, q, k + 1)
    BY <1>1, <1>5, <2>4 DEF LeftOut, SameBut, Containers, n, none
  <2> QED
    BY <2>5 DEF q, s, n
<1>6. CASE k \in 3 .. 10
  <2> DEFINE i == k - 2
  <2>0. i \in 1 .. 8
    BY <1>6
  <2>1. s = Droppable[i]
    <3> DEFINE j == k + 1
    <3>1. j \in 4 .. 11 /\ j - 3 = i /\ s = StepAt(j, n)
      BY <1>6
    <3> HIDE DEF j, s, i
    <3>2. StepAt(j, n) = Droppable[j - 3]
      <4>1. /\ j # 1 /\ j # 2 /\ j # 3 /\ j # 12 /\ j \notin 13 .. 12 + n
            /\ j # 13 + n /\ j # 14 + n /\ j # 15 + n
        BY <1>1, <3>1
      <4> QED
        BY <3>1, <4>1 DEF StepAt
    <3> QED
      BY <3>1, <3>2
  <2> HIDE DEF i
  <2>2. q = [r EXCEPT !.metrics[Droppable[i]] = NoEntry]
    <3> HIDE DEF s
    <3> QED
      BY <1>2, <2>0, <2>1, ReducedBy
  <2> HIDE DEF q, s
  <2> DEFINE metrics == [r.metrics EXCEPT ![Droppable[i]] = NoEntry]
  <2>3. r.metrics \in [Range(Droppable) -> Entry] /\ Droppable[i] \in Range(Droppable)
    BY <1>2, <2>0, DroppableNames DEF PromptTexts
  <2>4. metrics \in [Range(Droppable) -> Entry] /\ metrics[Droppable[i]] = NoEntry
        /\ \A j \in 1 .. 8 : j # i => metrics[Droppable[j]] = r.metrics[Droppable[j]]
    <3>1. NoEntry \in Entry
      BY DEF NoEntry, Entry
    <3> QED
      BY <2>0, <2>3, <3>1, DroppableNames
  <2>5. q = [r EXCEPT !.metrics = metrics]
    BY <1>2, <2>2 DEF PromptTexts
  <2> HIDE DEF metrics
  <2>6. SameBut(r, q, {"metrics"}) /\ q.metrics = metrics
    BY <1>2, <2>4, <2>5 DEF SameBut, PromptTexts
  <2>7. \A j \in 1 .. 8 : k + 1 >= 3 + j => q.metrics[Droppable[j]] = NoEntry
    <3> SUFFICES ASSUME NEW j \in 1 .. 8, k + 1 >= 3 + j
                 PROVE  metrics[Droppable[j]] = NoEntry
      BY <2>6
    <3>1. CASE j = i
      BY <2>4, <3>1
    <3>2. CASE j # i
      <4>1. k >= 3 + j
        BY <3>2 DEF i
      <4> QED
        BY <2>4, <3>2, <4>1 DEF LeftOut
    <3> QED
      BY <3>1, <3>2
  <2>8. LeftOut(p, q, k + 1)
    <3> HIDE DEF n
    <3>1. /\ k + 1 >= 1 /\ k + 1 >= 2 /\ k + 1 >= 3 /\ ~(k + 1 >= 12)
          /\ k >= 1 /\ k >= 2 /\ k >= 3 /\ ~(k >= 12)
          /\ ~(k + 1 >= 13 + n) /\ ~(k + 1 >= 14 + n) /\ ~(k + 1 >= 15 + n)
          /\ Containers(k, n) = n /\ Containers(k + 1, n) = n
      BY <1>1, <1>6 DEF Containers
    <3>2. /\ q \in PromptTexts /\ q.width = r.width /\ q.fixed = r.fixed /\ q.os = r.os
          /\ q.title = r.title /\ q.message = r.message /\ q.node = r.node
          /\ q.hardware = r.hardware /\ q.extra_disks = r.extra_disks
          /\ q.containers = r.containers
      BY <2>6 DEF SameBut
    <3>3. /\ r.width = p.width /\ r.fixed = p.fixed /\ r.os = p.os /\ r.hardware = 0
          /\ r.title = Cut(p.title, 40) /\ r.message = Cut(p.message, 120)
          /\ r.extra_disks = << >> /\ r.node = p.node /\ Len(r.containers) = n
      BY <3>1 DEF LeftOut, n
    <3>4. /\ q.width = p.width /\ q.fixed = p.fixed /\ q.os = p.os /\ q.hardware = 0
          /\ q.title = Cut(p.title, 40) /\ q.message = Cut(p.message, 120)
          /\ q.extra_disks = << >> /\ q.node = p.node /\ Len(q.containers) = n
      BY <3>2, <3>3
    <3> QED
      BY <2>7, <3>1, <3>2, <3>4 DEF LeftOut, n
  <2> QED
    BY <2>8 DEF q, s, n
<1>7. CASE k = 11
  <2>1. s = "names"
    BY <1>1, <1>7 DEF StepAt
  <2>2. q = ShortenNames(r)
    BY <1>2, <2>1, ReducedBy
  <2> HIDE DEF q, s
  <2> DEFINE node == Cut(r.node, 32)
             containers == CutEntries(r.containers, 32)
             smart == CutEntries(r.smart_failed, 32)
             unhealthy == CutNames(r.unhealthy, 32)
             failed == CutNames(r.failed_names, 32)
  <2>3. /\ node \in Nat /\ containers \in Seq(Entry) /\ smart \in Seq(Entry)
        /\ Len(containers) = Len(r.containers)
        /\ unhealthy \in Seq(Nat) /\ failed \in Seq(Nat)
    <3>1. /\ r.node \in Nat /\ r.containers \in Seq(Entry) /\ r.smart_failed \in Seq(Entry)
          /\ r.unhealthy \in Seq(Nat) /\ r.failed_names \in Seq(Nat) /\ 32 \in Nat
      BY <1>2 DEF PromptTexts
    <3>2. node \in Nat
      BY <3>1, CutNumber
    <3>3. containers \in Seq(Entry) /\ Len(containers) = Len(r.containers)
          /\ smart \in Seq(Entry)
      BY <3>1, CutEntriesType
    <3>4. unhealthy \in Seq(Nat) /\ failed \in Seq(Nat)
      BY <3>1, CutNamesType
    <3> QED
      BY <3>2, <3>3, <3>4
  <2>4. q = [r EXCEPT !.node = node, !.containers = containers, !.smart_failed = smart,
                      !.unhealthy = unhealthy, !.failed_names = failed]
    BY <2>2 DEF ShortenNames
  <2>5. node = Cut(p.node, 32)
    BY <1>7 DEF LeftOut
  <2> HIDE DEF node, containers, smart, unhealthy, failed
  <2>6. /\ SameBut(r, q, {"node", "containers", "smart_failed", "unhealthy", "failed_names"})
        /\ q.node = node /\ q.containers = containers
    BY <1>2, <2>3, <2>4 DEF SameBut, PromptTexts
  <2>7. Len(r.containers) = n /\ Containers(k + 1, n) = n
    BY <1>1, <1>7 DEF LeftOut, Containers, n
  <2>8. ~(k + 1 >= 13 + n) /\ ~(k + 1 >= 14 + n) /\ ~(k + 1 >= 15 + n)
    BY <1>1, <1>7
  <2>9. LeftOut(p, q, k + 1)
    <3>1. k >= 1 /\ k >= 2 /\ k >= 3 /\ \A i \in 1 .. 8 : k >= 3 + i
      BY <1>7
    <3>2. /\ r.width = p.width /\ r.fixed = p.fixed /\ r.os = p.os /\ r.hardware = 0
          /\ r.title = Cut(p.title, 40) /\ r.message = Cut(p.message, 120)
          /\ r.extra_disks = << >> /\ \A i \in 1 .. 8 : r.metrics[Droppable[i]] = NoEntry
      BY <3>1 DEF LeftOut
    <3>3. /\ q \in PromptTexts /\ q.width = p.width /\ q.fixed = p.fixed /\ q.os = p.os /\ q.hardware = 0
          /\ q.title = Cut(p.title, 40) /\ q.message = Cut(p.message, 120)
          /\ q.extra_disks = << >> /\ \A i \in 1 .. 8 : q.metrics[Droppable[i]] = NoEntry
          /\ q.node = Cut(p.node, 32) /\ Len(q.containers) = Containers(k + 1, n)
      BY <2>3, <2>5, <2>6, <2>7, <3>2 DEF SameBut
    <3>4. k + 1 >= 2 /\ k + 1 >= 12
      BY <1>7
    <3> QED
      BY <2>8, <3>3, <3>4 DEF LeftOut, n
  <2> QED
    BY <2>9 DEF q, s, n
<1>8. CASE k \in 12 .. 11 + n
  <2>1. s = "container"
    <3>1. k + 1 \in 13 .. 12 + n
      BY <1>1, <1>8
    <3> QED
      BY <1>1, <3>1 DEF StepAt
  <2>2. q = [r EXCEPT !.containers = Front(@)]
    BY <1>2, <2>1, ReducedBy
  <2> HIDE DEF q, s
  <2> DEFINE containers == Front(r.containers)
  <2>3. q = [r EXCEPT !.containers = containers]
    BY <2>2
  <2>4. r.containers \in Seq(Entry) /\ Len(r.containers) = 12 + n - k
    <3>1. Containers(k, n) = 12 + n - k
      BY <1>1, <1>8 DEF Containers
    <3> QED
      BY <1>2, <3>1 DEF LeftOut, PromptTexts, n
  <2>5. containers \in Seq(Entry) /\ Len(containers) = 12 + n - (k + 1)
    <3> DEFINE c == r.containers
    <3>1. c \in Seq(Entry) /\ Len(c) \in Nat /\ Len(c) >= 1 /\ Len(c) = 12 + n - k
      BY <1>1, <1>8, <2>4
    <3> HIDE DEF c
    <3>2. SubSeq(c, 1, Len(c) - 1) \in Seq(Entry) /\ Len(SubSeq(c, 1, Len(c) - 1)) = Len(c) - 1
      BY <3>1
    <3>3. Len(c) - 1 = 12 + n - (k + 1)
      BY <1>1, <3>1
    <3> QED
      BY <3>2, <3>3 DEF Front, c
  <2> HIDE DEF containers
  <2>6. SameBut(r, q, {"containers"}) /\ q.containers = containers
    BY <1>2, <2>3, <2>5 DEF SameBut, PromptTexts
  <2>7. Containers(k + 1, n) = 12 + n - (k + 1)
    BY <1>1, <1>8 DEF Containers
  <2>8. ~(k + 1 >= 13 + n) /\ ~(k + 1 >= 14 + n) /\ ~(k + 1 >= 15 + n) /\ k >= 12
    BY <1>1, <1>8
  <2>9. LeftOut(p, q, k + 1)
    BY <2>5, <2>6, <2>7, <2>8, LateStep DEF LeftOut, SameBut, n
  <2> QED
    BY <2>9 DEF q, s, n
<1>9. CASE k = 12 + n
  <2>1. s = "unhealthy"
    BY <1>1, <1>9 DEF StepAt
  <2>2. q = [r EXCEPT !.unhealthy = << >>]
    BY <1>2, <2>1, ReducedBy
  <2> HIDE DEF q, s
  <2> DEFINE none == << >>
  <2>3. none \in Seq(Nat) /\ none \in Seq(Entry) /\ q = [r EXCEPT !.unhealthy = none]
    BY <2>2
  <2> HIDE DEF none
  <2>4. SameBut(r, q, {"unhealthy"}) /\ q.unhealthy = none
    BY <1>2, <2>3 DEF SameBut, PromptTexts
  <2>5. k >= 12 + n /\ ~(k + 1 >= 14 + n) /\ ~(k + 1 >= 15 + n)
    BY <1>1, <1>9
  <2>6. /\ k + 1 >= 13 + n => q.unhealthy = << >>
        /\ k + 1 >= 14 + n => q.failed_names = << >>
        /\ k + 1 >= 15 + n => q.smart_failed = << >>
    BY <2>4, <2>5 DEF LeftOut, SameBut, n, none
  <2>7. LeftOut(p, q, k + 1)
    BY <2>4, <2>5, <2>6, ListsGoLast DEF Lists, n
  <2> QED
    BY <2>7 DEF q, s, n
<1>10. CASE k = 13 + n
  <2>1. s = "failed_names"
    BY <1>1, <1>10 DEF StepAt
  <2>2. q = [r EXCEPT !.failed_names = << >>]
    BY <1>2, <2>1, ReducedBy
  <2> HIDE DEF q, s
  <2> DEFINE none == << >>
  <2>3. none \in Seq(Nat) /\ none \in Seq(Entry) /\ q = [r EXCEPT !.failed_names = none]
    BY <2>2
  <2> HIDE DEF none
  <2>4. SameBut(r, q, {"failed_names"}) /\ q.failed_names = none
    BY <1>2, <2>3 DEF SameBut, PromptTexts
  <2>5. k >= 12 + n /\ k >= 13 + n /\ ~(k + 1 >= 15 + n)
    BY <1>1, <1>10
  <2>6. /\ k + 1 >= 13 + n => q.unhealthy = << >>
        /\ k + 1 >= 14 + n => q.failed_names = << >>
        /\ k + 1 >= 15 + n => q.smart_failed = << >>
    BY <2>4, <2>5 DEF LeftOut, SameBut, n, none
  <2>7. LeftOut(p, q, k + 1)
    BY <2>4, <2>5, <2>6, ListsGoLast DEF Lists, n
  <2> QED
    BY <2>7 DEF q, s, n
<1>11. CASE k = 14 + n
  <2>1. s = "smart_failed"
    BY <1>1, <1>11 DEF StepAt
  <2>2. q = [r EXCEPT !.smart_failed = << >>]
    BY <1>2, <2>1, ReducedBy
  <2> HIDE DEF q, s
  <2> DEFINE none == << >>
  <2>3. none \in Seq(Nat) /\ none \in Seq(Entry) /\ q = [r EXCEPT !.smart_failed = none]
    BY <2>2
  <2> HIDE DEF none
  <2>4. SameBut(r, q, {"smart_failed"}) /\ q.smart_failed = none
    BY <1>2, <2>3 DEF SameBut, PromptTexts
  <2>5. k >= 12 + n /\ k >= 13 + n /\ k >= 14 + n
    BY <1>1, <1>11
  <2>6. /\ k + 1 >= 13 + n => q.unhealthy = << >>
        /\ k + 1 >= 14 + n => q.failed_names = << >>
        /\ k + 1 >= 15 + n => q.smart_failed = << >>
    BY <2>4, <2>5 DEF LeftOut, SameBut, n, none
  <2>7. LeftOut(p, q, k + 1)
    BY <2>4, <2>5, <2>6, ListsGoLast DEF Lists, n
  <2> QED
    BY <2>7 DEF q, s, n
<1>12. k < 15 + n
  BY DEF n
<1>13. k = 0 \/ k = 1 \/ k = 2 \/ k \in 3 .. 10 \/ k = 11 \/ k \in 12 .. 11 + n
       \/ k = 12 + n \/ k = 13 + n \/ k = 14 + n
  BY <1>1, <1>12
<1> QED
  BY <1>3, <1>4, <1>5, <1>6, <1>7, <1>8, <1>9, <1>10, <1>11, <1>13

(* After all steps, nothing is left of what can be left out.               *)
LEMMA NothingLeft ==
  ASSUME NEW texts \in PromptTexts, NEW r,
         LeftOut(Limited(texts), r, 15 + Len(Limited(texts).containers))
  PROVE  r = Smallest(texts)
<1> DEFINE p == Limited(texts)
           n == Len(p.containers)
           k == 15 + n
           none == << >>
           zeros == [m \in Range(Droppable) |-> NoEntry]
           node == Cut(p.node, 32)
           title == Cut(p.title, 40)
           message == Cut(p.message, 120)
           containers == CutEntries(p.containers, 32)
           smart == CutEntries(p.smart_failed, 32)
           unhealthy == CutNames(p.unhealthy, 32)
           failed == CutNames(p.failed_names, 32)
<1>1. p \in PromptTexts
  BY LimitedTexts
<1> HIDE DEF p
<1>2. n \in Nat
  BY <1>1, StepsInOrder
<1>3. /\ k >= 1 /\ k >= 2 /\ k >= 3 /\ k >= 12 /\ k >= 13 + n /\ k >= 14 + n /\ k >= 15 + n
      /\ \A i \in 1 .. 8 : k >= 3 + i
      /\ Containers(k, n) = 0
  <2> HIDE DEF n
  <2> QED
    BY <1>2 DEF Containers
<1>4. LeftOut(p, r, k)
  BY DEF p
<1> HIDE DEF n, k
<1>5. /\ r \in PromptTexts /\ r.width = p.width /\ r.fixed = p.fixed /\ r.os = p.os
      /\ r.hardware = 0 /\ r.extra_disks = none
      /\ r.title = title /\ r.message = message /\ r.node = node
      /\ \A i \in 1 .. 8 : r.metrics[Droppable[i]] = NoEntry
      /\ Len(r.containers) = 0
      /\ r.unhealthy = none /\ r.failed_names = none /\ r.smart_failed = none
  BY <1>3, <1>4 DEF LeftOut, n
<1>6. r.containers = none
  <2>1. r.containers \in Seq(Entry)
    BY <1>5 DEF PromptTexts
  <2> QED
    BY <1>5, <2>1
<1>7. r.metrics = zeros
  <2>1. r.metrics \in [Range(Droppable) -> Entry]
    BY <1>5 DEF PromptTexts
  <2>2. \A m \in Range(Droppable) : r.metrics[m] = NoEntry
    BY <1>5, DroppableNames
  <2> QED
    BY <2>1, <2>2
<1>8. DOMAIN p.metrics = Range(Droppable)
  BY <1>1 DEF PromptTexts
<1> DEFINE alert == [p EXCEPT !.message = message, !.title = title]
           named == [alert EXCEPT !.node = node, !.containers = containers,
                                  !.smart_failed = smart,
                                  !.unhealthy = unhealthy, !.failed_names = failed]
<1>9. /\ alert.metrics = p.metrics /\ alert.node = p.node /\ alert.containers = p.containers
      /\ alert.smart_failed = p.smart_failed /\ alert.unhealthy = p.unhealthy
      /\ alert.failed_names = p.failed_names
  <2> HIDE DEF message, title
  <2> QED
    BY <1>1 DEF PromptTexts
<1>10. named = ShortenNames(ShortenAlert(p))
  <2>1. alert = ShortenAlert(p)
    BY DEF ShortenAlert
  <2> HIDE DEF alert
  <2> QED
    BY <1>9, <2>1 DEF ShortenNames
<1>11. named.metrics = p.metrics
  <2> HIDE DEF message, title, node, containers, smart, unhealthy, failed
  <2> QED
    BY <1>1 DEF PromptTexts
<1>12. Smallest(texts) =
         [named EXCEPT !.hardware = 0, !.extra_disks = none, !.metrics = zeros,
                       !.containers = none, !.unhealthy = none, !.failed_names = none,
                       !.smart_failed = none]
  <2> HIDE DEF named
  <2>1. [m \in DOMAIN named.metrics |-> NoEntry] = zeros
    BY <1>8, <1>11
  <2> QED
    BY <1>10, <2>1 DEF Smallest, p
<1> HIDE DEF none, zeros, node, title, message, containers, smart, unhealthy, failed
<1> DEFINE least ==
             [width |-> p.width, fixed |-> p.fixed, title |-> title, message |-> message,
              node |-> node, os |-> p.os, hardware |-> 0, extra_disks |-> none, metrics |-> zeros,
              containers |-> none, unhealthy |-> none, failed_names |-> none,
              smart_failed |-> none]
<1>13. r = least
  BY <1>5, <1>6, <1>7 DEF PromptTexts
<1>14. Smallest(texts) = least
  BY <1>1, <1>12, ZenonT(40) DEF PromptTexts
<1> QED
  BY <1>13, <1>14

(***************************************************************************)
(* How far the payload has been cut, and that it was for its size.         *)
(***************************************************************************)
Cutting ==
  /\ step \in Nat
  /\ ~Shown("payload") => step = 0
  /\ Shown("payload") =>
       LET p == Limited(input.texts)
       IN  /\ step <= 15 + Len(p.containers)
           /\ LeftOut(p, output.texts, step)
           /\ step = 0 => output = Payload(input.texts)
           /\ step > 0 => output.truncated /\ ~Fits(p)

LEMMA LeavesOutInOrder ==
  ASSUME Results, Cutting, LeaveOut
  PROVE  Cutting'
<1> DEFINE p == Limited(input.texts)
           n == Len(p.containers)
           r == output.texts
<1>1. /\ about = "payload" /\ shown /\ ~Fits(output.texts) /\ step < Len(Steps(p))
      /\ step' = step + 1
      /\ output' = [texts |-> Reduced(r, Steps(p)[step + 1]), truncated |-> TRUE]
      /\ UNCHANGED <<about, input, shown>>
  BY DEF LeaveOut
<1>2. input.texts \in PromptTexts /\ p \in PromptTexts
  BY <1>1, InputsAssumption, LimitedTexts DEF Results
<1>3. step \in Nat /\ LeftOut(p, r, step) /\ (step = 0 => r = p) /\ (step > 0 => ~Fits(p))
  BY <1>1 DEF Cutting, Shown, Payload
<1> HIDE DEF p, r
<1>4. n \in Nat /\ step < 15 + n /\ Steps(p)[step + 1] = StepAt(step + 1, n)
  <2>1. /\ n \in Nat /\ Len(Steps(p)) = 15 + n
        /\ \A k \in 1 .. 15 + n : Steps(p)[k] = StepAt(k, n)
    BY <1>2, StepsInOrder
  <2> HIDE DEF n
  <2>2. step + 1 \in 1 .. 15 + n
    BY <1>1, <1>3, <2>1
  <2> QED
    BY <1>1, <2>1, <2>2
<1>5. LeftOut(p, Reduced(r, StepAt(step + 1, n)), step + 1)
  BY <1>2, <1>3, <1>4, OneMoreStep
<1>6. ~Fits(p)
  BY <1>1, <1>3 DEF r
<1>7. step' \in Nat /\ step' > 0 /\ step' <= 15 + n
  <2> HIDE DEF n
  <2> QED
    BY <1>1, <1>3, <1>4
<1>8. Limited(input.texts)' = p
  BY <1>1 DEF p
<1>9. LeftOut(p, output'.texts, step') /\ output'.truncated
  BY <1>1, <1>4, <1>5
<1> QED
  BY <1>1, <1>6, <1>7, <1>8, <1>9 DEF Cutting, Shown

THEOREM CuttingInvariant == Spec => []Cutting
<1>1. Init => Cutting
  BY DEF Init, Cutting, Shown
<1>2. Results /\ Cutting /\ [Next]_vars => Cutting'
  <2> SUFFICES ASSUME Results, Cutting, [Next]_vars
               PROVE  Cutting'
    OBVIOUS
  <2>1. ASSUME NEW what, NEW result, what # "payload", Makes(what, result)
        PROVE  Cutting'
    BY <2>1 DEF Cutting, Makes, Shown
  <2>2. CASE Build
    <3>1. /\ about = "payload" /\ ~shown /\ shown' /\ output' = Payload(input.texts)
          /\ UNCHANGED <<about, input, step>>
      BY <2>2 DEF Build, Makes
    <3>2. input.texts \in PromptTexts
      BY <3>1, InputsAssumption DEF Results
    <3> DEFINE p == Limited(input.texts)
               n == Len(p.containers)
    <3>3. step = 0 /\ output'.texts = p
      BY <3>1 DEF Cutting, Shown, Payload
    <3>4. p \in PromptTexts
      BY <3>2, LimitedTexts
    <3> HIDE DEF p
    <3>5. n \in Nat
      BY <3>4, StepsInOrder
    <3> HIDE DEF n
    <3>6. Containers(0, n) = n /\ 0 <= 15 + n
          /\ ~(0 >= 13 + n) /\ ~(0 >= 14 + n) /\ ~(0 >= 15 + n)
          /\ \A i \in 1 .. 8 : ~(0 >= 3 + i)
      BY <3>5 DEF Containers
    <3>7. LeftOut(p, p, 0)
      BY <3>4, <3>6 DEF LeftOut, n
    <3>8. Limited(input.texts)' = p
      BY <3>1 DEF p
    <3> QED
      BY <3>1, <3>3, <3>6, <3>7, <3>8 DEF Cutting, Shown, n
  <2>3. CASE LeaveOut
    BY <2>3, LeavesOutInOrder
  <2>4. CASE Done \/ UNCHANGED vars
    BY <2>4 DEF Cutting, Done, vars, Shown
  <2> QED
    BY <2>1, <2>2, <2>3, <2>4 DEF Next, Summarise, RankContainers, DrawHistory,
       DrawCapacity, PlaceTicks, SmoothCurve
<1> QED
  BY <1>1, <1>2, ResultsInvariant, PTL DEF Spec

(***************************************************************************)
(* A prompt that is sent fits, none is given up that could be made to fit, *)
(* and one that does not say it was cut has lost nothing but what Capped   *)
(* cuts in silence (extract_analysis_context, _fit_payload).               *)
(***************************************************************************)
THEOREM PromptsAreHonest == Spec => []PromptIsHonest
<1>1. Results /\ Cutting => PromptIsHonest
  <2> SUFFICES ASSUME Results, Cutting, Shown("payload")
               PROVE  PromptIsHonest
    BY DEF PromptIsHonest
  <2> DEFINE p == Limited(input.texts)
             n == Len(p.containers)
  <2>1. input.texts \in PromptTexts /\ p \in PromptTexts
    BY InputsAssumption, LimitedTexts DEF Results, Shown
  <2>2. /\ step \in Nat /\ LeftOut(p, output.texts, step)
        /\ step = 0 => output = Payload(input.texts)
        /\ step > 0 => output.truncated /\ ~Fits(p)
    BY DEF Cutting
  <2>3. step = 0 \/ step > 0
    BY <2>2
  <2>4. ASSUME ~output.truncated
        PROVE  output.texts = Capped(input.texts)
    <3>1. step = 0 /\ output = Payload(input.texts)
      BY <2>2, <2>3, <2>4
    <3>2. ~InitiallyTruncated(input.texts)
      BY <2>4, <3>1 DEF Payload
    <3> QED
      BY <2>1, <3>1, <3>2, LimitedTexts DEF Payload
  <2>5. ASSUME step = Len(Steps(Limited(input.texts))), ~Fits(output.texts)
        PROVE  ~Fits(Smallest(input.texts))
    <3>1. step = 15 + n
      BY <2>1, <2>5, StepsInOrder
    <3>2. output.texts = Smallest(input.texts)
      BY <2>1, <2>2, <3>1, NothingLeft
    <3> QED
      BY <2>5, <3>2
  <2>6. ASSUME Fits(Limited(input.texts))
        PROVE  output.texts = Limited(input.texts)
    BY <2>2, <2>3, <2>6 DEF Payload
  <2> QED
    BY <2>4, <2>5, <2>6 DEF PromptIsHonest
<1> QED
  BY <1>1, ResultsInvariant, CuttingInvariant, PTL

-----------------------------------------------------------------------------
(***************************************************************************)
(* What the prompt says of the quality of its data                         *)
(* (_process_metric_series).                                               *)
(***************************************************************************)
AreSamples(samples) ==
  /\ DOMAIN samples \subseteq Int /\ IsFiniteSet(DOMAIN samples)
  /\ \A t \in DOMAIN samples : samples[t] \in 0 .. 100

LEMMA SamplesOfTheHour ==
  ASSUME NEW points, AreRecords(points), NEW ref \in Int, NEW metric
  PROVE  AreSamples(Samples(points, metric, ref))
<1> DEFINE hour == {t \in InWindow(points, ref) : Pct(points[t][metric]) # None}
<1>1. hour \subseteq DOMAIN points
  BY DEF InWindow
<1>2. IsFiniteSet(hour) /\ hour \subseteq Int
  BY <1>1, FS_Subset DEF AreRecords
<1>3. \A t \in hour : points[t][metric] \in 0 .. 100
  BY DEF Pct, None
<1>4. Samples(points, metric, ref) = [t \in hour |-> points[t][metric]]
  BY DEF Samples
<1> HIDE DEF hour
<1>5. QED
  BY <1>2, <1>3, <1>4 DEF AreSamples

(* A sum is at most as many times the bound of its terms as it has terms.   *)
LEMMA SumIsBounded ==
  ASSUME NEW samples, AreSamples(samples), NEW S \in SUBSET DOMAIN samples,
         NEW top \in Nat, \A t \in S : samples[t] <= top
  PROVE  SumOver(samples, S) \in Nat /\ SumOver(samples, S) <= Cardinality(S) * top
<1> DEFINE units == UNION {{t} \X (1 .. samples[t]) : t \in S}
<1>1. IsFiniteSet(S)
  BY FS_Subset DEF AreSamples
<1>2. IsFiniteSet(1 .. top) /\ Cardinality(1 .. top) = top
  BY FS_Interval
<1>3. units \subseteq S \X (1 .. top)
  <2> SUFFICES ASSUME NEW t \in S, NEW n \in 1 .. samples[t]
               PROVE  n \in 1 .. top
    OBVIOUS
  <2>1. samples[t] \in Int /\ samples[t] <= top
    BY DEF AreSamples
  <2>2. QED
    BY <2>1
<1>4. IsFiniteSet(S \X (1 .. top)) /\ Cardinality(S \X (1 .. top)) = Cardinality(S) * top
  BY <1>1, <1>2, FS_Product
<1>5. IsFiniteSet(units) /\ Cardinality(units) <= Cardinality(S \X (1 .. top))
  BY <1>3, <1>4, FS_Subset
<1>6. Cardinality(units) \in Nat
  BY <1>5, FS_CardinalityType
<1> HIDE DEF units
<1>7. SumOver(samples, S) = Cardinality(units)
  BY DEF SumOver, units
<1>8. QED
  BY <1>4, <1>5, <1>6, <1>7

(* Every sample of the hour counts, once, and peaks and baseline fit.       *)
LEMMA SeriesFits ==
  ASSUME NEW samples, AreSamples(samples), NEW ref \in Int
  PROVE  LET s == Series(samples, ref)
         IN  /\ s.old \in Nat /\ s.recent \in Nat /\ s.hour \in Nat
             /\ s.old + s.recent = s.hour
             /\ s.peak_15m <= s.peak_60m
             /\ s.baseline # None => s.baseline <= s.old * s.peak_60m
             /\ s.baseline = None <=> s.old < 3
<1> DEFINE old == OldTimes(samples, ref)
           recent == RecentTimes(samples, ref)
           late == {samples[t] : t \in recent}
           all == {samples[t] : t \in DOMAIN samples}
<1>1. Series(samples, ref) =
        [baseline |-> IF Cardinality(old) >= 3 THEN SumOver(samples, old) ELSE None,
         peak_15m |-> Greatest(late), peak_60m |-> Greatest(all),
         old |-> Cardinality(old), recent |-> Cardinality(recent),
         hour |-> Cardinality(DOMAIN samples)]
  BY DEF Series, Range
<1>2. /\ old \cup recent = DOMAIN samples /\ old \cap recent = {}
      /\ IsFiniteSet(old) /\ IsFiniteSet(recent)
  <2>1. DOMAIN samples \subseteq Int /\ ref - 15 \in Int
    BY DEF AreSamples
  <2>2. \A t \in Int : (t < ref - 15) <=> ~(t >= ref - 15)
    BY <2>1
  <2>3. QED
    BY <2>1, <2>2, FS_Subset DEF AreSamples, OldTimes, RecentTimes
<1>3. /\ Cardinality(old) \in Nat /\ Cardinality(recent) \in Nat
      /\ Cardinality(DOMAIN samples) \in Nat
      /\ Cardinality(old) + Cardinality(recent) = Cardinality(DOMAIN samples)
  <2>1. Cardinality({}) = 0
    BY FS_EmptySet
  <2>2. Cardinality(old \cup recent) = Cardinality(old) + Cardinality(recent) - 0
    BY <1>2, <2>1, FS_Union
  <2>3. Cardinality(old) \in Nat /\ Cardinality(recent) \in Nat
    BY <1>2, FS_CardinalityType
  <2> HIDE DEF old, recent
  <2>4. QED
    BY <1>2, <2>2, <2>3
<1>4. all \in SUBSET Int /\ IsFiniteSet(all) /\ late \subseteq all
  <2>1. IsFiniteSet(all)
    <3> DEFINE f == [t \in DOMAIN samples |-> samples[t]]
    <3>1. f \in Surjection(DOMAIN samples, all)
      BY DEF Surjection
    <3> HIDE DEF f, all
    <3>2. QED
      BY <3>1, FS_Surjection DEF AreSamples
  <2>2. QED
    BY <2>1 DEF AreSamples, RecentTimes
<1>5. all # {} => Max(all) \in Nat /\ \A v \in all : v <= Max(all)
  <2> SUFFICES ASSUME all # {}
               PROVE  Max(all) \in Nat /\ \A v \in all : v <= Max(all)
    OBVIOUS
  <2>1. Max(all) \in all /\ \A v \in all : Max(all) >= v
    <3> HIDE DEF all
    <3>1. QED
      BY <1>4, MaxFinite
  <2>2. all \subseteq Nat
    BY DEF AreSamples
  <2> HIDE DEF all
  <2>3. QED
    BY <2>1, <2>2
<1>6. Greatest(late) <= Greatest(all)
  <2>1. CASE late = {}
    <3> HIDE DEF late, all
    <3>1. QED
      BY <1>5, <2>1 DEF Greatest, None
  <2>2. CASE late # {}
    <3>1. late \in SUBSET Int /\ IsFiniteSet(late) /\ all # {}
      BY <1>4, <2>2, FS_Subset
    <3> HIDE DEF late, all
    <3>2. Max(late) \in late
      BY <2>2, <3>1, MaxFinite
    <3>3. QED
      BY <1>4, <1>5, <2>2, <3>1, <3>2 DEF Greatest
  <2>3. QED
    BY <2>1, <2>2
<1>7. Cardinality(old) >= 3 =>
        /\ SumOver(samples, old) \in Nat
        /\ SumOver(samples, old) <= Cardinality(old) * Greatest(all)
  <2> SUFFICES ASSUME Cardinality(old) >= 3
               PROVE  /\ SumOver(samples, old) \in Nat
                      /\ SumOver(samples, old) <= Cardinality(old) * Greatest(all)
    OBVIOUS
  <2>1. old # {}
    <3>1. Cardinality({}) = 0
      BY FS_EmptySet
    <3>2. QED
      BY <3>1
  <2>2. old \subseteq DOMAIN samples
    BY DEF OldTimes
  <2>3. all # {} /\ \A t \in old : samples[t] \in all
    BY <2>1, <2>2
  <2> HIDE DEF old, all
  <2>4. QED
    BY <1>5, <2>2, <2>3, SumIsBounded DEF Greatest
<1> HIDE DEF old, recent, late, all
<1>8. QED
  BY <1>1, <1>3, <1>6, <1>7 DEF None

(* Where no two successive times are far apart, each is at most one and a  *)
(* half intervals per step from the first.                                 *)
LEMMA CoveredWithoutGap ==
  ASSUME NEW times \in SUBSET Int, IsFiniteSet(times), times # {},
         NEW interval \in Nat, ~HasGap(times, interval)
  PROVE  2 * (Max(times) - Min(times)) <= 3 * interval * (Cardinality(times) - 1)
<1> DEFINE first == Min(times)
           k == 3 * interval
           upTo(t) == {u \in times : u <= t}
           count(t) == Cardinality(upTo(t))
           near == {t \in times : 2 * (t - first) <= k * (count(t) - 1)}
<1>1. first \in times /\ first \in Int /\ \A t \in times : first <= t
  BY MinFinite
<1>2. k \in Nat
  OBVIOUS
<1>3. ASSUME NEW t \in times
      PROVE  /\ IsFiniteSet(upTo(t)) /\ count(t) \in Nat /\ t \in upTo(t)
             /\ t \in Int
  <2>1. upTo(t) \subseteq times
    OBVIOUS
  <2>2. IsFiniteSet(upTo(t))
    BY <2>1, FS_Subset
  <2>3. QED
    BY <2>2, FS_CardinalityType
<1>4. first \in near
  <2>1. upTo(first) = {first}
    <3>1. \A u \in times : u \in Int /\ first <= u
      BY <1>1
    <3>2. \A u \in times : u <= first <=> u = first
      BY <1>1, <3>1
    <3> HIDE DEF first
    <3>3. QED
      BY <1>1, <3>2
  <2>2. count(first) = 1
    BY <2>1, FS_Singleton
  <2>3. 2 * (first - first) <= k * (1 - 1)
    BY <1>1, <1>2
  <2>4. QED
    BY <1>1, <2>2, <2>3
<1>5. near \in SUBSET Int /\ IsFiniteSet(near) /\ near # {}
  <2>1. near \subseteq times
    OBVIOUS
  <2>2. QED
    BY <1>4, <2>1, FS_Subset
<1>6. PICK t \in near : \A u \in near : t >= u
  <2> HIDE DEF near
  <2>1. QED
    BY <1>5, GreatestExists
<1>7. t = Max(times)
  <2>1. Max(times) \in times /\ \A u \in times : Max(times) >= u
    BY MaxFinite
  <2>2. t \in times /\ t \in Int /\ Max(times) \in Int
    BY <2>1
  <2>3. SUFFICES ASSUME t < Max(times) PROVE FALSE
    BY <2>1, <2>2
  <2>4. PICK u \in times : u > t /\ ~(2 * (u - t) > 3 * interval)
    BY <2>1, <2>2, <2>3 DEF HasGap
  <2>5. 2 * (u - t) <= k /\ u \in Int
    BY <1>2, <2>2, <2>4
  <2>6. count(t) + 1 <= count(u)
    <3>1. upTo(t) \cup {u} \subseteq upTo(u)
      <4>1. \A v \in times : v \in Int
        OBVIOUS
      <4>2. \A v \in times : v <= t => v <= u
        BY <2>2, <2>4, <2>5, <4>1
      <4>3. u <= u
        BY <2>5
      <4>4. QED
        BY <2>4, <4>2, <4>3
    <3>2. u \notin upTo(t)
      BY <2>2, <2>4, <2>5
    <3>3. Cardinality(upTo(t) \cup {u}) = count(t) + 1
      BY <1>3, <2>2, <3>2, FS_AddElement
    <3>4. Cardinality(upTo(t) \cup {u}) <= count(u)
      BY <1>3, <3>1, FS_Subset
    <3>5. QED
      BY <3>3, <3>4
  <2>7. count(t) \in Nat /\ count(u) \in Nat /\ 2 * (t - first) <= k * (count(t) - 1)
    BY <1>3, <2>2
  <2> HIDE DEF k, count, first, near
  <2>8. k * (count(t) - 1) + k <= k * (count(u) - 1)
    <3>1. k * (count(u) - 1 - count(t)) >= 0
      BY <1>2, <2>6, <2>7, Products
    <3>2. k * (count(u) - 1 - count(t)) = k * (count(u) - 1) - (k * (count(t) - 1) + k)
      BY <1>2, <2>7
    <3>3. k * (count(u) - 1) \in Int /\ k * (count(t) - 1) + k \in Int
      BY <1>2, <2>7
    <3>4. QED
      BY <3>1, <3>2, <3>3
  <2>9. 2 * (u - first) <= k * (count(u) - 1)
    <3>1. k * (count(t) - 1) \in Int /\ k * (count(u) - 1) \in Int
      BY <1>2, <2>7
    <3>2. QED
      BY <1>1, <1>2, <2>2, <2>5, <2>7, <2>8, <3>1
  <2>10. u \in near
    BY <2>9 DEF near
  <2>11. QED
    BY <1>6, <2>2, <2>4, <2>5, <2>10
<1>8. upTo(t) = times
  <2>1. \A u \in times : Max(times) >= u
    BY MaxFinite
  <2>2. QED
    BY <1>7, <2>1
<1>9. 2 * (t - first) <= k * (count(t) - 1)
  BY <1>6
<1>10. QED
  BY <1>7, <1>8, <1>9

(***************************************************************************)
(* What the model is told of the quality of its data agrees with the data: *)
(* samples, peaks, baselines and holes (_process_metric_series,            *)
(* extract_analysis_context).                                              *)
(***************************************************************************)
THEOREM QualitiesAreHonest == Spec => []QualityIsHonest
<1>1. Results => QualityIsHonest
  <2> SUFFICES ASSUME Results, Shown("series"), NEW m \in DOMAIN input.snapshot
               PROVE
      LET s == output.stats[m]
          times == DOMAIN Samples(input.points, m, input.ref)
      IN  /\ s.old + s.recent = s.hour
          /\ s.peak_15m <= s.peak_60m
          /\ s.baseline # None => s.baseline <= s.old * s.peak_60m
          /\ m \in Primary =>
               /\ s.hour > 0 /\ s.baseline = None => output.insufficient_baseline
               /\ times # {} /\ ~output.gaps_detected =>
                    2 * (Max(times) - Min(times))
                      <= 3 * input.interval * (Cardinality(times) - 1)
    BY DEF QualityIsHonest
  <2> DEFINE samples == Samples(input.points, m, input.ref)
             times == DOMAIN samples
             s == Series(samples, input.ref)
  <2>1. /\ output = Summary(input.points, input.snapshot, input.ref, input.interval)
        /\ AreRecords(input.points) /\ input.ref \in Int /\ input.interval \in Nat
    BY InputsAssumption DEF Results, Shown
  <2>2. AreSamples(samples)
    BY <2>1, SamplesOfTheHour
  <2>3. output.stats[m] = s
    BY <2>1 DEF Summary
  <2>4. m \in Primary /\ s.hour > 0 /\ s.old < 3 => output.insufficient_baseline
    BY <2>1 DEF Summary
  <2>5. m \in Primary /\ ~output.gaps_detected => ~HasGap(times, input.interval)
    BY <2>1 DEF Summary
  <2>6. m \in Primary /\ times # {} /\ ~output.gaps_detected =>
          2 * (Max(times) - Min(times)) <= 3 * input.interval * (Cardinality(times) - 1)
    <3>1. times \in SUBSET Int /\ IsFiniteSet(times)
      BY <2>2 DEF AreSamples
    <3> HIDE DEF times
    <3>2. QED
      BY <2>1, <2>5, <3>1, CoveredWithoutGap
  <2>7. /\ s.old + s.recent = s.hour
        /\ s.peak_15m <= s.peak_60m
        /\ s.baseline # None => s.baseline <= s.old * s.peak_60m
        /\ s.baseline = None <=> s.old < 3
    <3> HIDE DEF samples
    <3>1. QED
      BY <2>1, <2>2, SeriesFits
  <2> HIDE DEF s
  <2>8. QED
    BY <2>3, <2>4, <2>6, <2>7
<1>2. QED
  BY <1>1, ResultsInvariant, PTL

-----------------------------------------------------------------------------
(***************************************************************************)
(* The ticks of a time axis (_ticks).                                      *)
(***************************************************************************)
LEMMA IntervalIsTick ==
  ASSUME NEW span \in Nat \ {0}
  PROVE  LET tick == Interval(span)
         IN  \/ tick.unit = "minute" /\ tick.step \in {1, 5, 15, 30}
             \/ tick.unit = "hour" /\ tick.step \in {1, 3, 6, 12}
             \/ tick.unit = "day" /\ tick.step \in {1, 2}
<1> DEFINE under == {i \in DOMAIN TickIntervals :
                       TickIntervals[i].minutes * Count(span) <= span}
           below == Cardinality(under)
           index == Min({Max({below, 1}), Len(TickIntervals) - 1})
<1>1. DOMAIN TickIntervals = 1 .. 10 /\ Len(TickIntervals) = 10
  BY DEF TickIntervals
<1>2. below \in Nat
  <2>1. IsFiniteSet(1 .. 10)
    <3>1. 1 \in Int /\ 10 \in Int
      OBVIOUS
    <3> QED
      BY <3>1, FS_Interval
  <2>2. under \subseteq 1 .. 10
    BY <1>1
  <2> HIDE DEF under
  <2>3. IsFiniteSet(under)
    BY <2>1, <2>2, FS_Subset
  <2> QED
    BY <2>3, FS_CardinalityType
<1> HIDE DEF under, below
<1>3. index \in 1 .. 9
  <2> DEFINE m == Max({below, 1})
  <2>1. 1 \in Int /\ 9 \in Int /\ below \in Int
    BY <1>2
  <2>2. m >= below /\ m >= 1 /\ (m = below \/ m = 1)
    BY <2>1, MaxOfTwo
  <2>3. m \in Int
    BY <2>1, <2>2
  <2> HIDE DEF m
  <2>4. Min({m, 9}) <= m /\ Min({m, 9}) <= 9 /\ (Min({m, 9}) = m \/ Min({m, 9}) = 9)
    BY <2>1, <2>3, MinOfTwo
  <2>5. index = Min({m, 9})
    BY <1>1 DEF m
  <2> HIDE DEF index
  <2> QED
    BY <2>2, <2>3, <2>4, <2>5
<1>4. Interval(span) = TickIntervals[index] \/ Interval(span) = TickIntervals[index + 1]
  BY DEF Interval, under, below
<1> HIDE DEF index
<1>5. PICK i \in 1 .. 10 : Interval(span) = TickIntervals[i]
  <2>1. index \in 1 .. 10 /\ index + 1 \in 1 .. 10
    BY <1>3
  <2> QED
    BY <1>4, <2>1
<1>6. LET tick == TickIntervals[i]
      IN  \/ tick.unit = "minute" /\ tick.step \in {1, 5, 15, 30}
          \/ tick.unit = "hour" /\ tick.step \in {1, 3, 6, 12}
          \/ tick.unit = "day" /\ tick.step \in {1, 2}
  BY DEF TickIntervals, Tick
<1> QED
  BY <1>5, <1>6

(* Labels are so many units apart as a step of the unit says.               *)
LEMMA StepIsUnits ==
  ASSUME NEW span \in Nat \ {0}, NEW width \in Nat
  PROVE  LabelStep(span, width) \in LabelSteps[Interval(span).unit]
<1> DEFINE tick == Interval(span)
           steps == LabelSteps[tick.unit]
           wide == {n \in steps : n % tick.step = 0 /\ IsWide(span, width, n)}
<1>1. steps \subseteq Nat \ {0} /\ IsFiniteSet(steps) /\ steps # {}
  <2>1. steps \subseteq 1 .. 60 /\ 1 \in steps
    <3>1. tick.unit \in {"minute", "hour", "day"}
      BY IntervalIsTick
    <3> HIDE DEF tick
    <3> QED
      BY <3>1 DEF LabelSteps
  <2> HIDE DEF steps
  <2>2. IsFiniteSet(1 .. 60)
    <3>1. 1 \in Int /\ 60 \in Int
      OBVIOUS
    <3> QED
      BY <3>1, FS_Interval
  <2>3. IsFiniteSet(steps)
    BY <2>1, <2>2, FS_Subset
  <2> QED
    BY <2>1, <2>3
<1>2. wide \subseteq steps
  OBVIOUS
<1>3. LabelStep(span, width) = IF wide = {} THEN Max(steps) ELSE Min(wide)
  BY DEF LabelStep
<1> HIDE DEF steps, wide
<1>4. Max(steps) \in steps
  BY <1>1, MaxFinite
<1>5. wide # {} => Min(wide) \in wide
  <2>1. IsFiniteSet(wide)
    BY <1>1, <1>2, FS_Subset
  <2>2. wide \in SUBSET Int
    BY <1>1, <1>2
  <2> QED
    BY <2>1, <2>2, MinFinite
<1> QED
  BY <1>2, <1>3, <1>4, <1>5 DEF steps

(***************************************************************************)
(* Any finite set of boxes can be thinned, from the last to the first.     *)
(***************************************************************************)
LEMMA ThinningExists ==
  ASSUME NEW S \in SUBSET Int, IsFiniteSet(S), NEW left, DOMAIN left = S, NEW gap
  PROVE  \E kept \in SUBSET S : IsThinned(kept, left, gap)
<1> DEFINE Later(K, w) == {u \in K : u > w}
           Room(K, w) == Later(K, w) = {} \/ left[Min(Later(K, w))] - left[w] >= gap
           Thins(K, T) == K \subseteq T /\ \A w \in T : w \in K <=> Room(K, w)
           Bad == {T \in SUBSET S : ~\E K : Thins(K, T)}
<1>1. SUFFICES Bad = {}
  <2>1. S \notin Bad
    BY <1>1
  <2>2. PICK K : Thins(K, S)
    BY <2>1
  <2> QED
    BY <2>2 DEF IsThinned
<1>2. SUFFICES ASSUME Bad # {} PROVE FALSE
  OBVIOUS
<1>3. PICK T \in Bad : \A U \in Bad : U \subseteq T => U = T
  <2>1. Bad \subseteq FiniteSubsetsOf(S)
    BY FS_Subset DEF FiniteSubsetsOf
  <2> HIDE DEF Bad
  <2> QED
    BY <1>2, <2>1, SmallestSet
<1>4. T \in SUBSET Int /\ IsFiniteSet(T) /\ ~\E K : Thins(K, T)
  BY <1>3, FS_Subset
<1>5. T # {}
  <2>1. Thins({}, {})
    OBVIOUS
  <2> QED
    BY <1>4, <2>1
<1> DEFINE first == Min(T)
           rest == T \ {first}
<1>6. first \in T /\ first \in Int /\ \A w \in T : first <= w
  <2> HIDE DEF Bad, Thins
  <2> QED
    BY <1>4, <1>5, MinFinite
<1> HIDE DEF first
<1>7. PICK K : Thins(K, rest)
  <2>1. rest \notin Bad
    BY <1>3, <1>6
  <2>2. rest \in SUBSET S
    BY <1>3
  <2> HIDE DEF Thins, rest
  <2> QED
    BY <2>1, <2>2
<1> DEFINE L == IF Room(K, first) THEN K \cup {first} ELSE K
<1>8. ASSUME NEW w \in T
      PROVE  Later(L, w) = Later(K, w)
  <2>1. w \in Int /\ first <= w /\ first \in Int
    BY <1>4, <1>6
  <2>2. ~(first > w)
    BY <2>1
  <2> QED
    BY <2>2
<1>9. Thins(L, T)
  <2>1. L \subseteq T
    BY <1>6, <1>7
  <2>2. first \notin K
    BY <1>7
  <2>3. \A w \in T : Room(L, w) <=> Room(K, w)
    <3> TAKE w \in T
    <3>1. Later(L, w) = Later(K, w)
      BY <1>8
    <3> HIDE DEF L, Later
    <3> QED
      BY <3>1
  <2>4. first \in L <=> Room(K, first)
    <3> HIDE DEF Room
    <3> QED
      BY <2>2
  <2>5. \A w \in rest : w \in L <=> w \in K
    <3> HIDE DEF Room
    <3> QED
      OBVIOUS
  <2>6. \A w \in rest : w \in K <=> Room(K, w)
    BY <1>7
  <2> HIDE DEF L, Room
  <2> QED
    BY <1>6, <2>1, <2>3, <2>4, <2>5, <2>6
<1> HIDE DEF Thins, L
<1> QED
  BY <1>4, <1>9

IsTickOf(a, tick) ==
  /\ tick = Interval(a.span)
  /\ \/ tick.unit = "minute" /\ tick.step \in {1, 5, 15, 30}
     \/ tick.unit = "hour" /\ tick.step \in {1, 3, 6, 12}
     \/ tick.unit = "day" /\ tick.step \in {1, 2}

LEMMA TickOf == ASSUME NEW a, IsAxis(a) PROVE IsTickOf(a, Interval(a.span))
BY IntervalIsTick DEF IsAxis, IsTickOf

LEMMA TimesAreInts ==
  ASSUME NEW a, IsAxis(a), NEW t \in Int
  PROVE  /\ Wall(a.zone, t) \in Int /\ Instant(a.zone, t) \in Int
         /\ LeftOf(a, t) \in Int
         /\ Max({a.zone.before, a.zone.after}) =
              IF Repeats(a.zone) THEN a.zone.before ELSE a.zone.after
<1> DEFINE m == Max({a.zone.before, a.zone.after})
<1>1. /\ a.start \in Int /\ a.span \in Int /\ a.width \in Int
      /\ a.zone.before \in Int /\ a.zone.after \in Int /\ a.zone.change \in Int
  BY DEF IsAxis
<1>2. m >= a.zone.before /\ m >= a.zone.after /\ (m = a.zone.before \/ m = a.zone.after)
  BY <1>1, MaxOfTwo
<1>3. m \in Int
  BY <1>1, <1>2
<1> HIDE DEF m
<1>4. m = IF Repeats(a.zone) THEN a.zone.before ELSE a.zone.after
  BY <1>1, <1>2, <1>3 DEF Repeats
<1>5. Wall(a.zone, t) \in Int /\ Instant(a.zone, t) \in Int
  BY <1>1, <1>3 DEF Wall, Instant
<1> DEFINE i == Instant(a.zone, t)
           half == TickLabelWidth \div 2
<1>6. half = 16 /\ PlotLeft = 6
  BY DEF TickLabelWidth, PlotLeft
<1> HIDE DEF i, half
<1>7. LeftOf(a, t) = (PlotLeft * a.span + (i - a.start) * a.width) - half * a.span
  BY DEF LeftOf, Place, i, half
<1>8. i \in Int /\ (i - a.start) * a.width \in Int
  BY <1>1, <1>5, Products DEF i
<1>9. LeftOf(a, t) \in Int
  BY <1>1, <1>6, <1>7, <1>8
<1> QED
  BY <1>4, <1>5, <1>9 DEF m

(* Local times looked at are whole units, and all of them are.              *)
LEMMA WallsAreUnits ==
  ASSUME NEW a, IsAxis(a)
  PROVE  LET unit == Minutes[Interval(a.span).unit]
         IN  /\ IsFiniteSet(Walls(a)) /\ Walls(a) \subseteq Int
             /\ \A w \in Walls(a) : w % unit = 0
             /\ \A w \in Int :
                  /\ w % unit = 0
                  /\ Wall(a.zone, a.start) <= w /\ w <= Wall(a.zone, a.start + a.span)
                  => w \in Walls(a)
<1> DEFINE unit == Minutes[Interval(a.span).unit]
           s == Wall(a.zone, a.start)
           e == Wall(a.zone, a.start + a.span)
           from == (s \div unit) * unit
           n == (e - from) \div unit
<1>1. unit \in {1, 60, 1440}
  BY TickOf DEF IsTickOf, Minutes
<1>2. s \in Int /\ e \in Int
  <2>1. a.start \in Int /\ a.start + a.span \in Int
    BY DEF IsAxis
  <2> QED
    BY <2>1, TimesAreInts
<1>3. Walls(a) = {from + k * unit : k \in 0 .. n}
  BY DEF Walls
<1> HIDE DEF unit, s, e
<1>4. from \in Int /\ n \in Int /\ from % unit = 0
  BY <1>1, <1>2
<1>5. ASSUME NEW w \in Int, w % unit = 0, s <= w, w <= e
      PROVE  (w - from) \div unit \in 0 .. n /\ w = from + ((w - from) \div unit) * unit
  BY <1>1, <1>2, <1>5
<1> HIDE DEF from, n
<1>6. \A k \in 0 .. n : from + k * unit \in Int /\ (from + k * unit) % unit = 0
  BY <1>1, <1>4
<1>7. IsFiniteSet({from + k * unit : k \in 0 .. n})
  <2> DEFINE f == [k \in 0 .. n |-> from + k * unit]
  <2>1. f \in Surjection(0 .. n, {from + k * unit : k \in 0 .. n})
    BY DEF Surjection
  <2>2. 0 \in Int
    OBVIOUS
  <2>3. IsFiniteSet(0 .. n)
    BY <1>4, <2>2, FS_Interval
  <2> HIDE DEF f
  <2> QED
    BY <2>1, <2>3, FS_Surjection
<1> QED
  BY <1>3, <1>5, <1>6, <1>7 DEF unit, s, e

LEMMA MarksAreDue ==
  ASSUME NEW a, IsAxis(a)
  PROVE  /\ IsFiniteSet(Marks(a)) /\ Marks(a) \subseteq Due(a) /\ Due(a) \subseteq Int
         /\ \A w \in Due(a) :
              /\ IsRound(Interval(a.span), w)
              /\ Instant(a.zone, w) \in a.start .. a.start + a.span
         /\ \A w \in Marks(a), u \in Due(a) :
              u < w => Instant(a.zone, u) < Instant(a.zone, w)
<1>1. Marks(a) \subseteq Due(a) /\ Due(a) \subseteq Walls(a)
  BY DEF Marks, Due
<1>2. IsFiniteSet(Marks(a)) /\ Due(a) \subseteq Int
  <2>1. IsFiniteSet(Walls(a)) /\ Walls(a) \subseteq Int /\ Marks(a) \subseteq Walls(a)
    BY <1>1, WallsAreUnits
  <2> QED
    BY <1>1, <2>1, FS_Subset
<1>3. ASSUME NEW w \in Due(a)
      PROVE  /\ IsRound(Interval(a.span), w)
             /\ Instant(a.zone, w) \in a.start .. a.start + a.span
  <2>1. w % Minutes[Interval(a.span).unit] = 0
    BY <1>1, WallsAreUnits
  <2> QED
    BY <2>1 DEF Due, IsRound
<1>4. ASSUME NEW w \in Marks(a), NEW u \in Due(a), u < w
      PROVE  Instant(a.zone, u) < Instant(a.zone, w)
  BY <1>4 DEF Marks
<1> QED
  BY <1>1, <1>2, <1>3, <1>4

(* The place of a label grows with its instant.                             *)
LEMMA PlacesGrow ==
  ASSUME NEW a, IsAxis(a), NEW w \in Int, NEW u \in Int
  PROVE  /\ LeftOf(a, u) - LeftOf(a, w)
              = (Instant(a.zone, u) - Instant(a.zone, w)) * a.width
         /\ Instant(a.zone, w) <= Instant(a.zone, u) => LeftOf(a, w) <= LeftOf(a, u)
<1> DEFINE i == Instant(a.zone, w)
           j == Instant(a.zone, u)
           c == PlotLeft * a.span
           d == (TickLabelWidth \div 2) * a.span
           p == (i - a.start) * a.width
           q == (j - a.start) * a.width
<1>1. /\ i \in Int /\ j \in Int /\ a.width \in Nat /\ a.start \in Int /\ a.span \in Int
      /\ LeftOf(a, u) \in Int /\ LeftOf(a, w) \in Int
  <2>1. a.width \in Nat /\ a.start \in Int /\ a.span \in Int
    BY DEF IsAxis
  <2> QED
    BY <2>1, TimesAreInts
<1>2. LeftOf(a, w) = (c + p) - d /\ LeftOf(a, u) = (c + q) - d
  <2>1. LeftOf(a, w) = (c + p) - d
    BY DEF LeftOf, Place
  <2>2. LeftOf(a, u) = (c + q) - d
    BY DEF LeftOf, Place
  <2> QED
    BY <2>1, <2>2
<1> HIDE DEF i, j
<1>3. c \in Int /\ d \in Int
  BY <1>1 DEF PlotLeft, TickLabelWidth
<1>4. p \in Int /\ q \in Int /\ q - p = (j - i) * a.width
  BY <1>1
<1> HIDE DEF c, d, p, q
<1>5. LeftOf(a, u) - LeftOf(a, w) = (j - i) * a.width
  BY <1>2, <1>3, <1>4
<1>6. i <= j => (j - i) * a.width >= 0
  BY <1>1, Products
<1>7. (j - i) * a.width \in Int
  BY <1>1
<1> DEFINE r == (j - i) * a.width
<1> HIDE DEF r
<1>8. i <= j => LeftOf(a, w) <= LeftOf(a, u)
  BY <1>1, <1>5, <1>6, <1>7 DEF r
<1> QED
  BY <1>5, <1>8 DEF i, j

LabelGap(a) == (TickLabelWidth + TickMinGap) * a.span

LEMMA LabelsAreThinned ==
  ASSUME NEW a, IsAxis(a)
  PROVE  /\ Boxes(a) \subseteq Marks(a) /\ Labels(a) \subseteq Boxes(a)
         /\ IsThinned(Labels(a), [w \in Boxes(a) |-> LeftOf(a, w)], LabelGap(a))
<1> DEFINE left == [w \in Boxes(a) |-> LeftOf(a, w)]
           gap == LabelGap(a)
<1>1. Boxes(a) \subseteq Marks(a)
  BY DEF Boxes
<1>2. DOMAIN left = Boxes(a)
  OBVIOUS
<1>3. IsFiniteSet(Boxes(a)) /\ Boxes(a) \in SUBSET Int
  <2>1. IsFiniteSet(Marks(a)) /\ Marks(a) \subseteq Int
    BY MarksAreDue
  <2> QED
    BY <1>1, <2>1, FS_Subset
<1>4. Labels(a) = CHOOSE kept \in SUBSET DOMAIN left : IsThinned(kept, left, gap)
  BY DEF Labels, LabelGap
<1> HIDE DEF left, gap
<1>5. \E kept \in SUBSET DOMAIN left : IsThinned(kept, left, gap)
  BY <1>2, <1>3, ThinningExists
<1>6. Labels(a) \in SUBSET DOMAIN left /\ IsThinned(Labels(a), left, gap)
  BY <1>4, <1>5
<1> QED
  BY <1>1, <1>2, <1>6 DEF left, gap

(* A label is as far from every later one as from the next.                 *)
LEMMA LabelsAreApart ==
  ASSUME NEW a, IsAxis(a), NEW w \in Labels(a), NEW u \in Labels(a), w < u
  PROVE  LeftOf(a, u) - LeftOf(a, w) >= LabelGap(a)
<1> DEFINE later == {v \in Labels(a) : v > w}
           next == Min(later)
<1>1. Labels(a) \subseteq Boxes(a) /\ Labels(a) \subseteq Marks(a)
  BY LabelsAreThinned
<1>2. IsFiniteSet(Marks(a)) /\ Marks(a) \subseteq Due(a) /\ Marks(a) \subseteq Int
  BY MarksAreDue
<1>3. w \in Int /\ u \in Int /\ u \in later
  BY <1>1, <1>2
<1>4. next \in later /\ next <= u
  <2>1. later \subseteq Marks(a)
    BY <1>1
  <2>2. IsFiniteSet(later) /\ later \in SUBSET Int
    BY <1>2, <2>1, FS_Subset
  <2> HIDE DEF later
  <2> QED
    BY <1>3, <2>2, MinFinite
<1>5. LeftOf(a, next) - LeftOf(a, w) >= LabelGap(a)
  <2>1. IsThinned(Labels(a), [v \in Boxes(a) |-> LeftOf(a, v)], LabelGap(a))
    BY LabelsAreThinned
  <2>2. next \in Boxes(a) /\ w \in Boxes(a) /\ later # {}
    BY <1>1, <1>4
  <2> QED
    BY <2>1, <2>2 DEF IsThinned
<1>6. next \in Marks(a) /\ next \in Due(a) /\ next \in Int
  BY <1>1, <1>2, <1>4
<1> HIDE DEF later, next
<1>7. Instant(a.zone, next) <= Instant(a.zone, u)
  <2>1. Instant(a.zone, next) \in Int /\ Instant(a.zone, u) \in Int
    BY <1>3, <1>6, TimesAreInts
  <2>2. next < u => Instant(a.zone, next) < Instant(a.zone, u)
    BY <1>1, <1>6, MarksAreDue
  <2>3. next = u \/ next < u
    BY <1>3, <1>4, <1>6
  <2> QED
    BY <2>1, <2>2, <2>3
<1>8. LeftOf(a, next) <= LeftOf(a, u)
  BY <1>3, <1>6, <1>7, PlacesGrow
<1>9. LeftOf(a, next) \in Int /\ LeftOf(a, u) \in Int /\ LeftOf(a, w) \in Int
  BY <1>3, <1>6, TimesAreInts
<1>10. LabelGap(a) \in Int
  BY DEF LabelGap, TickLabelWidth, TickMinGap, IsAxis
<1> QED
  BY <1>5, <1>8, <1>9, <1>10

(* Local times at multiples of a step, which divides the hour or the day,   *)
(* are at least the step apart.                                             *)
LEMMA StepsAreApart ==
  ASSUME NEW unit \in {"minute", "hour"}, NEW n \in LabelSteps[unit],
         NEW w \in Int, NEW u \in Int, w < u,
         w % Minutes[unit] = 0, u % Minutes[unit] = 0,
         Field(unit, w) % n = 0, Field(unit, u) % n = 0
  PROVE  u - w >= n * Minutes[unit]
<1>1. CASE unit = "minute"
  <2>1. n \in {1, 5, 10, 15, 20, 30, 60} /\ Minutes[unit] = 1
    BY <1>1 DEF LabelSteps, Minutes
  <2>2. (w % 60) % n = 0 /\ (u % 60) % n = 0
    BY <1>1 DEF Field
  <2>3. u - w >= n
    BY <2>1, <2>2
  <2> QED
    BY <2>1, <2>3
<1>2. CASE unit = "hour"
  <2>1. n \in {1, 2, 3, 4, 6, 8, 12, 24} /\ Minutes[unit] = 60
    BY <1>2 DEF LabelSteps, Minutes
  <2>2. ((w \div 60) % 24) % n = 0 /\ ((u \div 60) % 24) % n = 0
    BY <1>2 DEF Field
  <2>3. w % 60 = 0 /\ u % 60 = 0
    BY <2>1
  <2>4. u - w >= n * 60
    BY <2>1, <2>2, <2>3
  <2> QED
    BY <2>1, <2>4
<1> QED
  BY <1>1, <1>2

(* Where local time runs on evenly, none of the boxes is too close.         *)
LEMMA NoLabelIsLost ==
  ASSUME NEW a, IsAxis(a), a.zone.before = a.zone.after, Interval(a.span).unit # "day",
         IsWide(a.span, a.width, LabelStep(a.span, a.width))
  PROVE  Labels(a) = Boxes(a)
<1> DEFINE unit == Interval(a.span).unit
           n == LabelStep(a.span, a.width)
<1>0. Labels(a) \subseteq Boxes(a) /\ Boxes(a) \subseteq Marks(a)
  BY LabelsAreThinned
<1>00. IsFiniteSet(Marks(a)) /\ Marks(a) \subseteq Due(a) /\ Marks(a) \subseteq Int
  BY MarksAreDue
<1>1. SUFFICES ASSUME NEW w \in Boxes(a)
               PROVE  w \in Labels(a)
  BY <1>0
<1> DEFINE later == {v \in Labels(a) : v > w}
           next == Min(later)
<1>2. SUFFICES ASSUME later # {}
               PROVE  LeftOf(a, next) - LeftOf(a, w) >= LabelGap(a)
  <2>1. next \in Boxes(a) \/ later = {}
    <3>1. later \subseteq Marks(a) /\ later \subseteq Boxes(a)
      BY <1>0
    <3>2. IsFiniteSet(later) /\ later \in SUBSET Int
      BY <1>00, <3>1, FS_Subset
    <3> HIDE DEF later
    <3> QED
      BY <3>1, <3>2, MinFinite
  <2> QED
    BY <2>1, LabelsAreThinned DEF IsThinned
<1>3. next \in later
  <2>1. later \subseteq Marks(a)
    BY <1>0
  <2>2. IsFiniteSet(later) /\ later \in SUBSET Int
    BY <1>00, <2>1, FS_Subset
  <2> HIDE DEF later
  <2> QED
    BY <1>2, <2>2, MinFinite
<1>4. next \in Boxes(a) /\ w < next /\ next \in Int /\ w \in Int
  BY <1>0, <1>00, <1>3
<1> HIDE DEF later, next
<1>5. unit \in {"minute", "hour"} /\ n \in LabelSteps[unit]
  <2>1. a.span \in Nat \ {0} /\ a.width \in Nat
    BY DEF IsAxis
  <2>2. unit \in {"minute", "hour", "day"}
    BY TickOf DEF IsTickOf
  <2> QED
    BY <2>1, <2>2, StepIsUnits
<1>6. /\ w % Minutes[unit] = 0 /\ next % Minutes[unit] = 0
      /\ Field(unit, w) % n = 0 /\ Field(unit, next) % n = 0
  <2>1. w \in Due(a) /\ next \in Due(a)
    BY <1>0, <1>00, <1>4
  <2>2. IsRound(Interval(a.span), w) /\ IsRound(Interval(a.span), next)
    BY <2>1, MarksAreDue
  <2>3. Field(unit, w) % n = 0 /\ Field(unit, next) % n = 0
    BY <1>4 DEF Boxes
  <2> QED
    BY <2>2, <2>3 DEF IsRound
<1> DEFINE apart == n * Minutes[unit]
<1>7. apart * a.width >= LabelGap(a)
  BY DEF IsWide, LabelGap
<1>8. apart \in Int
  BY <1>5 DEF LabelSteps, Minutes
<1> HIDE DEF unit, n
<1>9. next - w >= apart
  BY <1>4, <1>5, <1>6, StepsAreApart
<1>10. LeftOf(a, next) - LeftOf(a, w) = (next - w) * a.width
  <2>1. LeftOf(a, next) - LeftOf(a, w)
          = (Instant(a.zone, next) - Instant(a.zone, w)) * a.width
    BY <1>4, PlacesGrow
  <2>2. a.zone.before \in Int /\ a.zone.after \in Int
    BY DEF IsAxis
  <2>3. Instant(a.zone, next) - Instant(a.zone, w) = next - w
    BY <1>4, <2>2 DEF Instant
  <2> QED
    BY <2>1, <2>3
<1> HIDE DEF apart
<1>11. (next - w) * a.width >= apart * a.width
  <2>1. a.width \in Nat
    BY DEF IsAxis
  <2>2. (next - w - apart) * a.width >= 0
    BY <1>4, <1>8, <1>9, <2>1, Products
  <2>3. (next - w - apart) * a.width = (next - w) * a.width - apart * a.width
    BY <1>4, <1>8, <2>1
  <2>4. (next - w) * a.width \in Int /\ apart * a.width \in Int
    BY <1>4, <1>8, <2>1, Products
  <2> QED
    BY <2>2, <2>3, <2>4
<1>12. LabelGap(a) \in Int /\ (next - w) * a.width \in Int /\ apart * a.width \in Int
  BY <1>4, <1>8, Products DEF LabelGap, TickLabelWidth, TickMinGap, IsAxis
<1> QED
  BY <1>7, <1>10, <1>11, <1>12

(***************************************************************************)
(* The clocks are put forward: a skipped local time is taken for the one   *)
(* it falls on, which is marked in its place if that is round as well.     *)
(***************************************************************************)
LEMMA RoundTimesAreMarked ==
  ASSUME NEW a, IsAxis(a), ~Repeats(a.zone),
         NEW i \in a.start .. a.start + a.span,
         IsRound(Interval(a.span), Wall(a.zone, i))
  PROVE  \E w \in Marks(a) : Instant(a.zone, w) = i
<1> DEFINE tick == Interval(a.span)
           b == a.zone.before
           f == a.zone.after
           c == a.zone.change
           s == a.start
           e == a.start + a.span
           w == Wall(a.zone, i)
<1>1. /\ b \in Int /\ f \in Int /\ c \in Int /\ s \in Int /\ e \in Int /\ s <= e
      /\ i \in Int /\ s <= i /\ i <= e
      /\ f - b \in {0, 30, 60}
  BY DEF IsAxis, Repeats
<1>2. \A t \in Int :
        /\ Wall(a.zone, t) = IF t < c THEN t + b ELSE t + f
        /\ Instant(a.zone, t) = IF t < c + f THEN t - b ELSE t - f
  <2> TAKE t \in Int
  <2>1. Max({b, f}) = f
    BY TimesAreInts
  <2> QED
    BY <1>1, <2>1 DEF Wall, Instant
<1>3. IsTickOf(a, tick) /\ IsRound(tick, w)
  BY TickOf
<1> HIDE DEF tick, b, f, c, s, e, w
<1>4. /\ w = IF i < c THEN i + b ELSE i + f
      /\ Wall(a.zone, s) = IF s < c THEN s + b ELSE s + f
      /\ Wall(a.zone, e) = IF e < c THEN e + b ELSE e + f
  BY <1>1, <1>2 DEF w
<1>5. /\ w \in Int /\ Instant(a.zone, w) = i
      /\ Wall(a.zone, s) <= w /\ w <= Wall(a.zone, e)
  <2>1. w \in Int
    BY <1>1, <1>4
  <2>2. Instant(a.zone, w) = IF w < c + f THEN w - b ELSE w - f
    BY <1>2, <2>1
  <2>3. Wall(a.zone, s) \in Int /\ Wall(a.zone, e) \in Int
    BY <1>1, <1>4
  <2> QED
    BY <1>1, <1>4, <2>1, <2>2, <2>3
<1>6. ASSUME NEW v \in Int, IsRound(tick, v), Instant(a.zone, v) = i,
             Wall(a.zone, s) <= v, v <= Wall(a.zone, e)
      PROVE  v \in Due(a)
  <2>1. v % Minutes[tick.unit] = 0 /\ Field(tick.unit, v) % tick.step = 0
    BY <1>6 DEF IsRound
  <2>2. v \in Walls(a)
    BY <1>6, <2>1, WallsAreUnits DEF s, e, tick
  <2>3. Instant(a.zone, v) \in a.start .. a.start + a.span
    BY <1>6
  <2> QED
    BY <2>1, <2>2, <2>3 DEF Due, tick
<1>7. w \in Due(a)
  BY <1>3, <1>5, <1>6
<1>8. CASE \A v \in Due(a) : v < w => Instant(a.zone, v) < i
  <2>1. w \in Marks(a)
    BY <1>5, <1>7, <1>8 DEF Marks
  <2> QED
    BY <1>5, <2>1
<1>9. CASE \E v \in Due(a) : v < w /\ ~(Instant(a.zone, v) < i)
  <2>1. PICK v \in Due(a) : v < w /\ ~(Instant(a.zone, v) < i)
    BY <1>9
  <2>2. v \in Int /\ IsRound(tick, v) /\ v \in Walls(a)
    BY MarksAreDue DEF tick, Due
  <2>3. Instant(a.zone, v) = IF v < c + f THEN v - b ELSE v - f
    BY <1>2, <2>2
  <2>4. v < c + f /\ i >= c /\ w = i + f /\ i + b <= v
    BY <1>1, <1>4, <1>5, <2>1, <2>2, <2>3
  <2> DEFINE u == i + b
  <2>5. u \in Int /\ u = w - (f - b) /\ u <= v /\ f - b \in {30, 60} /\ u < c + f
    BY <1>1, <1>5, <2>1, <2>2, <2>4
  <2>6. Instant(a.zone, u) = i
    BY <1>1, <1>2, <2>5
  <2> HIDE DEF u
  <2>7. u \in Due(a)
    <3>1. CASE tick.unit = "minute"
      <4>1. tick.step \in {1, 5, 15, 30} /\ Minutes[tick.unit] = 1
        BY <1>3, <3>1 DEF IsTickOf, Minutes
      <4>2. (w % 60) % tick.step = 0
        BY <1>3, <3>1 DEF IsRound, Field
      <4>3. (u % 60) % tick.step = 0
        BY <1>5, <2>5, <4>1, <4>2
      <4>4. IsRound(tick, u)
        BY <2>5, <3>1, <4>1, <4>3 DEF IsRound, Field
      <4>5. Wall(a.zone, s) <= v
        <5>1. PICK k \in 0 .. (Wall(a.zone, a.start + a.span)
                                - (Wall(a.zone, s) \div 1) * 1) \div 1 :
                v = (Wall(a.zone, s) \div 1) * 1 + k * 1
          BY <2>2, <4>1 DEF Walls, tick, s
        <5>2. Wall(a.zone, s) \in Int
          BY <1>1, <1>4
        <5> QED
          BY <5>1, <5>2
      <4>6. Wall(a.zone, s) <= u
        BY <1>1, <1>4, <2>2, <2>4, <4>5 DEF u
      <4>7. u <= Wall(a.zone, e)
        <5>1. Wall(a.zone, e) \in Int
          BY <1>1, <1>4
        <5> QED
          BY <1>5, <2>1, <2>2, <2>5, <5>1
      <4> QED
        BY <1>6, <2>5, <2>6, <4>4, <4>6, <4>7
    <3>2. CASE tick.unit = "hour"
      <4>1. w % 60 = 0 /\ v % 60 = 0
        BY <1>3, <2>2, <3>2 DEF IsRound, Minutes
      <4>2. w - v >= 60
        BY <1>5, <2>1, <2>2, <4>1
      <4>3. u = v
        BY <1>5, <2>2, <2>5, <4>2
      <4> QED
        BY <4>3
    <3>3. CASE tick.unit = "day"
      <4>1. w % 1440 = 0 /\ v % 1440 = 0
        BY <1>3, <2>2, <3>3 DEF IsRound, Minutes
      <4>2. w - v >= 1440
        BY <1>5, <2>1, <2>2, <4>1
      <4> QED
        BY <1>5, <2>2, <2>5, <4>2
    <3> QED
      BY <1>3, <3>1, <3>2, <3>3 DEF IsTickOf
  <2>8. u \in Marks(a)
    <3>1. ASSUME NEW x \in Due(a), x < u
          PROVE  Instant(a.zone, x) < i
      <4>1. x \in Int
        BY MarksAreDue
      <4>2. x < c + f
        BY <1>1, <2>5, <3>1, <4>1
      <4>3. Instant(a.zone, x) = x - b
        BY <1>2, <4>1, <4>2
      <4> QED
        BY <1>1, <3>1, <4>1, <4>3 DEF u
    <3> QED
      BY <2>6, <2>7, <3>1 DEF Marks
  <2> QED
    BY <2>6, <2>8
<1> QED
  BY <1>8, <1>9

(***************************************************************************)
(* Labels lie on the plot and apart from each other, marks in the window   *)
(* and in order, every instant on a round local time has its mark unless   *)
(* the clocks are set back, and no label is lost where time runs on evenly *)
(* (_ticks).                                                               *)
(***************************************************************************)
THEOREM TicksStayReadable == Spec => []TicksAreReadable
<1>1. Results => TicksAreReadable
  <2> SUFFICES ASSUME Results, Shown("ticks")
               PROVE  TicksAreReadable
    BY DEF TicksAreReadable
  <2> DEFINE a == input.axis
             tick == Interval(a.span)
  <2>1. /\ output.marks = Marks(a) /\ output.labels = Labels(a) /\ IsAxis(a)
    BY InputsAssumption DEF Results, Shown
  <2> HIDE DEF a
  <2>2. /\ Labels(a) \subseteq Boxes(a) /\ Boxes(a) \subseteq Marks(a)
        /\ Marks(a) \subseteq Due(a)
    BY <2>1, LabelsAreThinned, MarksAreDue
  <2>3. \A w, u \in Labels(a) : w < u =>
          LeftOf(a, u) - LeftOf(a, w) >= (TickLabelWidth + TickMinGap) * a.span
    BY <2>1, LabelsAreApart DEF LabelGap
  <2>4. \A w \in Labels(a) :
          /\ LeftOf(a, w) >= PlotLeft * a.span
          /\ LeftOf(a, w) + TickLabelWidth * a.span <= (PlotLeft + a.width) * a.span
    BY <2>2 DEF Boxes
  <2>5. \A w, u \in Marks(a) : w < u => Instant(a.zone, w) < Instant(a.zone, u)
    BY <2>1, <2>2, MarksAreDue
  <2>6. {Instant(a.zone, w) : w \in Marks(a)} \subseteq a.start .. a.start + a.span
    BY <2>1, <2>2, MarksAreDue
  <2>7. ~Repeats(a.zone) =>
          \A i \in a.start .. a.start + a.span :
            IsRound(tick, Wall(a.zone, i)) =>
              i \in {Instant(a.zone, w) : w \in Marks(a)}
    BY <2>1, RoundTimesAreMarked
  <2>8. /\ a.zone.before = a.zone.after /\ tick.unit # "day"
        /\ IsWide(a.span, a.width, LabelStep(a.span, a.width))
        => Labels(a) = Boxes(a)
    BY <2>1, NoLabelIsLost
  <2> HIDE DEF tick
  <2> QED
    BY <2>1, <2>3, <2>4, <2>5, <2>6, <2>7, <2>8 DEF TicksAreReadable, a, tick
<1>2. QED
  BY <1>1, ResultsInvariant, PTL
=============================================================================
