-------------------------- MODULE AnimationProofs --------------------------
(***************************************************************************)
(* Where an animated node can be, and when callbacks run, for all          *)
(* positions, durations, clocks and gaps between ticks.                    *)
(***************************************************************************)
EXTENDS Animations, FiniteSetTheorems, SequenceTheorems, TLAPS

-----------------------------------------------------------------------------
(* Easing                                                                  *)

\* A move never leaves the stretch between its start and its end: the progress
\* of every easing is between none and all.
LEMMA EasedRange ==
    ASSUME NEW e \in Easings, NEW dur \in Nat \ {0}, NEW t \in 0..dur
    PROVE  Eased(e, t, dur) \in 0..(dur * dur)
<1> DEFINE rest == dur - t
<1>1. rest \in Nat /\ t \in Nat
  OBVIOUS
<1>2. t * t \in Nat /\ rest * rest \in Nat /\ t * dur \in Nat /\ dur * dur \in Nat
  OBVIOUS
<1>3. t * dur <= dur * dur /\ t * t <= t * dur
  OBVIOUS
<1>4. rest * rest <= dur * dur
  OBVIOUS
<1>5. CASE e = "EaseInOut"
  <2>1. CASE 2 * t < dur
    <3>1. 2 * t * t <= dur * dur
      BY <2>1
    <3> QED
      BY <1>5, <2>1, <3>1, <1>2 DEF Eased
  <2>2. CASE ~ (2 * t < dur)
    <3>1. 2 * rest <= dur
      BY <2>2
    <3>2. 2 * rest * rest <= dur * dur
      BY <3>1
    <3> QED
      BY <1>5, <2>2, <3>2, <1>2 DEF Eased
  <2> QED
    BY <2>1, <2>2
<1>6. CASE e # "EaseInOut"
  BY <1>6, <1>2, <1>3, <1>4 DEF Eased, Easings
<1> QED
  BY <1>5, <1>6

\* Division with a positive divisor.
LEMMA Quotient ==
    ASSUME NEW n \in Nat, NEW d \in Nat \ {0}
    PROVE  /\ n \div d \in Nat
           /\ d * (n \div d) <= n
           /\ n < d * (n \div d) + d
OBVIOUS

\* What truncation towards zero leaves: a whole number, less than one from the
\* fraction, on the side of zero.
LEMMA TruncatedNear ==
    ASSUME NEW n \in Int, NEW d \in Nat \ {0}
    PROVE  /\ Truncated(n, d) \in Int
           /\ n >= 0 => d * Truncated(n, d) <= n /\ n < d * Truncated(n, d) + d
           /\ n < 0 => n <= d * Truncated(n, d) /\ d * Truncated(n, d) - d < n
<1>1. CASE n >= 0
  BY <1>1, Quotient DEF Truncated
<1>2. CASE n < 0
  <2>1. -n \in Nat
    BY <1>2
  <2>2. /\ (-n) \div d \in Nat
        /\ d * ((-n) \div d) <= -n
        /\ -n < d * ((-n) \div d) + d
    BY <2>1, Quotient
  <2>3. Truncated(n, d) = -((-n) \div d)
    BY <1>2 DEF Truncated
  <2>4. d * (-((-n) \div d)) = -(d * ((-n) \div d))
    BY <2>2
  <2> QED
    BY <1>2, <2>2, <2>3, <2>4
<1> QED
  BY <1>1, <1>2

LEMMA LinearPart ==
    ASSUME NEW from \in Int, NEW to \in Int, NEW d \in Nat \ {0}, NEW k \in 0..d
    PROVE  /\ from <= to => from * d <= from * d + (to - from) * k
                            /\ from * d + (to - from) * k <= to * d
           /\ to <= from => to * d <= from * d + (to - from) * k
                            /\ from * d + (to - from) * k <= from * d
<1>1. ASSUME NEW a \in Nat PROVE 0 <= a * k /\ a * k <= a * d
  OBVIOUS
<1>2. CASE from <= to
  <2>1. to - from \in Nat
    BY <1>2
  <2>2. 0 <= (to - from) * k /\ (to - from) * k <= (to - from) * d
    BY <1>1, <2>1
  <2>3. (to - from) * d = to * d - from * d
    OBVIOUS
  <2> QED
    BY <1>2, <2>2, <2>3
<1>3. CASE to <= from
  <2>1. from - to \in Nat
    BY <1>3
  <2>2. 0 <= (from - to) * k /\ (from - to) * k <= (from - to) * d
    BY <1>1, <2>1
  <2>3. (from - to) * d = from * d - to * d /\ (to - from) * k = -((from - to) * k)
    OBVIOUS
  <2> QED
    BY <1>3, <2>2, <2>3
<1> QED
  BY <1>2, <1>3

\* Truncation keeps a fraction between two whole numbers between them.
LEMMA TruncatedBetween ==
    ASSUME NEW a \in Int, NEW b \in Int, NEW n \in Int, NEW d \in Nat \ {0},
           a * d <= n, n <= b * d
    PROVE  a <= Truncated(n, d) /\ Truncated(n, d) <= b
<1> DEFINE q == Truncated(n, d)
<1>1. q \in Int
  BY TruncatedNear
<1> HIDE DEF q
<1>2. ASSUME NEW u \in Int, NEW v \in Int, u * d < v * d + d PROVE u <= v
  <2>1. u * d < (v + 1) * d
    BY <1>2
  <2>2. ASSUME u >= v + 1 PROVE FALSE
    <3>1. u - (v + 1) \in Nat
      BY <2>2
    <3>2. (u - (v + 1)) * d >= 0
      BY <3>1
    <3> QED
      BY <2>1, <3>2
  <2> QED
    BY <2>2
<1>3. d * q = q * d
  BY <1>1
<1>4. CASE n >= 0
  <2>1. q * d <= n /\ n < q * d + d
    BY <1>4, <1>3, TruncatedNear DEF q
  <2>2. a * d < q * d + d /\ q * d < b * d + d
    BY <2>1, <1>1
  <2> QED
    BY <1>1, <1>2, <2>2 DEF q
<1>5. CASE n < 0
  <2>1. n <= q * d /\ q * d - d < n
    BY <1>5, <1>3, TruncatedNear DEF q
  <2>2. a * d < q * d + d /\ q * d < b * d + d
    BY <2>1, <1>1
  <2> QED
    BY <1>1, <1>2, <2>2 DEF q
<1> QED
  BY <1>4, <1>5

LEMMA CoordinateBetween ==
    ASSUME NEW from \in Int, NEW to \in Int, NEW d \in Nat \ {0}, NEW k \in 0..d
    PROVE  Between(from, Coordinate(from, to, k, d), to)
<1> DEFINE n == from * d + (to - from) * k
<1>1. n \in Int
  OBVIOUS
<1>2. CASE from <= to
  BY <1>1, <1>2, LinearPart, TruncatedBetween DEF Between, Coordinate
<1>3. CASE to <= from
  BY <1>1, <1>3, LinearPart, TruncatedBetween DEF Between, Coordinate
<1> QED
  BY <1>2, <1>3

\* A tick never puts a node outside the rectangle between the start and the end
\* of its move, whatever the easing, the duration and the clock.
THEOREM MovesStayBetween ==
    ASSUME NEW from \in [x : Int, y : Int], NEW to \in [x : Int, y : Int],
           NEW e \in Easings, NEW dur \in Nat \ {0}, NEW now \in Nat
    PROVE  LET p == PositionAt(from, to, e, now, dur)
           IN  Between(from.x, p.x, to.x) /\ Between(from.y, p.y, to.y)
<1>1. Progress(e, now, dur) \in 0..(dur * dur)
  BY EasedRange DEF Progress, Stop
<1>2. dur * dur \in Nat \ {0}
  OBVIOUS
<1> QED
  BY <1>1, <1>2, CoordinateBetween DEF PositionAt

\* The frame of a window is animated beside it from and to places one border
\* away.  Both positions are truncated towards zero, which on either side of
\* zero are different directions: they are a border or one pixel less apart.
THEOREM FrameWithinAPixel ==
    ASSUME NEW from \in Int, NEW to \in Int, NEW border \in Nat,
           NEW d \in Nat \ {0}, NEW k \in 0..d
    PROVE  Coordinate(from, to, k, d) - Coordinate(from - border, to - border, k, d)
             \in {border - 1, border}
<1> DEFINE n == from * d + (to - from) * k
           m == n - border * d
           p == Truncated(n, d)
           q == Truncated(m, d)
<1>1. n \in Int /\ m \in Int /\ border * d \in Nat
  OBVIOUS
<1>2. (from - border) * d + ((to - border) - (from - border)) * k = m
  <2>1. (to - border) - (from - border) = to - from
    OBVIOUS
  <2>2. (from - border) * d = from * d - border * d
    OBVIOUS
  <2> QED
    BY <2>1, <2>2
<1>3. /\ Coordinate(from, to, k, d) = p
      /\ Coordinate(from - border, to - border, k, d) = q
  BY <1>2 DEF Coordinate
<1>4. p \in Int /\ q \in Int
  BY <1>1, TruncatedNear
<1>5. /\ n >= 0 => d * p <= n /\ n < d * p + d
      /\ n < 0 => n <= d * p /\ d * p - d < n
      /\ m >= 0 => d * q <= m /\ m < d * q + d
      /\ m < 0 => m <= d * q /\ d * q - d < m
  BY <1>1, TruncatedNear
<1>6. p - q - border \in Int /\ d * (p - q - border) = d * p - d * q - border * d
  BY <1>4
<1> DEFINE gap == p - q - border
<1> HIDE DEF p, q, n
<1>7. ASSUME NEW i \in Int, -2 * d < d * i, d * i < d PROVE i \in {-1, 0}
  <2>1. ASSUME i >= 1 PROVE FALSE
    <3>1. d * (i - 1) >= 0
      BY <2>1
    <3> QED
      BY <1>7, <3>1
  <2>2. ASSUME i <= -2 PROVE FALSE
    <3>1. d * (-2 - i) >= 0
      BY <2>2
    <3> QED
      BY <1>7, <3>1
  <2> QED
    BY <2>1, <2>2
<1>8. -2 * d < d * gap /\ d * gap < d
  BY <1>1, <1>4, <1>5, <1>6
<1>9. gap \in {-1, 0}
  BY <1>6, <1>7, <1>8
<1> QED
  BY <1>3, <1>4, <1>9

-----------------------------------------------------------------------------
(* Further along                                                           *)

LEMMA TruncatedForward ==
    ASSUME NEW m \in Int, NEW n \in Int, NEW d \in Nat \ {0}, m <= n
    PROVE  Truncated(m, d) <= Truncated(n, d)
<1> DEFINE p == Truncated(m, d)
           q == Truncated(n, d)
<1>1. p \in Int /\ q \in Int
  BY TruncatedNear
<1>2. /\ m >= 0 => d * p <= m /\ m < d * p + d
      /\ m < 0 => m <= d * p /\ d * p - d < m
      /\ n >= 0 => d * q <= n /\ n < d * q + d
      /\ n < 0 => n <= d * q /\ d * q - d < n
  BY TruncatedNear
<1> HIDE DEF p, q
<1>3. ASSUME NEW u \in Int, NEW v \in Int, d * u < d * v + d PROVE u <= v
  <2>1. ASSUME u >= v + 1 PROVE FALSE
    <3>1. d * (u - (v + 1)) >= 0
      BY <2>1
    <3>2. d * (u - (v + 1)) = d * u - d * v - d
      OBVIOUS
    <3> QED
      BY <1>3, <3>1, <3>2
  <2> QED
    BY <2>1
<1>4. d * p \in Int /\ d * q \in Int /\ d * 0 = 0
  BY <1>1
<1>5. CASE m < 0 /\ n >= 0
  <2>1. d * p < d * 0 + d /\ d * 0 < d * q + d
    BY <1>2, <1>4, <1>5
  <2>2. p <= 0 /\ 0 <= q
    BY <1>1, <1>3, <2>1
  <2> QED
    BY <1>1, <2>2 DEF p, q
<1>6. CASE ~ (m < 0 /\ n >= 0)
  <2>1. d * p < d * q + d
    BY <1>2, <1>4, <1>6
  <2> QED
    BY <1>1, <1>3, <2>1 DEF p, q
<1> QED
  BY <1>5, <1>6

\* More progress is a place nearer to the end of the move.
LEMMA CoordinateForward ==
    ASSUME NEW from \in Int, NEW to \in Int, NEW d \in Nat \ {0},
           NEW k \in 0..d, NEW l \in 0..d, k <= l
    PROVE  Between(Coordinate(from, to, k, d), Coordinate(from, to, l, d), to)
<1> DEFINE m == from * d + (to - from) * k
           n == from * d + (to - from) * l
<1>1. m \in Int /\ n \in Int
  OBVIOUS
<1>3. Coordinate(from, to, k, d) \in Int /\ Coordinate(from, to, l, d) \in Int
  BY <1>1, TruncatedNear DEF Coordinate
<1>4. CASE from <= to
  <2>1. to - from \in Nat /\ l - k \in Nat
    BY <1>4
  <2>2. (to - from) * (l - k) >= 0
    BY <2>1
  <2>3. (to - from) * (l - k) = (to - from) * l - (to - from) * k
    OBVIOUS
  <2>4. m <= n
    BY <2>2, <2>3
  <2>5. Coordinate(from, to, k, d) <= Coordinate(from, to, l, d)
    BY <1>1, <2>4, TruncatedForward DEF Coordinate
  <2>7. Coordinate(from, to, l, d) <= to
    BY <1>4, CoordinateBetween, <1>3 DEF Between
  <2> QED
    BY <2>5, <2>7 DEF Between
<1>5. CASE to <= from
  <2>1. from - to \in Nat /\ l - k \in Nat
    BY <1>5
  <2>2. (from - to) * (l - k) >= 0
    BY <2>1
  <2>3. (from - to) * (l - k) = (to - from) * k - (to - from) * l
    OBVIOUS
  <2>4. n <= m
    BY <2>2, <2>3
  <2>5. Coordinate(from, to, l, d) <= Coordinate(from, to, k, d)
    BY <1>1, <2>4, TruncatedForward DEF Coordinate
  <2>6. to <= Coordinate(from, to, l, d)
    BY <1>5, CoordinateBetween, <1>3 DEF Between
  <2> QED
    BY <2>5, <2>6 DEF Between
<1> QED
  BY <1>4, <1>5

\* Later is further.
LEMMA EaseOutForward ==
    ASSUME NEW dur \in Nat \ {0}, NEW t \in 0..dur, NEW u \in 0..dur, t <= u
    PROVE  Eased("EaseOut", t, dur) <= Eased("EaseOut", u, dur)
<1>1. dur - t \in Nat /\ dur - u \in Nat /\ dur - u <= dur - t
  OBVIOUS
<1>2. (dur - u) * (dur - u) <= (dur - t) * (dur - t)
  BY <1>1
<1>3. dur * dur \in Nat /\ (dur - u) * (dur - u) \in Nat /\ (dur - t) * (dur - t) \in Nat
  BY <1>1
<1> QED
  BY <1>2, <1>3 DEF Eased

Places == [x : Int, y : Int]

LEMMA PositionForward ==
    ASSUME NEW from \in Places, NEW to \in Places, NEW dur \in Nat \ {0},
           NEW now \in Nat, NEW later \in Nat, now <= later
    PROVE  LET p == PositionAt(from, to, "EaseOut", now, dur)
               q == PositionAt(from, to, "EaseOut", later, dur)
           IN  Between(p.x, q.x, to.x) /\ Between(p.y, q.y, to.y)
<1>1. Stop(now, dur) \in 0..dur /\ Stop(later, dur) \in 0..dur
      /\ Stop(now, dur) <= Stop(later, dur)
  BY DEF Stop
<1>2. /\ Progress("EaseOut", now, dur) \in 0..(dur * dur)
      /\ Progress("EaseOut", later, dur) \in 0..(dur * dur)
      /\ Progress("EaseOut", now, dur) <= Progress("EaseOut", later, dur)
  BY <1>1, EasedRange, EaseOutForward DEF Progress, Easings
<1>3. dur * dur \in Nat \ {0}
  OBVIOUS
<1> QED
  BY <1>2, <1>3, CoordinateForward DEF PositionAt, Places

LEMMA PositionType ==
    ASSUME NEW from \in Places, NEW to \in Places, NEW dur \in Nat \ {0}, NEW now \in Nat
    PROVE  PositionAt(from, to, "EaseOut", now, dur) \in Places
<1>1. Progress("EaseOut", now, dur) \in 0..(dur * dur)
  BY EasedRange DEF Progress, Stop, Easings
<1>2. dur * dur \in Nat \ {0}
  OBVIOUS
<1>3. ASSUME NEW a \in Int, NEW b \in Int, NEW k \in Int, NEW d \in Nat \ {0}
      PROVE  Coordinate(a, b, k, d) \in Int
  <2>1. a * d + (b - a) * k \in Int
    OBVIOUS
  <2> QED
    BY <2>1, TruncatedNear DEF Coordinate
<1> DEFINE k == Progress("EaseOut", now, dur)
           d == dur * dur
<1>4. k \in Int /\ d \in Nat \ {0}
  BY <1>1, <1>2
<1>5. PositionAt(from, to, "EaseOut", now, dur)
        = [x |-> Coordinate(from.x, to.x, k, d), y |-> Coordinate(from.y, to.y, k, d)]
  BY DEF PositionAt
<1> HIDE DEF k, d
<1>6. from.x \in Int /\ from.y \in Int /\ to.x \in Int /\ to.y \in Int
  BY DEF Places
<1>7. Coordinate(from.x, to.x, k, d) \in Int /\ Coordinate(from.y, to.y, k, d) \in Int
  BY <1>3, <1>4, <1>6
<1> QED
  BY <1>5, <1>7 DEF Places

\* A move to where it begins stays there.
LEMMA PositionStays ==
    ASSUME NEW from \in Places, NEW dur \in Nat \ {0}, NEW now \in Nat
    PROVE  PositionAt(from, from, "EaseOut", now, dur) = from
<1>1. Progress("EaseOut", now, dur) \in 0..(dur * dur)
  BY EasedRange DEF Progress, Stop, Easings
<1>2. dur * dur \in Nat \ {0}
  OBVIOUS
<1>3. ASSUME NEW a \in Int, NEW k \in 0..(dur * dur)
      PROVE  Coordinate(a, a, k, dur * dur) = a
  <2>1. Between(a, Coordinate(a, a, k, dur * dur), a)
    BY <1>2, CoordinateBetween
  <2>2. Coordinate(a, a, k, dur * dur) \in Int
    BY <1>2, TruncatedNear DEF Coordinate
  <2> QED
    BY <2>1, <2>2 DEF Between
<1>4. PositionAt(from, from, "EaseOut", now, dur) = [x |-> from.x, y |-> from.y]
  BY <1>1, <1>3 DEF PositionAt, Places
<1> QED
  BY <1>4 DEF Places

-----------------------------------------------------------------------------
(* Ids in the order of the map                                             *)

LEMMA NoOrdering == Orderings({}) = {<< >>} /\ InOrder({}) = << >>
<1>1. Cardinality({}) = 0
  BY FS_EmptySet
<1>2. ASSUME NEW f \in [1..0 -> {}] PROVE f = << >>
  <2>1. f \in Seq({}) /\ Len(f) = 0
    OBVIOUS
  <2> QED
    BY <2>1
<1>3. << >> \in [1..0 -> {}]
  OBVIOUS
<1>4. << >> \in Orderings({})
  BY <1>1, <1>3 DEF Orderings
<1>5. Orderings({}) = {<< >>}
  BY <1>1, <1>2, <1>4 DEF Orderings
<1> QED
  BY <1>5 DEF InOrder

\* A greater id comes last, and nothing else changes.
LEMMA OrderingGrows ==
    ASSUME NEW S \in SUBSET Nat, IsFiniteSet(S), NEW s, Orderings(S) = {s},
           NEW n \in Nat, \A m \in S : m < n
    PROVE  Orderings(S \cup {n}) = {Append(s, n)}
<1> DEFINE k == Cardinality(S)
           r == Append(s, n)
<1>0. \A m \in S \cup {n} : m \in Nat
  OBVIOUS
<1>1. k \in Nat /\ Cardinality(S \cup {n}) = k + 1
  BY FS_CardinalityType, FS_AddElement
<1>2. /\ s \in [1..k -> S]
      /\ \A i, j \in DOMAIN s : i < j => s[i] < s[j]
      /\ \A id \in S : \E i \in DOMAIN s : s[i] = id
  BY DEF Orderings
<1> HIDE DEF k
<1>3. s \in Seq(S) /\ Len(s) = k
  BY <1>1, <1>2
<1>4. /\ r \in [1..(k + 1) -> S \cup {n}]
      /\ \A i \in 1..k : r[i] = s[i]
      /\ r[k + 1] = n
  <2>1. s \in Seq(S \cup {n}) /\ n \in S \cup {n}
    BY <1>1, <1>2
  <2>2. r \in Seq(S \cup {n}) /\ Len(r) = k + 1
    BY <1>1, <1>3, <2>1, AppendProperties
  <2>3. r \in [1..(k + 1) -> S \cup {n}]
    <3> HIDE DEF r
    <3> QED
      BY <2>2
  <2>4. /\ \A i \in 1..Len(s) : Append(s, n)[i] = s[i]
        /\ Append(s, n)[Len(s) + 1] = n
    BY <2>1, AppendProperties
  <2> QED
    BY <1>3, <2>3, <2>4
<1> HIDE DEF r
<1>5. r \in Orderings(S \cup {n})
  <2>1. r \in [1..(k + 1) -> S \cup {n}]
    BY <1>4
  <2>2. \A i, j \in DOMAIN r : i < j => r[i] < r[j]
    <3> SUFFICES ASSUME NEW i \in 1..(k + 1), NEW j \in 1..(k + 1), i < j
                 PROVE  r[i] < r[j]
      BY <1>4
    <3>1. i \in 1..k /\ r[i] = s[i] /\ s[i] \in S
      BY <1>1, <1>2, <1>4
    <3>2. CASE j = k + 1
      BY <1>4, <3>1, <3>2
    <3>3. CASE j # k + 1
      <4>1. j \in 1..k /\ r[j] = s[j]
        BY <1>1, <1>4, <3>3
      <4> QED
        BY <1>2, <3>1, <4>1
    <3> QED
      BY <3>2, <3>3
  <2>3. \A id \in S \cup {n} : \E i \in DOMAIN r : r[i] = id
    BY <1>1, <1>2, <1>4
  <2> QED
    BY <1>1, <2>1, <2>2, <2>3 DEF Orderings
<1>6. ASSUME NEW q \in Orderings(S \cup {n}) PROVE q = r
  <2>1. /\ q \in [1..(k + 1) -> S \cup {n}]
        /\ \A i, j \in DOMAIN q : i < j => q[i] < q[j]
        /\ \A id \in S \cup {n} : \E i \in DOMAIN q : q[i] = id
    BY <1>1 DEF Orderings
  <2>2. PICK j \in 1..(k + 1) : q[j] = n
    BY <2>1
  <2>3. q[k + 1] = n
    <3>1. k + 1 \in DOMAIN q /\ q[k + 1] \in S \cup {n}
      BY <1>1, <2>1
    <3>2. ASSUME j < k + 1 PROVE FALSE
      <4>1. n < q[k + 1]
        BY <2>1, <2>2, <3>1, <3>2
      <4>2. q[k + 1] = n \/ q[k + 1] < n
        BY <3>1
      <4>3. q[k + 1] \in Nat
        BY <1>0, <3>1
      <4>4. ~ (n < n) /\ ~ (q[k + 1] < n /\ n < q[k + 1])
        BY <4>3
      <4> QED
        BY <4>1, <4>2, <4>4
    <3> QED
      BY <1>1, <2>2, <3>2
  <2>4. \A i \in 1..k : q[i] \in S
    <3> SUFFICES ASSUME NEW i \in 1..k PROVE q[i] \in S
      OBVIOUS
    <3>1. i \in DOMAIN q /\ k + 1 \in DOMAIN q /\ i < k + 1 /\ q[i] \in S \cup {n}
      BY <1>1, <2>1
    <3>2. q[i] < n
      BY <2>1, <2>3, <3>1
    <3> QED
      BY <3>1, <3>2
  <2> DEFINE p == [i \in 1..k |-> q[i]]
  <2>5. p \in [1..k -> S]
    BY <2>4
  <2>6. \A i, j2 \in DOMAIN p : i < j2 => p[i] < p[j2]
    BY <1>1, <2>1
  <2>7. \A id \in S : \E i \in DOMAIN p : p[i] = id
    <3> SUFFICES ASSUME NEW id \in S PROVE \E i \in 1..k : q[i] = id
      OBVIOUS
    <3>1. PICK i \in 1..(k + 1) : q[i] = id
      BY <2>1
    <3>2. i # k + 1
      BY <2>3, <3>1
    <3> QED
      BY <1>1, <3>1, <3>2
  <2>8. p \in Orderings(S)
    BY <2>5, <2>6, <2>7 DEF Orderings, k
  <2>9. p = s
    BY <2>8
  <2>10. \A i \in 1..(k + 1) : q[i] = r[i]
    BY <1>1, <1>4, <2>3, <2>9
  <2> QED
    BY <1>1, <1>4, <2>1, <2>10
<1> QED
  BY <1>5, <1>6 DEF r

-----------------------------------------------------------------------------
(* The invariant                                                           *)

Entries == [id : Nat \ {0}, node : Nodes, from : Places, to : Places,
            dur : {FocusMs, MoveMs}, tells : BOOLEAN]

AnimTypeOK ==
    /\ anims \subseteq Entries
    /\ nextId \in Nat \ {0}
    /\ clock \in 0..(ClockWidth - 1)
    /\ pos \in [Nodes -> Places]

\* An id is given once and never again, and only a move changes places, tells or
\* concerns a frame.
Numbered ==
    /\ \A a \in anims : a.id < nextId
    /\ \A a, b \in anims : a.id = b.id => a = b
    /\ \A a \in anims : Moving(a) \/ a.tells \/ a.node[2] = "frame" => a.dur = MoveMs

\* Window and frame are sent to places one border apart.
Paired ==
    \A a, b \in anims :
        /\ a.node[2] = "tree" /\ b.node[2] = "frame"
        /\ a.node[1] = b.node[1] /\ b.id = a.id + 1
        => /\ a.dur = MoveMs
           /\ Beside(a.to, b.to) = [x |-> BorderWidth, y |-> BorderWidth]

\* A node that nothing moves is where its queued moves start and end.
Quiet ==
    \A a \in anims : a.dur = MoveMs /\ MovesOf(a.node) = {} => pos[a.node] = a.from

\* A node that is moved is where its last move starts, or where it was put when
\* the clock was last looked at, which then has not passed the duration.
OnItsWay ==
    \A n \in Nodes : MovesOf(n) # {} =>
        /\ LastMoves(n) # {}
        /\ \A a \in LastMoves(n) :
              \/ pos[n] = a.from
              \/ clock < MoveMs /\ pos[n] = Placed(a, clock)

\* The waiting callbacks have one order, and were given once.
Ordered ==
    /\ IsFiniteSet(Telling(anims))
    /\ \E s : Orderings(Telling(anims)) = {s}
    /\ nextId <= MaxAdds + 1
    /\ ran \in Seq(1..(nextId - 1))

AnimInv == AnimTypeOK /\ Numbered /\ Paired /\ Quiet /\ OnItsWay /\ Ordered

LEMMA Durations == FocusMs \in Nat \ {0} /\ MoveMs \in Nat \ {0} /\ FocusMs < MoveMs
BY DurationAssumption DEF MoveMs

\* How far a tick takes the clock.
LEMMA Clocked ==
    ASSUME clock \in 0..(ClockWidth - 1), NEW gap \in 1..MaxGap
    PROVE  LET now == (clock + gap) % ClockWidth
           IN  /\ now \in Nat /\ now \in 0..(ClockWidth - 1)
               /\ clock < MoveMs => now = clock + gap
<1>1. ClockWidth \in Nat \ {0} /\ MaxGap \in Nat /\ MoveMs + MaxGap <= ClockWidth
      /\ MoveMs \in Nat
  BY ClockAssumption, Durations DEF MoveMs
<1>2. (clock + gap) % ClockWidth \in 0..(ClockWidth - 1)
  BY <1>1
<1>3. CASE clock < MoveMs
  <2>1. clock + gap \in 0..(ClockWidth - 1)
    BY <1>1, <1>3
  <2>2. (clock + gap) % ClockWidth = clock + gap
    BY <1>1, <2>1
  <2> QED
    BY <1>1, <1>2, <2>2
<1> QED
  BY <1>1, <1>2, <1>3

LEMMA EndedIs ==
    ASSUME NEW a \in Entries, NEW now \in Nat
    PROVE  Ended(a, now) <=> now >= a.dur
BY Durations DEF Ended, Stop, Entries

\* A tick ends either every animation or only some that move nothing, tell nobody
\* and are of a window.
LEMMA AllOrStill ==
    ASSUME AnimTypeOK, Numbered, NEW now \in Nat
    PROVE  /\ now >= MoveMs => Remaining(now) = {}
           /\ now < MoveMs => \A a \in anims : a.dur = MoveMs => a \in Remaining(now)
<1>1. \A a \in anims : a \in Entries /\ a.dur <= MoveMs /\ a.dur \in Nat
  BY Durations DEF AnimTypeOK, Entries
<1> QED
  BY <1>1, EndedIs, Durations DEF Remaining

\* In a state of the invariant the last move of a node is what its name says.
LEMMA LastMoveIs ==
    ASSUME AnimTypeOK, Numbered, OnItsWay, NEW n \in Nodes, MovesOf(n) # {}
    PROVE  /\ LastMove(n) \in LastMoves(n)
           /\ LastMove(n) \in anims /\ LastMove(n) \in Entries
           /\ LastMove(n).node = n /\ Moving(LastMove(n)) /\ LastMove(n).dur = MoveMs
           /\ \A a \in LastMoves(n) : a = LastMove(n)
<1>1. LastMove(n) \in LastMoves(n)
  BY DEF OnItsWay, LastMove
<1>2. LastMove(n) \in MovesOf(n)
  BY <1>1 DEF LastMoves
<1>3. LastMove(n) \in anims /\ LastMove(n).node = n /\ Moving(LastMove(n))
  BY <1>2 DEF MovesOf
<1>4. LastMove(n) \in Entries /\ LastMove(n).dur = MoveMs
  BY <1>3 DEF AnimTypeOK, Numbered
<1>5. ASSUME NEW a \in LastMoves(n) PROVE a = LastMove(n)
  <2>1. a \in MovesOf(n) /\ a \in anims /\ a.id <= LastMove(n).id /\ LastMove(n).id <= a.id
    BY <1>1, <1>2 DEF LastMoves, MovesOf
  <2>2. a.id \in Nat /\ LastMove(n).id \in Nat
    BY <1>4, <2>1 DEF AnimTypeOK, Entries
  <2> QED
    BY <1>3, <2>1, <2>2 DEF Numbered
<1> QED
  BY <1>1, <1>3, <1>4, <1>5

-----------------------------------------------------------------------------
(* The steps keep the invariant                                            *)

LEMMA AnimInitInv == AnimInit => AnimInv
<1> SUFFICES ASSUME AnimInit PROVE AnimInv
  OBVIOUS
<1>1. anims = {} /\ nextId = 1 /\ ran = << >> /\ clock \in 0..(ClockWidth - 1)
  BY DEF AnimInit
<1>2. pos \in [Nodes -> Places]
  <2>1. PICK at \in [Windows -> Points] :
          pos = [n \in Nodes |-> IF n[2] = "tree" THEN at[n[1]]
                 ELSE [x |-> at[n[1]].x - BorderWidth, y |-> at[n[1]].y - BorderWidth]]
    BY DEF AnimInit
  <2>2. ASSUME NEW n \in Nodes PROVE pos[n] \in Places
    <3>1. at[n[1]] \in Places
      BY PlaceAssumption DEF Nodes, Places
    <3>2. at[n[1]].x \in Int /\ at[n[1]].y \in Int /\ BorderWidth \in Int
      BY <3>1, PlaceAssumption DEF Places
    <3>3. [x |-> at[n[1]].x - BorderWidth, y |-> at[n[1]].y - BorderWidth] \in Places
      BY <3>2 DEF Places
    <3> QED
      BY <2>1, <3>1, <3>3
  <2> QED
    BY <2>1, <2>2
<1>3. AnimTypeOK
  BY <1>1, <1>2 DEF AnimTypeOK
<1>4. Numbered /\ Paired /\ Quiet /\ OnItsWay
  BY <1>1 DEF Numbered, Paired, Quiet, OnItsWay, MovesOf
<1>5. Telling(anims) = {}
  BY <1>1 DEF Telling
<1>6. Ordered
  <2>1. IsFiniteSet({}) /\ Orderings({}) = {<< >>}
    BY FS_EmptySet, NoOrdering
  <2>2. IsFiniteSet(Telling(anims)) /\ \E s : Orderings(Telling(anims)) = {s}
    BY <1>5, <2>1
  <2>3. nextId <= MaxAdds + 1
    BY <1>1, AddsAssumption
  <2>4. ran \in Seq(1..(nextId - 1))
    BY <1>1
  <2> QED
    BY <2>2, <2>3, <2>4 DEF Ordered
<1> QED
  BY <1>3, <1>4, <1>6 DEF AnimInv

\* What a toggle queues.
LEMMA Queued ==
    ASSUME AnimInv, NEW w \in Windows, NEW to \in Points, QueueMoves(w, to),
           NEW tree, tree = Move(nextId, <<w, "tree">>, to, TRUE),
           NEW frame, frame = Move(nextId + 1, <<w, "frame">>, FrameOf(to), FALSE)
    PROVE  /\ tree \in Entries /\ frame \in Entries
           /\ tree.id = nextId /\ frame.id = nextId + 1
           /\ tree.node = <<w, "tree">> /\ frame.node = <<w, "frame">>
           /\ tree.from = pos[<<w, "tree">>] /\ frame.from = pos[<<w, "frame">>]
           /\ tree.dur = MoveMs /\ frame.dur = MoveMs
           /\ tree.tells = TRUE /\ frame.tells = FALSE
           /\ Beside(tree.to, frame.to) = [x |-> BorderWidth, y |-> BorderWidth]
           /\ anims' = anims \cup {tree, frame}
           /\ nextId' = nextId + 2 /\ nextId + 1 <= MaxAdds
           /\ clock' = clock /\ pos' = pos /\ ran' = ran
<1>1. to \in Places /\ to.x \in Int /\ to.y \in Int /\ BorderWidth \in Int
  BY PlaceAssumption DEF Places
<1>2. FrameOf(to) \in Places
  BY <1>1 DEF FrameOf, Places
<1>3. pos[<<w, "tree">>] \in Places /\ pos[<<w, "frame">>] \in Places
      /\ <<w, "tree">> \in Nodes /\ <<w, "frame">> \in Nodes
  BY DEF AnimInv, AnimTypeOK, Nodes
<1>4. nextId \in Nat \ {0}
  BY DEF AnimInv, AnimTypeOK
<1>5. Beside(to, FrameOf(to)) = [x |-> BorderWidth, y |-> BorderWidth]
  BY <1>1 DEF Beside, FrameOf
<1>6. tree \in Entries /\ frame \in Entries
  BY <1>1, <1>2, <1>3, <1>4 DEF Move, Entries
<1>7. anims' = anims \cup {tree, frame}
      /\ nextId' = nextId + 2 /\ nextId + 1 <= MaxAdds
      /\ clock' = clock /\ pos' = pos /\ ran' = ran
  BY DEF QueueMoves
<1> QED
  BY <1>5, <1>6, <1>7 DEF Move

\* The callbacks that wait once the id of a move that tells is added.
LEMMA TellingGrows ==
    ASSUME AnimTypeOK, Numbered, Ordered
    PROVE  /\ Telling(anims) \in SUBSET Nat
           /\ \A m \in Telling(anims) : m < nextId
           /\ Orderings(Telling(anims) \cup {nextId})
                = {Append(InOrder(Telling(anims)), nextId)}
           /\ Orderings(Telling(anims)) = {InOrder(Telling(anims))}
           /\ IsFiniteSet(Telling(anims) \cup {nextId})
<1> DEFINE T == Telling(anims)
<1>1. T \in SUBSET Nat /\ \A m \in T : m < nextId
  BY DEF Telling, AnimTypeOK, Entries, Numbered
<1>2. IsFiniteSet(T) /\ \E s : Orderings(T) = {s}
  BY DEF Ordered
<1>3. Orderings(T) = {InOrder(T)}
  BY <1>2 DEF InOrder
<1>4. nextId \in Nat
  BY DEF AnimTypeOK
<1> HIDE DEF T
<1>5. Orderings(T \cup {nextId}) = {Append(InOrder(T), nextId)}
  BY <1>1, <1>2, <1>3, <1>4, OrderingGrows
<1>6. IsFiniteSet(T \cup {nextId})
  BY <1>2, FS_AddElement
<1> QED
  BY <1>1, <1>3, <1>5, <1>6 DEF T

LEMMA SeqOfMore ==
    ASSUME NEW S, NEW T, S \subseteq T, NEW s \in Seq(S)
    PROVE  s \in Seq(T)
<1>1. \A i \in 1..Len(s) : s[i] \in T
  BY ElementOfSeq
<1>2. Len(s) \in Nat /\ s \in [1..Len(s) -> T]
  BY <1>1, LenProperties
<1> QED
  BY <1>2

LEMMA QueueMovesInv ==
    ASSUME AnimInv, NEW w \in Windows, NEW to \in Points, QueueMoves(w, to)
    PROVE  AnimInv' /\ Telling(anims)' = Telling(anims) \cup {nextId}
<1> DEFINE tree == Move(nextId, <<w, "tree">>, to, TRUE)
           frame == Move(nextId + 1, <<w, "frame">>, FrameOf(to), FALSE)
           T == <<w, "tree">>
           F == <<w, "frame">>
<1>1. /\ tree \in Entries /\ frame \in Entries
      /\ tree.id = nextId /\ frame.id = nextId + 1
      /\ tree.node = T /\ frame.node = F
      /\ tree.from = pos[T] /\ frame.from = pos[F]
      /\ tree.dur = MoveMs /\ frame.dur = MoveMs
      /\ tree.tells = TRUE /\ frame.tells = FALSE
      /\ Beside(tree.to, frame.to) = [x |-> BorderWidth, y |-> BorderWidth]
      /\ anims' = anims \cup {tree, frame}
      /\ nextId' = nextId + 2 /\ nextId + 1 <= MaxAdds
      /\ clock' = clock /\ pos' = pos /\ ran' = ran
  BY Queued
<1> HIDE DEF tree, frame
<1>2. nextId \in Nat \ {0}
  BY DEF AnimInv, AnimTypeOK
<1>3. \A a \in anims : a \in Entries /\ a.id \in Nat /\ a.id < nextId
  BY DEF AnimInv, AnimTypeOK, Numbered, Entries
<1>4. AnimTypeOK'
  BY <1>1, <1>2 DEF AnimInv, AnimTypeOK
<1>5. Numbered'
  <2>1. \A a \in anims' : a.id < nextId'
    BY <1>1, <1>2, <1>3
  <2>2. \A a, b \in anims' : a.id = b.id => a = b
    BY <1>1, <1>2, <1>3 DEF AnimInv, Numbered
  <2>3. \A a \in anims' : Moving(a) \/ a.tells \/ a.node[2] = "frame" => a.dur = MoveMs
    BY <1>1 DEF AnimInv, Numbered
  <2> QED
    BY <2>1, <2>2, <2>3 DEF Numbered
<1>6. Paired'
  <2> SUFFICES ASSUME NEW a \in anims', NEW b \in anims',
                      a.node[2] = "tree", b.node[2] = "frame",
                      a.node[1] = b.node[1], b.id = a.id + 1
               PROVE  /\ a.dur = MoveMs
                      /\ Beside(a.to, b.to) = [x |-> BorderWidth, y |-> BorderWidth]
    BY DEF Paired
  <2>1. a # frame /\ b # tree
    BY <1>1
  <2>2. CASE a \in anims /\ b \in anims
    BY <2>2 DEF AnimInv, Paired
  <2>3. CASE a = tree /\ b = frame
    BY <1>1, <2>3
  <2>4. ~ (a = tree /\ b \in anims) /\ ~ (a \in anims /\ b = frame)
    BY <1>1, <1>2, <1>3
  <2> QED
    BY <1>1, <2>1, <2>2, <2>3, <2>4
<1>7. ASSUME NEW n \in Nodes
      PROVE  /\ n \notin {T, F} => MovesOf(n)' = MovesOf(n)
             /\ n = T => MovesOf(n)' = MovesOf(n) \cup (IF Moving(tree) THEN {tree} ELSE {})
             /\ n = F => MovesOf(n)' = MovesOf(n) \cup (IF Moving(frame) THEN {frame} ELSE {})
  BY <1>1 DEF MovesOf
<1>8. Quiet'
  <2> SUFFICES ASSUME NEW a \in anims', a.dur = MoveMs, MovesOf(a.node)' = {}
               PROVE  pos[a.node] = a.from
    BY <1>1 DEF Quiet
  <2>1. CASE a \in anims
    <3>1. MovesOf(a.node) = {}
      BY <1>1 DEF MovesOf
    <3> QED
      BY <2>1, <3>1 DEF AnimInv, Quiet
  <2>2. CASE a \in {tree, frame}
    BY <1>1, <2>2
  <2> QED
    BY <1>1, <2>1, <2>2
<1>9. OnItsWay'
  <2> SUFFICES ASSUME NEW n \in Nodes, MovesOf(n)' # {}
               PROVE  /\ LastMoves(n)' # {}
                      /\ \A a \in LastMoves(n)' :
                            \/ pos[n] = a.from
                            \/ clock < MoveMs /\ pos[n] = Placed(a, clock)
    BY <1>1 DEF OnItsWay, Placed
  <2>1. ASSUME NEW new \in {tree, frame}, MovesOf(n)' = MovesOf(n) \cup {new},
               new.node = n
        PROVE  LastMoves(n)' = {new} /\ pos[n] = new.from
    <3>1. \A a \in MovesOf(n) : a.id \in Nat /\ a.id < new.id
      BY <1>1, <1>2, <1>3 DEF MovesOf
    <3>2. new.id \in Nat
      BY <1>1, <1>2
    <3>3. LastMoves(n)' = {a \in MovesOf(n)' : \A b \in MovesOf(n)' : b.id <= a.id}
      BY DEF LastMoves
    <3>4. LastMoves(n)' = {new}
      BY <2>1, <3>1, <3>2, <3>3
    <3> QED
      BY <1>1, <2>1, <3>4
  <2>2. CASE MovesOf(n)' = MovesOf(n)
    <3>1. LastMoves(n)' = LastMoves(n)
      BY <2>2 DEF LastMoves
    <3> QED
      BY <2>2, <3>1 DEF AnimInv, OnItsWay
  <2>3. CASE MovesOf(n)' # MovesOf(n)
    <3>1. PICK new \in {tree, frame} : MovesOf(n)' = MovesOf(n) \cup {new} /\ new.node = n
      BY <1>1, <1>7, <2>3
    <3> QED
      BY <2>1, <3>1
  <2> QED
    BY <2>2, <2>3
<1>10. Telling(anims)' = Telling(anims) \cup {nextId}
  BY <1>1 DEF Telling
<1>11. Ordered'
  <2>1. \E s : Orderings(Telling(anims)') = {s}
    BY <1>10, TellingGrows DEF AnimInv
  <2>2. IsFiniteSet(Telling(anims)')
    BY <1>10, TellingGrows DEF AnimInv
  <2>3. nextId' <= MaxAdds + 1 /\ 1..(nextId - 1) \subseteq 1..(nextId' - 1)
    BY <1>1, <1>2, AddsAssumption
  <2>4. ran \in Seq(1..(nextId' - 1))
    BY <2>3, SeqOfMore DEF AnimInv, Ordered
  <2> QED
    BY <1>1, <2>1, <2>2, <2>3, <2>4 DEF Ordered
<1> QED
  BY <1>4, <1>5, <1>6, <1>8, <1>9, <1>10, <1>11 DEF AnimInv

LEMMA QueueScaleInv ==
    ASSUME AnimInv, NEW w \in Windows, QueueScale(w)
    PROVE  AnimInv' /\ Telling(anims)' = Telling(anims) /\ ran' = ran
<1> DEFINE still == Still(nextId, <<w, "tree">>)
<1>1. /\ still \in Entries /\ still.id = nextId /\ still.node = <<w, "tree">>
      /\ ~ Moving(still) /\ still.dur = FocusMs /\ still.tells = FALSE
      /\ anims' = anims \cup {still}
      /\ nextId' = nextId + 1 /\ nextId <= MaxAdds
      /\ clock' = clock /\ pos' = pos /\ ran' = ran
  <2>1. nextId \in Nat \ {0} /\ <<w, "tree">> \in Nodes /\ [x |-> 0, y |-> 0] \in Places
    BY DEF AnimInv, AnimTypeOK, Nodes, Places
  <2>2. still \in Entries
    BY <2>1 DEF Still, Entries
  <2> QED
    BY <2>2 DEF Still, Moving, QueueScale
<1> HIDE DEF still
<1>2. nextId \in Nat \ {0}
  BY DEF AnimInv, AnimTypeOK
<1>3. \A a \in anims : a \in Entries /\ a.id \in Nat /\ a.id < nextId
  BY DEF AnimInv, AnimTypeOK, Numbered, Entries
<1>4. AnimTypeOK'
  BY <1>1, <1>2 DEF AnimInv, AnimTypeOK
<1>5. Numbered'
  <2>1. \A a \in anims' : a.id < nextId'
    BY <1>1, <1>2, <1>3
  <2>2. \A a, b \in anims' : a.id = b.id => a = b
    BY <1>1, <1>2, <1>3 DEF AnimInv, Numbered
  <2>3. \A a \in anims' : Moving(a) \/ a.tells \/ a.node[2] = "frame" => a.dur = MoveMs
    BY <1>1 DEF AnimInv, Numbered
  <2> QED
    BY <2>1, <2>2, <2>3 DEF Numbered
<1>6. Paired'
  <2> SUFFICES ASSUME NEW a \in anims', NEW b \in anims',
                      a.node[2] = "tree", b.node[2] = "frame",
                      a.node[1] = b.node[1], b.id = a.id + 1
               PROVE  /\ a.dur = MoveMs
                      /\ Beside(a.to, b.to) = [x |-> BorderWidth, y |-> BorderWidth]
    BY DEF Paired
  <2>1. b \in anims
    BY <1>1
  <2>2. a \in anims
    BY <1>1, <1>2, <1>3, <2>1
  <2> QED
    BY <2>1, <2>2 DEF AnimInv, Paired
<1>7. ASSUME NEW n PROVE MovesOf(n)' = MovesOf(n) /\ LastMoves(n)' = LastMoves(n)
  <2>1. MovesOf(n)' = MovesOf(n)
    BY <1>1 DEF MovesOf
  <2> QED
    BY <2>1 DEF LastMoves
<1>8. Quiet'
  BY <1>1, <1>7, Durations DEF AnimInv, Quiet
<1>9. OnItsWay'
  BY <1>1, <1>7 DEF AnimInv, OnItsWay, Placed
<1>10. Telling(anims)' = Telling(anims)
  BY <1>1 DEF Telling
<1>11. Ordered'
  <2>1. nextId' <= MaxAdds + 1 /\ 1..(nextId - 1) \subseteq 1..(nextId' - 1)
    BY <1>1, <1>2, AddsAssumption
  <2>2. ran \in Seq(1..(nextId' - 1))
    BY <2>1, SeqOfMore DEF AnimInv, Ordered
  <2> QED
    BY <1>1, <1>10, <2>1, <2>2 DEF AnimInv, Ordered
<1> QED
  BY <1>1, <1>4, <1>5, <1>6, <1>8, <1>9, <1>10, <1>11 DEF AnimInv

\* The tick, with the time it comes at.
TickAt(now) ==
    /\ now \in Nat /\ now \in 0..(ClockWidth - 1)
    /\ clock < MoveMs => clock <= now
    /\ clock' = now
    /\ pos' = [n \in Nodes |-> IF MovesOf(n) = {} THEN pos[n] ELSE Placed(LastMove(n), now)]
    /\ ran' = ran \o Called(now)
    /\ anims' = Remaining(now)
    /\ nextId' = nextId

LEMMA TickIs == AnimTypeOK /\ Tick => \E now : TickAt(now)
<1> SUFFICES ASSUME AnimTypeOK, Tick PROVE \E now : TickAt(now)
  OBVIOUS
<1>1. PICK gap \in 1..MaxGap :
        LET now == (clock + gap) % ClockWidth
        IN  /\ clock' = now
            /\ pos' = [n \in Nodes |-> IF MovesOf(n) = {} THEN pos[n]
                                       ELSE Placed(LastMove(n), now)]
            /\ ran' = ran \o Called(now)
            /\ anims' = Remaining(now)
            /\ nextId' = nextId
  BY DEF Tick
<1> DEFINE at == (clock + gap) % ClockWidth
<1>2. at \in Nat /\ at \in 0..(ClockWidth - 1) /\ (clock < MoveMs => at = clock + gap)
  BY Clocked DEF AnimTypeOK
<1>3. clock < MoveMs => clock <= at
  BY <1>2, ClockAssumption DEF AnimTypeOK
<1>4. TickAt(at)
  BY <1>1, <1>2, <1>3 DEF TickAt
<1> QED
  BY <1>4

\* What a tick calls: all that wait, or nobody.
LEMMA TickCalls ==
    ASSUME AnimTypeOK, Numbered, NEW now \in Nat
    PROVE  \/ /\ Called(now) = InOrder(Telling(anims))
              /\ Telling(Remaining(now)) = {}
           \/ /\ Called(now) = << >>
              /\ Telling(Remaining(now)) = Telling(anims)
<1>1. \A a \in anims : /\ a \in Entries /\ a.dur <= MoveMs /\ a.dur \in Nat
                       /\ a.tells => a.dur = MoveMs
  BY Durations DEF AnimTypeOK, Entries, Numbered
<1> DEFINE Over == {a \in anims : Ended(a, now)}
<1>2. CASE now >= MoveMs
  <2>1. Over = anims /\ Remaining(now) = {}
    BY <1>1, <1>2, EndedIs, Durations DEF Remaining
  <2>2. Called(now) = InOrder(Telling(anims))
    BY <2>1 DEF Called
  <2> QED
    BY <2>1, <2>2 DEF Telling
<1>3. CASE now < MoveMs
  <2>1. \A a \in anims : a.tells => ~ Ended(a, now)
    BY <1>1, <1>3, EndedIs, Durations
  <2>2. Telling(Over) = {} /\ Telling(Remaining(now)) = Telling(anims)
    BY <2>1 DEF Telling, Remaining
  <2>3. Called(now) = << >>
    BY <2>2, NoOrdering DEF Called
  <2> QED
    BY <2>2, <2>3
<1> QED
  BY <1>2, <1>3, Durations

\* Where a tick puts a node, and how that is on the way to the node's last place.
LEMMA TickPlaces ==
    ASSUME AnimInv, NEW now, TickAt(now), NEW n \in Nodes, MovesOf(n) # {}
    PROVE  /\ pos'[n] = Placed(LastMove(n), now) /\ pos'[n] \in Places
           /\ LET to == LastMove(n).to
              IN  Between(pos[n].x, pos'[n].x, to.x) /\ Between(pos[n].y, pos'[n].y, to.y)
<1> DEFINE a == LastMove(n)
<1>1. /\ a \in LastMoves(n) /\ a \in Entries /\ a.dur = MoveMs
  BY LastMoveIs DEF AnimInv
<1>2. pos'[n] = Placed(a, now)
  BY DEF TickAt
<1>3. a.from \in Places /\ a.to \in Places /\ MoveMs \in Nat \ {0} /\ now \in Nat
  BY <1>1, Durations DEF Entries, TickAt
<1>4. Placed(a, now) = PositionAt(a.from, a.to, "EaseOut", now, MoveMs)
  BY <1>1 DEF Placed
<1>5. Placed(a, now) \in Places
  BY <1>3, <1>4, PositionType
<1>6. CASE pos[n] = a.from
  <2>1. /\ Between(a.from.x, Placed(a, now).x, a.to.x)
        /\ Between(a.from.y, Placed(a, now).y, a.to.y)
    BY <1>3, <1>4, MovesStayBetween DEF Places, Easings
  <2> QED
    BY <1>2, <1>5, <1>6, <2>1
<1>7. CASE clock < MoveMs /\ pos[n] = Placed(a, clock)
  <2>1. clock \in Nat /\ clock <= now
    BY <1>7 DEF TickAt, AnimInv, AnimTypeOK
  <2>2. Placed(a, clock) = PositionAt(a.from, a.to, "EaseOut", clock, MoveMs)
    BY <1>1 DEF Placed
  <2>3. /\ Between(Placed(a, clock).x, Placed(a, now).x, a.to.x)
        /\ Between(Placed(a, clock).y, Placed(a, now).y, a.to.y)
    BY <1>3, <1>4, <2>1, <2>2, PositionForward
  <2> QED
    BY <1>2, <1>5, <1>7, <2>3
<1>8. pos[n] = a.from \/ (clock < MoveMs /\ pos[n] = Placed(a, clock))
  BY <1>1 DEF AnimInv, OnItsWay
<1> QED
  BY <1>6, <1>7, <1>8

LEMMA TickInv ==
    ASSUME AnimInv, NEW now, TickAt(now)
    PROVE  AnimInv'
<1>1. now \in Nat /\ anims' = Remaining(now) /\ nextId' = nextId /\ clock' = now
  BY DEF TickAt
<1>2. anims' \subseteq anims
  BY <1>1 DEF Remaining
<1>3. AnimTypeOK'
  <2>1. ASSUME NEW n \in Nodes PROVE pos'[n] \in Places
    <3>1. CASE MovesOf(n) = {}
      BY <3>1 DEF TickAt, AnimInv, AnimTypeOK
    <3>2. CASE MovesOf(n) # {}
      BY <3>2, TickPlaces
    <3> QED
      BY <3>1, <3>2
  <2>2. pos' \in [Nodes -> Places]
    BY <2>1 DEF TickAt
  <2> QED
    BY <1>1, <1>2, <2>2 DEF AnimInv, AnimTypeOK, TickAt
<1>4. Numbered' /\ Paired'
  BY <1>1, <1>2 DEF AnimInv, Numbered, Paired
<1>5. ASSUME now >= MoveMs PROVE Quiet' /\ OnItsWay'
  <2>1. anims' = {}
    BY <1>1, <1>5, AllOrStill DEF AnimInv
  <2> QED
    BY <2>1 DEF Quiet, OnItsWay, MovesOf
<1>6. ASSUME now < MoveMs PROVE Quiet' /\ OnItsWay'
  <2>1. \A a \in anims : a.dur = MoveMs => a \in anims'
    BY <1>1, <1>6, AllOrStill DEF AnimInv
  <2>2. ASSUME NEW n PROVE MovesOf(n)' = MovesOf(n) /\ LastMoves(n)' = LastMoves(n)
    <3>1. MovesOf(n)' = MovesOf(n)
      BY <1>2, <2>1 DEF AnimInv, Numbered, MovesOf
    <3> QED
      BY <3>1 DEF LastMoves
  <2>3. Quiet'
    <3> SUFFICES ASSUME NEW a \in anims', a.dur = MoveMs, MovesOf(a.node)' = {}
                 PROVE  pos'[a.node] = a.from
      BY DEF Quiet
    <3>1. a \in anims /\ MovesOf(a.node) = {} /\ a.node \in Nodes
      BY <1>2, <2>2 DEF AnimInv, AnimTypeOK, Entries
    <3> QED
      BY <3>1 DEF AnimInv, Quiet, TickAt
  <2>4. OnItsWay'
    <3> SUFFICES ASSUME NEW n \in Nodes, MovesOf(n) # {}
                 PROVE  /\ LastMoves(n) # {}
                        /\ \A a \in LastMoves(n) : pos'[n] = Placed(a, now)
      BY <1>1, <1>6, <2>2 DEF OnItsWay, Placed
    <3>1. LastMoves(n) # {} /\ \A a \in LastMoves(n) : a = LastMove(n)
      BY LastMoveIs DEF AnimInv
    <3> QED
      BY <3>1, TickPlaces
  <2> QED
    BY <2>3, <2>4
<1>7. Ordered'
  <2>1. Telling(anims)' = Telling(Remaining(now))
    BY <1>1
  <2>2. Telling(anims) \subseteq 1..(nextId - 1) /\ nextId \in Nat
    BY DEF Telling, AnimInv, AnimTypeOK, Entries, Numbered
  <2>3. InOrder(Telling(anims)) \in Seq(1..(nextId - 1))
    <3>1. InOrder(Telling(anims)) \in Orderings(Telling(anims))
      BY TellingGrows DEF AnimInv
    <3>2. Cardinality(Telling(anims)) \in Nat
      BY FS_CardinalityType DEF AnimInv, Ordered
    <3>3. InOrder(Telling(anims)) \in Seq(Telling(anims))
      BY <3>1, <3>2 DEF Orderings
    <3> QED
      BY <2>2, <3>3, SeqOfMore
  <2>4. Called(now) \in Seq(1..(nextId - 1))
    BY <1>1, <2>3, TickCalls, EmptySeq DEF AnimInv
  <2>5. ran' \in Seq(1..(nextId - 1))
    BY <2>4, ConcatProperties DEF AnimInv, Ordered, TickAt
  <2>6. IsFiniteSet(Telling(anims)') /\ \E s : Orderings(Telling(anims)') = {s}
    <3>1. Telling(anims)' \in {{}, Telling(anims)}
      BY <1>1, <2>1, TickCalls DEF AnimInv
    <3> QED
      BY <3>1, FS_EmptySet, NoOrdering DEF AnimInv, Ordered
  <2> QED
    BY <1>1, <2>5, <2>6 DEF AnimInv, Ordered
<1> QED
  BY <1>1, <1>3, <1>4, <1>5, <1>6, <1>7, Durations DEF AnimInv

\* The invariant of the animations.
THEOREM AnimationsInvariant == AnimSpec => []AnimInv
<1>1. AnimInit => AnimInv
  BY AnimInitInv
<1>2. AnimInv /\ [AnimNext]_animVars => AnimInv'
  <2> SUFFICES ASSUME AnimInv, [AnimNext]_animVars PROVE AnimInv'
    OBVIOUS
  <2>1. CASE Tick
    BY <2>1, TickIs, TickInv DEF AnimInv
  <2>2. ASSUME NEW w \in Windows, QueueScale(w) PROVE AnimInv'
    BY <2>2, QueueScaleInv
  <2>3. ASSUME NEW w \in Windows, NEW p \in Points, QueueMoves(w, p) PROVE AnimInv'
    BY <2>3, QueueMovesInv
  <2>4. CASE UNCHANGED animVars
    BY <2>4 DEF animVars, AnimInv, AnimTypeOK, Numbered, Paired, Quiet, OnItsWay, Ordered,
                MovesOf, LastMoves, Placed
  <2> QED
    BY <2>1, <2>2, <2>3, <2>4 DEF AnimNext
<1> QED
  BY <1>1, <1>2, PTL DEF AnimSpec

\* A tick takes every node that is on its way on towards the place it was last
\* sent to, whenever the ticks come and also when the clock wraps.
THEOREM TicksNeverGoBack == AnimSpec => NeverBack
<1> DEFINE Nearer == \A n \in Nodes : MovesOf(n) # {} =>
                        LET to == LastMove(n).to
                        IN  /\ Between(pos[n].x, pos'[n].x, to.x)
                            /\ Between(pos[n].y, pos'[n].y, to.y)
<1>1. AnimInv /\ Tick => Nearer
  BY TickIs, TickPlaces DEF AnimInv
<1>2. AnimInv /\ [AnimNext]_animVars => [Tick => Nearer]_animVars
  BY <1>1
<1> QED
  BY <1>2, AnimationsInvariant, PTL DEF AnimSpec, NeverBack

\* One step of a toggle's two moves, whatever the tick.
LEMMA PairStep ==
    ASSUME AnimInv, NEW now, TickAt(now), NEW w \in Windows, Together(w)
    PROVE  LET gap == Beside(pos'[<<w, "tree">>], pos'[<<w, "frame">>])
           IN  {gap.x, gap.y} \subseteq {BorderWidth - 1, BorderWidth}
<1> DEFINE T == <<w, "tree">>
           F == <<w, "frame">>
<1>1. PICK a \in anims, b \in anims :
        /\ a.node = T /\ b.node = F /\ b.id = a.id + 1
        /\ Beside(a.from, b.from) = [x |-> BorderWidth, y |-> BorderWidth]
        /\ \A c \in anims : c.node[1] = w /\ Moving(c) => c \in {a, b}
  BY DEF Together
<1>2. a \in Entries /\ b \in Entries /\ T \in Nodes /\ F \in Nodes
  BY DEF AnimInv, AnimTypeOK, Nodes
<1>3. /\ Beside(a.to, b.to) = [x |-> BorderWidth, y |-> BorderWidth]
      /\ a.dur = MoveMs /\ b.dur = MoveMs
  BY <1>1, <1>2 DEF AnimInv, Paired, Numbered
<1>4. now \in Nat /\ MoveMs \in Nat \ {0} /\ BorderWidth \in Nat
  BY Durations, PlaceAssumption DEF TickAt
<1>5. ASSUME NEW n \in Nodes, NEW c \in {a, b}, c.node = n,
             \A m \in MovesOf(n) : m = c
      PROVE  pos'[n] = PositionAt(c.from, c.to, "EaseOut", now, MoveMs)
  <2>1. c \in anims /\ c.dur = MoveMs /\ c.from \in Places /\ c.to \in Places
    BY <1>2, <1>3 DEF Entries
  <2>2. CASE MovesOf(n) = {}
    <3>1. pos'[n] = c.from
      BY <1>5, <2>1, <2>2 DEF AnimInv, Quiet, TickAt
    <3>2. c.to = c.from
      BY <1>5, <2>1, <2>2 DEF MovesOf, Moving
    <3> QED
      BY <1>4, <2>1, <3>1, <3>2, PositionStays
  <2>3. CASE MovesOf(n) # {}
    <3>1. LastMove(n) = c
      BY <1>5, <2>3, LastMoveIs DEF AnimInv, LastMoves
    <3> QED
      BY <2>1, <2>3, <3>1, TickPlaces DEF Placed
  <2> QED
    BY <2>2, <2>3
<1>6. pos'[T] = PositionAt(a.from, a.to, "EaseOut", now, MoveMs)
  BY <1>1, <1>2, <1>5 DEF MovesOf
<1>7. pos'[F] = PositionAt(b.from, b.to, "EaseOut", now, MoveMs)
  BY <1>1, <1>2, <1>5 DEF MovesOf
<1> DEFINE k == Progress("EaseOut", now, MoveMs)
           d == MoveMs * MoveMs
<1>8. k \in 0..d /\ d \in Nat \ {0}
  BY <1>4, EasedRange DEF Progress, Stop, Easings
<1>9. /\ pos'[T] = [x |-> Coordinate(a.from.x, a.to.x, k, d),
                    y |-> Coordinate(a.from.y, a.to.y, k, d)]
      /\ pos'[F] = [x |-> Coordinate(b.from.x, b.to.x, k, d),
                    y |-> Coordinate(b.from.y, b.to.y, k, d)]
  BY <1>6, <1>7 DEF PositionAt
<1> HIDE DEF k, d
<1>10. /\ a.from.x \in Int /\ a.from.y \in Int /\ a.to.x \in Int /\ a.to.y \in Int
       /\ b.from.x \in Int /\ b.from.y \in Int /\ b.to.x \in Int /\ b.to.y \in Int
  BY <1>2 DEF Entries, Places
<1>11. /\ b.from.x = a.from.x - BorderWidth /\ b.from.y = a.from.y - BorderWidth
       /\ b.to.x = a.to.x - BorderWidth /\ b.to.y = a.to.y - BorderWidth
  BY <1>1, <1>3, <1>4, <1>10 DEF Beside
<1>12. /\ Coordinate(a.from.x, a.to.x, k, d) - Coordinate(b.from.x, b.to.x, k, d)
            \in {BorderWidth - 1, BorderWidth}
       /\ Coordinate(a.from.y, a.to.y, k, d) - Coordinate(b.from.y, b.to.y, k, d)
            \in {BorderWidth - 1, BorderWidth}
  <2>1. ASSUME NEW u \in Int, NEW v \in Int
        PROVE  Coordinate(u, v, k, d) - Coordinate(u - BorderWidth, v - BorderWidth, k, d)
                 \in {BorderWidth - 1, BorderWidth}
    BY <1>4, <1>8, FrameWithinAPixel
  <2> QED
    BY <2>1, <1>10, <1>11
<1> QED
  BY <1>9, <1>12 DEF Beside

\* Window and frame of a toggle stay a border or a pixel less apart, at every tick
\* and for every place they come from and go to.
THEOREM FrameStaysBeside == AnimSpec => FrameBeside
<1> DEFINE Near == \A w \in Windows : Together(w) =>
                      LET gap == Beside(pos'[<<w, "tree">>], pos'[<<w, "frame">>])
                      IN  {gap.x, gap.y} \subseteq {BorderWidth - 1, BorderWidth}
<1>1. AnimInv /\ Tick => Near
  BY TickIs, PairStep DEF AnimInv
<1>2. AnimInv /\ [AnimNext]_animVars => [Tick => Near]_animVars
  BY <1>1
<1> QED
  BY <1>2, AnimationsInvariant, PTL DEF AnimSpec, FrameBeside

\* The animations implement Deferred: a callback handed in with a toggle runs once,
\* and after every one handed in before it.
THEOREM CallbacksRunInOrder == AnimSpec => CallbacksInOrder
<1> DEFINE W == InOrder(Telling(anims))
<1>1. AnimInit => deferred!Init
  <2> SUFFICES ASSUME AnimInit PROVE deferred!Init
    OBVIOUS
  <2>1. Telling(anims) = {} /\ ran = << >>
    BY DEF AnimInit, Telling
  <2> QED
    BY <2>1, NoOrdering DEF deferred!Init
<1>2. AnimInv /\ [AnimNext]_animVars => [deferred!Next]_(deferred!deferredVars)
  <2> SUFFICES ASSUME AnimInv, [AnimNext]_animVars
               PROVE  [deferred!Next]_(deferred!deferredVars)
    OBVIOUS
  <2>1. W \in Seq(Telling(anims)) /\ W \in Seq(1..(nextId - 1))
    <3>1. W \in Orderings(Telling(anims))
      BY TellingGrows DEF AnimInv
    <3>2. Cardinality(Telling(anims)) \in Nat
      BY FS_CardinalityType DEF AnimInv, Ordered
    <3>3. W \in Seq(Telling(anims))
      BY <3>1, <3>2 DEF Orderings
    <3>4. Telling(anims) \subseteq 1..(nextId - 1)
      BY DEF Telling, AnimInv, AnimTypeOK, Entries, Numbered
    <3> QED
      BY <3>3, <3>4, SeqOfMore
  <2>2. ASSUME NEW w \in Windows, NEW p \in Points, QueueMoves(w, p)
        PROVE  deferred!Next
    <3>1. Telling(anims)' = Telling(anims) \cup {nextId}
      BY <2>2, QueueMovesInv
    <3>2. W' = Append(W, nextId)
      <4>1. Orderings(Telling(anims)') = {Append(W, nextId)}
        BY <3>1, TellingGrows DEF AnimInv
      <4>2. ASSUME NEW S, NEW s, Orderings(S) = {s} PROVE InOrder(S) = s
        BY <4>2 DEF InOrder
      <4> QED
        BY <4>1, <4>2
    <3>3. nextId \in 1..MaxAdds /\ ran' = ran
      BY <2>2, AddsAssumption DEF QueueMoves, AnimInv, AnimTypeOK
    <3>4. nextId \notin deferred!Given
      <4>1. /\ \A i \in DOMAIN W : W[i] \in 1..(nextId - 1)
            /\ \A i \in DOMAIN ran : ran[i] \in 1..(nextId - 1)
        <5>1. ran \in Seq(1..(nextId - 1))
          BY DEF AnimInv, Ordered
        <5>2. ASSUME NEW s \in Seq(1..(nextId - 1)), NEW i \in DOMAIN s
              PROVE  s[i] \in 1..(nextId - 1)
          <6>1. i \in 1..Len(s)
            BY LenProperties
          <6> QED
            BY <6>1, ElementOfSeq
        <5> QED
          BY <2>1, <5>1, <5>2
      <4>2. nextId \notin 1..(nextId - 1)
        BY DEF AnimInv, AnimTypeOK
      <4> QED
        BY <4>1, <4>2 DEF deferred!Given
    <3> QED
      BY <3>2, <3>3, <3>4 DEF deferred!Next, deferred!Defer
  <2>3. ASSUME NEW w \in Windows, QueueScale(w)
        PROVE  UNCHANGED deferred!deferredVars
    BY <2>3, QueueScaleInv DEF deferred!deferredVars
  <2>4. ASSUME Tick
        PROVE  deferred!Next \/ UNCHANGED deferred!deferredVars
    <3>1. PICK now : TickAt(now)
      BY <2>4, TickIs DEF AnimInv
    <3>2. ran' = ran \o Called(now) /\ Telling(anims)' = Telling(Remaining(now))
      BY <3>1 DEF TickAt
    <3>3. CASE Called(now) = << >> /\ Telling(Remaining(now)) = Telling(anims)
      <4>1. ran' = ran
        BY <3>2, <3>3, ConcatEmptySeq DEF AnimInv, Ordered
      <4> QED
        BY <3>2, <3>3, <4>1 DEF deferred!deferredVars
    <3>4. CASE Called(now) = W /\ Telling(Remaining(now)) = {}
      <4>1. W' = << >> /\ ran' = ran \o W
        BY <3>2, <3>4, NoOrdering
      <4>2. CASE W = << >>
        <5>1. ran' = ran
          BY <4>1, <4>2, ConcatEmptySeq DEF AnimInv, Ordered
        <5> QED
          BY <4>1, <4>2, <5>1 DEF deferred!deferredVars
      <4>3. CASE W # << >>
        <5>1. Len(W) \in 1..Len(W)
          BY <2>1, <4>3, EmptySeq
        <5>2. SubSeq(W, 1, Len(W)) = W
          BY <2>1, SubSeqFull
        <5>3. SubSeq(W, Len(W) + 1, Len(W)) = << >>
          BY <2>1, SubSeqEmpty
        <5> QED
          BY <4>1, <5>1, <5>2, <5>3 DEF deferred!Next, deferred!Run
      <4> QED
        BY <4>2, <4>3
    <3> QED
      BY <3>1, <3>3, <3>4, TickCalls DEF TickAt, AnimInv
  <2>5. ASSUME UNCHANGED animVars
        PROVE  UNCHANGED deferred!deferredVars
    BY <2>5 DEF animVars, deferred!deferredVars
  <2> QED
    BY <2>2, <2>3, <2>4, <2>5 DEF AnimNext
<1> QED
  BY <1>1, <1>2, AnimationsInvariant, PTL DEF AnimSpec, CallbacksInOrder, deferred!Spec
=============================================================================
