----------------------------- MODULE AimingProofs -----------------------------
(***************************************************************************)
(* The start of a defender, for every speed, angle and start an attacker   *)
(* may have and every moment in which it is found.                         *)
(*                                                                         *)
(* Two arguments meet.  About the bisection: a defender is the less late   *)
(* the farther along the target's way it waits, if the target falls no     *)
(* faster than a defender climbs; so the two ends of the interval keep     *)
(* the meeting between them, while its width is halved.  About the         *)
(* threads: what was sampled is such a target, because after MIN_SAMPLES   *)
(* periods the cells it was seen in are at most a period's move and the    *)
(* rounding off its true speed.                                            *)
(***************************************************************************)
EXTENDS Aiming, NumberTheorems, TLAPS

Rounds == 0 .. 20

\* f gives the interval after each number of halvings.
Halves(f, a, b, k) ==
  f = [n \in Rounds |-> IF n = 0 THEN Window(a, b) ELSE Halve(f[n - 1], a, b, k)]

\* There are such intervals, for any two positions.
LEMMA HalvesExist ==
  ASSUME NEW a, NEW b, NEW k
  PROVE  \E f : Halves(f, a, b, k)
<1> DEFINE H(f, n) == IF n = 0 THEN Window(a, b) ELSE Halve(f[n - 1], a, b, k)
           Good(m) == \E f : f = [n \in 0 .. m |-> H(f, n)]
           Bad == {m \in Nat : ~ Good(m)}
<1>1. Good(0)
  <2> DEFINE f == [n \in 0 .. 0 |-> Window(a, b)]
  <2>1. \A n \in 0 .. 0 : H(f, n) = Window(a, b)
    OBVIOUS
  <2>2. f = [n \in 0 .. 0 |-> H(f, n)]
    BY <2>1
  <2> QED
    BY <2>2
<1>2. ASSUME NEW m \in Nat, Good(m) PROVE Good(m + 1)
  <2>1. PICK g : g = [n \in 0 .. m |-> H(g, n)]
    BY <1>2
  <2> DEFINE f == [n \in 0 .. m + 1 |-> H(g, n)]
  <2>2. ASSUME NEW n \in 0 .. m + 1 PROVE H(f, n) = H(g, n)
    <3>1. CASE n = 0
      BY <3>1
    <3>2. CASE n # 0
      <4>1. n - 1 \in 0 .. m /\ n - 1 \in 0 .. m + 1
        BY <3>2
      <4>2. f[n - 1] = g[n - 1]
        <5> HIDE DEF H
        <5> QED
          BY <2>1, <4>1
      <4> HIDE DEF f
      <4> QED
        BY <4>2
    <3> QED
      BY <3>1, <3>2
  <2>3. f = [n \in 0 .. m + 1 |-> H(f, n)]
    <3> HIDE DEF H
    <3> QED
      BY <2>2
  <2> QED
    BY <2>3
<1> HIDE DEF Good
<1>3. Bad = {}
  <2> SUFFICES ASSUME Bad # {} PROVE FALSE
    OBVIOUS
  <2>1. PICK m \in Bad : \A l \in Bad : m <= l
    BY LeastNumber
  <2>2. m # 0 /\ m - 1 \in Nat
    BY <1>1, <2>1
  <2>3. Good(m - 1)
    BY <2>1, <2>2
  <2> QED
    BY <1>2, <2>1, <2>2, <2>3
<1>4. Good(20)
  BY <1>3
<1> QED
  BY <1>4 DEF Good, Halves, Rounds

\* Bisect is the middle of the interval after the last halving.
LEMMA BisectHalves ==
  ASSUME NEW a, NEW b, NEW k
  PROVE  \E f : /\ Halves(f, a, b, k)
                /\ Bisect(a, b, k) = (f[20][1] + f[20][2]) \div 200
<1> DEFINE f == CHOOSE f : Halves(f, a, b, k)
<1>1. Halves(f, a, b, k)
  BY HalvesExist
<1>2. Bisect(a, b, k) = (f[20][1] + f[20][2]) \div 200
  BY DEF Bisect, Halves, Rounds
<1> QED
  BY <1>1, <1>2
-----------------------------------------------------------------------------
\* The bisection

\* What holds of the first interval, and is kept by a halving, holds of the
\* last one.
LEMMA RoundsInduction ==
  ASSUME NEW a, NEW b, NEW k, NEW f, Halves(f, a, b, k),
         NEW S, Window(a, b) \in S[0],
         \A n \in 1 .. 20 : \A r \in S[n - 1] : Halve(r, a, b, k) \in S[n]
  PROVE  f[20] \in S[20]
<1> DEFINE Bad == {n \in Rounds : f[n] \notin S[n]}
<1>1. f[0] \in S[0]
  BY DEF Halves, Rounds
<1>2. ASSUME NEW n \in 1 .. 20, f[n - 1] \in S[n - 1] PROVE f[n] \in S[n]
  <2>1. n \in Rounds /\ n # 0
    BY DEF Rounds
  <2>2. f[n] = Halve(f[n - 1], a, b, k)
    BY <2>1 DEF Halves
  <2> QED
    BY <1>2, <2>2
<1>3. Bad = {}
  <2> SUFFICES ASSUME Bad # {} PROVE FALSE
    OBVIOUS
  <2>1. Bad \subseteq Nat
    BY DEF Rounds
  <2>2. PICK n \in Bad : \A m \in Bad : n <= m
    BY <2>1, LeastNumber
  <2>3. n \in 1 .. 20
    BY <1>1, <2>2 DEF Rounds
  <2>4. n - 1 \in Rounds /\ n - 1 \notin Bad
    BY <2>2, <2>3 DEF Rounds
  <2>5. f[n - 1] \in S[n - 1]
    BY <2>4
  <2> QED
    BY <1>2, <2>2, <2>3, <2>5
<1> QED
  BY <1>3 DEF Rounds

\* The distance, in hundredths of a pixel, that a defender climbs in a period.
Climbs == (DEF_MISSILE_SPEED * DEF_MISSILE_PERIOD) \div 10

LEMMA Climbs195 == Climbs = 195
BY DEF Climbs, DEF_MISSILE_SPEED, DEF_MISSILE_PERIOD

LEMMA LateInt ==
  ASSUME NEW a \in Int \X Int, NEW b \in Int \X Int, NEW k \in Int, NEW x \in Int
  PROVE  Late(x, a, b, k) \in Int
<1> DEFINE dx == b[1] - a[1]
           dy == b[2] - a[2]
           far == x - 100 * b[1]
           bend == 100 * dx * (DEF_MISSILE_START_Y - b[2]) - dy * far
<1>1. DEF_MISSILE_START_Y \in Int
  BY DEF DEF_MISSILE_START_Y, GOAL_START_Y, MISSILE_RADIUS
<1>2. far \in Int /\ bend \in Int
  BY <1>1
<1>3. Late(x, a, b, k) = 100 * Abs(bend) - Climbs * k * Abs(far)
  BY Zenon DEF Late, Climbs
<1>4. Abs(bend) \in Int /\ Abs(far) \in Int
  <2> HIDE DEF bend, far
  <2> QED
    BY <1>2 DEF Abs
<1> HIDE DEF bend, far
<1> QED
  BY <1>3, <1>4, Climbs195

\* A target that has moved down by no more than a defender climbs in the same
\* time.
Catchable(a, b, k) ==
  /\ a \in Int \X Int /\ b \in Int \X Int /\ k \in Int
  /\ b[2] - a[2] \in Nat /\ 100 * (b[2] - a[2]) <= Climbs * k

\* The farther along the target's way, the less late the defender comes.
LEMMA LateFalls ==
  ASSUME NEW a, NEW b, NEW k, Catchable(a, b, k),
         NEW x \in Int, NEW y \in Int,
         (100 * b[1] <= x /\ x <= y) \/ (y <= x /\ x <= 100 * b[1])
  PROVE  Late(y, a, b, k) <= Late(x, a, b, k)
<1> DEFINE dy == b[2] - a[2]
           bend == 100 * (b[1] - a[1]) * (DEF_MISSILE_START_Y - b[2])
           p == x - 100 * b[1]
           q == y - 100 * b[1]
           way == Abs(q) - Abs(p)
<1>1. DEF_MISSILE_START_Y \in Int
  BY DEF DEF_MISSILE_START_Y, GOAL_START_Y, MISSILE_RADIUS
<1>2. /\ dy \in Nat /\ bend \in Int /\ p \in Int /\ q \in Int /\ k \in Int
      /\ 100 * dy <= 195 * k
  BY <1>1, Climbs195 DEF Catchable
<1>3. /\ Late(x, a, b, k) = 100 * Abs(bend - dy * p) - 195 * k * Abs(p)
      /\ Late(y, a, b, k) = 100 * Abs(bend - dy * q) - 195 * k * Abs(q)
  BY Climbs195 DEF Late, Climbs
<1>4. /\ (0 <= p /\ p <= q) \/ (q <= p /\ p <= 0)
      /\ way \in Nat /\ (way = q - p \/ way = p - q)
  BY DEF Abs, Catchable
<1> HIDE DEF dy, bend, p, q
<1>5. Abs(p) \in Nat /\ Abs(q) \in Nat /\ Abs(q) = Abs(p) + way
  BY <1>2, <1>4 DEF Abs
<1> HIDE DEF way
<1>6. dy * way \in Nat /\ (dy * q = dy * p + dy * way \/ dy * q = dy * p - dy * way)
  BY <1>2, <1>4
<1>7. 100 * (dy * way) <= 195 * (k * way)
  <2>1. (195 * k - 100 * dy) * way >= 0
    BY <1>2, <1>4
  <2> QED
    BY <1>2, <1>4, <2>1
<1>8. Abs(bend - dy * q) <= Abs(bend - dy * p) + dy * way
  <2> DEFINE u == dy * p
             v == dy * q
             w == dy * way
  <2>1. u \in Int /\ v \in Int /\ w \in Nat /\ (v = u + w \/ v = u - w)
    BY <1>2, <1>6
  <2> HIDE DEF u, v, w
  <2>2. Abs(bend - v) <= Abs(bend - u) + w
    BY <1>2, <2>1 DEF Abs
  <2> QED
    BY <2>2 DEF u, v, w
<1>9. 195 * k * Abs(q) = 195 * k * Abs(p) + 195 * (k * way)
  BY <1>2, <1>4, <1>5
<1>10. /\ Abs(bend - dy * q) \in Int /\ Abs(bend - dy * p) \in Int
       /\ 195 * k * Abs(p) \in Int /\ k * way \in Int /\ dy * way \in Int
  BY <1>2, <1>4, <1>5 DEF Abs
<1> QED
  BY <1>3, <1>7, <1>8, <1>9, <1>10
\* The columns of a missile that touches neither wall.
Free == WALL_THICKNESS + MISSILE_RADIUS .. XWIN - WALL_THICKNESS - MISSILE_RADIUS + 1

LEMMA Bounds ==
  /\ \A c : c \in Free <=> c \in Int /\ 7 <= c /\ c <= 634
  /\ \A c : c \in Columns <=> c \in Int /\ 0 <= c /\ c <= 639
  /\ LeftLimit = 8 /\ RightLimit = 632 /\ DEF_MISSILE_START_Y = 378
BY DEF Free, Columns, LeftLimit, RightLimit, DEF_MISSILE_START_Y,
       WALL_THICKNESS, MISSILE_RADIUS, XWIN, GOAL_START_Y

LEMMA HalveCases ==
  ASSUME NEW a, NEW b, NEW k, NEW r
  PROVE  LET x == (r[1] + r[2]) \div 2
             late == Late(x, a, b, k)
         IN  \/ Abs(r[2] - r[1]) <= 1 /\ Halve(r, a, b, k) = r
             \/ ~ (Abs(r[2] - r[1]) <= 1) /\ late = 0 /\ Halve(r, a, b, k) = <<x, x>>
             \/ /\ ~ (Abs(r[2] - r[1]) <= 1) /\ late # 0
                /\ UpperHalf(late, MovesLeft(a, b))
                /\ Halve(r, a, b, k) = <<x, r[2]>>
             \/ /\ ~ (Abs(r[2] - r[1]) <= 1) /\ late # 0
                /\ ~ UpperHalf(late, MovesLeft(a, b))
                /\ Halve(r, a, b, k) = <<r[1], x>>
BY Zenon DEF Halve

\* The result lies between the columns of the first interval.
LEMMA BisectBetween ==
  ASSUME NEW a, NEW b, NEW k, NEW l \in Int, NEW h \in Int,
         NEW v \in Int, NEW w \in Int, Window(a, b) = <<v, w>>,
         100 * l <= v, v <= 100 * h + 99, 100 * l <= w, w <= 100 * h + 99
  PROVE  Bisect(a, b, k) \in Int /\ l <= Bisect(a, b, k) /\ Bisect(a, b, k) <= h
<1> DEFINE D == {x \in Int : 100 * l <= x /\ x <= 100 * h + 99}
           S == [n \in Rounds |-> D \X D]
<1>1. PICK f : Halves(f, a, b, k) /\ Bisect(a, b, k) = (f[20][1] + f[20][2]) \div 200
  BY BisectHalves
<1>2. Window(a, b) \in D \X D
  OBVIOUS
<1>3. ASSUME NEW r \in D \X D PROVE Halve(r, a, b, k) \in D \X D
  <2>1. (r[1] + r[2]) \div 2 \in D
    OBVIOUS
  <2> HIDE DEF D
  <2> QED
    BY <2>1, HalveCases
<1>4. f[20] \in S[20]
  <2>1. \A n \in 0 .. 20 : S[n] = D \X D
    <3> HIDE DEF D
    <3> QED
      BY DEF Rounds
  <2>2. \A n \in 1 .. 20 : n \in 0 .. 20 /\ n - 1 \in 0 .. 20
    OBVIOUS
  <2>3. \A n \in 1 .. 20 : \A r \in S[n - 1] : Halve(r, a, b, k) \in S[n]
    <3> HIDE DEF S, D
    <3> QED
      BY <1>3, <2>1, <2>2
  <2>4. Window(a, b) \in S[0]
    <3> HIDE DEF S, D
    <3> QED
      BY <1>2, <2>1
  <2> HIDE DEF S, D
  <2> QED
    BY <1>1, <2>3, <2>4, RoundsInduction
<1>5. f[20] \in D \X D
  <2> HIDE DEF D
  <2> QED
    BY <1>4 DEF Rounds
<1>6. f[20][1] \in D /\ f[20][2] \in D
  BY <1>5
<1> DEFINE g == f[20][1]
           e == f[20][2]
<1>7. g \in Int /\ e \in Int /\ 200 * l <= g + e /\ g + e <= 200 * h + 198
  BY <1>6
<1> HIDE DEF g, e
<1>8. (g + e) \div 200 \in Int /\ l <= (g + e) \div 200 /\ (g + e) \div 200 <= h
  BY <1>7
<1> QED
  BY <1>1, <1>8 DEF g, e

\* A defender that does not wait in its target's column does so between it and
\* the limit.
LEMMA BisectWindow ==
  ASSUME NEW a \in Free \X Int, NEW b \in Free \X Int, NEW k
  PROVE  LET x == Bisect(a, b, k)
             limit == IF MovesLeft(a, b) THEN LeftLimit ELSE RightLimit
         IN  x \in Int /\ ((b[1] <= x /\ x <= limit) \/ (limit <= x /\ x <= b[1]))
<1> DEFINE x == Bisect(a, b, k)
<1>1. /\ b[1] \in Int /\ LeftLimit = 8 /\ RightLimit = 632
      /\ Window(a, b) = IF MovesLeft(a, b) THEN <<800, 100 * b[1]>> ELSE <<100 * b[1], 63201>>
  BY Bounds DEF Window
<1> HIDE DEF x
<1>2. CASE MovesLeft(a, b) /\ b[1] <= 8
  <2>1. Window(a, b) = <<800, 100 * b[1]>>
    BY <1>1, <1>2
  <2>2. x \in Int /\ b[1] <= x /\ x <= 8
    BY <1>1, <1>2, <2>1, BisectBetween DEF x
  <2> QED
    BY <1>1, <1>2, <2>2 DEF x
<1>3. CASE MovesLeft(a, b) /\ b[1] > 8
  <2>1. Window(a, b) = <<800, 100 * b[1]>>
    BY <1>1, <1>3
  <2>2. x \in Int /\ 8 <= x /\ x <= b[1]
    BY <1>1, <1>3, <2>1, BisectBetween DEF x
  <2> QED
    BY <1>1, <1>3, <2>2 DEF x
<1>4. CASE ~ MovesLeft(a, b) /\ b[1] <= 632
  <2>1. Window(a, b) = <<100 * b[1], 63201>>
    BY <1>1, <1>4
  <2>2. x \in Int /\ b[1] <= x /\ x <= 632
    BY <1>1, <1>4, <2>1, BisectBetween DEF x
  <2> QED
    BY <1>1, <1>4, <2>2 DEF x
<1>5. CASE ~ MovesLeft(a, b) /\ b[1] > 632
  <2>1. Window(a, b) = <<100 * b[1], 63201>>
    BY <1>1, <1>5
  <2>2. x \in Int /\ 632 <= x /\ x <= b[1]
    BY <1>1, <1>5, <2>1, BisectBetween DEF x
  <2> QED
    BY <1>1, <1>5, <2>2 DEF x
<1> QED
  BY <1>1, <1>2, <1>3, <1>4, <1>5

\* A defender never starts where it would touch a wall, whatever was sampled.
LEMMA BisectStays ==
  ASSUME NEW a \in Free \X Int, NEW b \in Free \X Int, NEW k
  PROVE  Bisect(a, b, k) \in Free
<1>1. b[1] \in Int /\ 7 <= b[1] /\ b[1] <= 634 /\ LeftLimit = 8 /\ RightLimit = 632
  BY Bounds
<1> QED
  BY <1>1, BisectWindow, Bounds

\* A bound of the width of the interval after n - 1 halvings.
Width == <<65536, 32768, 16384, 8192, 4096, 2048, 1024, 512, 256, 128, 64, 32,
           16, 8, 4, 2, 1, 1, 1, 1, 1>>

LEMMA WidthHalves ==
  /\ Width[1] = 65536 /\ Width[21] = 1
  /\ \A n \in 1 .. 20 : /\ {Width[n], Width[n + 1]} \subseteq Nat \ {0}
                        /\ Width[n] <= 2 * Width[n + 1]
<1>1. Width[1] = 65536 /\ Width[21] = 1
  BY DEF Width
<1>2. ASSUME NEW n \in 1 .. 20
      PROVE  /\ {Width[n], Width[n + 1]} \subseteq Nat \ {0}
             /\ Width[n] <= 2 * Width[n + 1]
  <2>1. \/ n = 1 \/ n = 2 \/ n = 3 \/ n = 4 \/ n = 5 \/ n = 6 \/ n = 7 \/ n = 8
        \/ n = 9 \/ n = 10 \/ n = 11 \/ n = 12 \/ n = 13 \/ n = 14 \/ n = 15
        \/ n = 16 \/ n = 17 \/ n = 18 \/ n = 19 \/ n = 20
    OBVIOUS
  <2> QED
    BY <2>1 DEF Width
<1> QED
  BY <1>1, <1>2

\* What the bisection keeps: it would be late at the end of the interval that
\* is nearer to the target, and early at the other, unless that is the limit.
Brackets(r, a, b, k) ==
  /\ r \in Nat \X Nat /\ r[1] <= r[2]
  /\ IF MovesLeft(a, b)
       THEN /\ 800 <= r[1] /\ r[2] <= 100 * b[1]
            /\ Late(r[2], a, b, k) >= 0
            /\ r[1] = 800 \/ Late(r[1], a, b, k) <= 0
       ELSE /\ 100 * b[1] <= r[1] /\ r[2] <= 63201
            /\ Late(r[1], a, b, k) >= 0
            /\ r[2] = 63201 \/ Late(r[2], a, b, k) <= 0

LEMMA HalveBrackets ==
  ASSUME NEW a \in Int \X Int, NEW b \in Int \X Int, NEW k \in Int,
         NEW r, Brackets(r, a, b, k), NEW w \in Nat \ {0}, r[2] - r[1] <= 2 * w
  PROVE  LET h == Halve(r, a, b, k)
         IN  Brackets(h, a, b, k) /\ h[2] - h[1] <= w
<1> DEFINE x == (r[1] + r[2]) \div 2
           late == Late(x, a, b, k)
<1>1. /\ x \in Nat /\ r[1] <= x /\ x <= r[2]
      /\ x - r[1] <= w /\ r[2] - x <= w /\ r \in Nat \X Nat
  BY DEF Brackets
<1>2. late \in Int
  BY <1>1, LateInt
<1> HIDE DEF x, late
<1>7. ASSUME NEW l \in BOOLEAN, NEW u \in BOOLEAN
      PROVE  (u # l) = IF l THEN ~ u ELSE u
  BY Zenon
<1>8. UpperHalf(late, MovesLeft(a, b)) = IF MovesLeft(a, b) THEN ~ (late > 0) ELSE late > 0
  <2>1. MovesLeft(a, b) \in BOOLEAN /\ (late > 0) \in BOOLEAN
    BY DEF MovesLeft
  <2> QED
    BY <1>7, <2>1, Zenon DEF UpperHalf
<1>3. CASE Abs(r[2] - r[1]) <= 1 /\ Halve(r, a, b, k) = r
  BY <1>1, <1>3 DEF Abs
<1>4. CASE late = 0 /\ Halve(r, a, b, k) = <<x, x>>
  BY <1>1, <1>4 DEF Brackets, late
<1>5. CASE /\ late # 0 /\ UpperHalf(late, MovesLeft(a, b))
           /\ Halve(r, a, b, k) = <<x, r[2]>>
  <2> DEFINE h == <<x, r[2]>>
  <2>1. h[1] \in Nat /\ h[2] \in Nat /\ h[1] <= h[2] /\ h[2] - h[1] <= w
    BY <1>1
  <2>2. CASE MovesLeft(a, b)
    <3>1. ~ (late > 0)
      BY <1>8, <1>5, <2>2, Zenon
    <3>2. Late(x, a, b, k) <= 0
      BY <1>2, <3>1 DEF late
    <3> QED
      BY <1>1, <1>5, <2>1, <2>2, <3>2 DEF Brackets
  <2>3. CASE ~ MovesLeft(a, b)
    <3>1. late > 0
      BY <1>8, <1>5, <2>3, Zenon
    <3>2. Late(x, a, b, k) >= 0
      BY <1>2, <3>1 DEF late
    <3> QED
      BY <1>1, <1>5, <2>1, <2>3, <3>2 DEF Brackets
  <2> QED
    BY <2>2, <2>3
<1>6. CASE /\ late # 0 /\ ~ UpperHalf(late, MovesLeft(a, b))
           /\ Halve(r, a, b, k) = <<r[1], x>>
  <2> DEFINE h == <<r[1], x>>
  <2>1. h[1] \in Nat /\ h[2] \in Nat /\ h[1] <= h[2] /\ h[2] - h[1] <= w
    BY <1>1
  <2>2. CASE MovesLeft(a, b)
    <3>1. late > 0
      BY <1>8, <1>6, <2>2, Zenon
    <3>2. Late(x, a, b, k) >= 0
      BY <1>2, <3>1 DEF late
    <3> QED
      BY <1>1, <1>6, <2>1, <2>2, <3>2 DEF Brackets
  <2>3. CASE ~ MovesLeft(a, b)
    <3>1. ~ (late > 0)
      BY <1>8, <1>6, <2>3, Zenon
    <3>2. Late(x, a, b, k) <= 0
      BY <1>2, <3>1 DEF late
    <3> QED
      BY <1>1, <1>6, <2>1, <2>3, <3>2 DEF Brackets
  <2> QED
    BY <2>2, <2>3
<1> QED
  BY <1>3, <1>4, <1>5, <1>6, HalveCases DEF x, late
LEMMA WindowBrackets ==
  ASSUME NEW a, NEW b, NEW k, Catchable(a, b, k), b[1] \in Free,
         IF MovesLeft(a, b) THEN 8 <= b[1] ELSE b[1] <= 632
  PROVE  LET r == Window(a, b) IN Brackets(r, a, b, k) /\ r[2] - r[1] <= 65536
<1> DEFINE bend == 100 * (b[1] - a[1]) * (DEF_MISSILE_START_Y - b[2])
<1>1. /\ a \in Int \X Int /\ b \in Int \X Int /\ k \in Int
      /\ 7 <= b[1] /\ b[1] <= 634
  BY Bounds DEF Catchable
<1>2. bend \in Int
  BY <1>1, Bounds
<1>3. Late(100 * b[1], a, b, k) >= 0
  <2> DEFINE far == 100 * b[1] - 100 * b[1]
             dy == b[2] - a[2]
  <2>1. Late(100 * b[1], a, b, k) = 100 * Abs(bend - dy * far) - Climbs * k * Abs(far)
    BY Zenon DEF Late, Climbs
  <2>2. far = 0 /\ dy * far = 0 /\ Abs(far) = 0 /\ Climbs * k * Abs(far) = 0
    BY <1>1, Climbs195 DEF Abs
  <2> HIDE DEF bend, far, dy
  <2> QED
    BY <1>2, <2>1, <2>2 DEF Abs
<1>4. CASE MovesLeft(a, b)
  <2>1. Window(a, b) = <<800, 100 * b[1]>>
    BY <1>4, Bounds DEF Window
  <2> QED
    BY <1>1, <1>3, <1>4, <2>1 DEF Brackets
<1>5. CASE ~ MovesLeft(a, b)
  <2>1. Window(a, b) = <<100 * b[1], 63201>>
    BY <1>5, Bounds DEF Window
  <2> QED
    BY <1>1, <1>3, <1>5, <2>1 DEF Brackets
<1> QED
  BY <1>4, <1>5

\* The halvings close in on one hundredth of a pixel.
LEMMA LastBrackets ==
  ASSUME NEW a, NEW b, NEW k, Catchable(a, b, k), b[1] \in Free,
         IF MovesLeft(a, b) THEN 8 <= b[1] ELSE b[1] <= 632
  PROVE  \E r : /\ Brackets(r, a, b, k) /\ r[2] - r[1] <= 1
                /\ Bisect(a, b, k) = (r[1] + r[2]) \div 200
<1> DEFINE S == [n \in Rounds |-> {r \in Nat \X Nat : /\ Brackets(r, a, b, k)
                                                      /\ r[2] - r[1] <= Width[n + 1]}]
<1>1. PICK f : Halves(f, a, b, k) /\ Bisect(a, b, k) = (f[20][1] + f[20][2]) \div 200
  BY BisectHalves
<1>2. \A n \in 0 .. 20 : \A r : r \in S[n] <=> Brackets(r, a, b, k) /\ r[2] - r[1] <= Width[n + 1]
  BY DEF Rounds, Brackets
<1> HIDE DEF S
<1>3. Window(a, b) \in S[0]
  BY <1>2, WidthHalves, WindowBrackets
<1>4. \A n \in 1 .. 20 : \A r \in S[n - 1] : Halve(r, a, b, k) \in S[n]
  <2> SUFFICES ASSUME NEW n \in 1 .. 20, NEW r \in S[n - 1]
               PROVE  Halve(r, a, b, k) \in S[n]
    OBVIOUS
  <2>1. n \in 0 .. 20 /\ n - 1 \in 0 .. 20 /\ (n - 1) + 1 = n
    OBVIOUS
  <2>2. Brackets(r, a, b, k) /\ r[2] - r[1] <= Width[n]
    BY <1>2, <2>1
  <2>3. Width[n + 1] \in Nat \ {0} /\ Width[n] \in Nat /\ Width[n] <= 2 * Width[n + 1]
    BY WidthHalves
  <2>4. r[2] - r[1] <= 2 * Width[n + 1]
    BY <2>2, <2>3 DEF Brackets
  <2>5. a \in Int \X Int /\ b \in Int \X Int /\ k \in Int
    BY DEF Catchable
  <2> QED
    BY <1>2, <2>1, <2>2, <2>3, <2>4, <2>5, HalveBrackets
<1>5. f[20] \in S[20]
  BY <1>1, <1>3, <1>4, RoundsInduction
<1> QED
  BY <1>1, <1>2, <1>5, WidthHalves

\* The start is the column in which defender and target meet.
LEMMA BisectFinds ==
  ASSUME NEW a, NEW b, NEW k, Catchable(a, b, k), b[1] \in Free,
         NEW c \in IF MovesLeft(a, b) THEN LeftLimit .. b[1] ELSE b[1] .. RightLimit
  PROVE  LET start == Bisect(a, b, k)
             late == Late(100 * c, a, b, k)
             near == IF MovesLeft(a, b) THEN c > start ELSE c < start
             beyond == IF MovesLeft(a, b) THEN c < start ELSE c > start
         IN  (near => late >= 0) /\ (beyond => late <= 0)
<1>1. b[1] \in Int /\ c \in Int /\ a \in Int \X Int /\ b \in Int \X Int /\ k \in Int
  BY Bounds DEF Catchable
<1>2. IF MovesLeft(a, b) THEN 8 <= c /\ c <= b[1] ELSE b[1] <= c /\ c <= 632
  BY Bounds, <1>1
<1>3. IF MovesLeft(a, b) THEN 8 <= b[1] ELSE b[1] <= 632
  BY <1>1, <1>2
<1>4. PICK r : /\ Brackets(r, a, b, k) /\ r[2] - r[1] <= 1
               /\ Bisect(a, b, k) = (r[1] + r[2]) \div 200
  BY <1>3, LastBrackets
<1> DEFINE start == Bisect(a, b, k)
           x == 100 * c
<1>5. /\ start \in Int /\ x \in Int /\ r[1] \in Nat /\ r[2] \in Nat
      /\ r[1] <= r[2] /\ r[2] <= r[1] + 1
      /\ 100 * start <= r[1] /\ r[1] < 100 * start + 100
  BY <1>1, <1>4 DEF Brackets
<1> HIDE DEF start
<1>6. /\ c < start => x < r[1]
      /\ c > start => r[2] <= x
  BY <1>1, <1>5
<1>7. /\ Late(x, a, b, k) \in Int
      /\ Late(r[1], a, b, k) \in Int /\ Late(r[2], a, b, k) \in Int
  BY <1>1, <1>5, LateInt
<1>8. ASSUME NEW p \in Int, NEW q \in Int, 100 * b[1] <= p, p <= q
      PROVE  Late(q, a, b, k) <= Late(p, a, b, k)
  BY <1>8, LateFalls
<1>9. ASSUME NEW p \in Int, NEW q \in Int, q <= p, p <= 100 * b[1]
      PROVE  Late(q, a, b, k) <= Late(p, a, b, k)
  BY <1>9, LateFalls
<1> HIDE DEF x
<1>10. CASE MovesLeft(a, b)
  <2>1. ASSUME c > start PROVE Late(x, a, b, k) >= 0
    <3>1. r[2] <= x /\ x <= 100 * b[1]
      BY <1>1, <1>2, <1>6, <1>10, <2>1 DEF x
    <3>2. Late(r[2], a, b, k) <= Late(x, a, b, k)
      BY <1>5, <1>9, <3>1
    <3> QED
      BY <1>4, <1>7, <1>10, <3>2 DEF Brackets
  <2>2. ASSUME c < start PROVE Late(x, a, b, k) <= 0
    <3>1. x < r[1] /\ 800 <= x
      BY <1>1, <1>2, <1>6, <1>10, <2>2 DEF x
    <3>2. r[1] <= 100 * b[1] /\ Late(r[1], a, b, k) <= 0
      BY <1>1, <1>4, <1>5, <1>10, <3>1 DEF Brackets
    <3>3. Late(x, a, b, k) <= Late(r[1], a, b, k)
      BY <1>5, <1>9, <3>1, <3>2
    <3> QED
      BY <1>7, <3>2, <3>3
  <2> QED
    BY <1>10, <2>1, <2>2 DEF start, x
<1>11. CASE ~ MovesLeft(a, b)
  <2>1. ASSUME c < start PROVE Late(x, a, b, k) >= 0
    <3>1. x <= r[1] /\ 100 * b[1] <= x
      BY <1>1, <1>2, <1>5, <1>6, <1>11, <2>1 DEF x
    <3>2. Late(r[1], a, b, k) <= Late(x, a, b, k)
      BY <1>5, <1>8, <3>1
    <3> QED
      BY <1>4, <1>7, <1>11, <3>2 DEF Brackets
  <2>2. ASSUME c > start PROVE Late(x, a, b, k) <= 0
    <3>1. r[2] <= x /\ x <= 63200
      BY <1>1, <1>2, <1>6, <1>11, <2>2 DEF x
    <3>2. 100 * b[1] <= r[2] /\ Late(r[2], a, b, k) <= 0
      BY <1>1, <1>4, <1>5, <1>11, <3>1 DEF Brackets
    <3>3. Late(x, a, b, k) <= Late(r[2], a, b, k)
      BY <1>5, <1>8, <3>1, <3>2
    <3> QED
      BY <1>7, <3>2, <3>3
  <2> QED
    BY <1>11, <2>1, <2>2 DEF start, x
<1> QED
  BY <1>10, <1>11
-----------------------------------------------------------------------------
\* The inductive invariant

Types ==
  /\ vel \in Velocity /\ atk \in Int \X Nat
  /\ outcome \in {"flying", "goal", "wall", "defender"}
  /\ phase \in {"wait", "sample", "fly"}
  /\ def \in Int \X Int
  /\ i \in 0 .. SAMPLE_LIMIT /\ (phase = "sample" => i \in 1 .. SAMPLE_LIMIT - 1)
  /\ {pos_a, pos_b, last} \subseteq {p \in Int \X Int : p[1] \in Columns}
  /\ atk_due \in 0 .. ATK_MISSILE_PERIOD
  /\ def_due \in Nat /\ (phase # "wait" => def_due <= DEF_MISSILE_PERIOD)

\* An attacker in flight touches no wall, once it has moved; and it moves
\* before anybody can sample it.
Inside ==
  outcome = "flying" =>
    Cell(atk)[1] \in Free \/ (phase = "wait" /\ atk_due = 0 /\ def_due > 0)

\* Since the first sample the attacker has moved at most once in each of its
\* periods: 10 hundredths of a pixel in a ms, and one period more.
Sampled ==
  phase = "sample" =>
    /\ pos_a[1] \in Free /\ 100 * pos_a[2] <= atk[2]
    /\ atk[2] <= 100 * pos_a[2] + 99
                   + 10 * (DEF_MISSILE_PERIOD * i - def_due + atk_due)

Aimed ==
  phase = "fly" =>
    /\ pos_a[1] \in Free /\ pos_b[1] \in Free
    /\ Catchable(pos_a, pos_b, i - 1)
    /\ def[1] = StartPosition(pos_a, pos_b, i - 1)

IInv == Types /\ Inside /\ Sampled /\ Aimed

\* The speeds of an attacker: the vertical part is at least half.
LEMMA Speeds ==
  ASSUME NEW v \in Velocity
  PROVE  v \in Int \X Nat /\ -86 <= v[1] /\ v[1] <= 86 /\ v[2] <= 100
<1>1. /\ v \in Int \X Nat
      /\ v[1] * v[1] + v[2] * v[2] <= 10000
      /\ v[1] * v[1] + v[2] * v[2] <= 4 * v[2] * v[2]
  BY AimingAssumption DEF MAX_ATK_SPEED
<1>2. ASSUME NEW x \in Int, NEW n \in Nat, x > n \/ x < -n
      PROVE  x * x >= (n + 1) * (n + 1)
  BY <1>2
<1>3. v[1] * v[1] \in Nat /\ v[2] * v[2] \in Nat /\ v[1] * v[1] <= 7500
  BY <1>1
<1>4. ~ (v[1] > 86 \/ v[1] < -86)
  BY <1>1, <1>2, <1>3
<1>5. ~ (v[2] > 100)
  BY <1>1, <1>2, <1>3
<1> QED
  BY <1>1, <1>4, <1>5

LEMMA CellFacts ==
  ASSUME NEW p \in Int \X Int
  PROVE  /\ Cell(p) \in Int \X Int
         /\ p[2] >= 0 => 100 * Cell(p)[2] <= p[2] /\ p[2] <= 100 * Cell(p)[2] + 99
BY DEF Cell

\* The columns of the grid, and those between the walls, in hundredths.
LEMMA CellColumns ==
  ASSUME NEW p \in Int \X Int
  PROVE  /\ -100 < p[1] /\ p[1] < 64000 => Cell(p)[1] \in Columns
         /\ Cell(p)[1] \in Free => 700 <= p[1] /\ p[1] < 63500
<1> DEFINE c == Cell(p)[1]
<1>1. /\ p[1] \in Int /\ c \in Int
      /\ c = IF p[1] < 0 THEN -((-p[1]) \div 100) ELSE p[1] \div 100
  BY DEF Cell
<1> HIDE DEF c
<1>2. -100 < p[1] /\ p[1] < 64000 => 0 <= c /\ c <= 639
  BY <1>1
<1>3. 7 <= c /\ c <= 634 => 700 <= p[1] /\ p[1] < 63500
  BY <1>1
<1> QED
  BY <1>1, <1>2, <1>3, Bounds DEF c

LEMMA Inputs == Delay \subseteq Nat \ {0} /\ StartX \subseteq 0 .. XWIN
BY AimingAssumption

LEMMA InitIInv == Init => IInv
<1> SUFFICES ASSUME Init PROVE IInv
  OBVIOUS
<1>1. PICK x \in StartX : atk = <<100 * x, 100 * (WALL_THICKNESS + MISSILE_RADIUS + 1)>>
  BY DEF Init
<1>2. x \in Int
  BY AimingAssumption
<1>3. atk \in Int \X Nat
  BY <1>1, <1>2 DEF WALL_THICKNESS, MISSILE_RADIUS
<1>4. def_due \in Nat /\ def_due > 0
  BY AimingAssumption DEF Init
<1>5. <<0, 0>> \in {p \in Int \X Int : p[1] \in Columns}
  BY DEF Columns, XWIN
<1>6. Types
  BY <1>3, <1>4, <1>5 DEF Init, Types, SAMPLE_LIMIT, TRAJECTORY_PRECISION, ATK_MISSILE_PERIOD
<1> QED
  BY <1>4, <1>6 DEF Init, IInv, Inside, Sampled, Aimed
\* An attacker that flies on touches no wall.
LEMMA HitsFlying ==
  ASSUME NEW c \in Int \X Int
  PROVE  /\ Hits(c) \in {"flying", "goal", "wall", "defender"}
         /\ Hits(c) = "flying" => c[1] \in Free
<1> DEFINE met == phase = "fly" /\ def[2] < 100 * DEF_MISSILE_START_Y /\ InBox(DefCell, c)
           first == def[1] = c[1] - MISSILE_RADIUS
<1>1. Hits(c) = CASE AtLeftWall(c) -> "wall"
                  [] ~ AtLeftWall(c) /\ met /\ (AtGoal(c) => first) -> "defender"
                  [] ~ AtLeftWall(c) /\ AtGoal(c) /\ ~ (met /\ first) -> "goal"
                  [] ~ AtLeftWall(c) /\ ~ AtGoal(c) /\ ~ met /\ AtRightWall(c) -> "wall"
                  [] OTHER -> "flying"
  BY Zenon DEF Hits
<1> HIDE DEF met, first
<1>2. Hits(c) \in {"flying", "goal", "wall", "defender"}
  BY <1>1
<1>3. Hits(c) = "flying" => ~ AtLeftWall(c) /\ ~ AtRightWall(c)
  BY <1>1
<1>4. ~ AtLeftWall(c) /\ ~ AtRightWall(c) => c[1] \in Free
  BY DEF AtLeftWall, AtRightWall, Free, WALL_THICKNESS, MISSILE_RADIUS, XWIN
<1> QED
  BY <1>2, <1>3, <1>4

LEMMA NoWall ==
  ASSUME NEW c, c[1] \in Int, 7 <= c[1], c[1] <= 634
  PROVE  ~ AtLeftWall(c) /\ ~ AtRightWall(c)
BY DEF AtLeftWall, AtRightWall, XWIN, WALL_THICKNESS, MISSILE_RADIUS

LEMMA FreeColumns == Free \subseteq Columns
BY Bounds

\* A defender starts between the walls.
LEMMA StartStays ==
  ASSUME NEW a \in Free \X Int, NEW b \in Free \X Int, NEW k
  PROVE  StartPosition(a, b, k) \in Free
BY BisectStays DEF StartPosition

LEMMA AtkStepFlies ==
  ASSUME IInv, AtkStep
  PROVE  /\ vel \in Int \X Nat /\ vel[2] <= 100 /\ atk \in Int \X Nat
         /\ atk' = <<atk[1] + vel[1], atk[2] + vel[2]>> /\ atk' \in Int \X Nat
         /\ outcome' \in {"flying", "goal", "wall", "defender"}
         /\ outcome' = "flying" => Cell(atk')[1] \in Free
<1>1. /\ vel \in Int \X Nat /\ vel[2] <= 100 /\ atk \in Int \X Nat
      /\ atk' = <<atk[1] + vel[1], atk[2] + vel[2]>>
      /\ atk' \in Int \X Nat
  BY Speeds DEF IInv, Types, AtkStep
<1>2. Cell(atk') \in Int \X Int
  BY <1>1, CellFacts
<1>3. /\ outcome' \in {"flying", "goal", "wall", "defender"}
      /\ outcome' = "flying" => Cell(atk')[1] \in Free
  BY <1>2, HitsFlying DEF AtkStep
<1> QED
  BY <1>1, <1>3

LEMMA AtkStepIInv == IInv /\ AtkStep => IInv'
<1> SUFFICES ASSUME IInv, AtkStep PROVE IInv'
  OBVIOUS
<1>1. /\ vel \in Int \X Nat /\ vel[2] <= 100 /\ atk \in Int \X Nat
      /\ atk' = <<atk[1] + vel[1], atk[2] + vel[2]>> /\ atk' \in Int \X Nat
      /\ outcome' \in {"flying", "goal", "wall", "defender"}
      /\ outcome' = "flying" => Cell(atk')[1] \in Free
  BY AtkStepFlies
<1>2. /\ atk_due \in Nat /\ atk_due' = 10 /\ def_due \in Nat /\ def_due' \in Nat
      /\ def_due' = def_due - atk_due
  BY DEF AtkStep, IInv, Types, ATK_MISSILE_PERIOD
<1>3. Types'
  BY <1>1, <1>2 DEF AtkStep, IInv, Types, defender, ATK_MISSILE_PERIOD, DEF_MISSILE_PERIOD
<1>4. Inside'
  BY <1>1 DEF Inside, Cell
<1>5. Sampled'
  <2> SUFFICES ASSUME phase = "sample"
               PROVE  /\ pos_a[1] \in Free /\ 100 * pos_a[2] <= atk'[2]
                      /\ atk'[2] <= 100 * pos_a[2] + 99 + 10 * (15 * i - def_due' + 10)
    BY <1>2 DEF Sampled, AtkStep, defender, DEF_MISSILE_PERIOD
  <2>1. /\ pos_a[1] \in Free /\ 100 * pos_a[2] <= atk[2]
        /\ atk[2] <= 100 * pos_a[2] + 99 + 10 * (15 * i - def_due + atk_due)
    BY DEF IInv, Sampled, DEF_MISSILE_PERIOD
  <2>2. i \in Int /\ pos_a[2] \in Int
    BY DEF IInv, Types
  <2> QED
    BY <1>1, <1>2, <2>1, <2>2
<1>6. Aimed'
  BY DEF AtkStep, defender, IInv, Aimed
<1> QED
  BY <1>3, <1>4, <1>5, <1>6 DEF IInv

\* When a defender's thread goes next, the attacker has moved.
LEMMA DefDueFacts ==
  ASSUME IInv, DefDue
  PROVE  /\ Cell(atk) \in Free \X Int
         /\ Cell(atk) \in {p \in Int \X Int : p[1] \in Columns}
         /\ 100 * Cell(atk)[2] <= atk[2] /\ atk[2] <= 100 * Cell(atk)[2] + 99
         /\ def_due \in Nat /\ atk_due \in 0 .. 10 /\ atk_due' \in 0 .. 10
         /\ atk_due' = atk_due - def_due
<1>1. /\ def_due \in Nat /\ atk_due \in 0 .. 10 /\ def_due <= atk_due
      /\ atk_due' = atk_due - def_due /\ outcome = "flying"
  BY DEF IInv, Types, DefDue, ATK_MISSILE_PERIOD
<1>2. Cell(atk)[1] \in Free
  BY <1>1 DEF IInv, Inside
<1>3. atk \in Int \X Int /\ atk[2] >= 0
  BY DEF IInv, Types
<1>4. /\ Cell(atk) \in Int \X Int
      /\ 100 * Cell(atk)[2] <= atk[2] /\ atk[2] <= 100 * Cell(atk)[2] + 99
  BY <1>3, CellFacts
<1> HIDE DEF Cell
<1> QED
  BY <1>1, <1>2, <1>4, FreeColumns

LEMMA FirstSampleIInv == IInv /\ FirstSample => IInv'
<1> SUFFICES ASSUME IInv, FirstSample PROVE IInv'
  OBVIOUS
<1>1. /\ Cell(atk) \in Free \X Int
      /\ Cell(atk) \in {p \in Int \X Int : p[1] \in Columns}
      /\ 100 * Cell(atk)[2] <= atk[2] /\ atk[2] <= 100 * Cell(atk)[2] + 99
      /\ atk_due' \in 0 .. 10
  BY DefDueFacts DEF FirstSample
<1>2. /\ phase' = "sample" /\ i' = 1 /\ def_due' = 15
      /\ pos_a' = Cell(atk) /\ pos_b' = Cell(atk) /\ last' = Cell(atk)
      /\ UNCHANGED <<vel, atk, outcome, def>>
  BY DEF FirstSample, DEF_MISSILE_PERIOD
<1>3. Cell(atk') = Cell(atk)
  BY <1>2
<1> HIDE DEF Cell
<1>4. Types'
  BY <1>1, <1>2 DEF IInv, Types, ATK_MISSILE_PERIOD, DEF_MISSILE_PERIOD,
     SAMPLE_LIMIT, TRAJECTORY_PRECISION
<1>5. Inside'
  BY <1>1, <1>2, <1>3 DEF Inside
<1>6. Sampled'
  BY <1>1, <1>2 DEF IInv, Types, Sampled, DEF_MISSILE_PERIOD
<1>7. Aimed'
  BY <1>2 DEF Aimed
<1> QED
  BY <1>4, <1>5, <1>6, <1>7 DEF IInv
\* Samples go on until there are MIN_SAMPLES, and no longer than SAMPLE_LIMIT.
LEMMA SamplesLimited ==
  ASSUME NEW n \in Nat, NEW b
  PROVE  /\ SampleAgain(n, b) => n < 100
         /\ ~ SampleAgain(n, b) => n >= 20
<1>1. SAMPLE_LIMIT = 100 /\ MIN_SAMPLES = 20
  BY DEF SAMPLE_LIMIT, TRAJECTORY_PRECISION, MIN_SAMPLES
<1>2. SampleAgain(n, b) => n < SAMPLE_LIMIT
  BY DEF SampleAgain
<1>3. n < SAMPLE_LIMIT /\ n < MIN_SAMPLES => SampleAgain(n, b)
  BY DEF SampleAgain
<1> QED
  BY <1>1, <1>2, <1>3

LEMMA SampleIInv == IInv /\ Sample => IInv'
<1> SUFFICES ASSUME IInv, Sample PROVE IInv'
  OBVIOUS
<1> DEFINE b == Cell(atk)
<1>1. /\ b \in Free \X Int
      /\ b \in {p \in Int \X Int : p[1] \in Columns}
      /\ 100 * b[2] <= atk[2] /\ atk[2] <= 100 * b[2] + 99
      /\ def_due \in Nat /\ atk_due \in 0 .. 10 /\ atk_due' \in 0 .. 10
      /\ atk_due' = atk_due - def_due
  BY DefDueFacts DEF Sample
<1>2. /\ phase = "sample" /\ i' = i + 1 /\ def_due' = 15
      /\ pos_b' = b /\ last' = pos_b
      /\ UNCHANGED <<vel, atk, outcome, pos_a>>
  BY DEF Sample, DEF_MISSILE_PERIOD
<1>3. /\ i \in 1 .. 99 /\ pos_a[1] \in Free /\ pos_a \in Int \X Int /\ atk \in Int \X Nat
      /\ 100 * pos_a[2] <= atk[2]
      /\ atk[2] <= 100 * pos_a[2] + 99 + 10 * (15 * i - def_due + atk_due)
  BY <1>2 DEF IInv, Types, Sampled, SAMPLE_LIMIT, TRAJECTORY_PRECISION, DEF_MISSILE_PERIOD
<1>4. /\ SampleAgain(i + 1, b) => i + 1 < 100
      /\ ~ SampleAgain(i + 1, b) => i + 1 >= 20
  BY <1>3, SamplesLimited
<1>5. \/ SampleAgain(i + 1, b) /\ phase' = "sample" /\ def' = def
      \/ /\ ~ SampleAgain(i + 1, b) /\ phase' = "fly"
         /\ def' = <<StartPosition(pos_a, b, i), 100 * DEF_MISSILE_START_Y>>
  BY <1>2 DEF Sample
<1>6. Cell(atk') = b
  BY <1>2
<1> HIDE DEF b
<1>7. ASSUME phase' = "fly"
      PROVE  /\ Catchable(pos_a, b, i) /\ def' \in Int \X Int
             /\ def'[1] = StartPosition(pos_a, b, i)
  <2>1. i >= 19
    BY <1>3, <1>4, <1>5, <1>7
  <2>2. b[2] \in Int /\ pos_a[2] \in Int /\ i \in Int
    BY <1>1, <1>3
  <2>3. b[2] - pos_a[2] \in Nat /\ 100 * (b[2] - pos_a[2]) <= 195 * i
    BY <1>1, <1>3, <2>1, <2>2
  <2>4. pos_a \in Free \X Int
    BY <1>3
  <2>5. StartPosition(pos_a, b, i) \in Int
    BY <1>1, <2>4, StartStays, Bounds
  <2>6. 100 * DEF_MISSILE_START_Y \in Int
    BY Bounds
  <2>7. Catchable(pos_a, b, i)
    BY <1>1, <1>3, <2>3, Climbs195 DEF Catchable
  <2> QED
    BY <1>5, <1>7, <2>5, <2>6, <2>7
<1>8. Types'
  <2>1. i' \in 0 .. 100 /\ (phase' = "sample" => i' \in 1 .. 99)
    BY <1>2, <1>3, <1>4, <1>5
  <2>2. phase' \in {"sample", "fly"} /\ def' \in Int \X Int
    BY <1>5, <1>7 DEF IInv, Types
  <2> QED
    BY <1>1, <1>2, <2>1, <2>2 DEF IInv, Types, SAMPLE_LIMIT, TRAJECTORY_PRECISION,
       ATK_MISSILE_PERIOD, DEF_MISSILE_PERIOD
<1>9. Inside'
  <2>1. Cell(atk')[1] \in Free
    BY <1>1, <1>6
  <2> QED
    BY <2>1 DEF Inside, Cell
<1>10. Sampled'
  BY <1>1, <1>2, <1>3 DEF Sampled, DEF_MISSILE_PERIOD
<1>11. Aimed'
  <2> SUFFICES ASSUME phase' = "fly"
               PROVE  /\ pos_a[1] \in Free /\ b[1] \in Free
                      /\ Catchable(pos_a, b, i' - 1)
                      /\ def'[1] = StartPosition(pos_a, b, i' - 1)
    BY <1>2 DEF Aimed, Catchable
  <2>1. i' - 1 = i
    BY <1>2, <1>3
  <2> QED
    BY <1>1, <1>3, <1>7, <2>1
<1> QED
  BY <1>8, <1>9, <1>10, <1>11 DEF IInv

LEMMA DefStepIInv == IInv /\ DefStep => IInv'
<1> SUFFICES ASSUME IInv, DefStep PROVE IInv'
  OBVIOUS
<1>1. /\ Cell(atk) \in Free \X Int /\ atk_due' \in 0 .. 10
  BY DefDueFacts DEF DefStep
<1>2. /\ phase = "fly" /\ phase' \in {"wait", "fly"}
      /\ outcome' \in {outcome, "defender"}
      /\ IF phase' = "wait" THEN def_due' \in Delay ELSE def_due' = 15
      /\ UNCHANGED <<vel, atk, i, pos_a, pos_b, last>>
  BY DEF DefStep, DEF_MISSILE_PERIOD
<1>3. def' \in Int \X Int /\ def'[1] = def[1]
  BY Climbs195 DEF DefStep, IInv, Types, Climbs
<1>4. def_due' \in Nat /\ (phase' # "wait" => def_due' <= 15)
  <2>1. CASE phase' = "wait"
    BY <1>2, <2>1, Inputs
  <2>2. CASE phase' = "fly"
    BY <1>2, <2>2
  <2> QED
    BY <1>2, <2>1, <2>2
<1>5. Types'
  BY <1>1, <1>2, <1>3, <1>4 DEF IInv, Types, ATK_MISSILE_PERIOD, DEF_MISSILE_PERIOD
<1>6. Inside'
  <2>1. Cell(atk')[1] \in Free
    BY <1>1, <1>2
  <2> QED
    BY <2>1 DEF Inside, Cell
<1>7. Sampled'
  BY <1>2 DEF Sampled
<1>8. Aimed'
  BY <1>2, <1>3 DEF IInv, Aimed, Catchable
<1> QED
  BY <1>5, <1>6, <1>7, <1>8 DEF IInv

LEMMA NextIInv == IInv /\ [Next]_vars => IInv'
<1>1. IInv /\ UNCHANGED vars => IInv'
  BY DEF vars, defender, IInv, Types, Inside, Sampled, Aimed, Cell, Catchable
<1> QED
  BY <1>1, AtkStepIInv, FirstSampleIInv, SampleIInv, DefStepIInv DEF Next

-----------------------------------------------------------------------------
\* The theorems

\* The inductive invariant holds, for any speeds and angles an attacker may
\* have, any start and any delays.
THEOREM SpecIInv == Spec => []IInv
BY InitIInv, NextIInv, PTL DEF Spec

\* The bisection converges to the column where defender and target meet,
\* whatever the speeds, the angle, the start and the moment of the samples.
THEOREM SpecBisectionFindsIntercept == Spec => []BisectionFindsIntercept
<1>1. IInv => BisectionFindsIntercept
  <2> SUFFICES ASSUME IInv, phase = "fly", pos_a[1] # pos_b[1],
                      NEW c \in IF MovesLeft(pos_a, pos_b) THEN LeftLimit .. pos_b[1]
                                                           ELSE pos_b[1] .. RightLimit
               PROVE  LET start == def[1]
                          late == Late(100 * c, pos_a, pos_b, i - 1)
                          near == IF MovesLeft(pos_a, pos_b) THEN c > start ELSE c < start
                          beyond == IF MovesLeft(pos_a, pos_b) THEN c < start ELSE c > start
                      IN  (near => late >= 0) /\ (beyond => late <= 0)
    BY Zenon DEF BisectionFindsIntercept
  <2>1. pos_b[1] \in Free /\ Catchable(pos_a, pos_b, i - 1)
    BY DEF IInv, Aimed
  <2>2. def[1] = Bisect(pos_a, pos_b, i - 1)
    BY DEF IInv, Aimed, StartPosition
  <2> QED
    BY <2>1, <2>2, BisectFinds
<1> QED
  BY <1>1, SpecIInv, PTL

\* An attacker that starts in a column of the grid is never seen in another,
\* and the variables stay in their ranges; above all no defender starts where
\* it touches a wall, whatever it sampled.  Without the hypothesis this is
\* false: frand may round the first column up to XWIN.
THEOREM SpecTypeOK ==
  ASSUME XWIN \notin StartX
  PROVE  Spec => []TypeOK
<1> DEFINE InColumns == /\ Cell(atk)[1] \in Columns
                        /\ outcome = "flying" =>
                             Cell(atk)[1] \in Free \/ (0 <= atk[1] /\ atk[1] <= 63900)
<1>1. Init => InColumns
  <2> SUFFICES ASSUME Init PROVE InColumns
    OBVIOUS
  <2>1. PICK x \in StartX : atk = <<100 * x, 100 * (WALL_THICKNESS + MISSILE_RADIUS + 1)>>
    BY DEF Init
  <2>2. x \in Int /\ 0 <= x /\ x <= 639 /\ XWIN = 640
    BY Inputs DEF XWIN
  <2>3. /\ atk[1] = 100 * x /\ 0 <= atk[1] /\ atk[1] <= 63900 /\ atk[1] \in Int
        /\ atk \in Int \X Int
    BY <2>1, <2>2 DEF WALL_THICKNESS, MISSILE_RADIUS
  <2> QED
    BY <2>2, <2>3, CellColumns
<1>2. IInv /\ InColumns /\ [Next]_vars => InColumns'
  <2> SUFFICES ASSUME IInv, InColumns, [Next]_vars PROVE InColumns'
    OBVIOUS
  <2>1. CASE AtkStep
    <3>1. /\ vel \in Int \X Nat /\ -86 <= vel[1] /\ vel[1] <= 86 /\ atk \in Int \X Nat
          /\ atk' = <<atk[1] + vel[1], atk[2] + vel[2]>> /\ outcome = "flying"
      BY <2>1, Speeds DEF IInv, Types, AtkStep
    <3>2. outcome' = "flying" => Cell(atk')[1] \in Free
      BY <2>1, AtkStepFlies
    <3>3. 0 <= atk[1] /\ atk[1] <= 63900
      BY <3>1, CellColumns
    <3>4. Cell(atk')[1] \in Columns
      BY <3>1, <3>3, CellColumns
    <3> QED
      BY <3>2, <3>4 DEF Cell
  <2>2. CASE FirstSample \/ Sample \/ DefStep
    <3>1. UNCHANGED atk /\ (outcome' = "flying" => outcome = "flying")
      BY <2>2 DEF FirstSample, Sample, DefStep
    <3> QED
      BY <3>1 DEF Cell
  <2>3. CASE UNCHANGED vars
    BY <2>3 DEF vars, Cell
  <2> QED
    BY <2>1, <2>2, <2>3 DEF Next
<1>3. IInv /\ InColumns => TypeOK
  <2> SUFFICES ASSUME IInv, InColumns PROVE TypeOK
    OBVIOUS
  <2>1. ASSUME phase = "fly" PROVE ~ AtLeftWall(DefCell) /\ ~ AtRightWall(DefCell)
    <3>1. def[1] \in Free
      <4>1. pos_a \in Free \X Int /\ pos_b \in Free \X Int
        BY <2>1 DEF IInv, Aimed, Catchable
      <4> QED
        BY <2>1, <4>1, StartStays DEF IInv, Aimed
    <3>2. DefCell[1] = def[1] /\ 7 <= def[1] /\ def[1] <= 634 /\ def[1] \in Int
      BY <3>1, Bounds DEF DefCell
    <3> QED
      BY <3>2, NoWall
  <2>2. def_due \in 0 .. DEF_MISSILE_PERIOD \/ phase = "wait"
    BY DEF IInv, Types, DEF_MISSILE_PERIOD
  <2> HIDE DEF InColumns
  <2>3. Cell(atk)[1] \in Columns
    BY DEF InColumns
  <2> QED
    BY <2>1, <2>2, <2>3 DEF TypeOK, IInv, Types
<1> HIDE DEF InColumns
<1>4. Spec => []InColumns
  BY <1>1, <1>2, SpecIInv, PTL DEF Spec
<1> QED
  BY <1>3, <1>4, SpecIInv, PTL
=============================================================================
