------------------------- MODULE AimingMeetingProofs -------------------------
(***************************************************************************)
(* A defender that took all its samples meets its target.                  *)
(*                                                                         *)
(* The target was seen in the cell a when the samples began and in b when  *)
(* they ended, N of its periods later.  From these two cells the defender  *)
(* takes the target's speed, and so errs in three ways: a cell is a        *)
(* position rounded down, 99 sample periods are not N periods of the       *)
(* target, and the column of the meeting is rounded down as well.  All     *)
(* three are small because the samples cover most of the window: what they *)
(* change in the speed is divided by N.                                    *)
(*                                                                         *)
(* The proof follows the target, n of its periods after the last sample,   *)
(* and the defender, m of its periods after the start.  Q is the speed     *)
(* with which the two close in, and Z the way between them when the        *)
(* samples ended, both as the defender sees them; so n / N is the time     *)
(* and Z / Q the time until the meeting.  The first n for which the two    *)
(* are (almost) equal is the moment when target and defender overlap: both *)
(* distances between them are then linear in the errors above, and they    *)
(* add up to less than the size of a missile.  Until then the invariant    *)
(* Unmet holds, and that the two have not passed each other is what keeps  *)
(* the defender away from the wall.                                        *)
(***************************************************************************)
EXTENDS AimingProofs

-----------------------------------------------------------------------------
\* The speed and the meeting

\* The speed <<x, y>> of an attacker, in hundredths of a pixel in its period;
\* s is the size of x.
Speed(x, s, y) ==
  /\ x \in Int /\ s \in Nat /\ (s = x \/ s = -x) /\ y \in Nat
  /\ 15 <= y /\ y <= 100 /\ s <= 86
  /\ 2 * s <= y + 130 /\ (y <= 30 => 3 * s <= y + 130)
  /\ s + 2 * y <= 223

LEMMA Squares ==
  ASSUME NEW x \in Nat, NEW y \in Int, y > x
  PROVE  y * y > x * x
<1>1. (y - x) * (y + x) > 0 \/ (x = 0 /\ y > 0)
  OBVIOUS
<1> QED
  BY <1>1

\* Because the angle is between 30 and 150 degrees, an attacker goes sideways
\* slower than half the speed with which it and a defender close in.
LEMMA SpeedBounds ==
  ASSUME NEW s \in Nat, NEW y \in Nat,
         s * s + y * y <= 10000, s * s <= 3 * y * y, 900 <= s * s + y * y
  PROVE  Speed(s, s, y)
<1>1. s * s \in Nat /\ y * y \in Nat
  OBVIOUS
<1>2. y <= 100
  BY <1>1, Squares
<1>3. s <= 86
  BY <1>1, Squares
<1>4. y >= 15
  BY <1>1, Squares
<1>5. 2 * s <= y + 130
  <2> SUFFICES ASSUME y + 131 <= 2 * s PROVE FALSE
    OBVIOUS
  <2>1. (y + 131) * (y + 131) <= (2 * s) * (2 * s)
    BY Squares
  <2>2. y * y + 262 * y + 17161 <= 4 * (s * s)
    BY <2>1
  <2>3. 5 * (y * y) + 262 * y <= 22839 /\ 11 * (y * y) - 262 * y >= 17161
    BY <1>1, <2>2
  <2>4. y < 47
    <3> SUFFICES ASSUME 47 <= y PROVE FALSE
      OBVIOUS
    <3>1. 47 * 47 <= y * y
      OBVIOUS
    <3> QED
      BY <2>3, <3>1
  <2>5. y * y <= 46 * y
    BY <2>4
  <2> QED
    BY <2>3, <2>4, <2>5
<1>6. ASSUME y <= 30 PROVE 3 * s <= y + 130
  <2> SUFFICES ASSUME y + 131 <= 3 * s PROVE FALSE
    OBVIOUS
  <2>1. (y + 131) * (y + 131) <= (3 * s) * (3 * s)
    BY Squares
  <2>2. y * y + 262 * y + 17161 <= 9 * (s * s)
    BY <2>1
  <2>3. y * y <= 30 * y
    BY <1>6
  <2> QED
    BY <1>1, <1>6, <2>2, <2>3
<1>7. s + 2 * y <= 223
  <2>1. 0 <= (2 * s - y) * (2 * s - y)
    OBVIOUS
  <2>2. (s + 2 * y) * (s + 2 * y) + (2 * s - y) * (2 * s - y) = 5 * (s * s) + 5 * (y * y)
    OBVIOUS
  <2>3. (s + 2 * y) * (s + 2 * y) <= 50000
    BY <2>1, <2>2, <1>1
  <2> QED
    BY <2>3, Squares
<1> QED
  BY <1>2, <1>3, <1>4, <1>5, <1>6, <1>7 DEF Speed

\* What AimingAssumption says of a speed.
LEMMA SpeedFacts ==
  ASSUME NEW v \in Velocity
  PROVE  \E s : Speed(v[1], s, v[2])
<1> DEFINE x == v[1]
           y == v[2]
           s == Abs(x)
<1>1. /\ x \in Int /\ y \in Nat /\ 4 * y * y >= x * x + y * y
      /\ 900 <= x * x + y * y /\ x * x + y * y <= 10000
  BY AimingAssumption DEF MIN_ATK_SPEED, MAX_ATK_SPEED
<1> HIDE DEF x, y
<1>2. s \in Nat /\ (s = x \/ s = -x)
  BY <1>1 DEF Abs
<1> HIDE DEF s
<1>3. s * s = x * x
  BY <1>1, <1>2
<1>4. s * s + y * y <= 10000 /\ s * s <= 3 * y * y /\ 900 <= s * s + y * y
  BY <1>1, <1>3
<1>5. Speed(s, s, y)
  BY <1>1, <1>2, <1>4, SpeedBounds
<1>6. Speed(x, s, y)
  BY <1>1, <1>2, <1>5 DEF Speed
<1> QED
  BY <1>6 DEF x, y

-----------------------------------------------------------------------------
\* When the meeting is due

\* What was sampled of a target that falls by y: the speed Q with which it and
\* a defender close in and the gap Z between them when the samples end.
Sighted(y, N, Q, Z) ==
  /\ y \in Nat /\ 15 <= y /\ y <= 100
  /\ N \in {148, 149} /\ Q \in Nat /\ Z \in Nat
  /\ 19206 + 148 * y <= Q /\ Q <= 34304 /\ Q + Z <= 56305

\* The meeting, n periods of the target after the samples, is due when
\* (y + 130) * (n * Q - N * Z) reaches this.
Due(N, Q, Z) == IF N = 148 THEN 164 * Z - 65 * Q ELSE -(60 * Q)

NotDue(y, N, n, Q, Z) == (y + 130) * (n * Q - N * Z) < Due(N, Q, Z)

\* It is due now, and was not a period before.
JustDue(y, N, n, Q, Z) ==
  /\ Due(N, Q, Z) <= (y + 130) * (n * Q - N * Z)
  /\ (y + 130) * (n * Q - N * Z) < Due(N, Q, Z) + (y + 130) * Q

\* The defender has flown for m of its periods, 15 ms each, when the target
\* moves for the n-th time; c ms were left of a period of the target when the
\* samples ended.
InTime(N, n, m, c) ==
  /\ m \in Nat /\ c \in 0 .. 10
  /\ N = 148 => c <= 5
  /\ N = 149 => c >= 5
  /\ c - 25 <= 15 * m - 10 * n /\ 15 * m - 10 * n <= c - 10

\* How far the gap may be, against the speed with which it closes.
LEMMA GapBounds ==
  ASSUME NEW y \in Nat, 15 <= y, y <= 100, NEW N, NEW Q, NEW Z, Sighted(y, N, Q, Z)
  PROVE  /\ y * Q \in Nat
         /\ 198 * Z <= 401 * Q - y * Q /\ 164 * Z <= 331 * Q - y * Q
         /\ 34 * Z <= 80 * Q
         /\ y <= 30 => 461 * Z <= 835 * Q - y * Q
         /\ y > 30 => 362 * Z <= 535 * Q - y * Q
<1> USE DEF Sighted
<1>1. 0 <= (y - 15) * (100 - y)
  OBVIOUS
<1>2. y * y \in Int /\ y * y <= 115 * y - 1500
  BY <1>1
<1>3. ASSUME NEW k \in Nat, k >= 100
      PROVE  k * Q - y * Q >= k * 19206 + 148 * (k * y) - 19206 * y - 148 * (y * y)
  <2>1. (k - y) * (Q - 19206 - 148 * y) >= 0
    BY <1>3
  <2> QED
    BY <2>1
<1>4. y * Q \in Nat
  OBVIOUS
<1>5. 599 * Q - y * Q >= 198 * 56305
  BY <1>2, <1>3
<1>6. 495 * Q - y * Q >= 164 * 56305
  BY <1>2, <1>3
<1>7. y <= 30 => 1296 * Q - y * Q >= 461 * 56305
  BY <1>2, <1>3
<1>8. ASSUME y > 30 PROVE 897 * Q - y * Q >= 362 * 56305
  <2>1. 0 <= (y - 31) * (100 - y)
    BY <1>8
  <2>2. y * y <= 131 * y - 3100
    BY <2>1
  <2>3. 897 * Q - y * Q >= 897 * 19206 + 148 * (897 * y) - 19206 * y - 148 * (y * y)
    BY <1>3
  <2> QED
    BY <1>2, <1>8, <2>2, <2>3
<1> QED
  BY <1>4, <1>5, <1>6, <1>7, <1>8

\* No meeting is due before the target has moved for a third time.
LEMMA NotYet ==
  ASSUME NEW y, NEW N, NEW n, NEW Q, NEW Z, Sighted(y, N, Q, Z), 700 <= Z, n \in 0 .. 2
  PROVE  NotDue(y, N, n, Q, Z)
<1> USE DEF Sighted
<1> DEFINE K == n * Q - N * Z
<1>1. K \in Int /\ K <= 2 * Q - 148 * Z
  <2>1. n = 0 \/ n = 1 \/ n = 2
    OBVIOUS
  <2> QED
    BY <2>1
<1> HIDE DEF K
<1>2. K < 0
  BY <1>1
<1>3. (y + 130) * K <= 145 * K
  <2>1. (y - 15) * K <= 0
    BY <1>1, <1>2
  <2> QED
    BY <1>1, <2>1
<1>4. 145 * K < 164 * Z - 65 * Q /\ 145 * K < -(60 * Q)
  BY <1>1
<1>5. (y + 130) * K \in Int
  BY <1>1
<1>6. Due(N, Q, Z) \in Int /\ 145 * K < Due(N, Q, Z)
  BY <1>1, <1>4 DEF Due
<1>7. (y + 130) * K < Due(N, Q, Z)
  <2> DEFINE P == (y + 130) * K
  <2> HIDE DEF P
  <2> SUFFICES P < Due(N, Q, Z)
    BY DEF P
  <2> QED
    BY <1>1, <1>3, <1>5, <1>6 DEF P
<1> QED
  BY <1>7 DEF K, NotDue

\* Before it is due, n / N exceeds Z / Q by 2 * Z / (N * Q) at most.
LEMMA NotOverdue ==
  ASSUME NEW y, NEW N, NEW n \in Nat, NEW Q, NEW Z, Sighted(y, N, Q, Z), NotDue(y, N, n, Q, Z)
  PROVE  n * Q - N * Z \in Int /\ n * Q - N * Z <= 2 * Z
<1> USE DEF Sighted, NotDue
<1> DEFINE K == n * Q - N * Z
<1>1. K \in Int
  OBVIOUS
<1>2. Due(N, Q, Z) <= 164 * Z
  BY DEF Due
<1>3. (y + 130) * K < 164 * Z
  <2>1. Due(N, Q, Z) \in Int /\ (y + 130) * K \in Int
    BY <1>1 DEF Due
  <2> QED
    BY <1>2, <2>1
<1> HIDE DEF K
<1>4. K <= 2 * Z
  <2> SUFFICES ASSUME K > 2 * Z PROVE FALSE
    BY <1>1
  <2>1. (y - 15) * K >= 0
    BY <1>1
  <2>2. (y + 130) * K >= 145 * K
    BY <1>1, <2>1
  <2>3. (y + 130) * K \in Int
    BY <1>1
  <2> QED
    BY <1>1, <1>3, <2>2, <2>3
<1> QED
  BY <1>1, <1>4 DEF K

\* It is due long before the defender is at the upper wall.
LEMMA NotLater ==
  ASSUME NEW y, NEW N, NEW n \in Nat, NEW Q, NEW Z, Sighted(y, N, Q, Z), NotDue(y, N, n, Q, Z)
  PROVE  n <= 255
<1> DEFINE K == n * Q - N * Z
<1>1. K \in Int /\ K <= 2 * Z
  BY NotOverdue
<1> USE DEF Sighted
<1>2. n * Q \in Nat /\ n * Q = K + N * Z /\ N * Z <= 149 * Z /\ N * Z \in Nat
  OBVIOUS
<1> HIDE DEF K
<1>3. n * Q <= 151 * Z /\ 151 * Z <= 151 * (56305 - Q) /\ Q >= 21426
  BY <1>1, <1>2
<1>4. n > 255 => n * Q >= 256 * Q
  BY <1>2
<1> QED
  BY <1>2, <1>3, <1>4

\* And before the target has fallen as far as the defender's start.
LEMMA NotLower ==
  ASSUME NEW y, NEW N, NEW n \in Nat, NEW Q, NEW Z, Sighted(y, N, Q, Z), NotDue(y, N, n, Q, Z),
         N * y <= Q - 19206
  PROVE  n * y \in Nat /\ n * y <= Z
<1> DEFINE K == n * Q - N * Z
           P == n * y
           M == N * y
<1>1. K \in Int /\ K <= 2 * Z
  BY NotOverdue
<1>2. /\ y \in Nat /\ y <= 100 /\ N \in Nat /\ Q \in Nat /\ Q > 0 /\ Z \in Nat
      /\ P \in Nat /\ M \in Nat /\ M <= Q - 19206
  BY DEF Sighted
<1>3. P * Q = y * K + M * Z
  <2>1. n * Q = K + N * Z
    BY <1>2
  <2>2. P * Q = y * (n * Q) /\ M * Z = y * (N * Z)
    BY <1>2
  <2>3. y * (K + N * Z) = y * K + y * (N * Z)
    <3> DEFINE W == N * Z
    <3>1. W \in Int
      BY <1>2
    <3> HIDE DEF K, W
    <3> QED
      BY <1>1, <1>2, <3>1
  <2> HIDE DEF K, P, M
  <2> QED
    BY <2>1, <2>2, <2>3
<1> HIDE DEF K, P, M
<1>4. y * K <= 200 * Z
  <2>1. y * K <= y * (2 * Z)
    BY <1>1, <1>2
  <2>2. y * Z <= 100 * Z /\ y * (2 * Z) = 2 * (y * Z) /\ y * Z \in Nat
    BY <1>2
  <2>3. y * K \in Int
    BY <1>1, <1>2
  <2> QED
    BY <1>2, <2>1, <2>2, <2>3
<1>5. M * Z <= Q * Z - 19206 * Z
  <2>1. (Q - 19206 - M) * Z >= 0
    BY <1>2
  <2> QED
    BY <1>2, <2>1
<1>6. P * Q <= Q * Z
  <2>1. y * K \in Int /\ M * Z \in Int /\ Q * Z \in Int /\ P * Q \in Int
    BY <1>1, <1>2
  <2> QED
    BY <1>2, <1>3, <1>4, <1>5, <2>1
<1>7. ~ (P > Z)
  <2> SUFFICES ASSUME P > Z PROVE FALSE
    OBVIOUS
  <2>1. (P - Z - 1) * Q >= 0
    BY <1>2
  <2> QED
    BY <1>2, <1>6, <2>1
<1> QED
  BY <1>2, <1>7 DEF P

\* By how many hundredths of a pixel the target is below the defender.
RowOff(eb, n, y, m, Z) == eb + n * y + 195 * m - Z

\* ea and eb are what the rounding to the cells a and b dropped.
RowData(s, x, y, N, n, m, c, ea, eb, Q, Z) ==
  /\ Speed(x, s, y) /\ Sighted(y, N, Q, Z) /\ n \in Nat /\ JustDue(y, N, n, Q, Z)
  /\ InTime(N, n, m, c)
  /\ ea \in 0 .. 99 /\ eb \in 0 .. 99 /\ Q = N * y + ea - eb + 19305

\* When the meeting is due, the two are in the same rows: 5 pixels at most
\* below, 4 above.
LEMMA RowMeets ==
  ASSUME NEW s, NEW x, NEW y, NEW N, NEW n, NEW m, NEW c, NEW ea, NEW eb, NEW Q, NEW Z,
         RowData(s, x, y, N, n, m, c, ea, eb, Q, Z)
  PROVE  RowOff(eb, n, y, m, Z) \in -400 .. 500
<1> USE DEF RowData, Speed, Sighted, JustDue, InTime
<1> DEFINE d == eb + n * y + 195 * m - Z
           K == n * Q - N * Z
           j == 15 * m - 10 * n
           l == 1485 - 10 * N
<1>1. /\ d \in Int /\ K \in Int /\ j \in Int /\ l \in {5, -5} /\ N \in Nat
      /\ Q >= 19206 + 148 * y /\ c \in Int
  OBVIOUS
<1>2. d * Q = eb * (Q + Z) - ea * Z + (y + 130) * K + 13 * (j * Q) - 13 * (l * Z)
  <2>1. Z * Q = N * y * Z + ea * Z - eb * Z + 19305 * Z
    OBVIOUS
  <2>2. 195 * m = 13 * j + 130 * n
    OBVIOUS
  <2>3. d * Q = eb * Q + n * y * Q + (13 * j + 130 * n) * Q - Z * Q
    BY <2>2
  <2>4. (y + 130) * K = y * n * Q - y * N * Z + 130 * n * Q - 130 * N * Z
    OBVIOUS
  <2> QED
    BY <1>1, <2>1, <2>3, <2>4
<1>3. /\ 0 <= eb * (Q + Z) /\ eb * (Q + Z) <= 99 * Q + 99 * Z
      /\ 0 <= ea * Z /\ ea * Z <= 99 * Z
  OBVIOUS
<1>4. /\ N = 148 => -25 * Q <= j * Q /\ j * Q <= -5 * Q /\ l * Z = 5 * Z
      /\ N = 149 => -20 * Q <= j * Q /\ j * Q <= 0 /\ l * Z = -5 * Z
  <2>1. /\ N = 148 => -25 <= j /\ j <= -5 /\ l = 5
        /\ N = 149 => -20 <= j /\ j <= 0 /\ l = -5
    OBVIOUS
  <2> HIDE DEF j, l
  <2> QED
    BY <1>1, <2>1, SMTT(30)
<1>5. (y + 130) * Q = y * Q + 130 * Q
  OBVIOUS
<1>6. /\ y * Q \in Nat
      /\ 198 * Z <= 401 * Q - y * Q /\ 164 * Z <= 331 * Q - y * Q /\ 34 * Z <= 80 * Q
  BY <1>1, GapBounds
<1>7. -400 * Q <= d * Q /\ d * Q <= 500 * Q
  <2> DEFINE P == (y + 130) * K
             E == eb * (Q + Z)
             A == ea * Z
             J == j * Q
             L == l * Z
             V == y * Q
  <2>1. d * Q = E - A + P + 13 * J - 13 * L
    BY <1>2
  <2>2. Due(N, Q, Z) <= P /\ P < Due(N, Q, Z) + (y + 130) * Q
    OBVIOUS
  <2>3. P \in Int /\ E \in Int /\ A \in Int /\ J \in Int /\ L \in Int /\ Due(N, Q, Z) \in Int
    BY <1>1 DEF Due
  <2>4. (y + 130) * Q = V + 130 * Q /\ V \in Nat
    BY <1>5, <1>6
  <2>5. /\ 0 <= E /\ E <= 99 * Q + 99 * Z /\ 0 <= A /\ A <= 99 * Z
        /\ N = 148 => -25 * Q <= J /\ J <= -5 * Q /\ L = 5 * Z
        /\ N = 149 => -20 * Q <= J /\ J <= 0 /\ L = -5 * Z
        /\ 198 * Z <= 401 * Q - V /\ 164 * Z <= 331 * Q - V /\ 34 * Z <= 80 * Q
    BY <1>3, <1>4, <1>6
  <2> HIDE DEF P, E, A, J, L, V, d
  <2>6. P < Due(N, Q, Z) + V + 130 * Q
    BY <2>2, <2>3, <2>4
  <2>7. CASE N = 148
    <3>1. 164 * Z - 65 * Q <= P /\ P < 164 * Z + 65 * Q + V
      BY <2>2, <2>3, <2>4, <2>6, <2>7 DEF Due
    <3>2. -25 * Q <= J /\ J <= -5 * Q /\ L = 5 * Z
      BY <2>5, <2>7
    <3>3. -400 * Q <= E - A + P + 13 * J - 13 * L
      BY <2>3, <2>5, <3>1, <3>2
    <3>4. E - A + P + 13 * J - 13 * L <= 500 * Q
      BY <2>3, <2>4, <2>5, <3>1, <3>2
    <3> QED
      BY <2>1, <3>3, <3>4
  <2>8. CASE N = 149
    <3>1. -(60 * Q) <= P /\ P < V + 70 * Q
      BY <2>2, <2>3, <2>4, <2>6, <2>8 DEF Due
    <3>2. -20 * Q <= J /\ J <= 0 /\ L = -5 * Z
      BY <2>5, <2>8
    <3>3. -400 * Q <= E - A + P + 13 * J - 13 * L
      BY <2>3, <2>5, <3>1, <3>2
    <3>4. E - A + P + 13 * J - 13 * L <= 500 * Q
      BY <2>3, <2>4, <2>5, <3>1, <3>2
    <3> QED
      BY <2>1, <3>3, <3>4
  <2> QED
    BY <2>7, <2>8
<1>8. Q > 0
  BY <1>1
<1> HIDE DEF d
<1>9. d >= -400
  BY <1>1, <1>7, <1>8
<1>10. d <= 500
  BY <1>1, <1>7, <1>8
<1> QED
  BY <1>1, <1>9, <1>10 DEF d, RowOff

\* By how many hundredths of a pixel the target is to the right of the column
\* where it was expected, times Q.
ColumnOff(x, N, n, e, f, Q, Z) == (f + n * x) * Q - (N * x + e - f) * Z

ColumnData(s, x, y, N, n, e, f, Q, Z) ==
  /\ Speed(x, s, y) /\ Sighted(y, N, Q, Z) /\ n \in Nat /\ JustDue(y, N, n, Q, Z)
  /\ e \in 0 .. 99 /\ f \in 0 .. 99

\* And then the target is at most 4 pixels beside the column it is expected in.
LEMMA ColumnMeets ==
  ASSUME NEW s, NEW x, NEW y, NEW N, NEW n, NEW ea, NEW eb, NEW Q, NEW Z,
         ColumnData(s, x, y, N, n, ea, eb, Q, Z)
  PROVE  ColumnOff(x, N, n, ea, eb, Q, Z) \in -(300 * Q) .. 400 * Q
<1> USE DEF ColumnData, Speed, Sighted, JustDue
<1> DEFINE K == n * Q - N * Z
           P == (y + 130) * K
           E == eb * (Q + Z)
           A == ea * Z
           X == x * K
           V == y * Q
           d == (eb + n * x) * Q - (N * x + ea - eb) * Z
<1>1. d = E - A + X
  OBVIOUS
<1>2. /\ N \in Nat /\ K \in Int /\ P \in Int /\ E \in Int /\ A \in Int
      /\ X \in Int /\ d \in Int /\ s \in Nat
  OBVIOUS
<1>3. /\ 0 <= E /\ E <= 99 * Q + 99 * Z
      /\ 0 <= A /\ A <= 99 * Z
  OBVIOUS
<1>4. /\ V \in Nat
      /\ 198 * Z <= 401 * Q - V /\ 164 * Z <= 331 * Q - V
      /\ 34 * Z <= 80 * Q
      /\ y <= 30 => 461 * Z <= 835 * Q - V
      /\ y > 30 => 362 * Z <= 535 * Q - V
  BY GapBounds
<1>5. /\ N = 148 => 164 * Z - 65 * Q <= P /\ P < 164 * Z + 65 * Q + V
      /\ N = 149 => -(60 * Q) <= P /\ P < V + 70 * Q
  <2>1. (y + 130) * Q = V + 130 * Q
    OBVIOUS
  <2>2. Due(N, Q, Z) <= P /\ P < Due(N, Q, Z) + (y + 130) * Q
    OBVIOUS
  <2> HIDE DEF V, P
  <2> QED
    BY <1>2, <1>4, <2>1, <2>2 DEF Due
<1>6. ASSUME K >= 0
      PROVE  /\ -P <= 2 * X /\ 2 * X <= P
             /\ y <= 30 => -P <= 3 * X /\ 3 * X <= P
  <2>1. (y + 130 - 2 * s) * K >= 0 /\ (y <= 30 => (y + 130 - 3 * s) * K >= 0) /\ s * K >= 0
    BY <1>6, <1>2
  <2>2. s * K = X \/ s * K = -X
    BY <1>2
  <2> QED
    BY <1>2, <2>1, <2>2
<1>7. ASSUME K < 0
      PROVE  P <= 2 * X /\ 2 * X <= -P
  <2>1. (y + 130 - 2 * s) * K <= 0 /\ s * K <= 0
    BY <1>7, <1>2
  <2>2. s * K = X \/ s * K = -X
    BY <1>2
  <2> QED
    BY <1>2, <2>1, <2>2
<1> HIDE DEF K, P, E, A, X, V, d
<1>8. -300 * Q <= d /\ d <= 400 * Q
  <2>1. CASE K < 0
    BY <1>1, <1>2, <1>3, <1>4, <1>5, <1>7, <2>1
  <2>2. CASE K >= 0 /\ N = 149
    BY <1>1, <1>2, <1>3, <1>4, <1>5, <1>6, <2>2
  <2>3. CASE K >= 0 /\ N = 148 /\ y <= 30
    BY <1>1, <1>2, <1>3, <1>4, <1>5, <1>6, <2>3
  <2>4. CASE K >= 0 /\ N = 148 /\ y > 30
    BY <1>1, <1>2, <1>3, <1>4, <1>5, <1>6, <2>4
  <2> QED
    BY <2>1, <2>2, <2>3, <2>4, <1>2
<1> QED
  BY <1>2, <1>8 DEF d, ColumnOff

-----------------------------------------------------------------------------
\* The start

\* A column p on along the way of a target that has moved by dx and dy, and that
\* is G rows above the start.
OnWay(dx, dy, G, p) ==
  /\ dx \in Int /\ dy \in Nat /\ G \in Int /\ p \in Int /\ 100 * dy < 19305
  /\ (0 <= dx /\ 0 <= p) \/ (dx <= 0 /\ p <= 0)

\* By how much a defender is late there.
Lateness(dx, dy, G, p) == 10000 * Abs(dx * G - dy * p) - 1930500 * Abs(p)

\* A defender that is late waits before the meeting, one that is early beyond it.
LEMMA NearRoot ==
  ASSUME NEW dx, NEW dy, NEW G, NEW p, OnWay(dx, dy, G, p)
  PROVE  LET late == Lateness(dx, dy, G, p)
             Q == 100 * dy + 19305
         IN  /\ G >= 0 /\ late >= 0 => Abs(p) * Q <= 100 * Abs(dx) * G
             /\ G >= 0 /\ late <= 0 => Abs(p) * Q >= 100 * Abs(dx) * G
             /\ G <= 0 /\ late >= 0 => Abs(p) * (19305 - 100 * dy) <= 100 * Abs(dx) * (-G)
<1> USE DEF OnWay
<1> DEFINE r == Abs(dx)
           q == Abs(p)
           R == r * G
           T == dy * q
           U == Abs(dx * G - dy * p)
<1>1. r \in Nat /\ q \in Nat /\ ((dx = r /\ p = q) \/ (dx = -r /\ p = -q))
  BY DEF Abs
<1>2. R \in Int /\ T \in Nat /\ T = dy * q
  BY <1>1
<1>3. dx * G - dy * p = R - T \/ dx * G - dy * p = T - R
  <2> HIDE DEF r, q
  <2>1. CASE dx = r /\ p = q
    BY <2>1
  <2>2. CASE dx = -r /\ p = -q
    <3>1. dx * G = -(r * G) /\ dy * p = -(dy * q)
      BY <1>1, <2>2
    <3> QED
      BY <1>2, <3>1
  <2> QED
    BY <1>1, <2>1, <2>2
<1>4. U = Abs(R - T)
  <2> HIDE DEF R, T
  <2> QED
    BY <1>2, <1>3 DEF Abs
<1>5. /\ q * (100 * dy + 19305) = 100 * T + 19305 * q
      /\ q * (19305 - 100 * dy) = 19305 * q - 100 * T
      /\ 100 * r * G = 100 * R /\ 100 * r * (-G) = -(100 * R)
      /\ (G >= 0 => R >= 0) /\ (G <= 0 => R <= 0)
      /\ 100 * T <= 19305 * q /\ (100 * T = 19305 * q => q = 0 /\ T = 0)
  <2>1. q * (100 * dy + 19305) = 100 * T + 19305 * q
    <3> HIDE DEF q
    <3> QED
      BY <1>1
  <2>2. q * (19305 - 100 * dy) = 19305 * q - 100 * T
    <3> HIDE DEF q
    <3> QED
      BY <1>1
  <2>3. 100 * r * G = 100 * R /\ 100 * r * (-G) = -(100 * R)
    <3> HIDE DEF r
    <3> QED
      BY <1>1
  <2>4. (G >= 0 => R >= 0) /\ (G <= 0 => R <= 0)
    <3> HIDE DEF r
    <3> QED
      BY <1>1
  <2> HIDE DEF r, q
  <2>5. q * (19305 - 100 * dy) >= q
    <3>1. q * (19305 - 100 * dy - 1) >= 0
      BY <1>1
    <3> QED
      BY <3>1, <1>1
  <2>6. 100 * T <= 19305 * q /\ (100 * T = 19305 * q => q = 0)
    BY <2>2, <2>5, <1>1, <1>2
  <2>7. q = 0 => T = 0
    BY <1>1
  <2> QED
    BY <2>1, <2>2, <2>3, <2>4, <2>6, <2>7
<1> HIDE DEF r, q, R, T, U
<1>6. U \in Nat /\ (U = R - T \/ U = T - R)
  BY <1>2, <1>4 DEF Abs
<1>7. ASSUME G >= 0, 10000 * U - 1930500 * q >= 0 PROVE 100 * T + 19305 * q <= 100 * R
  BY <1>1, <1>2, <1>4, <1>5, <1>6, <1>7 DEF Abs
<1>8. ASSUME G >= 0, 10000 * U - 1930500 * q <= 0 PROVE 100 * T + 19305 * q >= 100 * R
  BY <1>1, <1>2, <1>4, <1>5, <1>6, <1>8 DEF Abs
<1>9. ASSUME G <= 0, 10000 * U - 1930500 * q >= 0 PROVE 19305 * q - 100 * T <= -(100 * R)
  BY <1>1, <1>2, <1>4, <1>5, <1>6, <1>9 DEF Abs
<1> QED
  BY <1>5, <1>7, <1>8, <1>9 DEF U, r, q, Lateness

LEMMA LateColumn ==
  ASSUME NEW a \in Int \X Int, NEW b \in Int \X Int, NEW c \in Int
  PROVE  Late(100 * c, a, b, 99)
           = Lateness(b[1] - a[1], b[2] - a[2], 378 - b[2], c - b[1])
<1> DEFINE dx == b[1] - a[1]
           dy == b[2] - a[2]
           G == 378 - b[2]
           p == c - b[1]
           far == 100 * c - 100 * b[1]
           R == dx * G
           T == dy * p
<1>1. Late(100 * c, a, b, 99) = 100 * Abs(100 * dx * G - dy * far) - Climbs * 99 * Abs(far)
  BY Bounds, Zenon DEF Late, Climbs
<1>2. far = 100 * p /\ p \in Int /\ dx \in Int /\ dy \in Int /\ G \in Int
  OBVIOUS
<1> HIDE DEF dx, dy, G, p, far
<1>3. R \in Int /\ T \in Int /\ 100 * dx * G = 100 * R /\ dy * far = 100 * T
  BY <1>2
<1> HIDE DEF R, T
<1>4. Abs(100 * R - 100 * T) = 100 * Abs(R - T)
  BY <1>3 DEF Abs
<1>5. Climbs * 99 * Abs(far) = 1930500 * Abs(p)
  BY <1>2, Climbs195 DEF Abs
<1>6. Late(100 * c, a, b, 99) = 10000 * Abs(R - T) - 1930500 * Abs(p)
  BY <1>1, <1>2, <1>3, <1>4, <1>5 DEF Abs
<1> QED
  BY <1>6 DEF R, T, dx, dy, G, p, Lateness

\* A defender starts between its target and the limit, on the target's way.
LEMMA StartOrder ==
  ASSUME NEW a \in Free \X Int, NEW b \in Free \X Int, Catchable(a, b, 99),
         b[2] - a[2] >= 1, NEW X, X = StartPosition(a, b, 99)
  PROVE  /\ X \in Free
         /\ b[1] = a[1] => X = b[1]
         /\ b[1] > a[1] => /\ ~ MovesLeft(a, b)
                           /\ (b[1] <= X /\ X <= 632) \/ (632 <= X /\ X <= b[1])
         /\ b[1] < a[1] => /\ MovesLeft(a, b)
                           /\ (b[1] <= X /\ X <= 8) \/ (8 <= X /\ X <= b[1])
<1> DEFINE dx == b[1] - a[1]
           dy == b[2] - a[2]
<1>1. a[1] \in Int /\ b[1] \in Int /\ a[2] \in Int /\ b[2] \in Int
  BY Bounds
<1>2. dx \in Int /\ dy \in Int /\ dy >= 1 /\ (MovesLeft(a, b) <=> dx * dy < 0)
  BY <1>1 DEF MovesLeft
<1> HIDE DEF dx, dy
<1>3. MovesLeft(a, b) <=> dx < 0
  BY <1>2
<1>4. MovesLeft(a, b) <=> b[1] < a[1]
  BY <1>1, <1>3 DEF dx
<1>5. X \in Free
  BY StartStays
<1>6. b[1] = a[1] => X = b[1]
  BY DEF StartPosition
<1>7. b[1] # a[1] => X = Bisect(a, b, 99)
  BY DEF StartPosition
<1> QED
  BY <1>1, <1>4, <1>5, <1>6, <1>7, BisectWindow, Bounds

\* It would be late one column before its start, and early one beyond.
LEMMA StartNear ==
  ASSUME NEW a \in Free \X Int, NEW b \in Free \X Int, Catchable(a, b, 99),
         b[2] - a[2] >= 1, NEW X, X = StartPosition(a, b, 99), NEW c \in Int
  PROVE  /\ b[1] > a[1] /\ b[1] <= c /\ c < X /\ c <= 632 => Late(100 * c, a, b, 99) >= 0
         /\ b[1] > a[1] /\ b[1] <= c /\ X < c /\ c <= 632 => Late(100 * c, a, b, 99) <= 0
         /\ b[1] < a[1] /\ 8 <= c /\ X < c /\ c <= b[1] => Late(100 * c, a, b, 99) >= 0
         /\ b[1] < a[1] /\ 8 <= c /\ c < X /\ c <= b[1] => Late(100 * c, a, b, 99) <= 0
<1>1. b[1] \in Int /\ a[1] \in Int /\ X \in Int /\ LeftLimit = 8 /\ RightLimit = 632
  BY StartOrder, Bounds
<1>2. b[1] # a[1] => X = Bisect(a, b, 99)
  BY DEF StartPosition
<1>3. ASSUME b[1] > a[1], b[1] <= c, c <= 632
      PROVE  /\ c < X => Late(100 * c, a, b, 99) >= 0
             /\ X < c => Late(100 * c, a, b, 99) <= 0
  <2>1. ~ MovesLeft(a, b)
    BY <1>3, StartOrder
  <2>2. c \in b[1] .. RightLimit
    BY <1>1, <1>3
  <2>3. c \in IF MovesLeft(a, b) THEN LeftLimit .. b[1] ELSE b[1] .. RightLimit
    BY <2>1, <2>2
  <2> QED
    BY <1>1, <1>2, <1>3, <2>1, <2>3, BisectFinds
<1>4. ASSUME b[1] < a[1], c <= b[1], 8 <= c
      PROVE  /\ X < c => Late(100 * c, a, b, 99) >= 0
             /\ c < X => Late(100 * c, a, b, 99) <= 0
  <2>1. MovesLeft(a, b)
    BY <1>4, StartOrder
  <2>2. c \in LeftLimit .. b[1]
    BY <1>1, <1>4
  <2>3. c \in IF MovesLeft(a, b) THEN LeftLimit .. b[1] ELSE b[1] .. RightLimit
    BY <2>1, <2>2
  <2> QED
    BY <1>1, <1>2, <1>4, <2>1, <2>3, BisectFinds
<1> QED
  BY <1>3, <1>4

\* So the meeting is at most a column from the start, unless there is none
\* before the wall.
LEMMA StartNearRoot ==
  ASSUME NEW a \in Free \X Int, NEW b \in Free \X Int, Catchable(a, b, 99),
         b[2] - a[2] >= 1, 100 * (b[2] - a[2]) < 19305, b[2] <= 378,
         NEW X, X = StartPosition(a, b, 99)
  PROVE  LET Q == 100 * (b[2] - a[2]) + 19305
             R == 100 * (b[1] - a[1]) * (378 - b[2])
         IN  /\ X - 1 - b[1] \in Int /\ ((X - 1 - b[1]) * Q <= R \/ X <= 8)
             /\ X + 1 - b[1] \in Int /\ ((X + 1 - b[1]) * Q >= R \/ X >= 632)
<1> DEFINE dx == b[1] - a[1]
           dy == b[2] - a[2]
           G == 378 - b[2]
           Q == 100 * dy + 19305
           R == 100 * dx * G
           p == X - 1 - b[1]
           q == X + 1 - b[1]
<1>1. /\ X \in Int /\ b[1] \in Int /\ a[1] \in Int /\ a[2] \in Int /\ b[2] \in Int
      /\ a \in Int \X Int /\ b \in Int \X Int
      /\ 7 <= b[1] /\ b[1] <= 634
      /\ b[1] = a[1] => X = b[1]
      /\ b[1] > a[1] => (b[1] <= X /\ X <= 632) \/ (632 <= X /\ X <= b[1])
      /\ b[1] < a[1] => (b[1] <= X /\ X <= 8) \/ (8 <= X /\ X <= b[1])
  BY StartOrder, Bounds
<1>2. dx \in Int /\ dy \in Nat /\ G \in Nat /\ 100 * dy < 19305 /\ p \in Int /\ q \in Int
  <2>1. dx \in Int /\ p \in Int /\ q \in Int
    BY <1>1
  <2>2. dy \in Nat /\ 100 * dy < 19305
    BY <1>1
  <2>3. G \in Nat
    BY <1>1
  <2> HIDE DEF dx, dy, G, p, q
  <2> QED
    BY <2>1, <2>2, <2>3
<1>3. /\ Late(100 * (X - 1), a, b, 99) = Lateness(dx, dy, G, p)
      /\ Late(100 * (X + 1), a, b, 99) = Lateness(dx, dy, G, q)
  <2>1. X - 1 \in Int /\ X + 1 \in Int
    BY <1>1
  <2> QED
    BY <1>1, <2>1, LateColumn
<1>4. /\ b[1] > a[1] => dx > 0
      /\ b[1] < a[1] => dx < 0
      /\ b[1] = a[1] => dx = 0
  BY <1>1
<1>5. Q \in Nat /\ R \in Int /\ (dx >= 0 => R >= 0) /\ (dx <= 0 => R <= 0)
  <2> HIDE DEF dx, G, dy
  <2> QED
    BY <1>2
<1>6. ASSUME NEW r \in Int, (0 <= dx /\ 0 <= r) \/ (dx <= 0 /\ r <= 0)
      PROVE  LET late == Lateness(dx, dy, G, r)
             IN  /\ late >= 0 => IF dx >= 0 /\ 0 <= r THEN r * Q <= R ELSE r * Q >= R
                 /\ late <= 0 => IF dx >= 0 /\ 0 <= r THEN r * Q >= R ELSE r * Q <= R
  <2> DEFINE late == Lateness(dx, dy, G, r)
             l == Abs(r) * Q
             m == 100 * Abs(dx) * G
  <2> HIDE DEF dx, G, dy
  <2>1. (late >= 0 => l <= m) /\ (late <= 0 => l >= m)
    <3>1. OnWay(dx, dy, G, r)
      BY <1>2, <1>6 DEF OnWay
    <3> QED
      BY <1>2, <3>1, NearRoot
  <2>2. CASE dx >= 0 /\ 0 <= r
    <3>1. Abs(r) = r /\ Abs(dx) = dx
      BY <1>2, <2>2 DEF Abs
    <3>2. l = r * Q /\ m = R
      BY <3>1
    <3> HIDE DEF l, m, late
    <3>3. (late >= 0 => r * Q <= R) /\ (late <= 0 => r * Q >= R)
      BY <2>1, <3>2
    <3> QED
      BY <2>2, <3>3 DEF late
  <2>3. CASE ~ (dx >= 0 /\ 0 <= r)
    <3>1. Abs(r) = -r /\ Abs(dx) = -dx
      BY <1>2, <1>6, <2>3 DEF Abs
    <3> HIDE DEF Q
    <3>2. l = -(r * Q) /\ m = -R /\ r * Q \in Int /\ R \in Int
      BY <1>2, <1>5, <3>1
    <3> HIDE DEF l, m, late, R
    <3>3. (late >= 0 => r * Q >= R) /\ (late <= 0 => r * Q <= R)
      BY <2>1, <3>2
    <3> QED
      BY <2>3, <3>3 DEF late
  <2> QED
    BY <2>2, <2>3
<1> HIDE DEF R, Q, G, dy, p, q, dx
<1>7. p = X - 1 - b[1] /\ q = X + 1 - b[1]
  BY DEF p, q
<1>8. p < 0 => p * Q <= 0
  BY <1>2, <1>5
<1>9. q > 0 => q * Q >= 0
  BY <1>2, <1>5
<1>10. p * Q <= R \/ X <= 8
  <2>1. CASE p < 0 /\ dx >= 0
    BY <1>5, <1>8, <2>1, <1>2
  <2>2. CASE b[1] > a[1] /\ 0 <= p
    <3>1. X - 1 <= 632 /\ b[1] <= X - 1
      BY <1>1, <1>7, <2>2
    <3>2. Late(100 * (X - 1), a, b, 99) >= 0
      BY <1>1, <2>2, <3>1, StartNear
    <3>3. dx >= 0 /\ 0 <= p
      BY <1>2, <1>4, <2>2
    <3> QED
      BY <1>2, <1>3, <1>6, <3>2, <3>3
  <2>3. CASE b[1] < a[1] /\ X > 8
    <3>1. 8 <= X - 1 /\ X - 1 <= b[1]
      BY <1>1, <2>3
    <3>2. Late(100 * (X - 1), a, b, 99) <= 0
      BY <1>1, <2>3, <3>1, StartNear
    <3>3. ~ (dx >= 0) /\ dx <= 0 /\ p <= 0
      BY <1>1, <1>2, <1>4, <1>7, <2>3, <3>1
    <3> QED
      BY <1>2, <1>3, <1>6, <3>2, <3>3
  <2>4. b[1] = a[1] => p < 0
    BY <1>1, <1>7
  <2> QED
    BY <1>1, <1>2, <1>4, <2>1, <2>2, <2>3, <2>4
<1>11. q * Q >= R \/ X >= 632
  <2>1. CASE q > 0 /\ dx <= 0
    BY <1>5, <1>9, <2>1, <1>2
  <2>2. CASE b[1] < a[1] /\ q <= 0
    <3>1. 8 <= X + 1 /\ X + 1 <= b[1]
      BY <1>1, <1>7, <2>2
    <3>2. Late(100 * (X + 1), a, b, 99) >= 0
      BY <1>1, <2>2, <3>1, StartNear
    <3>3. ~ (dx >= 0) /\ dx <= 0 /\ q <= 0
      BY <1>2, <1>4, <2>2
    <3> QED
      BY <1>2, <1>3, <1>6, <3>2, <3>3
  <2>3. CASE b[1] > a[1] /\ X < 632
    <3>1. X + 1 <= 632 /\ b[1] <= X + 1
      BY <1>1, <2>3
    <3>2. Late(100 * (X + 1), a, b, 99) <= 0
      BY <1>1, <2>3, <3>1, StartNear
    <3>3. dx >= 0 /\ 0 <= q
      BY <1>1, <1>2, <1>4, <1>7, <2>3, <3>1
    <3> QED
      BY <1>2, <1>3, <1>6, <3>2, <3>3
  <2>4. b[1] = a[1] => q > 0
    BY <1>1, <1>7
  <2> QED
    BY <1>1, <1>2, <1>4, <2>1, <2>2, <2>3, <2>4
<1> QED
  BY <1>2, <1>10, <1>11 DEF p, q, Q, R, G, dx, dy

Between(X, B, Q, R) ==
  /\ (X - 1 - B) * Q <= R \/ X <= 8
  /\ (X + 1 - B) * Q >= R \/ X >= 632

LEMMA StartBetween ==
  ASSUME NEW a \in Free \X Int, NEW b \in Free \X Int, Catchable(a, b, 99),
         b[2] - a[2] >= 1, 100 * (b[2] - a[2]) < 19305, b[2] <= 378,
         NEW Q, Q = 100 * (b[2] - a[2]) + 19305,
         NEW R, R = 100 * (b[1] - a[1]) * (378 - b[2])
  PROVE  Between(StartPosition(a, b, 99), b[1], Q, R)
BY StartNearRoot DEF Between

\* When the target is already near the ground, no meeting is more than three
\* columns away.
LEMMA NearClose ==
  ASSUME NEW dx, NEW dy, NEW G, NEW p, OnWay(dx, dy, G, p),
         -2 <= G, G <= 6, 150 * Abs(dx) < 100 * dy + 19305, 50 * Abs(dx) < 19305 - 100 * dy,
         Lateness(dx, dy, G, p) >= 0
  PROVE  Abs(p) <= 3
<1> DEFINE l == Abs(p)
           s == Abs(dx)
           V == 100 * dy + 19305
           W == 19305 - 100 * dy
<1>1. /\ G >= 0 => l * V <= 100 * s * G
      /\ G <= 0 => l * W <= 100 * s * (-G)
  BY NearRoot
<1>2. l \in Nat /\ s \in Nat /\ V \in Nat /\ W \in Nat /\ 150 * s < V /\ 50 * s < W
  BY DEF Abs, OnWay
<1>3. G \in Int
  BY DEF OnWay
<1> HIDE DEF l, s, V, W
<1>4. G >= 0 => l * V <= 600 * s
  <2>1. G >= 0 => s * (6 - G) >= 0
    BY <1>2, <1>3
  <2> QED
    BY <1>1, <1>2, <1>3, <2>1
<1>5. G <= 0 => l * W <= 200 * s
  <2>1. G <= 0 => s * (2 + G) >= 0
    BY <1>2, <1>3
  <2> QED
    BY <1>1, <1>2, <1>3, <2>1
<1>6. l >= 4 => l * V >= 4 * V /\ l * W >= 4 * W
  BY <1>2
<1>7. l * V \in Int /\ l * W \in Int
  BY <1>2
<1>8. ~ (l >= 4)
  BY <1>2, <1>3, <1>4, <1>5, <1>6, <1>7
<1> QED
  BY <1>2, <1>8 DEF l

\* A target that is near the ground is met at most 4 pixels beside its last sample.
LEMMA StartClose ==
  ASSUME NEW a \in Free \X Int, NEW b \in Free \X Int, Catchable(a, b, 99),
         b[2] - a[2] >= 1, 100 * (b[2] - a[2]) < 19305, 372 <= b[2], b[2] <= 380,
         150 * Abs(b[1] - a[1]) < 100 * (b[2] - a[2]) + 19305,
         50 * Abs(b[1] - a[1]) < 19305 - 100 * (b[2] - a[2]),
         NEW X, X = StartPosition(a, b, 99)
  PROVE  /\ b[1] >= a[1] => b[1] - 2 <= X /\ X <= b[1] + 4
         /\ b[1] <= a[1] => b[1] - 4 <= X /\ X <= b[1] + 1
<1> DEFINE dx == b[1] - a[1]
           dy == b[2] - a[2]
           G == 378 - b[2]
           R == Abs(dx) * G
<1>1. /\ X \in Int /\ b[1] \in Int /\ a[1] \in Int /\ a[2] \in Int /\ b[2] \in Int
      /\ a \in Int \X Int /\ b \in Int \X Int
      /\ 7 <= b[1] /\ b[1] <= 634
      /\ b[1] = a[1] => X = b[1]
      /\ b[1] > a[1] => (b[1] <= X /\ X <= 632) \/ (632 <= X /\ X <= b[1])
      /\ b[1] < a[1] => (b[1] <= X /\ X <= 8) \/ (8 <= X /\ X <= b[1])
  BY StartOrder, Bounds
<1>2. /\ dx \in Int /\ dy \in Nat /\ G \in Int /\ 100 * dy < 19305 /\ -2 <= G /\ G <= 6
      /\ 150 * Abs(dx) < 100 * dy + 19305 /\ 50 * Abs(dx) < 19305 - 100 * dy
      /\ Abs(dx) \in Nat
  BY <1>1 DEF Abs
<1>3. /\ b[1] > a[1] => dx > 0
      /\ b[1] < a[1] => dx < 0
  BY <1>1
<1>4. ASSUME NEW p \in Int, (0 <= dx /\ 0 <= p) \/ (dx <= 0 /\ p <= 0),
             Lateness(dx, dy, G, p) >= 0
      PROVE  Abs(p) <= 3
  <2> HIDE DEF dx, dy, G
  <2>1. OnWay(dx, dy, G, p)
    BY <1>2, <1>4 DEF OnWay
  <2> QED
    BY <1>2, <1>4, <2>1, NearClose
<1>5. ASSUME NEW c \in Int, (0 <= dx /\ b[1] <= c) \/ (dx <= 0 /\ c <= b[1]),
             Late(100 * c, a, b, 99) >= 0
      PROVE  b[1] - 3 <= c /\ c <= b[1] + 3
  <2> DEFINE p == c - b[1]
  <2>1. Lateness(dx, dy, G, p) >= 0
    BY <1>1, <1>5, LateColumn
  <2>2. p \in Int /\ ((0 <= dx /\ 0 <= p) \/ (dx <= 0 /\ p <= 0))
    BY <1>1, <1>5
  <2>3. Abs(p) <= 3
    <3> HIDE DEF dx, dy, G, p
    <3> QED
      BY <1>4, <2>1, <2>2
  <2> QED
    BY <1>1, <2>3 DEF Abs
<1> HIDE DEF dx, dy, G, R
<1>6. ASSUME b[1] > a[1] PROVE b[1] - 2 <= X /\ X <= b[1] + 4
  <2>1. CASE X <= b[1]
    BY <1>1, <1>6, <2>1
  <2>2. CASE X > b[1]
    <3>1. b[1] <= X - 1 /\ X - 1 <= 632 /\ X - 1 < X /\ X - 1 \in Int
      BY <1>1, <1>6, <2>2
    <3>2. Late(100 * (X - 1), a, b, 99) >= 0
      BY <1>6, <3>1, StartNear
    <3>3. 0 <= dx
      BY <1>2, <1>3, <1>6
    <3>4. X - 1 <= b[1] + 3
      BY <1>5, <3>1, <3>2, <3>3
    <3> QED
      BY <1>1, <2>2, <3>4
  <2> QED
    BY <1>1, <2>1, <2>2
<1>7. ASSUME b[1] < a[1] PROVE b[1] - 4 <= X /\ X <= b[1] + 1
  <2>1. CASE X >= b[1]
    BY <1>1, <1>7, <2>1
  <2>2. CASE X < b[1]
    <3>1. 8 <= X + 1 /\ X + 1 <= b[1] /\ X < X + 1 /\ X + 1 \in Int
      BY <1>1, <1>7, <2>2
    <3>2. Late(100 * (X + 1), a, b, 99) >= 0
      BY <1>7, <3>1, StartNear
    <3>3. dx <= 0
      BY <1>2, <1>3, <1>7
    <3>4. b[1] - 3 <= X + 1
      BY <1>5, <3>1, <3>2, <3>3
    <3> QED
      BY <1>1, <2>2, <3>4
  <2> QED
    BY <1>1, <2>1, <2>2
<1> QED
  BY <1>1, <1>6, <1>7

-----------------------------------------------------------------------------
\* The meeting

\* What the conversion of a position between the walls to a cell drops.
LEMMA CellRemainder ==
  ASSUME NEW p \in Int \X Int, Cell(p)[1] \in Free, p[2] >= 0
  PROVE  p[1] - 100 * Cell(p)[1] \in 0 .. 99 /\ p[2] - 100 * Cell(p)[2] \in 0 .. 99
<1>1. p[1] >= 700 /\ p[1] \in Int /\ p[2] \in Int
  BY CellColumns
<1>2. Cell(p) = <<p[1] \div 100, p[2] \div 100>>
  BY <1>1 DEF Cell
<1>3. /\ p[1] - 100 * (p[1] \div 100) \in 0 .. 99
      /\ p[2] - 100 * (p[2] \div 100) \in 0 .. 99
  BY <1>1
<1> QED
  BY <1>2, <1>3

\* A target with the speed v that was in p when the samples began and in q when
\* they ended, between the walls.
Seen(v, N, p, q) ==
  /\ v \in Velocity /\ N \in {148, 149} /\ p \in Int \X Int /\ q \in Int \X Int
  /\ q[1] = p[1] + N * v[1] /\ q[2] = p[2] + N * v[2] /\ p[2] >= 800
  /\ Cell(p)[1] \in Free /\ Cell(q)[1] \in Free

\* It has flown on from q for n of its periods and is in r.
Flown(v, q, n, r) ==
  /\ n \in Nat /\ r \in Int \X Int
  /\ r[1] = q[1] + n * v[1] /\ r[2] = q[2] + n * v[2] /\ Cell(r)[1] \in Free

\* What is known of a target that was sampled in p and N periods later in q.
LEMMA FlightSampled ==
  ASSUME NEW v, NEW N, NEW p, NEW q, Seen(v, N, p, q)
  PROVE  LET a == Cell(p)
             b == Cell(q)
             dx == b[1] - a[1]
             dy == b[2] - a[2]
             Q == 100 * dy + 19305
             Z == 100 * (378 - b[2])
             e == p[1] - 100 * a[1]
             f == q[1] - 100 * b[1]
             ea == p[2] - 100 * a[2]
             eb == q[2] - 100 * b[2]
         IN  /\ a \in Free \X Int /\ b \in Free \X Int
             /\ dy >= 1 /\ 100 * dy < 19305 /\ Catchable(a, b, 99)
             /\ Z \in Nat => Sighted(v[2], N, Q, Z)
             /\ 150 * Abs(dx) < Q /\ 50 * Abs(dx) < 19305 - 100 * dy
             /\ e \in 0 .. 99 /\ f \in 0 .. 99 /\ ea \in 0 .. 99 /\ eb \in 0 .. 99
             /\ 100 * dx = N * v[1] + e - f /\ 100 * dy = N * v[2] + ea - eb
<1> DEFINE a == Cell(p)
           b == Cell(q)
           dx == b[1] - a[1]
           dy == b[2] - a[2]
           e == p[1] - 100 * a[1]
           f == q[1] - 100 * b[1]
           ea == p[2] - 100 * a[2]
           eb == q[2] - 100 * b[2]
           x == v[1]
           y == v[2]
<1>1. PICK s : /\ s \in Nat /\ (s = x \/ s = -x)
               /\ x \in Int /\ y \in Nat
               /\ 15 <= y /\ y <= 100 /\ s <= 86
               /\ s + 2 * y <= 223
  BY SpeedFacts DEF Speed, Seen
<1>2. /\ a \in Int \X Int /\ b \in Int \X Int
      /\ a[1] \in Int /\ b[1] \in Int /\ a[2] \in Int /\ b[2] \in Int
  BY CellFacts DEF Seen
<1>3. /\ p[1] \in Int /\ p[2] \in Int /\ q[1] \in Int /\ q[2] \in Int /\ N \in {148, 149}
      /\ p[2] >= 800
  BY DEF Seen
<1>4. N * x \in Int /\ N * y \in Nat /\ 148 * y <= N * y /\ N * y <= 149 * y
  <2> HIDE DEF x, y
  <2> QED
    BY <1>1, <1>3
<1>5. N * x <= 149 * s /\ -(149 * s) <= N * x
  <2> HIDE DEF x, y
  <2> QED
    BY <1>1, <1>3
<1>6. q[2] >= 0 /\ p[2] >= 0
  BY <1>3, <1>4 DEF Seen
<1>7. e \in 0 .. 99 /\ ea \in 0 .. 99
  BY <1>6, CellRemainder DEF Seen
<1>8. f \in 0 .. 99 /\ eb \in 0 .. 99
  BY <1>6, CellRemainder DEF Seen
<1> HIDE DEF a, b
<1>9. dx \in Int /\ dy \in Int
  BY <1>2
<1>10. 100 * dx = N * x + e - f /\ 100 * dy = N * y + ea - eb
  <2> DEFINE u == N * x
             w == N * y
  <2>1. u \in Int /\ w \in Int /\ q[1] = p[1] + u /\ q[2] = p[2] + w
    BY <1>4 DEF Seen
  <2> HIDE DEF u, w
  <2>2. 100 * dx = u + e - f /\ 100 * dy = w + ea - eb
    BY <1>2, <1>3, <2>1
  <2> QED
    BY <2>2 DEF u, w
<1>11. a[2] >= 8
  BY <1>2, <1>3, <1>7
<1> DEFINE Q == 100 * dy + 19305
           Z == 100 * (378 - b[2])
<1>12. Q + Z <= 56305 /\ Z \in Int
  BY <1>2, <1>11
<1> HIDE DEF Z
<1>13. 100 * dy >= 148 * y - 99 /\ 100 * dy <= 149 * y + 99
       /\ 100 * dx <= 149 * s + 99 /\ -(149 * s + 99) <= 100 * dx
  <2> DEFINE u == N * x
             w == N * y
  <2> HIDE DEF u, w, dx, dy, e, f, ea, eb
  <2>1. /\ u \in Int /\ w \in Nat /\ 148 * y <= w /\ w <= 149 * y
        /\ u <= 149 * s /\ -(149 * s) <= u
        /\ 100 * dx = u + e - f /\ 100 * dy = w + ea - eb
    BY <1>4, <1>5, <1>10 DEF u, w
  <2> QED
    BY <1>1, <1>7, <1>8, <1>9, <2>1
<1> HIDE DEF dx, dy, x, y, e, f, ea, eb
<1>14. /\ dy >= 1 /\ 100 * dy < 19305
       /\ Q \in Nat /\ 19206 + 148 * y <= Q /\ Q <= 34304
  BY <1>1, <1>9, <1>13
<1>15. /\ Abs(dx) \in Nat /\ 100 * Abs(dx) <= 149 * s + 99
  BY <1>1, <1>9, <1>13 DEF Abs
<1>16. 150 * Abs(dx) < Q /\ 50 * Abs(dx) < 19305 - 100 * dy
  BY <1>1, <1>9, <1>13, <1>15
<1>17. a \in Free \X Int /\ b \in Free \X Int
  BY <1>2 DEF a, b, Seen
<1>18. Catchable(a, b, 99)
  BY <1>2, <1>9, <1>14, Climbs195 DEF Catchable, dy
<1> HIDE DEF Q
<1>19. /\ a \in Free \X Int /\ b \in Free \X Int
       /\ dy >= 1 /\ 100 * dy < 19305 /\ Catchable(a, b, 99)
       /\ Z \in Nat => Sighted(y, N, Q, Z)
       /\ 150 * Abs(dx) < Q /\ 50 * Abs(dx) < 19305 - 100 * dy
       /\ e \in 0 .. 99 /\ f \in 0 .. 99 /\ ea \in 0 .. 99 /\ eb \in 0 .. 99
       /\ 100 * dx = N * x + e - f /\ 100 * dy = N * y + ea - eb
  BY <1>7, <1>8, <1>10, <1>12, <1>14, <1>16, <1>17, <1>18, <1>1, <1>3 DEF Sighted
<1> QED
  BY <1>19 DEF a, b, x, y, dx, dy, Z, Q, e, f, ea, eb

\* InBox, as four inequalities.
LEMMA InBoxBounds ==
  ASSUME NEW d, NEW c, d[1] \in Int, d[2] \in Int, c[1] \in Int, c[2] \in Int
  PROVE  InBox(d, c) <=> /\ c[1] - 5 <= d[1] /\ d[1] <= c[1] + 4
                         /\ c[2] - 5 <= d[2] /\ d[2] <= c[2] + 4
<1>1. MISSILE_RADIUS = 5
  BY DEF MISSILE_RADIUS
<1>2. InBox(d, c) <=> /\ d[1] \in c[1] - 5 .. c[1] + 5 - 1
                      /\ d[2] \in c[2] - 5 .. c[2] + 5 - 1
  <2>1. \A k : k \in 1 .. 2 <=> k = 1 \/ k = 2
    OBVIOUS
  <2> QED
    BY <1>1, <2>1, Zenon DEF InBox
<1> QED
  BY <1>2

\* What the defender makes of p and q.
Sight(p, q, Q, Z) ==
  /\ Q = 100 * (Cell(q)[2] - Cell(p)[2]) + 19305
  /\ Z = 100 * (378 - Cell(q)[2])

\* After m periods a defender is in D, in hundredths of a pixel.
Climbed(D, m) == D = 37800 - 195 * m

\* When the meeting is due, the target is in the defender's box.
LEMMA Meets ==
  ASSUME NEW v, NEW N, NEW p, NEW q, Seen(v, N, p, q), Cell(q)[2] <= 378,
         NEW n, NEW r, Flown(v, q, n, r),
         NEW m, NEW c, InTime(N, n, m, c), NEW Q, NEW Z, Sight(p, q, Q, Z),
         JustDue(v[2], N, n, Q, Z), NEW D, Climbed(D, m)
  PROVE  InBox(<<StartPosition(Cell(p), Cell(q), 99), D \div 100>>, Cell(r))
<1> DEFINE a == Cell(p)
           b == Cell(q)
           dx == b[1] - a[1]
           dy == b[2] - a[2]
           e == p[1] - 100 * a[1]
           f == q[1] - 100 * b[1]
           ea == p[2] - 100 * a[2]
           eb == q[2] - 100 * b[2]
           x == v[1]
           y == v[2]
           X == StartPosition(a, b, 99)
           C == Cell(r)
<1>1. PICK s : Speed(x, s, y)
  BY SpeedFacts DEF Seen
<1>2. /\ a \in Free \X Int /\ b \in Free \X Int
      /\ dy >= 1 /\ 100 * dy < 19305 /\ Catchable(a, b, 99)
      /\ e \in 0 .. 99 /\ f \in 0 .. 99 /\ ea \in 0 .. 99 /\ eb \in 0 .. 99
      /\ 100 * dx = N * x + e - f /\ 100 * dy = N * y + ea - eb
      /\ 100 * (378 - b[2]) \in Nat => Sighted(y, N, 100 * dy + 19305, 100 * (378 - b[2]))
  BY FlightSampled
<1>3. /\ a[1] \in Int /\ b[1] \in Int /\ a[2] \in Int /\ b[2] \in Int
      /\ q[1] \in Int /\ q[2] \in Int /\ r[1] \in Int /\ r[2] \in Int
      /\ N \in {148, 149} /\ n \in Nat /\ m \in Nat /\ D \in Int
      /\ x \in Int /\ y \in Nat
  <2>1. a[1] \in Int /\ b[1] \in Int /\ a[2] \in Int /\ b[2] \in Int
    BY <1>2, Bounds
  <2>2. /\ q[1] \in Int /\ q[2] \in Int /\ r[1] \in Int /\ r[2] \in Int
        /\ N \in {148, 149} /\ n \in Nat
    BY DEF Seen, Flown
  <2>3. m \in Nat /\ D \in Int
    BY DEF InTime, Climbed
  <2>4. x \in Int /\ y \in Nat
    BY <1>1 DEF Speed
  <2> QED
    BY <2>1, <2>2, <2>3, <2>4
<1>4. Q = 100 * dy + 19305 /\ Z = 100 * (378 - b[2]) /\ b[2] <= 378
  BY DEF Sight
<1>5. /\ N * x \in Int /\ N * y \in Nat /\ n * x \in Int /\ n * y \in Nat
  <2> HIDE DEF x, y
  <2> QED
    BY <1>3
<1>6. r[1] = q[1] + n * x /\ r[2] = q[2] + n * y /\ q[2] >= 800 /\ r[2] >= 0
  <2>1. r[1] = q[1] + n * x /\ r[2] = q[2] + n * y
    BY DEF Flown
  <2>2. p[2] \in Int /\ q[2] = p[2] + N * y /\ p[2] >= 800
    BY DEF Seen
  <2> HIDE DEF x, y
  <2> QED
    BY <1>3, <1>5, <2>1, <2>2
<1>7. /\ C[1] \in Int /\ C[2] \in Int /\ 7 <= C[1] /\ C[1] <= 634
      /\ r[1] - 100 * C[1] \in 0 .. 99 /\ r[2] - 100 * C[2] \in 0 .. 99
  BY <1>6, CellFacts, CellRemainder, Bounds DEF Flown
<1>8. Z \in Nat /\ Sighted(y, N, Q, Z) /\ JustDue(y, N, n, Q, Z)
  <2>1. 100 * (378 - b[2]) \in Nat
    <3> HIDE DEF b
    <3> QED
      BY <1>3, <1>4
  <2> QED
    BY <1>2, <1>4, <2>1
<1>9. Q = N * y + ea - eb + 19305 /\ Q \in Nat /\ Q > 0
  <2>1. Q \in Nat /\ Q > 0
    BY <1>8 DEF Sighted
  <2> HIDE DEF dy, ea, eb, x, y
  <2>2. 100 * dy + 19305 = N * y + ea - eb + 19305
    BY <1>2
  <2> QED
    BY <1>4, <2>1, <2>2
<1>10. X \in Int /\ Between(X, b[1], Q, 100 * dx * (378 - b[2]))
  <2>1. X \in Int
    BY <1>2, StartOrder, Bounds
  <2> HIDE DEF a, b
  <2> QED
    BY <1>2, <1>4, <2>1, StartBetween
<1>11. r[1] = 100 * b[1] + f + n * x /\ r[2] = 100 * b[2] + eb + n * y
  <2> DEFINE u == n * x
             w == n * y
  <2>1. u \in Int /\ w \in Int /\ r[1] = q[1] + u /\ r[2] = q[2] + w
    BY <1>5, <1>6
  <2> HIDE DEF u, w, b
  <2>2. r[1] = 100 * b[1] + f + u /\ r[2] = 100 * b[2] + eb + w
    BY <1>3, <2>1
  <2> QED
    BY <2>2 DEF u, w
<1>12. Z = 37800 - 100 * b[2]
  <2> HIDE DEF b
  <2> QED
    BY <1>3, <1>4
<1> HIDE DEF a, b, dx, dy, e, f, ea, eb, x, y, X, C
<1>13. dx \in Int
  BY <1>3 DEF dx
<1>14. -400 <= eb + n * y + 195 * m - Z /\ eb + n * y + 195 * m - Z <= 500
  <2>1. RowData(s, x, y, N, n, m, c, ea, eb, Q, Z)
    BY <1>1, <1>2, <1>3, <1>8, <1>9 DEF RowData
  <2>2. RowOff(eb, n, y, m, Z) \in -400 .. 500
    BY <2>1, RowMeets
  <2> QED
    BY <1>2, <1>3, <1>5, <1>8, <2>2 DEF RowOff
<1>15. LET d == (f + n * x) * Q - (N * x + e - f) * Z
       IN  -300 * Q <= d /\ d <= 400 * Q
  <2>1. ColumnData(s, x, y, N, n, e, f, Q, Z)
    BY <1>1, <1>2, <1>3, <1>8 DEF ColumnData
  <2>2. ColumnOff(x, N, n, e, f, Q, Z) \in -(300 * Q) .. 400 * Q
    BY <2>1, ColumnMeets
  <2> QED
    BY <1>9, <2>2 DEF ColumnOff
<1>16. C[2] - 5 <= D \div 100 /\ D \div 100 <= C[2] + 4
  <2> DEFINE w == n * y
  <2>1. w \in Int /\ r[2] = 100 * b[2] + eb + w /\ D = 37800 - 195 * m
    BY <1>5, <1>11 DEF Climbed
  <2>2. -400 <= eb + w + 195 * m - Z /\ eb + w + 195 * m - Z <= 500
    BY <1>14
  <2> HIDE DEF w
  <2>3. D - r[2] <= 400 /\ r[2] - D <= 500
    BY <1>2, <1>3, <1>12, <2>1, <2>2
  <2>4. 100 * C[2] - 500 <= D /\ D <= 100 * C[2] + 499
    BY <1>3, <1>7, <2>3
  <2> QED
    BY <1>3, <1>7, <2>4
<1>17. C[1] - 5 <= X /\ X <= C[1] + 4
  <2> DEFINE R == 100 * dx * (378 - b[2])
             u == r[1] - 100 * b[1]
  <2>1. u \in Int /\ u = f + n * x
    <3> DEFINE w == n * x
    <3>1. w \in Int /\ r[1] = 100 * b[1] + f + w
      BY <1>5, <1>11
    <3> HIDE DEF w
    <3>2. u = f + w
      BY <1>2, <1>3, <3>1
    <3> QED
      BY <1>3, <3>2 DEF w
  <2>2. R \in Int
    <3>1. 100 * dx \in Int /\ 378 - b[2] \in Int
      BY <1>3, <1>13
    <3> QED
      BY <3>1
  <2>3. (N * x + e - f) * Z = 100 * R
    <3>1. 100 * dx * Z = 100 * (100 * dx * (378 - b[2]))
      <4> DEFINE G == 378 - b[2]
      <4>1. G \in Int /\ Z = 100 * G
        BY <1>3, <1>12
      <4> HIDE DEF G
      <4>2. 100 * dx * Z = 100 * (100 * dx * G)
        BY <1>13, <4>1
      <4> QED
        BY <4>2 DEF G
    <3> QED
      BY <1>2, <3>1
  <2> HIDE DEF R
  <2>4. -300 * Q <= u * Q - 100 * R /\ u * Q - 100 * R <= 400 * Q
    <3>1. (f + n * x) * Q - (N * x + e - f) * Z = u * Q - 100 * R
      BY <2>1, <2>3
    <3> QED
      BY <1>15, <3>1
  <2>5. 100 * C[1] <= r[1] /\ r[1] <= 100 * C[1] + 99
    BY <1>3, <1>7
  <2>6. Q > 0 /\ Q \in Nat
    BY <1>9
  <2>7. Between(X, b[1], Q, R)
    BY <1>10 DEF R
  <2>8. X \in Int /\ C[1] \in Int /\ 7 <= C[1] /\ C[1] <= 634 /\ b[1] \in Int
    BY <1>3, <1>7, <1>10
  <2> DEFINE k == 100 * (X - 1 - b[1]) - u - 300
             l == 100 * (X + 1 - b[1]) - u + 400
  <2> HIDE DEF u
  <2>9. k \in Int /\ l \in Int
    BY <2>1, <2>8
  <2>10. (X - 1 - b[1]) * Q <= R => k * Q <= 0
    BY <2>1, <2>2, <2>4, <2>6, <2>8
  <2>11. (X + 1 - b[1]) * Q >= R => l * Q >= 0
    BY <2>1, <2>2, <2>4, <2>6, <2>8
  <2> HIDE DEF k, l
  <2>12. (k > 0 => k * Q > 0) /\ (l < 0 => l * Q < 0)
    BY <2>6, <2>9
  <2>13. (k <= 0 \/ X <= 8) /\ (l >= 0 \/ X >= 632)
    BY <2>6, <2>7, <2>9, <2>10, <2>11, <2>12 DEF Between
  <2> QED
    BY <1>3, <2>5, <2>8, <2>13 DEF k, l, u
<1> QED
  <2> DEFINE d == <<X, D \div 100>>
  <2>1. d[1] = X /\ d[2] = D \div 100 /\ d[1] \in Int /\ d[2] \in Int
    BY <1>3, <1>10
  <2>2. InBox(d, C)
    <3> HIDE DEF d
    <3> QED
      BY <1>7, <1>16, <1>17, <2>1, InBoxBounds
  <2> QED
    BY <2>2 DEF X, C, a, b

\* The target was near the ground when the samples ended, and has moved at most
\* twice since.
NearGround(v, N, p, q, n, r) ==
  /\ Seen(v, N, p, q) /\ Cell(q)[2] >= 372
  /\ Flown(v, q, n, r) /\ n <= 2 /\ r[2] < 38100

\* Such a target is in the box of the defender after the defender's first period.
LEMMA MeetsAtOnce ==
  ASSUME NEW v, NEW N, NEW p, NEW q, NEW n, NEW r, NearGround(v, N, p, q, n, r)
  PROVE  InBox(Cell(r), <<StartPosition(Cell(p), Cell(q), 99), 376>>)
<1> DEFINE a == Cell(p)
           b == Cell(q)
           dx == b[1] - a[1]
           dy == b[2] - a[2]
           e == p[1] - 100 * a[1]
           f == q[1] - 100 * b[1]
           x == v[1]
           y == v[2]
           X == StartPosition(a, b, 99)
           C == Cell(r)
<1>1. PICK s : Speed(x, s, y)
  BY SpeedFacts DEF NearGround, Seen
<1>2. x \in Int /\ -86 <= x /\ x <= 86 /\ y \in Nat
  <2> HIDE DEF x, y
  <2> QED
    BY <1>1 DEF Speed
<1>3. /\ a \in Free \X Int /\ b \in Free \X Int
      /\ dy >= 1 /\ 100 * dy < 19305 /\ Catchable(a, b, 99)
      /\ 150 * Abs(dx) < 100 * dy + 19305 /\ 50 * Abs(dx) < 19305 - 100 * dy
      /\ e \in 0 .. 99 /\ f \in 0 .. 99 /\ q[2] - 100 * b[2] \in 0 .. 99
      /\ 100 * dx = N * x + e - f
  BY FlightSampled DEF NearGround
<1>4. a[1] \in Int /\ b[1] \in Int /\ b[2] \in Int
  BY <1>3, Bounds
<1>5. /\ N \in {148, 149} /\ n \in 0 .. 2 /\ b[2] >= 372
      /\ q[1] \in Int /\ q[2] \in Int /\ r[1] \in Int /\ r[2] \in Int /\ r[2] < 38100
      /\ r[1] = q[1] + n * x /\ r[2] = q[2] + n * y
  BY DEF NearGround, Seen, Flown
<1>6. /\ n * x \in Int /\ n * y \in Nat
      /\ x >= 0 => 0 <= n * x /\ n * x <= 172
      /\ x <= 0 => n * x <= 0 /\ -172 <= n * x
  <2>1. n = 0 \/ n = 1 \/ n = 2
    BY <1>5
  <2> HIDE DEF x, y
  <2> QED
    BY <1>2, <2>1
<1>7. r[2] >= 37200
  <2> DEFINE w == n * y
             g == q[2] - 100 * b[2]
  <2>1. w \in Nat /\ r[2] = q[2] + w
    BY <1>5, <1>6
  <2>2. g \in 0 .. 99 /\ b[2] \in Int /\ b[2] >= 372 /\ q[2] \in Int
    BY <1>3, <1>4, <1>5
  <2>3. q[2] = 100 * b[2] + g
    BY <2>2
  <2> HIDE DEF w, b, g
  <2> QED
    BY <2>1, <2>2, <2>3
<1>8. /\ C \in Int \X Int /\ C[1] \in Int /\ C[2] \in Int
      /\ r[1] - 100 * C[1] \in 0 .. 99 /\ r[2] - 100 * C[2] \in 0 .. 99
  <2>1. r \in Int \X Int /\ Cell(r)[1] \in Free
    BY DEF NearGround, Flown
  <2>2. r[2] >= 0
    BY <1>5, <1>7
  <2>3. C \in Int \X Int
    BY <2>1, CellFacts
  <2>4. r[1] - 100 * C[1] \in 0 .. 99 /\ r[2] - 100 * C[2] \in 0 .. 99
    BY <2>1, <2>2, CellRemainder
  <2> QED
    BY <2>3, <2>4
<1>9. b[2] <= 380
  <2> DEFINE w == n * y
             g == q[2] - 100 * b[2]
  <2>1. w \in Nat /\ r[2] = q[2] + w /\ r[2] < 38100
    BY <1>5, <1>6
  <2>2. g \in 0 .. 99 /\ b[2] \in Int /\ q[2] \in Int
    BY <1>3, <1>4, <1>5
  <2>3. q[2] = 100 * b[2] + g
    BY <2>2
  <2> HIDE DEF w, b, g
  <2> QED
    BY <2>1, <2>2, <2>3
<1>10. X \in Int
  BY <1>3, StartOrder, Bounds
<1>11. /\ b[1] >= a[1] => b[1] - 2 <= X /\ X <= b[1] + 4
       /\ b[1] <= a[1] => b[1] - 4 <= X /\ X <= b[1] + 1
  <2>1. /\ a \in Free \X Int /\ b \in Free \X Int /\ Catchable(a, b, 99)
        /\ b[2] - a[2] >= 1 /\ 100 * (b[2] - a[2]) < 19305
        /\ 150 * Abs(b[1] - a[1]) < 100 * (b[2] - a[2]) + 19305
        /\ 50 * Abs(b[1] - a[1]) < 19305 - 100 * (b[2] - a[2])
    BY <1>3
  <2>2. 372 <= b[2] /\ b[2] <= 380
    BY <1>4, <1>5, <1>9
  <2> HIDE DEF a, b
  <2>3. X = StartPosition(a, b, 99)
    OBVIOUS
  <2> HIDE DEF X
  <2> QED
    BY <2>1, <2>2, <2>3, StartClose
<1> HIDE DEF C, X, x, y, b, a
<1>12. 371 <= C[2] /\ C[2] <= 380
  BY <1>5, <1>7, <1>8
<1>13. /\ x >= 1 => b[1] >= a[1]
       /\ x <= -1 => b[1] <= a[1]
       /\ x = 0 => b[1] = a[1]
  <2>1. /\ x >= 1 => N * x >= 148
        /\ x <= -1 => N * x <= -148
        /\ x = 0 => N * x = 0
        /\ N * x \in Int
    BY <1>2, <1>5
  <2> HIDE DEF e, f
  <2> QED
    BY <1>2, <1>3, <1>4, <2>1
<1>14. /\ x >= 0 => b[1] <= C[1] /\ C[1] <= b[1] + 2
       /\ x <= 0 => b[1] - 2 <= C[1] /\ C[1] <= b[1]
  <2> DEFINE u == n * x
  <2>1. u \in Int /\ r[1] = 100 * b[1] + f + u
    BY <1>4, <1>5, <1>6
  <2>2. /\ x >= 0 => 0 <= u /\ u <= 172
        /\ x <= 0 => u <= 0 /\ -172 <= u
    BY <1>6
  <2> HIDE DEF u, f
  <2>3. f \in 0 .. 99 /\ C[1] \in Int /\ b[1] \in Int /\ r[1] - 100 * C[1] \in 0 .. 99
    BY <1>3, <1>4, <1>8
  <2>4. 100 * C[1] <= 100 * b[1] + f + u /\ 100 * b[1] + f + u <= 100 * C[1] + 99
    BY <2>1, <2>3
  <2>5. ASSUME x >= 0 PROVE b[1] <= C[1] /\ C[1] <= b[1] + 2
    BY <2>1, <2>2, <2>3, <2>4, <2>5
  <2>6. ASSUME x <= 0 PROVE b[1] - 2 <= C[1] /\ C[1] <= b[1]
    BY <2>1, <2>2, <2>3, <2>4, <2>6
  <2> QED
    BY <2>5, <2>6
<1>15. X - 5 <= C[1] /\ C[1] <= X + 4
  BY <1>2, <1>4, <1>8, <1>10, <1>11, <1>13, <1>14
<1>16. InBox(C, <<X, 376>>)
  BY <1>8, <1>10, <1>12, <1>15, InBoxBounds
<1> QED
  BY <1>16 DEF C, X, a, b

-----------------------------------------------------------------------------
\* The inductive invariant

\* An attacker with a defender in its box does not fly on.
LEMMA HitsMet ==
  ASSUME NEW c, phase = "fly", def[2] < 100 * DEF_MISSILE_START_Y, InBox(DefCell, c)
  PROVE  Hits(c) # "flying"
<1> DEFINE first == def[1] = c[1] - MISSILE_RADIUS
<1>1. Hits(c) = CASE AtLeftWall(c) -> "wall"
                  [] ~ AtLeftWall(c) /\ TRUE /\ (AtGoal(c) => first) -> "defender"
                  [] ~ AtLeftWall(c) /\ AtGoal(c) /\ ~ (TRUE /\ first) -> "goal"
                  [] ~ AtLeftWall(c) /\ ~ AtGoal(c) /\ ~ TRUE /\ AtRightWall(c) -> "wall"
                  [] OTHER -> "flying"
  BY Zenon DEF Hits
<1> HIDE DEF first
<1> QED
  BY <1>1

\* An attacker that flies on has not reached the goal.
LEMMA HitsAbove ==
  ASSUME NEW c \in Int \X Int, Hits(c) = "flying"
  PROVE  c[2] <= 380
<1> DEFINE met == phase = "fly" /\ def[2] < 100 * DEF_MISSILE_START_Y /\ InBox(DefCell, c)
           first == def[1] = c[1] - MISSILE_RADIUS
<1>1. Hits(c) = CASE AtLeftWall(c) -> "wall"
                  [] ~ AtLeftWall(c) /\ met /\ (AtGoal(c) => first) -> "defender"
                  [] ~ AtLeftWall(c) /\ AtGoal(c) /\ ~ (met /\ first) -> "goal"
                  [] ~ AtLeftWall(c) /\ ~ AtGoal(c) /\ ~ met /\ AtRightWall(c) -> "wall"
                  [] OTHER -> "flying"
  BY Zenon DEF Hits
<1> HIDE DEF met, first
<1>2. ~ AtGoal(c)
  BY <1>1
<1> QED
  BY <1>2 DEF AtGoal, MISSILE_RADIUS, GOAL_START_Y

\* The attacker n of its periods ago.
Ago(n) == <<atk[1] - n * vel[1], atk[2] - n * vel[2]>>

\* What the defender makes of its samples, as in Sighted: the speed with which
\* it and its target close in and the gap between them.
Closing == 100 * (pos_b[2] - pos_a[2]) + 19305
Gap == 100 * (DEF_MISSILE_START_Y - pos_b[2])

\* An attacker in flight is between its start and the goal.
AboveGoal == atk[2] >= 800 /\ (outcome = "flying" => atk[2] < 38100)

\* pos_a was sampled n periods of the attacker ago, c ms before its period ends.
SampledAgo(n, c) ==
  /\ 15 * i - def_due = 10 * n + c - atk_due
  /\ pos_a = Cell(Ago(n)) /\ Ago(n)[2] >= 800

\* The time between two samples is that of the attacker, but for one period.
Sampling == phase = "sample" => \E n \in Nat, c \in 0 .. 10 : SampledAgo(n, c)

\* The last sample was n periods of the attacker ago and m of the defender,
\* the first one N more.  A gap of at most 6 pixels is closed in the defender's
\* first period; a wider one is not closed yet.
Approaching(N, c, n, m) ==
  /\ 15 * (m + 1) - def_due = 10 * n + c - atk_due
  /\ N = 148 => c <= 5
  /\ N = 149 => c >= 5
  /\ pos_a = Cell(Ago(n + N)) /\ pos_b = Cell(Ago(n)) /\ Ago(n + N)[2] >= 800
  /\ pos_b[2] <= 380
  /\ def[2] = 37800 - 195 * m
  /\ IF Gap <= 600 THEN m = 0 ELSE NotDue(vel[2], N, n, Closing, Gap)

\* As long as the target of a defender with all its samples is in flight, the
\* two have not passed each other.
Unmet ==
  phase = "fly" /\ i = SAMPLE_LIMIT /\ outcome = "flying" =>
    \E N \in {148, 149}, c \in 0 .. 10, n \in Nat, m \in Nat : Approaching(N, c, n, m)

\* What this says of the positions, in the terms of the lemmas above.
LEMMA ApproachingFacts ==
  ASSUME IInv, phase = "fly", i = SAMPLE_LIMIT,
         NEW N \in {148, 149}, NEW c \in 0 .. 10, NEW n \in Nat, NEW m \in Nat,
         Approaching(N, c, n, m)
  PROVE  LET p == Ago(n + N)
             q == Ago(n)
         IN  /\ vel \in Int \X Nat /\ atk \in Int \X Int /\ q \in Int \X Int
             /\ Seen(vel, N, p, q) /\ Sight(p, q, Closing, Gap)
             /\ atk[1] = q[1] + n * vel[1] /\ atk[2] = q[2] + n * vel[2]
             /\ pos_a = Cell(p) /\ pos_b = Cell(q)
             /\ pos_b[1] \in Int /\ pos_b[2] \in Int
             /\ Gap \in Int /\ Gap = 100 * (378 - pos_b[2])
             /\ Gap > 600 => 700 <= Gap /\ Gap \in Nat /\ pos_b[2] <= 378
             /\ Gap > 600 => Sighted(vel[2], N, Closing, Gap)
             /\ def[1] = StartPosition(pos_a, pos_b, 99) /\ def[1] \in Free
             /\ def_due \in 0 .. 15 /\ atk_due \in 0 .. 10
<1> DEFINE p == Ago(n + N)
           q == Ago(n)
<1>1. vel \in Velocity /\ vel[1] \in Int /\ vel[2] \in Nat /\ atk[1] \in Int /\ atk[2] \in Int
  BY Speeds DEF IInv, Types
<1>2. /\ p[1] = atk[1] - (n + N) * vel[1] /\ p[2] = atk[2] - (n + N) * vel[2]
      /\ q[1] = atk[1] - n * vel[1] /\ q[2] = atk[2] - n * vel[2]
      /\ p = <<p[1], p[2]>> /\ q = <<q[1], q[2]>>
  BY DEF Ago
<1>3. N \in Nat /\ p[1] \in Int /\ p[2] \in Int /\ q[1] \in Int /\ q[2] \in Int
  BY <1>1, <1>2
<1>4. p \in Int \X Int /\ q \in Int \X Int
  BY <1>2, <1>3
<1>5. /\ q[1] = p[1] + N * vel[1] /\ q[2] = p[2] + N * vel[2]
      /\ atk[1] = q[1] + n * vel[1] /\ atk[2] = q[2] + n * vel[2]
  <2>1. /\ (n + N) * vel[1] = n * vel[1] + N * vel[1]
        /\ (n + N) * vel[2] = n * vel[2] + N * vel[2]
        /\ n * vel[1] \in Int /\ N * vel[1] \in Int /\ n * vel[2] \in Int /\ N * vel[2] \in Int
    <3> DEFINE x == vel[1]
               y == vel[2]
    <3>1. x \in Int /\ y \in Int
      BY <1>1
    <3> HIDE DEF x, y
    <3>2. /\ (n + N) * x = n * x + N * x /\ (n + N) * y = n * y + N * y
          /\ n * x \in Int /\ N * x \in Int /\ n * y \in Int /\ N * y \in Int
      <4>1. CASE N = 148
        BY <3>1, <4>1
      <4>2. CASE N = 149
        BY <3>1, <4>2
      <4> QED
        BY <4>1, <4>2
    <3> QED
      BY <3>2 DEF x, y
  <2> HIDE DEF p, q
  <2> QED
    BY <1>1, <1>2, <2>1
<1> HIDE DEF p, q
<1>6. pos_a = Cell(p) /\ pos_b = Cell(q) /\ p[2] >= 800 /\ pos_b[2] <= 380
  BY DEF Approaching, p, q
<1>7. SAMPLE_LIMIT = 100 /\ i - 1 = 99
  BY DEF SAMPLE_LIMIT, TRAJECTORY_PRECISION
<1>8. /\ pos_a[1] \in Free /\ pos_b[1] \in Free /\ def[1] = StartPosition(pos_a, pos_b, 99)
  BY <1>7 DEF IInv, Aimed
<1>9. pos_a \in Int \X Int /\ pos_b \in Int \X Int
  BY <1>4, <1>6, CellFacts
<1>10. pos_a \in Free \X Int /\ pos_b \in Free \X Int
  BY <1>8, <1>9
<1>11. def[1] \in Free
  BY <1>8, <1>10, StartStays
<1>12. Seen(vel, N, p, q)
  BY <1>1, <1>4, <1>5, <1>6, <1>8 DEF Seen
<1>13. Sight(p, q, Closing, Gap)
  BY <1>6, Bounds DEF Sight, Closing, Gap
<1>14. /\ Gap \in Int /\ Gap = 100 * (378 - pos_b[2])
       /\ (Gap > 600 => 700 <= Gap /\ Gap \in Nat /\ pos_b[2] <= 378)
  BY <1>9, Bounds DEF Gap
<1>15. Gap > 600 => Sighted(vel[2], N, Closing, Gap)
  <2>1. 100 * (378 - Cell(q)[2]) \in Nat =>
          Sighted(vel[2], N, 100 * (Cell(q)[2] - Cell(p)[2]) + 19305, 100 * (378 - Cell(q)[2]))
    BY <1>12, FlightSampled
  <2> QED
    BY <1>13, <1>14, <2>1 DEF Sight
<1>16. def_due \in 0 .. 15 /\ atk_due \in 0 .. 10
  BY DEF IInv, Types, ATK_MISSILE_PERIOD, DEF_MISSILE_PERIOD
<1>17. vel \in Int \X Nat /\ atk \in Int \X Int
  BY Speeds DEF IInv, Types
<1>18. pos_b[1] \in Int /\ pos_b[2] \in Int
  BY <1>9
<1> QED
  BY <1>4, <1>5, <1>6, <1>8, <1>11, <1>12, <1>13, <1>14, <1>15, <1>16, <1>17, <1>18
     DEF p, q

\* An attacker starts above the goal, and every step keeps it there while it flies.
LEMMA InitAboveGoal == Init => AboveGoal
BY AimingAssumption DEF Init, AboveGoal, WALL_THICKNESS, MISSILE_RADIUS

LEMMA NextAboveGoal == IInv /\ AboveGoal /\ [Next]_vars => AboveGoal'
<1> SUFFICES ASSUME IInv, AboveGoal, [Next]_vars PROVE AboveGoal'
  OBVIOUS
<1>1. CASE AtkStep
  <2>1. /\ vel[2] \in Nat /\ atk[2] \in Int /\ atk[2] >= 800
        /\ atk' \in Int \X Int /\ atk'[2] = atk[2] + vel[2]
    BY <1>1, AtkStepFlies DEF AboveGoal
  <2>2. ASSUME outcome' = "flying" PROVE atk'[2] < 38100
    <3>1. Cell(atk') \in Int \X Int /\ Hits(Cell(atk')) = "flying"
      BY <1>1, <2>1, <2>2, CellFacts DEF AtkStep
    <3>2. Cell(atk')[2] <= 380 /\ Cell(atk')[2] \in Int
      BY <3>1, HitsAbove
    <3>3. atk'[2] <= 100 * Cell(atk')[2] + 99
      BY <2>1, CellFacts
    <3> QED
      BY <2>1, <3>2, <3>3
  <2> QED
    BY <2>1, <2>2 DEF AboveGoal
<1>2. CASE FirstSample \/ Sample \/ DefStep
  <2>1. UNCHANGED atk /\ (outcome' = "flying" => outcome = "flying")
    BY <1>2 DEF FirstSample, Sample, DefStep
  <2> QED
    BY <2>1 DEF AboveGoal
<1>3. CASE UNCHANGED vars
  BY <1>3 DEF vars, AboveGoal
<1> QED
  BY <1>1, <1>2, <1>3 DEF Next

\* When the attacker has moved, what was n periods ago is n + 1 periods ago.
LEMMA AgoMoves ==
  ASSUME vel[1] \in Int, vel[2] \in Int, atk[1] \in Int, atk[2] \in Int, NEW n \in Nat,
         atk' = <<atk[1] + vel[1], atk[2] + vel[2]>>, vel' = vel
  PROVE  Ago(n + 1)' = Ago(n)
<1> DEFINE x == vel[1]
           y == vel[2]
<1>1. x \in Int /\ y \in Int
  OBVIOUS
<1>2. Ago(n + 1)' = <<(atk[1] + x) - (n + 1) * x, (atk[2] + y) - (n + 1) * y>>
  BY DEF Ago
<1>3. Ago(n) = <<atk[1] - n * x, atk[2] - n * y>>
  BY DEF Ago
<1> HIDE DEF x, y
<1>4. (n + 1) * x = n * x + x /\ (n + 1) * y = n * y + y /\ n * x \in Int /\ n * y \in Int
  BY <1>1
<1>5. /\ (atk[1] + x) - (n + 1) * x = atk[1] - n * x
      /\ (atk[2] + y) - (n + 1) * y = atk[2] - n * y
  BY <1>1, <1>4
<1> QED
  BY <1>2, <1>3, <1>5

\* What was no period ago is now.
LEMMA AgoNow ==
  ASSUME vel[1] \in Int, vel[2] \in Int, atk \in Int \X Int
  PROVE  Ago(0) = atk
<1>1. 0 * vel[1] = 0 /\ 0 * vel[2] = 0
  OBVIOUS
<1>2. Ago(0) = <<atk[1], atk[2]>>
  BY <1>1 DEF Ago
<1> QED
  BY <1>2

\* Every step keeps what is known of the first sample.
LEMMA NextSampling == IInv /\ AboveGoal /\ Sampling /\ [Next]_vars => Sampling'
<1> SUFFICES ASSUME IInv, AboveGoal, Sampling, [Next]_vars, phase' = "sample"
             PROVE  \E n \in Nat, c \in 0 .. 10 : SampledAgo(n, c)'
  BY DEF Sampling
<1>1. /\ vel[1] \in Int /\ vel[2] \in Int
      /\ atk \in Int \X Int /\ atk[1] \in Int /\ atk[2] \in Int
      /\ atk_due \in 0 .. 10 /\ def_due \in Nat /\ i \in Int /\ atk[2] >= 800
  BY Speeds DEF IInv, Types, AboveGoal, ATK_MISSILE_PERIOD
<1>2. CASE AtkStep
  <2>1. phase = "sample" /\ UNCHANGED <<vel, i, pos_a>>
        /\ atk' = <<atk[1] + vel[1], atk[2] + vel[2]>>
        /\ def_due' = def_due - atk_due /\ atk_due' = 10
    BY <1>2 DEF AtkStep, defender, ATK_MISSILE_PERIOD
  <2>2. PICK n \in Nat, c \in 0 .. 10 : SampledAgo(n, c)
    BY <2>1 DEF Sampling
  <2>3. Ago(n + 1)' = Ago(n)
    BY <1>1, <2>1, AgoMoves
  <2>4. 15 * i' - def_due' = 10 * (n + 1) + c - atk_due'
    BY <1>1, <2>1, <2>2 DEF SampledAgo
  <2>5. pos_a' = Cell(Ago(n + 1)') /\ Ago(n + 1)'[2] >= 800
    BY <2>1, <2>2, <2>3 DEF SampledAgo
  <2>6. SampledAgo(n + 1, c)'
    BY <2>4, <2>5 DEF SampledAgo, Cell
  <2> QED
    BY <2>6
<1>3. CASE FirstSample
  <2>1. /\ UNCHANGED <<vel, atk>> /\ i' = 1 /\ def_due' = 15 /\ pos_a' = Cell(atk)
        /\ atk_due' \in 0 .. 10
    BY <1>3, DefDueFacts DEF FirstSample, DEF_MISSILE_PERIOD
  <2>2. Ago(0)' = atk
    <3>1. Ago(0)' = Ago(0)
      BY <2>1 DEF Ago
    <3> QED
      BY <1>1, <3>1, AgoNow
  <2>3. pos_a' = Cell(Ago(0)') /\ Ago(0)'[2] >= 800
    BY <1>1, <2>1, <2>2
  <2>4. PICK c \in 0 .. 10 : c = atk_due'
    BY <2>1
  <2>5. 15 * i' - def_due' = 10 * 0 + c - atk_due'
    <3>1. 15 * 1 - 15 = 10 * 0 + c - c
      OBVIOUS
    <3>2. i' = 1 /\ def_due' = 15 /\ c = atk_due'
      BY <2>1, <2>4
    <3> QED
      BY <3>1, <3>2, Zenon
  <2>6. SampledAgo(0, c)'
    BY <2>3, <2>5 DEF SampledAgo, Cell
  <2> QED
    BY <2>6
<1>4. CASE Sample
  <2>1. /\ phase = "sample" /\ UNCHANGED <<vel, atk, pos_a>> /\ i' = i + 1 /\ def_due' = 15
        /\ atk_due' = atk_due - def_due
    BY <1>4 DEF Sample, DefDue, DEF_MISSILE_PERIOD
  <2>2. PICK n \in Nat, c \in 0 .. 10 : SampledAgo(n, c)
    BY <2>1 DEF Sampling
  <2>3. Ago(n)' = Ago(n)
    BY <2>1 DEF Ago
  <2>4. 15 * i' - def_due' = 10 * n + c - atk_due'
    BY <1>1, <2>1, <2>2 DEF SampledAgo
  <2>5. pos_a' = Cell(Ago(n)') /\ Ago(n)'[2] >= 800
    BY <2>1, <2>2, <2>3 DEF SampledAgo
  <2>6. SampledAgo(n, c)'
    BY <2>4, <2>5 DEF SampledAgo, Cell
  <2> QED
    BY <2>6
<1>5. CASE DefStep
  BY <1>5 DEF DefStep
<1>6. CASE UNCHANGED vars
  <2>1. phase = "sample" /\ UNCHANGED <<vel, atk, i, pos_a, def_due, atk_due>>
    BY <1>6 DEF vars, defender
  <2>2. PICK n \in Nat, c \in 0 .. 10 : SampledAgo(n, c)
    BY <2>1 DEF Sampling
  <2>3. SampledAgo(n, c)'
    BY <2>1, <2>2 DEF SampledAgo, Ago, Cell
  <2> QED
    BY <2>3
<1> QED
  BY <1>2, <1>3, <1>4, <1>5, <1>6 DEF Next

\* The attacker moves: either the two have not passed each other yet, or they
\* meet now.
LEMMA AtkStepUnmet == IInv /\ Unmet /\ AtkStep => Unmet'
<1> SUFFICES ASSUME IInv, Unmet, AtkStep,
                    phase' = "fly", i' = SAMPLE_LIMIT, outcome' = "flying"
             PROVE  \E N \in {148, 149}, c \in 0 .. 10, n \in Nat, m \in Nat :
                      Approaching(N, c, n, m)'
  BY DEF Unmet
<1>1. /\ phase = "fly" /\ i = SAMPLE_LIMIT /\ outcome = "flying"
      /\ UNCHANGED <<vel, def, pos_a, pos_b>>
      /\ atk' = <<atk[1] + vel[1], atk[2] + vel[2]>>
      /\ def_due' = def_due - atk_due /\ atk_due' = 10 /\ atk_due <= def_due
      /\ Hits(Cell(atk')) = "flying"
  BY DEF AtkStep, defender, ATK_MISSILE_PERIOD
<1>2. PICK N \in {148, 149}, c \in 0 .. 10, n \in Nat, m \in Nat : Approaching(N, c, n, m)
  BY <1>1 DEF Unmet
<1> DEFINE p == Ago(n + N)
           q == Ago(n)
           Q == Closing
           Z == Gap
<1>3. /\ vel \in Int \X Nat /\ atk \in Int \X Int /\ q \in Int \X Int
      /\ Seen(vel, N, p, q) /\ Sight(p, q, Q, Z)
      /\ atk[1] = q[1] + n * vel[1] /\ atk[2] = q[2] + n * vel[2]
      /\ pos_a = Cell(p) /\ pos_b = Cell(q)
      /\ Z > 600 => 700 <= Z /\ Z \in Nat /\ pos_b[2] <= 378
      /\ Z > 600 => Sighted(vel[2], N, Q, Z)
      /\ def[1] = StartPosition(pos_a, pos_b, 99)
      /\ def_due \in 0 .. 15 /\ atk_due \in 0 .. 10 /\ Z \in Int
  BY <1>1, <1>2, ApproachingFacts
<1>4. /\ 15 * (m + 1) - def_due = 10 * n + c - atk_due
      /\ N = 148 => c <= 5
      /\ N = 149 => c >= 5
      /\ p[2] >= 800 /\ pos_b[2] <= 380
      /\ def[2] = 37800 - 195 * m
      /\ IF Z <= 600 THEN m = 0 ELSE NotDue(vel[2], N, n, Q, Z)
  BY <1>2 DEF Approaching
<1> HIDE DEF p, q, Q, Z
<1>5. ASSUME IF Z <= 600 THEN m = 0
             ELSE NotDue(vel[2], N, n + 1, Q, Z)
      PROVE  Approaching(N, c, n + 1, m)'
  <2>1. 15 * (m + 1) - def_due' = 10 * (n + 1) + c - atk_due'
    BY <1>1, <1>3, <1>4
  <2>2. Ago(n + 1)' = q
    BY <1>1, <1>3, AgoMoves DEF q
  <2>3. Ago((n + 1) + N)' = p
    <3>1. n + N \in Nat /\ (n + 1) + N = (n + N) + 1
      OBVIOUS
    <3>2. Ago((n + N) + 1)' = p
      BY <1>1, <1>3, <3>1, AgoMoves DEF p
    <3> QED
      BY <3>1, <3>2
  <2>4. /\ pos_a' = Cell(Ago((n + 1) + N)') /\ pos_b' = Cell(Ago(n + 1)')
        /\ Ago((n + 1) + N)'[2] >= 800 /\ pos_b'[2] <= 380 /\ def'[2] = 37800 - 195 * m
    BY <1>1, <1>3, <1>4, <2>2, <2>3
  <2>5. IF Gap' <= 600 THEN m = 0
        ELSE NotDue(vel'[2], N, n + 1, Closing', Gap')
    <3>1. Gap' = Z /\ Closing' = Q /\ vel' = vel
      BY <1>1 DEF Gap, Closing, Z, Q
    <3> QED
      BY <1>5, <3>1
  <2> QED
    BY <1>4, <2>1, <2>4, <2>5 DEF Approaching, Cell, NotDue, Due
<1>6. ASSUME ~ (Z <= 600), ~ NotDue(vel[2], N, n + 1, Q, Z)
      PROVE  FALSE
  <2>1. /\ 700 <= Z /\ Z \in Nat /\ Cell(q)[2] <= 378 /\ Sighted(vel[2], N, Q, Z)
        /\ NotDue(vel[2], N, n, Q, Z)
    BY <1>3, <1>4, <1>6
  <2>2. vel[2] \in Nat /\ Q \in Nat
    BY <2>1 DEF Sighted
  <2>3. n + 1 >= 3
    <3>1. ~ (n + 1 \in 0 .. 2)
      BY <1>6, <2>1, NotYet
    <3> QED
      BY <3>1
  <2>4. InTime(N, n + 1, m, c)
    BY <1>1, <1>3, <1>4 DEF InTime
  <2>5. JustDue(vel[2], N, n + 1, Q, Z)
    <3> DEFINE y == vel[2]
               K == n * Q - N * Z
               L == (n + 1) * Q - N * Z
    <3>1. y \in Nat
      BY <2>2
    <3>2. (y + 130) * L = (y + 130) * K + (y + 130) * Q /\ (y + 130) * K \in Int
          /\ (y + 130) * L \in Int /\ (y + 130) * Q \in Int /\ Due(N, Q, Z) \in Int
      <4>1. K \in Int /\ L = K + Q
        BY <2>1, <2>2
      <4> HIDE DEF K, L, y
      <4>2. (y + 130) * L = (y + 130) * K + (y + 130) * Q
        BY <2>2, <3>1, <4>1
      <4>3. (y + 130) * K \in Int /\ (y + 130) * L \in Int /\ (y + 130) * Q \in Int
        BY <2>2, <3>1, <4>1
      <4> QED
        BY <2>1, <2>2, <4>2, <4>3 DEF Due
    <3>3. (y + 130) * K < Due(N, Q, Z) /\ ~ ((y + 130) * L < Due(N, Q, Z))
      BY <1>6, <2>1 DEF NotDue
    <3> HIDE DEF K, L
    <3>4. Due(N, Q, Z) <= (y + 130) * L /\ (y + 130) * L < Due(N, Q, Z) + (y + 130) * Q
      BY <3>2, <3>3
    <3> QED
      BY <3>4 DEF JustDue, L
  <2>6. Flown(vel, q, n + 1, atk')
    <3>1. atk'[1] = q[1] + (n + 1) * vel[1] /\ atk'[2] = q[2] + (n + 1) * vel[2]
      <4> DEFINE x == vel[1]
                 y == vel[2]
      <4>1. /\ x \in Int /\ y \in Int /\ q[1] \in Int /\ q[2] \in Int
            /\ atk'[1] = q[1] + n * x + x /\ atk'[2] = q[2] + n * y + y
        BY <1>1, <1>3
      <4> HIDE DEF x, y
      <4>2. /\ (n + 1) * x = n * x + x /\ (n + 1) * y = n * y + y
            /\ n * x \in Int /\ n * y \in Int
        BY <4>1
      <4>3. atk'[1] = q[1] + (n + 1) * x /\ atk'[2] = q[2] + (n + 1) * y
        BY <4>1, <4>2
      <4> QED
        BY <4>3 DEF x, y
    <3>2. Cell(atk')[1] \in Free
      BY AtkStepFlies
    <3>3. atk' \in Int \X Int
      BY <1>1, <1>3
    <3> QED
      BY <3>1, <3>2, <3>3 DEF Flown
  <2>7. Climbed(def[2], m)
    BY <1>4 DEF Climbed
  <2>8. InBox(<<StartPosition(Cell(p), Cell(q), 99), def[2] \div 100>>, Cell(atk'))
    BY <1>3, <2>1, <2>4, <2>5, <2>6, <2>7, Meets
  <2>9. InBox(DefCell, Cell(atk'))
    BY <1>3, <2>8 DEF DefCell
  <2>10. def[2] < 100 * DEF_MISSILE_START_Y
    BY <1>4, <2>3, <2>4, Bounds DEF InTime
  <2> QED
    BY <1>1, <2>9, <2>10, HitsMet
<1> QED
  BY <1>4, <1>5, <1>6

\* With the last sample the defender takes off, and no meeting is due yet.
LEMMA SampleUnmet == IInv /\ AboveGoal /\ Sampling /\ Sample => Unmet'
<1> SUFFICES ASSUME IInv, AboveGoal, Sampling, Sample,
                    phase' = "fly", i' = SAMPLE_LIMIT, outcome' = "flying"
             PROVE  \E N \in {148, 149}, c \in 0 .. 10, n \in Nat, m \in Nat :
                      Approaching(N, c, n, m)'
  BY DEF Unmet
<1>1. /\ phase = "sample" /\ outcome = "flying" /\ def_due <= atk_due
      /\ i' = i + 1 /\ def_due' = 15 /\ atk_due' = atk_due - def_due
      /\ pos_b' = Cell(atk) /\ UNCHANGED <<vel, atk, pos_a>>
  BY DEF Sample, DefDue, DEF_MISSILE_PERIOD
<1>2. def'[2] = 37800
  BY Bounds DEF Sample
<1>3. /\ Cell(atk)[1] \in Free /\ Cell(atk)[2] \in Int /\ 100 * Cell(atk)[2] <= atk[2]
      /\ def_due \in Nat /\ atk_due \in 0 .. 10 /\ atk_due' \in 0 .. 10
  BY DefDueFacts DEF Sample
<1>4. /\ vel \in Velocity /\ vel[1] \in Int /\ vel[2] \in Int
      /\ atk \in Int \X Int /\ atk[1] \in Int /\ atk[2] \in Int
      /\ pos_a[1] \in Free
  BY <1>1, Speeds DEF IInv, Types, Sampled
<1>5. i = 99
  BY <1>1 DEF IInv, Types, SAMPLE_LIMIT, TRAJECTORY_PRECISION
<1>6. PICK N \in Nat, d \in 0 .. 10 : SampledAgo(N, d)
  BY <1>1 DEF Sampling
<1>7. /\ 15 * i - def_due = 10 * N + d - atk_due
      /\ pos_a = Cell(Ago(N)) /\ Ago(N)[2] >= 800
  BY <1>6 DEF SampledAgo
<1>8. PICK c \in 0 .. 10 : c = atk_due'
  BY <1>3
<1>9. N \in {148, 149} /\ (N = 148 => c <= 5) /\ (N = 149 => c >= 5)
  BY <1>1, <1>3, <1>5, <1>7, <1>8
<1>10. Ago(0)' = atk /\ Ago(0 + N)' = Ago(N) /\ Ago(0) = atk
  <2>1. 0 + N = N
    OBVIOUS
  <2> QED
    BY <1>1, <1>4, <2>1, AgoNow DEF Ago
<1>11. Cell(atk)[2] <= 380
  BY <1>1, <1>3, <1>4 DEF AboveGoal
<1>12. 15 * (0 + 1) - def_due' = 10 * 0 + c - atk_due'
  <2>1. 15 * (0 + 1) - 15 = 10 * 0 + c - c
    OBVIOUS
  <2> QED
    BY <1>1, <1>8, <2>1, Zenon
<1>13. Seen(vel, N, Ago(N), atk)
  <2>1. /\ Ago(N)[1] = atk[1] - N * vel[1] /\ Ago(N)[2] = atk[2] - N * vel[2]
        /\ Ago(N) = <<Ago(N)[1], Ago(N)[2]>>
    BY DEF Ago
  <2>2. /\ Ago(N)[1] \in Int /\ Ago(N)[2] \in Int
        /\ atk[1] = Ago(N)[1] + N * vel[1] /\ atk[2] = Ago(N)[2] + N * vel[2]
    <3> DEFINE x == vel[1]
               y == vel[2]
               a == Ago(N)
    <3>1. x \in Int /\ y \in Int
      BY <1>4
    <3>2. a[1] = atk[1] - N * x /\ a[2] = atk[2] - N * y
      BY <2>1
    <3> HIDE DEF x, y, a
    <3>3. N * x \in Int /\ N * y \in Int
      BY <1>9, <3>1
    <3>4. a[1] \in Int /\ a[2] \in Int /\ atk[1] = a[1] + N * x /\ atk[2] = a[2] + N * y
      BY <1>4, <3>2, <3>3
    <3> QED
      BY <3>4 DEF a, x, y
  <2> QED
    BY <1>3, <1>4, <1>7, <1>9, <2>1, <2>2 DEF Seen
<1>14. IF Gap' <= 600 THEN 0 = 0 ELSE NotDue(vel'[2], N, 0, Closing', Gap')
  <2> DEFINE Q == 100 * (Cell(atk)[2] - Cell(Ago(N))[2]) + 19305
             Z == 100 * (378 - Cell(atk)[2])
  <2>1. Gap' = Z /\ Closing' = Q /\ vel' = vel
    BY <1>1, <1>7, Bounds DEF Gap, Closing
  <2>2. ASSUME ~ (Z <= 600) PROVE NotDue(vel[2], N, 0, Q, Z)
    <3>1. Z \in Nat /\ 700 <= Z
      BY <1>3, <2>2
    <3>2. Sighted(vel[2], N, Q, Z)
      BY <1>13, <3>1, FlightSampled
    <3> HIDE DEF Q, Z
    <3>3. 0 \in 0 .. 2
      OBVIOUS
    <3> QED
      BY <3>1, <3>2, <3>3, NotYet
  <2> QED
    BY <2>1, <2>2
<1>15. /\ pos_a' = Cell(Ago(0 + N)') /\ pos_b' = Cell(Ago(0)')
       /\ Ago(0 + N)'[2] >= 800 /\ pos_b'[2] <= 380 /\ def'[2] = 37800 - 195 * 0
  BY <1>1, <1>2, <1>7, <1>10, <1>11
<1>16. Approaching(N, c, 0, 0)'
  BY <1>9, <1>12, <1>14, <1>15 DEF Approaching, Cell, NotDue, Due
<1> QED
  BY <1>9, <1>16

\* A defender that has not passed its target is not at a wall.
LEMMA DefStepFlies ==
  ASSUME IInv, Unmet, DefStep, i = SAMPLE_LIMIT
  PROVE  /\ phase' = "fly" /\ def_due' = 15
         /\ outcome' = IF InBox(Cell(atk), DefCell') THEN "defender" ELSE outcome
<1>1. /\ phase = "fly" /\ outcome = "flying" /\ def_due <= atk_due
      /\ def' = <<def[1], def[2] - 195>>
  BY Climbs195 DEF DefStep, DefDue, Climbs
<1>2. PICK N \in {148, 149}, c \in 0 .. 10, n \in Nat, m \in Nat : Approaching(N, c, n, m)
  BY <1>1 DEF Unmet
<1>3. /\ vel \in Int \X Nat
      /\ Gap \in Int /\ (Gap > 600 => Sighted(vel[2], N, Closing, Gap))
      /\ def[1] \in Free /\ def_due \in 0 .. 15 /\ atk_due \in 0 .. 10
  BY <1>1, <1>2, ApproachingFacts
<1>4. /\ 15 * (m + 1) - def_due = 10 * n + c - atk_due
      /\ def[2] = 37800 - 195 * m
      /\ IF Gap <= 600 THEN m = 0 ELSE NotDue(vel[2], N, n, Closing, Gap)
  BY <1>2 DEF Approaching
<1>5. m + 1 <= 170
  <2>1. CASE Gap <= 600
    BY <1>4, <2>1
  <2>2. CASE ~ (Gap <= 600)
    <3>1. Sighted(vel[2], N, Closing, Gap) /\ NotDue(vel[2], N, n, Closing, Gap)
      BY <1>3, <1>4, <2>2
    <3>2. n <= 255
      BY <3>1, NotLater
    <3> QED
      BY <1>1, <1>3, <1>4, <3>2
  <2> QED
    BY <2>1, <2>2
<1>6. /\ DefCell' = <<def[1], (37800 - 195 * (m + 1)) \div 100>>
      /\ (37800 - 195 * (m + 1)) \div 100 >= 46
      /\ (37800 - 195 * (m + 1)) \div 100 \in Int
  <2>1. def' = <<def[1], 37800 - 195 * (m + 1)>>
    BY <1>1, <1>4
  <2>2. DefCell' = <<def'[1], def'[2] \div 100>>
    BY DEF DefCell
  <2> QED
    BY <1>5, <2>1, <2>2
<1> DEFINE C == <<def[1], (37800 - 195 * (m + 1)) \div 100>>
<1>7. ~ AtTopWall(C)
  BY <1>6 DEF AtTopWall, MISSILE_RADIUS, WALL_THICKNESS
<1>8. ~ AtLeftWall(C) /\ ~ AtRightWall(C)
  <2>1. C[1] \in Int /\ 7 <= C[1] /\ C[1] <= 634
    BY <1>3, Bounds
  <2> QED
    BY <2>1, NoWall
<1>9. ~ (AtLeftWall(DefCell') \/ AtRightWall(DefCell') \/ AtTopWall(DefCell'))
  BY <1>6, <1>7, <1>8
<1> QED
  BY <1>1, <1>9 DEF DefStep, DEF_MISSILE_PERIOD

\* The defender moves: a target that was near when the samples ended is hit at
\* once, the meeting with another is not due before that target moves.
LEMMA DefStepUnmet == IInv /\ AboveGoal /\ Unmet /\ DefStep => Unmet'
<1> SUFFICES ASSUME IInv, AboveGoal, Unmet, DefStep,
                    phase' = "fly", i' = SAMPLE_LIMIT, outcome' = "flying"
             PROVE  \E N \in {148, 149}, c \in 0 .. 10, n \in Nat, m \in Nat :
                      Approaching(N, c, n, m)'
  BY DEF Unmet
<1>1. /\ phase = "fly" /\ outcome = "flying" /\ def_due <= atk_due
      /\ atk_due' = atk_due - def_due
      /\ def' = <<def[1], def[2] - 195>>
      /\ i = SAMPLE_LIMIT /\ UNCHANGED <<vel, atk, pos_a, pos_b>>
  BY Climbs195 DEF DefStep, DefDue, Climbs
<1>2. /\ def_due' = 15 /\ ~ InBox(Cell(atk), DefCell')
  BY <1>1, DefStepFlies
<1>3. PICK N \in {148, 149}, c \in 0 .. 10, n \in Nat, m \in Nat : Approaching(N, c, n, m)
  BY <1>1 DEF Unmet
<1> DEFINE p == Ago(n + N)
           q == Ago(n)
<1>4. /\ vel \in Int \X Nat /\ atk \in Int \X Int /\ atk[2] \in Int
      /\ Seen(vel, N, p, q)
      /\ atk[1] = q[1] + n * vel[1] /\ atk[2] = q[2] + n * vel[2]
      /\ pos_a = Cell(p) /\ pos_b = Cell(q) /\ pos_b[2] \in Int
      /\ Gap \in Int /\ Gap = 100 * (378 - pos_b[2])
      /\ def[1] = StartPosition(pos_a, pos_b, 99)
      /\ def_due \in 0 .. 15 /\ atk_due \in 0 .. 10
  BY <1>1, <1>3, ApproachingFacts
<1>5. /\ 15 * (m + 1) - def_due = 10 * n + c - atk_due
      /\ N = 148 => c <= 5
      /\ N = 149 => c >= 5
      /\ p[2] >= 800 /\ pos_b[2] <= 380
      /\ def[2] = 37800 - 195 * m
      /\ IF Gap <= 600 THEN m = 0 ELSE NotDue(vel[2], N, n, Closing, Gap)
  BY <1>3 DEF Approaching
<1> HIDE DEF p, q
<1>6. ~ (Gap <= 600)
  <2> SUFFICES ASSUME Gap <= 600 PROVE FALSE
    OBVIOUS
  <2>1. m = 0 /\ Cell(q)[2] >= 372
    BY <1>4, <1>5
  <2>2. n <= 2
    BY <1>1, <1>4, <1>5, <2>1
  <2>3. Flown(vel, q, n, atk)
    <3>1. Cell(atk)[1] \in Free
      BY DefDueFacts DEF DefStep
    <3> QED
      BY <1>4, <3>1 DEF Flown
  <2>4. atk[2] < 38100
    BY <1>1 DEF AboveGoal
  <2>5. InBox(Cell(atk), <<StartPosition(Cell(p), Cell(q), 99), 376>>)
    <3>1. NearGround(vel, N, p, q, n, atk)
      BY <1>4, <2>1, <2>2, <2>3, <2>4 DEF NearGround
    <3> QED
      BY <3>1, MeetsAtOnce
  <2>6. DefCell' = <<StartPosition(Cell(p), Cell(q), 99), 376>>
    <3>1. def'[1] = StartPosition(Cell(p), Cell(q), 99) /\ def'[2] = 37605
      BY <1>1, <1>4, <1>5, <2>1
    <3>2. 37605 \div 100 = 376
      OBVIOUS
    <3> QED
      BY <3>1, <3>2 DEF DefCell
  <2> QED
    BY <1>2, <2>5, <2>6
<1>7. 15 * ((m + 1) + 1) - def_due' = 10 * n + c - atk_due'
  BY <1>1, <1>2, <1>4, <1>5
<1>8. /\ pos_a' = Cell(Ago(n + N)') /\ pos_b' = Cell(Ago(n)')
      /\ Ago(n + N)'[2] >= 800 /\ pos_b'[2] <= 380
  <2>1. Ago(n + N)' = p /\ Ago(n)' = q
    BY <1>1 DEF Ago, p, q
  <2> QED
    BY <1>1, <1>4, <1>5, <2>1
<1>9. def'[2] = 37800 - 195 * (m + 1)
  BY <1>1, <1>5
<1>10. IF Gap' <= 600 THEN m + 1 = 0 ELSE NotDue(vel'[2], N, n, Closing', Gap')
  <2>1. Gap' = Gap /\ Closing' = Closing /\ vel' = vel
    BY <1>1 DEF Gap, Closing
  <2> QED
    BY <1>5, <1>6, <2>1
<1>11. Approaching(N, c, n, m + 1)'
  BY <1>5, <1>7, <1>8, <1>9, <1>10 DEF Approaching, Cell, NotDue, Due
<1> QED
  BY <1>11

\* Every step keeps a defender with all its samples and its target on their ways.
LEMMA NextUnmet == IInv /\ AboveGoal /\ Sampling /\ Unmet /\ [Next]_vars => Unmet'
<1>1. IInv /\ FirstSample => Unmet'
  BY DEF FirstSample, Unmet
<1>2. Unmet /\ UNCHANGED vars => Unmet'
  <2> SUFFICES ASSUME Unmet, UNCHANGED vars,
                      phase' = "fly", i' = SAMPLE_LIMIT, outcome' = "flying"
               PROVE  \E N \in {148, 149}, c \in 0 .. 10, n \in Nat, m \in Nat :
                        Approaching(N, c, n, m)'
    BY DEF Unmet
  <2>1. PICK N \in {148, 149}, c \in 0 .. 10, n \in Nat, m \in Nat : Approaching(N, c, n, m)
    BY DEF Unmet, vars, defender
  <2>2. Approaching(N, c, n, m)'
    BY <2>1 DEF vars, defender, Approaching, Ago, Cell, Gap, Closing, NotDue, Due
  <2> QED
    BY <2>2
<1> QED
  BY <1>1, <1>2, AtkStepUnmet, SampleUnmet, DefStepUnmet DEF Next

\* An attacker that reaches the goal is in its rows.
LEMMA HitsGoal ==
  ASSUME NEW c \in Int \X Int, Hits(c) = "goal"
  PROVE  c[2] >= 381
<1> DEFINE met == phase = "fly" /\ def[2] < 100 * DEF_MISSILE_START_Y /\ InBox(DefCell, c)
           first == def[1] = c[1] - MISSILE_RADIUS
<1>1. Hits(c) = CASE AtLeftWall(c) -> "wall"
                  [] ~ AtLeftWall(c) /\ met /\ (AtGoal(c) => first) -> "defender"
                  [] ~ AtLeftWall(c) /\ AtGoal(c) /\ ~ (met /\ first) -> "goal"
                  [] ~ AtLeftWall(c) /\ ~ AtGoal(c) /\ ~ met /\ AtRightWall(c) -> "wall"
                  [] OTHER -> "flying"
  BY Zenon DEF Hits
<1> HIDE DEF met, first
<1>2. AtGoal(c)
  BY <1>1
<1> QED
  BY <1>2 DEF AtGoal, MISSILE_RADIUS, GOAL_START_Y

\* The period in which the meeting is due is over before the target is at the
\* goal.
LEMMA AtkStepSaves == IInv /\ Unmet /\ AtkStep => FullSamplingSaves'
<1> SUFFICES ASSUME IInv, Unmet, AtkStep, phase' = "fly", i' = SAMPLE_LIMIT,
                    pos_b'[2] < DEF_MISSILE_START_Y - MISSILE_RADIUS - 1
             PROVE  outcome' # "goal"
  BY DEF FullSamplingSaves
<1>1. /\ phase = "fly" /\ i = SAMPLE_LIMIT /\ outcome = "flying"
      /\ pos_b[2] < 372
      /\ atk' = <<atk[1] + vel[1], atk[2] + vel[2]>> /\ outcome' = Hits(Cell(atk'))
      /\ atk' \in Int \X Nat
  BY Bounds, AtkStepFlies DEF AtkStep, defender, MISSILE_RADIUS
<1>2. PICK N \in {148, 149}, c \in 0 .. 10, n \in Nat, m \in Nat : Approaching(N, c, n, m)
  BY <1>1 DEF Unmet
<1> DEFINE p == Ago(n + N)
           q == Ago(n)
           y == vel[2]
           b == Cell(q)[2]
           ea == p[2] - 100 * Cell(p)[2]
           eb == q[2] - 100 * b
<1>3. /\ q \in Int \X Int /\ Seen(vel, N, p, q) /\ Sight(p, q, Closing, Gap)
      /\ atk[2] = q[2] + n * y /\ pos_b = Cell(q) /\ pos_b[2] \in Int
      /\ Gap = 100 * (378 - pos_b[2])
      /\ Gap > 600 => Sighted(y, N, Closing, Gap)
  BY <1>1, <1>2, ApproachingFacts
<1>4. b \in Int /\ b < 372 /\ Gap = 100 * (378 - b) /\ Gap > 600
  BY <1>1, <1>3
<1>5. Sighted(y, N, Closing, Gap) /\ NotDue(y, N, n, Closing, Gap)
  <2>1. NotDue(y, N, n, Closing, Gap)
    BY <1>2, <1>4 DEF Approaching
  <2> QED
    BY <1>3, <1>4, <2>1
<1>6. /\ ea \in 0 .. 99 /\ eb \in 0 .. 99
      /\ 100 * (b - Cell(p)[2]) = N * y + ea - eb
      /\ Cell(p)[2] \in Int
  <2>1. Seen(vel, N, p, q)
    BY <1>3
  <2>2. /\ Cell(p) \in Free \X Int
        /\ ea \in 0 .. 99 /\ eb \in 0 .. 99
        /\ 100 * (b - Cell(p)[2]) = N * y + ea - eb
    <3> HIDE DEF p, q
    <3> QED
      BY <2>1, FlightSampled
  <2>3. Cell(p)[2] \in Int
    BY <2>2
  <2> QED
    BY <2>2, <2>3
<1>7. Closing = 100 * (b - Cell(p)[2]) + 19305
  BY <1>3 DEF Sight
<1>8. y \in Nat /\ y <= 100 /\ N * y \in Nat
  BY <1>5 DEF Sighted
<1>9. N * y <= Closing - 19206
  <2> DEFINE M == N * y
  <2> HIDE DEF M, ea, eb, b
  <2>1. 100 * (b - Cell(p)[2]) = M + ea - eb /\ M \in Nat
    BY <1>6, <1>8 DEF M
  <2>2. M <= Closing - 19206
    BY <1>4, <1>6, <1>7, <2>1
  <2> QED
    BY <2>2 DEF M
<1>10. n * y \in Nat /\ n * y <= Gap
  BY <1>5, <1>9, NotLower
<1>11. atk'[2] < 38100
  <2> DEFINE P == n * y
  <2>1. atk'[2] = q[2] + P + y /\ q[2] \in Int
    BY <1>1, <1>3, <1>8, <1>10
  <2>2. q[2] = 100 * b + eb
    BY <1>4, <2>1
  <2> HIDE DEF P, eb, b, y
  <2> QED
    BY <1>4, <1>6, <1>8, <1>10, <2>1, <2>2 DEF P
<1>12. Cell(atk') \in Int \X Int /\ Cell(atk')[2] < 381
  <2>1. atk' \in Int \X Int /\ atk'[2] >= 0
    BY <1>1
  <2>2. Cell(atk') \in Int \X Int /\ 100 * Cell(atk')[2] <= atk'[2]
    BY <2>1, CellFacts
  <2> QED
    BY <1>11, <2>1, <2>2
<1> QED
  BY <1>1, <1>12, HitsGoal

-----------------------------------------------------------------------------
\* The theorems

\* A defender that took all its samples does not pass its target: as long as
\* the attacker flies on, their meeting is still ahead.  This holds for any
\* speeds and angles an attacker may have, any start and any delays.
THEOREM SpecUnmet == Spec => [](AboveGoal /\ Sampling /\ Unmet)
<1>1. Init => AboveGoal /\ Sampling /\ Unmet
  BY InitAboveGoal DEF Init, Sampling, Unmet
<1>2. IInv /\ (AboveGoal /\ Sampling /\ Unmet) /\ [Next]_vars
        => (AboveGoal /\ Sampling /\ Unmet)'
  BY NextAboveGoal, NextSampling, NextUnmet
<1> QED
  BY <1>1, <1>2, SpecIInv, PTL DEF Spec

\* A defender that took all its samples never ends its flight in a wall, which
\* is how collect_positions and get_expected_position_x would let a target
\* pass: it hits the target, or the target ends otherwise before.
THEOREM SpecFullSamplingHits == Spec => FullSamplingHits
<1>1. IInv /\ Unmet /\ [Next]_vars
        => [phase = "fly" /\ phase' = "wait" => i < SAMPLE_LIMIT]_vars
  <2> SUFFICES ASSUME IInv, Unmet, Next, phase = "fly", phase' = "wait"
               PROVE  i < SAMPLE_LIMIT
    OBVIOUS
  <2>1. DefStep
    BY DEF Next, AtkStep, FirstSample, Sample, defender
  <2>2. i # SAMPLE_LIMIT
    BY <2>1, DefStepFlies
  <2>3. i \in 0 .. SAMPLE_LIMIT /\ SAMPLE_LIMIT = 100
    BY DEF IInv, Types, SAMPLE_LIMIT, TRAJECTORY_PRECISION
  <2> QED
    BY <2>2, <2>3
<1> QED
  BY <1>1, SpecIInv, SpecUnmet, PTL DEF Spec, FullSamplingHits

\* Such a defender also keeps the goal from its target, if that target was above
\* the defenders' first rows when the last sample was taken: collect_positions
\* and get_expected_position_x then need no second try.
THEOREM SpecFullSamplingSaves == Spec => []FullSamplingSaves
<1>1. Init => FullSamplingSaves
  BY DEF Init, FullSamplingSaves
<1>2. IInv /\ Unmet /\ FullSamplingSaves /\ [Next]_vars => FullSamplingSaves'
  <2> SUFFICES ASSUME IInv, Unmet, FullSamplingSaves, [Next]_vars PROVE FullSamplingSaves'
    OBVIOUS
  <2>1. CASE AtkStep
    BY <2>1, AtkStepSaves
  <2>2. CASE FirstSample
    BY <2>2 DEF FirstSample, FullSamplingSaves
  <2>3. CASE Sample
    BY <2>3 DEF Sample, DefDue, FullSamplingSaves
  <2>4. CASE DefStep
    BY <2>4 DEF DefStep, DefDue, FullSamplingSaves
  <2>5. CASE UNCHANGED vars
    BY <2>5 DEF vars, defender, FullSamplingSaves
  <2> QED
    BY <2>1, <2>2, <2>3, <2>4, <2>5 DEF Next
<1> QED
  BY <1>1, <1>2, SpecIInv, SpecUnmet, PTL DEF Spec
=============================================================================
