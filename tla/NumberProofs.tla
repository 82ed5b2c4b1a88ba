----------------------------- MODULE NumberProofs -----------------------------
(***************************************************************************)
(* Facts about naturals.  First least and greatest elements of sets, and   *)
(* arguments of least value: what the searches of our_lib.c, schedule.c    *)
(* and patch_3 find exists.  Then the arithmetic of schedule.c: smoothing  *)
(* of bursts and the two quotients of goodness, cut to integers.           *)
(***************************************************************************)
EXTENDS FiniteSetsExt, WellFoundedInduction, TLAPS

\* A non-empty set of naturals has a least element.
LEMMA MinOfNaturals ==
  ASSUME NEW S \in SUBSET Nat, S # {}
  PROVE  Min(S) \in S /\ \A y \in S : Min(S) <= y
<1> DEFINE Less == {ss \in Nat \X Nat : ss[1] < ss[2]}
<1>1. OpToRel(<, Nat) = Less
  BY Zenon DEF OpToRel
<1>2. IsWellFoundedOn(Less, Nat)
  BY <1>1, NatLessThanWellFounded, Zenon
<1>3. PICK x \in S : \A y \in S : ~ (<<y, x>> \in Less)
  <2> HIDE DEF Less
  <2> QED
    BY <1>2, WFMin
<1>4. ASSUME NEW y \in S
      PROVE  x <= y
  <2>1. <<y, x>> \in Nat \X Nat /\ <<y, x>>[1] = y /\ <<y, x>>[2] = x
    OBVIOUS
  <2>2. ~ (y < x)
    BY <1>3, <2>1, Zenon
  <2> QED
    BY <2>2
<1> QED
  BY <1>4 DEF Min

\* A non-empty set of naturals with a bound has a greatest element.
LEMMA MaxOfNaturals ==
  ASSUME NEW S \in SUBSET Nat, S # {}, NEW b \in Nat, \A y \in S : y <= b
  PROVE  Max(S) \in S /\ \A y \in S : y <= Max(S)
<1> DEFINE Room == {r \in Nat : \E y \in S : r = b - y}
<1>1. PICK m \in S : \A y \in S : b - m <= b - y
  <2>1. Room # {} /\ Room \in SUBSET Nat
    <3>1. PICK y \in S : TRUE
      OBVIOUS
    <3>2. b - y \in Nat /\ y \in Nat
      OBVIOUS
    <3> QED
      BY <3>2
  <2>2. Min(Room) \in Room /\ \A r \in Room : Min(Room) <= r
    <3> HIDE DEF Room
    <3> QED
      BY <2>1, MinOfNaturals
  <2>3. PICK m \in S : Min(Room) = b - m
    BY <2>2
  <2>4. ASSUME NEW y \in S PROVE b - m <= b - y
    <3>1. b - y \in Room
      OBVIOUS
    <3> QED
      BY <2>2, <2>3, <3>1
  <2> QED
    BY <2>4
<1>2. \A y \in S : m >= y
  BY <1>1
<1> QED
  BY <1>2 DEF Max

\* The greater of two naturals.
LEMMA MaxOfTwo ==
  ASSUME NEW a \in Nat, NEW b \in Nat, b <= a
  PROVE  Max({a, b}) = a
<1>1. {a, b} \in SUBSET Nat /\ {a, b} # {} /\ \A y \in {a, b} : y <= a
  OBVIOUS
<1>2. Max({a, b}) \in {a, b} /\ \A y \in {a, b} : y <= Max({a, b})
  BY <1>1, MaxOfNaturals
<1> QED
  BY <1>2

\* Among finitely many positions some have the least value, and one of those is
\* the last.
LEMMA LastOfLeast ==
  ASSUME NEW n \in Nat \ {0}, NEW val \in [1..n -> Nat]
  PROVE  LET least == {i \in 1..n : \A j \in 1..n : val[i] <= val[j]}
         IN  Max(least) \in least
<1> DEFINE least == {i \in 1..n : \A j \in 1..n : val[i] <= val[j]}
           vals  == {v \in Nat : \E i \in 1..n : v = val[i]}
<1>1. vals # {} /\ vals \in SUBSET Nat
  <2>1. 1 \in 1..n /\ val[1] \in Nat
    OBVIOUS
  <2> QED
    BY <2>1
<1>2. Min(vals) \in vals /\ \A v \in vals : Min(vals) <= v
  <2> HIDE DEF vals
  <2> QED
    BY <1>1, MinOfNaturals
<1>3. PICK i \in 1..n : Min(vals) = val[i]
  BY <1>2
<1>4. \A j \in 1..n : val[j] \in vals
  OBVIOUS
<1>5. i \in least
  BY <1>2, <1>3, <1>4
<1>6. least # {} /\ least \in SUBSET Nat /\ \A y \in least : y <= n
  BY <1>5
<1> HIDE DEF least
<1>7. Max(least) \in least
  BY <1>6, MaxOfNaturals
<1> QED
  BY <1>7 DEF least

-----------------------------------------------------------------------------
(* Quotients.                                                              *)

\* What a quotient of naturals is.
LEMMA Quotient ==
  ASSUME NEW a \in Nat, NEW b \in Nat \ {0}
  PROVE  /\ a \div b \in Nat
         /\ b * (a \div b) <= a
         /\ a < b * (a \div b) + b
         /\ b <= a => a \div b >= 1
         /\ a \div b <= a
<1>1. a \div b \in Nat /\ b * (a \div b) <= a /\ a < b * (a \div b) + b
  BY SMT
<1> DEFINE q == a \div b
<1>2. q \in Nat /\ b * q <= a /\ a < b * q + b
  BY <1>1
<1> HIDE DEF q
<1>3. b <= a => q >= 1
  <2> SUFFICES ASSUME b <= a, q = 0 PROVE FALSE
    BY <1>2
  <2>1. b * q = 0
    OBVIOUS
  <2> QED
    BY <1>2, <2>1
<1>4. q <= a
  <2>1. q <= b * q
    <3>1. b >= 1
      OBVIOUS
    <3> QED
      BY <1>2, <3>1
  <2>2. b * q \in Nat
    BY <1>2
  <2> QED
    BY <1>2, <2>1, <2>2
<1> QED
  BY <1>2, <1>3, <1>4 DEF q

\* A factor of at least 1 makes a product no smaller.
LEMMA Monotone ==
  ASSUME NEW a \in Nat, NEW b \in Nat, NEW c \in Nat, a <= b
  PROVE  a * c <= b * c /\ c * a <= c * b
<1>1. PICK d \in Nat : b = a + d
  <2>1. b - a \in Nat /\ b = a + (b - a)
    OBVIOUS
  <2> QED
    BY <2>1
<1>2. d * c \in Nat /\ b * c = a * c + d * c
  BY <1>1
<1>3. a * c \in Nat /\ c * a = a * c /\ c * b = b * c
  OBVIOUS
<1> QED
  BY <1>2, <1>3

\* What it means for c to be chosen over t by goodness.  P and Q are 1 + the
\* predictions of t and c, m that of the least prediction, v and w 1 + the times t
\* and c have waited, W that of the longest.
LEMMA GoodnessBoundsWaiting ==
  ASSUME NEW P \in Nat \ {0}, NEW Q \in Nat \ {0}, NEW m \in Nat \ {0},
         NEW v \in Nat \ {0}, NEW w \in Nat \ {0}, NEW W \in Nat \ {0},
         m <= P, m <= Q, v <= W, w <= W,
         (Q \div m) * (W \div w) <= (P \div m) * (W \div v)
  PROVE  v <= (1 + P) * w
<1> DEFINE qp == P \div m
           qq == Q \div m
           rv == W \div v
           rw == W \div w
<1>1. /\ qp \in Nat /\ qp <= P
      /\ qq \in Nat /\ qq >= 1
      /\ rv \in Nat /\ v * rv <= W
      /\ rw \in Nat /\ W < w * rw + w
  BY Quotient
<1>2. qq * rw <= qp * rv
  OBVIOUS
<1> HIDE DEF qp, qq, rv, rw
\* 1 <= qq, so rw <= qp * rv <= P * rv.
<1>3. rw <= P * rv
  <2>1. 1 * rw <= qq * rw
    BY <1>1, Monotone
  <2>2. qp * rv <= P * rv
    BY <1>1, Monotone
  <2>3. qq * rw \in Nat /\ qp * rv \in Nat /\ P * rv \in Nat /\ 1 * rw = rw
    BY <1>1
  <2> QED
    BY <1>1, <1>2, <2>1, <2>2, <2>3
\* So W < w * P * rv + w, and times v: W * v < w * P * W + w * v.
<1>4. W < w * (P * rv) + w
  <2>1. P * rv \in Nat
    BY <1>1
  <2>2. w * rw <= w * (P * rv)
    BY <1>1, <1>3, <2>1, Monotone
  <2>3. w * rw \in Nat /\ w * (P * rv) \in Nat
    BY <1>1, <2>1
  <2> QED
    BY <1>1, <2>2, <2>3
<1>5. v * (w * (P * rv) + w) <= W * ((1 + P) * w)
  <2>1. v * (w * (P * rv) + w) = (w * P) * (v * rv) + v * w
    BY <1>1
  <2>2. (w * P) * (v * rv) <= (w * P) * W
    <3>1. v * rv \in Nat /\ w * P \in Nat
      BY <1>1
    <3> QED
      BY <1>1, <3>1, Monotone
  <2>3. v * w <= W * w
    BY Monotone
  <2>4. W * ((1 + P) * w) = (w * P) * W + W * w
    OBVIOUS
  <2>5. (w * P) * (v * rv) \in Nat /\ v * w \in Nat /\ (w * P) * W \in Nat /\ W * w \in Nat
    BY <1>1
  <2> QED
    BY <2>1, <2>2, <2>3, <2>4, <2>5
<1>6. ASSUME (1 + P) * w < v PROVE FALSE
  <2> DEFINE x == (1 + P) * w
             y == w * (P * rv) + w
  <2>1. x \in Nat /\ y \in Nat /\ x < v /\ W < y
    <3>1. P * rv \in Nat /\ (1 + P) * w \in Nat
      BY <1>1
    <3> QED
      BY <1>4, <1>6, <3>1
  <2>2. v * y <= W * x
    BY <1>5
  <2> HIDE DEF x, y
  <2>3. W * x <= W * v
    BY <2>1, Monotone
  <2>4. v * (W + 1) <= v * y
    <3>1. W + 1 <= y
      BY <2>1
    <3> QED
      BY <2>1, <3>1, Monotone
  <2>5. v * (W + 1) = v * W + v /\ W * v = v * W /\ v * W \in Nat
    OBVIOUS
  <2>6. v * y \in Nat /\ W * x \in Nat
    BY <2>1
  <2> QED
    BY <2>2, <2>3, <2>4, <2>5, <2>6
<1>7. (1 + P) * w \in Nat
  OBVIOUS
<1> QED
  BY <1>6, <1>7

=============================================================================
