----------------------------- MODULE RingLemmas -----------------------------
(***************************************************************************)
(* Arithmetic of ring buffers: an unbounded or wrapping counter and the    *)
(* slot it points to, counter % size.                                      *)
(***************************************************************************)
EXTENDS Integers, TLAPS

\* A counter points into the ring.
LEMMA ModRange ==
  ASSUME NEW a \in Int, NEW n \in Nat \ {0}
  PROVE  a % n \in 0 .. n - 1
  OBVIOUS

\* Quotient and remainder.
LEMMA ModDef ==
  ASSUME NEW a \in Int, NEW n \in Nat \ {0}
  PROVE  /\ a \div n \in Int
         /\ a = n * (a \div n) + (a % n)
  OBVIOUS

\* Two different counters less than a ring apart point to different slots.
LEMMA ModDistinct ==
  ASSUME NEW a \in Int, NEW b \in Int, NEW n \in Nat \ {0}, a < b, b - a < n
  PROVE  a % n # b % n
<1> DEFINE qa == a \div n
           qb == b \div n
<1> SUFFICES ASSUME a % n = b % n
             PROVE  FALSE
  OBVIOUS
<1>1. /\ a = n * qa + (a % n) /\ qa \in Int
      /\ b = n * qb + (b % n) /\ qb \in Int
  BY ModDef
<1>2. a % n \in Int
  BY ModRange
<1> HIDE DEF qa, qb
<1>3. b - a = n * (qb - qa)
  BY <1>1, <1>2
<1>4. CASE qb - qa >= 1
  <2>1. n * (qb - qa) >= n
    BY <1>1, <1>4
  <2> QED BY <2>1, <1>3
<1>5. CASE qb - qa <= 0
  <2>1. n * (qa - qb) >= 0
    BY <1>1, <1>5
  <2> QED BY <2>1, <1>1, <1>3
<1> QED BY <1>1, <1>4, <1>5

\* A multiple of n other than 0 is at least n away from 0.
LEMMA Multiple ==
  ASSUME NEW n \in Nat \ {0}, NEW d \in Int, d # 0
  PROVE  n * d >= n \/ n * d <= -n
<1>1. CASE d >= 1
  BY <1>1
<1>2. CASE d <= -1
  <2>1. n * (-d) >= n
    BY <1>2
  <2> QED BY <2>1
<1> QED BY <1>1, <1>2

\* Quotients are unique.
LEMMA ModUnique ==
  ASSUME NEW n \in Nat \ {0}, NEW q \in Int, NEW r \in 0 .. n - 1
  PROVE  (n * q + r) % n = r
<1> DEFINE a == n * q + r
           d == q - (a \div n)
<1>1. a \in Int
  OBVIOUS
<1>2. a = n * (a \div n) + (a % n) /\ a \div n \in Int /\ a % n \in 0 .. n - 1
  BY <1>1, ModDef, ModRange
<1>3. d \in Int /\ n * d = (a % n) - r
  BY <1>2
<1> HIDE DEF a, d
<1>4. d = 0
  BY <1>2, <1>3, Multiple
<1>5. a % n = r
  BY <1>2, <1>3, <1>4
<1> QED BY <1>5 DEF a

\* Adding at most n to a counter moves its slot, around the end of the ring.
LEMMA ModAdd ==
  ASSUME NEW n \in Nat \ {0}, NEW c \in Int, NEW i \in 0 .. n
  PROVE  /\ (c % n) + i < n => (c + i) % n = (c % n) + i
         /\ (c % n) + i >= n => (c + i) % n = (c % n) + i - n
<1> DEFINE q == c \div n
           r == c % n
<1>1. c = n * q + r /\ q \in Int /\ r \in 0 .. n - 1
  BY ModDef, ModRange
<1> HIDE DEF q, r
<1>2. ASSUME r + i < n
      PROVE  (c + i) % n = r + i
  <2>1. r + i \in 0 .. n - 1
    BY <1>1, <1>2
  <2>2. (n * q + (r + i)) % n = r + i
    BY <2>1, <1>1, ModUnique
  <2>3. c + i = n * q + (r + i)
    BY <1>1
  <2> QED BY <2>2, <2>3, Zenon
<1>3. ASSUME r + i >= n
      PROVE  (c + i) % n = r + i - n
  <2>1. r + i - n \in 0 .. n - 1 /\ q + 1 \in Int
    BY <1>1, <1>3
  <2>2. (n * (q + 1) + (r + i - n)) % n = r + i - n
    BY <2>1, ModUnique
  <2>3. c + i = n * (q + 1) + (r + i - n)
    BY <1>1
  <2> QED BY <2>2, <2>3, Zenon
<1> QED BY <1>2, <1>3 DEF r

\* The slot of a counter that itself wraps at a multiple w of the ring size is
\* the slot of the unbounded counter.
LEMMA ModMod ==
  ASSUME NEW n \in Nat \ {0}, NEW w \in Nat \ {0}, w % n = 0,
         NEW c \in Int
  PROVE  (c % w) % n = c % n
<1> DEFINE q == c \div w
           h == c % w
           k == w \div n
           a == h \div n
           r == h % n
<1>1. c = w * q + h /\ q \in Int /\ h \in 0 .. w - 1
  BY ModDef, ModRange
<1>2. w = n * k /\ k \in Int
  BY ModDef
<1>3. h = n * a + r /\ a \in Int /\ r \in 0 .. n - 1
  BY <1>1, ModDef, ModRange
<1> HIDE DEF q, h, k, a, r
<1>4. c = n * (k * q + a) + r /\ k * q + a \in Int
  <2>1. (n * k) * q = n * (k * q)
    BY <1>1, <1>2
  <2>2. n * (k * q + a) = n * (k * q) + n * a
    BY <1>1, <1>2, <1>3
  <2> QED BY <2>1, <2>2, <1>1, <1>2, <1>3
<1>5. c % n = r
  BY <1>3, <1>4, ModUnique
<1> QED BY <1>5 DEF r, h

\* Rounding a wrapping counter down to the ring size leaves a ring's room
\* below the wrap.
LEMMA RoundDown ==
  ASSUME NEW n \in Nat \ {0}, NEW w \in Nat \ {0}, w % n = 0,
         NEW h \in 0 .. w - 1
  PROVE  /\ 0 <= h - (h % n)
         /\ h - (h % n) + n <= w
<1> DEFINE k == w \div n
           a == h \div n
<1>1. w = n * k /\ k \in Int
  BY ModDef
<1>2. h = n * a + (h % n) /\ a \in Int /\ h % n \in 0 .. n - 1
  BY ModDef, ModRange
<1> HIDE DEF k, a
<1>3. a >= 0
  <2>1. ASSUME a <= -1 PROVE FALSE
    <3>1. n * (-a) >= n
      BY <1>2, <2>1
    <3> QED BY <3>1, <1>2
  <2> QED BY <2>1, <1>2
<1>4. a < k
  <2>1. ASSUME k - a <= 0 PROVE FALSE
    <3>1. n * (a - k) >= 0
      BY <1>1, <1>2, <2>1
    <3>2. n * (a - k) = n * a - n * k
      BY <1>1, <1>2
    <3> QED BY <3>1, <3>2, <1>1, <1>2
  <2> QED BY <2>1, <1>1, <1>2
<1>5. n * a >= 0
  BY <1>2, <1>3
<1>6. n * a + n <= n * k
  <2>1. n * (k - a) >= n
    BY <1>1, <1>2, <1>4
  <2>2. n * (k - a) = n * k - n * a
    BY <1>1, <1>2
  <2> QED BY <2>1, <2>2, <1>1, <1>2
<1> QED BY <1>1, <1>2, <1>5, <1>6
=============================================================================
