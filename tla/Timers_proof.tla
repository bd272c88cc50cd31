----------------------------- MODULE Timers_proof -----------------------------
(***************************************************************************)
(* The radix queue of timers is consistent, its timers are alarms, and no  *)
(* deadline is missed, on the steady and on the low-resolution clock, for  *)
(* any number of timers and of bits of a time point.                       *)
(***************************************************************************)
EXTENDS MC_Timers, NaturalsInduction, WellFoundedInduction, TLAPS

-----------------------------------------------------------------------------
(* Recursive functions over an interval.                                   *)

\* A set of natural numbers has a least element.
LEMMA LeastNatural ==
    ASSUME NEW S \in SUBSET Nat, S # {}
    PROVE  \E i \in S : \A j \in S : i <= j
<1>1. PICK i \in S : \A j \in S : ~ (<<j, i>> \in OpToRel(<, Nat))
  BY NatLessThanWellFounded, WFMin, Zenon
<1>2. \A j \in S : ~ (j < i)
  BY <1>1 DEF OpToRel
<1> QED BY <1>2

\* A set of natural numbers that has 0, and n + 1 with n, has all.
LEMMA Naturals ==
    ASSUME NEW S \in SUBSET Nat, 0 \in S, \A n \in S : n + 1 \in S
    PROVE  \A n \in Nat : n \in S
<1> SUFFICES ASSUME NEW n \in Nat \ S PROVE FALSE
  OBVIOUS
<1>1. PICK i \in Nat \ S : \A j \in Nat \ S : i <= j
  BY LeastNatural
<1>2. i - 1 \in Nat /\ i - 1 \in S /\ (i - 1) + 1 = i
  BY <1>1
<1> QED BY <1>1, <1>2

\* f has the first value and every next value of a recursion up to n.
Recursion(f, n, first, step) ==
    /\ f[0] = first
    /\ \A k \in 0 .. n - 1 : f[k + 1] = step[k + 1][f[k]]

\* There is a function that a recursion with values in S defines.
LEMMA RecursionExists ==
    ASSUME NEW S, NEW first \in S, NEW step \in [Nat -> [S -> S]], NEW n \in Nat
    PROVE  \E f \in [0 .. n -> S] : Recursion(f, n, first, step)
<1> DEFINE Defined == {m \in Nat : \E f \in [0 .. m -> S] : Recursion(f, m, first, step)}
<1>1. 0 \in Defined
  <2>1. [k \in 0 .. 0 |-> first] \in [0 .. 0 -> S] /\ Recursion([k \in 0 .. 0 |-> first], 0, first, step)
    BY DEF Recursion
  <2> QED BY <2>1
<1>2. ASSUME NEW m \in Defined PROVE m + 1 \in Defined
  <2>1. PICK f \in [0 .. m -> S] : Recursion(f, m, first, step)
    BY <1>2
  <2>2. PICK g : g = [k \in 0 .. m + 1 |-> IF k = m + 1 THEN step[k][f[m]] ELSE f[k]]
    OBVIOUS
  <2>3. m \in Nat /\ f[m] \in S /\ step[m + 1][f[m]] \in S
    <3>1. m \in Nat
      BY <1>2
    <3>2. m + 1 \in Nat /\ f[m] \in S
      BY <3>1
    <3>3. step[m + 1] \in [S -> S]
      BY <3>2
    <3> QED BY <3>1, <3>2, <3>3
  <2>4. g \in [0 .. m + 1 -> S]
    BY <2>2, <2>3
  <2>5. g[0] = first
    BY <2>1, <2>2, <2>3 DEF Recursion
  <2>6. ASSUME NEW k \in 0 .. (m + 1) - 1 PROVE g[k + 1] = step[k + 1][g[k]]
    <3>1. CASE k = m
      BY <2>2, <2>3, <3>1
    <3>2. CASE k # m
      <4>1. k \in 0 .. m - 1 /\ k + 1 # m + 1 /\ k # m + 1 /\ k \in 0 .. m + 1 /\ k + 1 \in 0 .. m + 1
        BY <2>3, <3>2
      <4>2. g[k + 1] = f[k + 1] /\ g[k] = f[k]
        BY <2>2, <4>1
      <4> QED BY <2>1, <4>1, <4>2 DEF Recursion
    <3> QED BY <3>1, <3>2
  <2>7. Recursion(g, m + 1, first, step) /\ m + 1 \in Nat
    BY <2>3, <2>5, <2>6 DEF Recursion
  <2> QED BY <2>4, <2>7
<1> HIDE DEF Defined
<1>3. n \in Defined
  BY <1>1, <1>2, Naturals DEF Defined
<1> QED BY <1>3 DEF Defined

-----------------------------------------------------------------------------
(* Powers of two and leading bits.                                         *)

LEMMA PowerType ==
    /\ Power \in [0 .. Bits -> Nat \ {0}]
    /\ Power[0] = 1
    /\ \A n \in 0 .. Bits - 1 : Power[n + 1] = 2 * Power[n]
<1> DEFINE Walk(f) == [n \in 0 .. Bits |-> IF n = 0 THEN 1 ELSE 2 * f[n - 1]]
           double == [k \in Nat |-> [m \in Nat \ {0} |-> 2 * m]]
<1>1. Bits \in Nat
  BY TimeAssumption
<1>2. double \in [Nat -> [Nat \ {0} -> Nat \ {0}]]
  OBVIOUS
<1>3. \A k \in Nat, m \in Nat \ {0} : double[k][m] = 2 * m
  OBVIOUS
<1> HIDE DEF double
<1>4. PICK f \in [0 .. Bits -> Nat \ {0}] : Recursion(f, Bits, 1, double)
  <2>1. 1 \in Nat \ {0}
    OBVIOUS
  <2> QED BY <1>1, <1>2, <2>1, RecursionExists, Zenon
<1>5. f = Walk(f)
  <2>1. ASSUME NEW k \in 0 .. Bits, k # 0 PROVE f[k] = 2 * f[k - 1]
    <3>1. k - 1 \in 0 .. Bits - 1 /\ (k - 1) + 1 = k /\ k \in Nat /\ f[k - 1] \in Nat \ {0}
      BY <1>1, <2>1
    <3>2. f[k] = double[k][f[k - 1]]
      BY <1>4, <3>1 DEF Recursion
    <3> QED BY <1>3, <3>1, <3>2
  <2>2. f[0] = 1
    BY <1>4 DEF Recursion
  <2> QED BY <2>1, <2>2
<1>6. Power = CHOOSE g : g = Walk(g)
  BY Zenon DEF Power
<1>7. Power = Walk(Power)
  <2> HIDE DEF Walk
  <2> QED BY <1>5, <1>6, Zenon
<1>8. Power[0] = 1 /\ \A n \in 0 .. Bits - 1 : Power[n + 1] = 2 * Power[n]
  <2>1. \A n \in 0 .. Bits : Power[n] = IF n = 0 THEN 1 ELSE 2 * Power[n - 1]
    BY <1>7
  <2>2. ASSUME NEW n \in 0 .. Bits - 1 PROVE Power[n + 1] = 2 * Power[n]
    <3>1. n + 1 \in 0 .. Bits /\ n + 1 # 0 /\ (n + 1) - 1 = n
      BY <1>1
    <3> QED BY <2>1, <3>1
  <2> QED BY <1>1, <2>1, <2>2
<1>9. DOMAIN Power = 0 .. Bits /\ Power = [n \in DOMAIN Power |-> Power[n]]
  BY <1>7
<1>10. ASSUME NEW n \in 0 .. Bits PROVE Power[n] \in Nat \ {0}
  <2> DEFINE Positive == {m \in Nat : m <= Bits => Power[m] \in Nat \ {0}}
  <2>1. 0 \in Positive
    BY <1>8
  <2>2. ASSUME NEW m \in Positive PROVE m + 1 \in Positive
    <3>1. m \in Nat /\ (m <= Bits => Power[m] \in Nat \ {0})
      BY <2>2
    <3>2. CASE m + 1 <= Bits
      <4>1. m \in 0 .. Bits - 1 /\ Power[m] \in Nat \ {0}
        BY <1>1, <3>1, <3>2
      <4>2. Power[m + 1] = 2 * Power[m]
        BY <1>8, <4>1
      <4> QED BY <3>1, <4>1, <4>2
    <3> QED BY <3>1, <3>2
  <2>3. Positive \in SUBSET Nat /\ n \in Nat
    BY <1>1
  <2>4. n \in Positive
    <3> HIDE DEF Positive
    <3> QED BY <2>1, <2>2, <2>3, Naturals
  <2> QED BY <1>1, <2>4
<1> QED BY <1>8, <1>9, <1>10

LEMMA TimeFacts ==
    /\ Bits \in Nat
    /\ MaxTimestamp \in Nat /\ MaxTimestamp + 1 = Power[Bits]
    /\ Horizon \in Nat /\ 1 <= Horizon /\ Horizon <= MaxTimestamp
    /\ Time \in SUBSET Nat
    /\ \A p \in Period : p \in Nat /\ p # 0 /\ Horizon + p <= MaxTimestamp
<1>1. Bits \in Nat /\ Power[Bits] \in Nat \ {0}
  BY TimeAssumption, PowerType
<1> QED BY <1>1, TimeAssumption, PeriodAssumption DEF MaxTimestamp, Time

\* Leading bits: all of them tell time points apart, none does; fewer are
\* those of more without the last, and never overtake.
LEMMA LeadingBits ==
    /\ \A x \in Time, k \in 0 .. Bits : Leading(x, k) \in Nat
    /\ \A x \in Time : Leading(x, Bits) = x /\ Leading(x, 0) = 0
    /\ \A x \in Time, k \in 0 .. Bits - 1 : Leading(x, k) = Leading(x, k + 1) \div 2
    /\ \A x, y \in Time, k \in 0 .. Bits : x <= y => Leading(x, k) <= Leading(y, k)
<1>1. Bits \in Nat /\ \A x \in Time : x \in Nat /\ x < Power[Bits]
  BY TimeFacts DEF Time
<1>2. ASSUME NEW k \in 0 .. Bits PROVE Bits - k \in 0 .. Bits /\ Power[Bits - k] \in Nat \ {0}
  BY <1>1, PowerType
<1>3. ASSUME NEW x \in Time, NEW k \in 0 .. Bits PROVE Leading(x, k) \in Nat
  <2>1. \A w \in Nat \ {0}, y \in Nat : y \div w \in Nat
    OBVIOUS
  <2> QED BY <1>1, <1>2, <2>1 DEF Leading
<1>4. ASSUME NEW x \in Time PROVE Leading(x, Bits) = x /\ Leading(x, 0) = 0
  <2>1. \A y \in Nat : y \div 1 = y
    OBVIOUS
  <2>2. \A y \in Nat, w \in Nat \ {0} : y < w => y \div w = 0
    OBVIOUS
  <2>3. Bits - Bits = 0 /\ Bits - 0 = Bits /\ Power[0] = 1 /\ Power[Bits] \in Nat \ {0}
    BY <1>1, PowerType
  <2> QED BY <1>1, <2>1, <2>2, <2>3 DEF Leading
<1>5. ASSUME NEW x \in Time, NEW k \in 0 .. Bits - 1
      PROVE  Leading(x, k) = Leading(x, k + 1) \div 2
  <2>1. \A y \in Nat, w \in Nat \ {0} : y \div (2 * w) = (y \div w) \div 2
    OBVIOUS
  <2>2. Bits - (k + 1) \in 0 .. Bits - 1 /\ (Bits - (k + 1)) + 1 = Bits - k /\ k + 1 \in 0 .. Bits
    BY <1>1
  <2>3. Power[Bits - k] = 2 * Power[Bits - (k + 1)]
    BY <2>2, PowerType
  <2> QED BY <1>1, <1>2, <2>1, <2>2, <2>3 DEF Leading
<1>6. ASSUME NEW x \in Time, NEW y \in Time, NEW k \in 0 .. Bits, x <= y
      PROVE  Leading(x, k) <= Leading(y, k)
  <2>1. ASSUME NEW a \in Nat, NEW c \in Nat, a <= c, NEW w \in Nat \ {0} PROVE a \div w <= c \div w
    BY <2>1
  <2> QED BY <1>1, <1>2, <1>6, <2>1 DEF Leading
<1> QED BY <1>3, <1>4, <1>5, <1>6

\* Time points that have their k leading bits in common have fewer in common.
Agree(x, y, k) == Leading(x, k) = Leading(y, k)

LEMMA AgreeOnFewer ==
    ASSUME NEW x \in Time, NEW y \in Time, NEW k \in 0 .. Bits, Agree(x, y, k), NEW j \in 0 .. k
    PROVE  Agree(x, y, j)
<1> DEFINE Common == {d \in Nat : d <= k => Agree(x, y, k - d)}
<1>1. Bits \in Nat /\ k \in Nat /\ k <= Bits
  BY TimeFacts
<1>2. 0 \in Common
  <2>1. k - 0 = k
    BY <1>1
  <2> QED BY <2>1
<1>3. ASSUME NEW d \in Common PROVE d + 1 \in Common
  <2>1. d \in Nat /\ (d <= k => Agree(x, y, k - d))
    BY <1>3
  <2>2. CASE d + 1 <= k
    <3>1. k - (d + 1) \in 0 .. Bits - 1 /\ (k - (d + 1)) + 1 = k - d
      BY <1>1, <2>1, <2>2
    <3>2. Agree(x, y, (k - (d + 1)) + 1)
      BY <1>1, <2>1, <2>2, <3>1
    <3>3. Agree(x, y, k - (d + 1))
      BY <3>1, <3>2, LeadingBits DEF Agree
    <3> QED BY <2>1, <3>3
  <2> QED BY <2>1, <2>2
<1>4. Common \in SUBSET Nat
  OBVIOUS
<1>5. k - j \in Nat
  BY <1>1
<1>6. k - j \in Common
  <2> HIDE DEF Common
  <2> QED BY <1>2, <1>3, <1>4, <1>5, Naturals
<1>7. k - j <= k /\ k - (k - j) = j
  BY <1>1
<1> QED BY <1>6, <1>7

-----------------------------------------------------------------------------
(* The bucket of a time point.                                             *)

\* Two time points have exactly k leading bits in common.
Share(x, y, k) == Agree(x, y, k) /\ ~Agree(x, y, k + 1)

LEMMA SomeShared ==
    ASSUME NEW x \in Time, NEW y \in Time, x # y
    PROVE  \E k \in 0 .. Bits - 1 : Share(x, y, k)
<1> SUFFICES ASSUME \A k \in 0 .. Bits - 1 : ~Share(x, y, k) PROVE FALSE
  OBVIOUS
<1> DEFINE Common == {n \in Nat : n <= Bits => Agree(x, y, n)}
<1>1. Bits \in Nat
  BY TimeFacts
<1>2. 0 \in Common
  BY LeadingBits DEF Agree
<1>3. ASSUME NEW n \in Common PROVE n + 1 \in Common
  <2>1. n \in Nat /\ (n <= Bits => Agree(x, y, n))
    BY <1>3
  <2>2. CASE n + 1 <= Bits
    <3>1. n \in 0 .. Bits - 1 /\ Agree(x, y, n)
      BY <1>1, <2>1, <2>2
    <3>2. Agree(x, y, n + 1)
      BY <3>1 DEF Share
    <3> QED BY <2>1, <3>2
  <2> QED BY <2>1, <2>2
<1>4. Common \in SUBSET Nat
  OBVIOUS
<1>5. Bits \in Common
  <2> HIDE DEF Common
  <2> QED BY <1>1, <1>2, <1>3, <1>4, Naturals
<1>6. Agree(x, y, Bits)
  BY <1>1, <1>5
<1> QED BY <1>6, LeadingBits DEF Agree

LEMMA SharedOnce ==
    ASSUME NEW x \in Time, NEW y \in Time, NEW j \in 0 .. Bits - 1, NEW k \in 0 .. Bits - 1,
           Share(x, y, j), Share(x, y, k)
    PROVE  j = k
<1>1. Bits \in Nat /\ j \in Nat /\ k \in Nat
  BY TimeFacts
<1>2. ASSUME NEW a \in 0 .. Bits - 1, NEW b \in 0 .. Bits - 1, Share(x, y, a), Share(x, y, b), a < b
      PROVE  FALSE
  <2>1. b \in 0 .. Bits /\ a + 1 \in 0 .. b
    BY <1>1, <1>2
  <2>2. Agree(x, y, b) /\ ~Agree(x, y, a + 1)
    BY <1>2 DEF Share
  <2> QED BY <2>1, <2>2, AgreeOnFewer
<1>3. ~(j < k) /\ ~(k < j)
  BY <1>2
<1> QED BY <1>1, <1>3

\* get_index, in these words.
LEMMA IndexFacts ==
    ASSUME NEW x \in Time, NEW l \in Time
    PROVE  /\ get_index(x, l) \in Bucket
           /\ x <= l => get_index(x, l) = Bits
           /\ x > l => /\ get_index(x, l) \in 0 .. Bits - 1
                       /\ Share(x, l, get_index(x, l))
           /\ \A k \in 0 .. Bits - 1 : x > l /\ Share(x, l, k) => get_index(x, l) = k
<1>1. Bits \in Nat /\ x \in Nat /\ l \in Nat
  BY TimeFacts
<1>2. get_index(x, l) = IF x <= l THEN Bits ELSE CHOOSE k \in 0 .. Bits - 1 : Share(x, l, k)
  <2>1. get_index(x, l) = IF x <= l THEN Bits
                          ELSE CHOOSE k \in 0 .. Bits - 1 :
                                 Leading(x, k) = Leading(l, k) /\ Leading(x, k + 1) # Leading(l, k + 1)
    BY Zenon DEF get_index, Index
  <2> QED BY <2>1, Zenon DEF Share, Agree
<1>3. ASSUME x > l
      PROVE  get_index(x, l) \in 0 .. Bits - 1 /\ Share(x, l, get_index(x, l))
  <2>1. \E k \in 0 .. Bits - 1 : Share(x, l, k)
    BY <1>1, <1>3, SomeShared
  <2>2. get_index(x, l) = CHOOSE k \in 0 .. Bits - 1 : Share(x, l, k)
    BY <1>1, <1>2, <1>3
  <2> QED BY <2>1, <2>2, Zenon
<1>4. ASSUME NEW k \in 0 .. Bits - 1, x > l, Share(x, l, k) PROVE get_index(x, l) = k
  BY <1>3, <1>4, SharedOnce
<1>5. x <= l => get_index(x, l) = Bits
  BY <1>2
<1>6. get_index(x, l) \in Bucket
  BY <1>1, <1>3, <1>5 DEF Bucket
<1> QED BY <1>3, <1>4, <1>5, <1>6

\* What is in a higher bucket is sooner.
LEMMA HigherIsSooner ==
    ASSUME NEW x \in Time, NEW y \in Time, NEW l \in Time, get_index(x, l) > get_index(y, l)
    PROVE  x < y
<1> DEFINE j == get_index(x, l)
           k == get_index(y, l)
<1>1. Bits \in Nat /\ x \in Nat /\ y \in Nat /\ l \in Nat
  BY TimeFacts
<1>2. j \in Bucket /\ k \in Bucket
  BY IndexFacts
<1>3. y > l /\ k \in 0 .. Bits - 1 /\ Share(y, l, k)
  <2>1. k # Bits
    BY <1>1, <1>2 DEF Bucket
  <2> QED BY <1>1, <2>1, IndexFacts
<1>4. k + 1 \in 0 .. Bits
  BY <1>1, <1>3
<1>5. Leading(x, k + 1) <= Leading(l, k + 1)
  <2>1. CASE x <= l
    BY <1>4, <2>1, LeadingBits
  <2>2. CASE x > l
    <3>1. j \in 0 .. Bits - 1 /\ Agree(x, l, j)
      BY <2>2, IndexFacts DEF Share
    <3>2. j \in 0 .. Bits /\ k + 1 \in 0 .. j
      BY <1>1, <1>3, <3>1
    <3>3. Agree(x, l, k + 1)
      BY <3>1, <3>2, AgreeOnFewer
    <3> QED BY <1>4, <3>3, LeadingBits DEF Agree
  <2> QED BY <1>1, <2>1, <2>2
<1>6. Leading(l, k + 1) <= Leading(y, k + 1) /\ Leading(l, k + 1) # Leading(y, k + 1)
  BY <1>1, <1>3, <1>4, LeadingBits DEF Share, Agree
<1>7. /\ Leading(x, k + 1) \in Nat /\ Leading(y, k + 1) \in Nat /\ Leading(l, k + 1) \in Nat
      /\ y <= x => Leading(y, k + 1) <= Leading(x, k + 1)
  BY <1>4, LeadingBits
<1>8. ~(y <= x)
  BY <1>5, <1>6, <1>7
<1> QED BY <1>1, <1>8

\* When last moves to a later time, the timers of lower buckets stay where
\* they are, and those of the bucket of that time which are later than it
\* belong into a higher one.
LEMMA LowerStays ==
    ASSUME NEW x \in Time, NEW l \in Time, NEW time \in Time, l <= time,
           get_index(x, l) < get_index(time, l)
    PROVE  get_index(x, time) = get_index(x, l)
<1> DEFINE b == get_index(x, l)
           i == get_index(time, l)
<1>1. Bits \in Nat /\ x \in Nat /\ l \in Nat /\ time \in Nat
  BY TimeFacts
<1>2. b \in Bucket /\ i \in Bucket
  BY IndexFacts
<1>3. x > l /\ b \in 0 .. Bits - 1 /\ Share(x, l, b)
  <2>1. b # Bits
    BY <1>1, <1>2 DEF Bucket
  <2> QED BY <1>1, <2>1, IndexFacts
<1>4. x > time
  BY HigherIsSooner
<1>5. CASE time = l
  BY <1>5
<1>6. CASE time > l
  <2>1. i \in 0 .. Bits - 1 /\ Agree(time, l, i)
    BY <1>6, IndexFacts DEF Share
  <2>2. i \in 0 .. Bits /\ b \in 0 .. i /\ b + 1 \in 0 .. i
    BY <1>1, <1>3, <2>1
  <2>3. Agree(time, l, b) /\ Agree(time, l, b + 1)
    BY <2>1, <2>2, AgreeOnFewer
  <2>4. Share(x, time, b)
    BY <1>3, <2>3 DEF Share, Agree
  <2> QED BY <1>3, <1>4, <2>4, IndexFacts
<1> QED BY <1>1, <1>5, <1>6

LEMMA LaterRises ==
    ASSUME NEW x \in Time, NEW l \in Time, NEW time \in Time, l <= time, time < x,
           get_index(x, l) = get_index(time, l)
    PROVE  get_index(x, time) > get_index(time, l)
<1> DEFINE i == get_index(time, l)
           k == get_index(x, time)
<1>1. Bits \in Nat /\ x \in Nat /\ l \in Nat /\ time \in Nat
  BY TimeFacts
<1>2. x > l /\ i \in 0 .. Bits - 1 /\ Share(x, l, i)
  <2>1. x > l
    BY <1>1
  <2> QED BY <2>1, IndexFacts
<1>3. time > l /\ Share(time, l, i)
  <2>1. i # Bits
    BY <1>1, <1>2
  <2>2. time > l
    BY <1>1, <2>1, IndexFacts
  <2> QED BY <2>2, IndexFacts
<1>4. k \in 0 .. Bits - 1 /\ Share(x, time, k)
  BY <1>1, IndexFacts
<1>5. i + 1 \in 0 .. Bits
  BY <1>1, <1>2
<1>6. Agree(x, time, i + 1)
  <2>1. /\ Leading(x, i + 1) \in Nat /\ Leading(time, i + 1) \in Nat /\ Leading(l, i + 1) \in Nat
        /\ Leading(x, i + 1) \div 2 = Leading(l, i + 1) \div 2
        /\ Leading(time, i + 1) \div 2 = Leading(l, i + 1) \div 2
        /\ Leading(x, i + 1) # Leading(l, i + 1) /\ Leading(time, i + 1) # Leading(l, i + 1)
    BY <1>2, <1>3, <1>5, LeadingBits DEF Share, Agree
  <2>2. \A p, q, r \in Nat : p \div 2 = r \div 2 /\ q \div 2 = r \div 2 /\ p # r /\ q # r => p = q
    OBVIOUS
  <2> QED BY <2>1, <2>2 DEF Agree
<1>7. ~(k <= i)
  <2> SUFFICES ASSUME k <= i PROVE FALSE
    OBVIOUS
  <2>1. k + 1 \in 0 .. i + 1
    BY <1>1, <1>2, <1>4
  <2>2. Agree(x, time, k + 1)
    BY <1>5, <1>6, <2>1, AgreeOnFewer
  <2> QED BY <1>4, <2>2 DEF Share
<1> QED BY <1>1, <1>2, <1>4, <1>7

-----------------------------------------------------------------------------
(* Lists of timers.                                                        *)

LEMMA RangeOf ==
    ASSUME NEW list \in Seq(Timer), NEW t
    PROVE  t \in Range(list) <=> \E n \in 1 .. Len(list) : list[n] = t
BY DEF Range

LEMMA EmptyList ==
    /\ << >> \in Seq(Timer) /\ Range(<< >>) = {} /\ IsInjective(<< >>)
    /\ \A list \in Seq(Timer) : list = << >> <=> Range(list) = {}
<1>1. << >> \in Seq(Timer) /\ Range(<< >>) = {} /\ IsInjective(<< >>)
  BY DEF Range, IsInjective
<1>2. ASSUME NEW list \in Seq(Timer), list # << >> PROVE Range(list) # {}
  <2>1. 1 \in DOMAIN list
    BY <1>2
  <2> QED BY <2>1 DEF Range
<1> QED BY <1>1, <1>2

LEMMA AppendFacts ==
    ASSUME NEW list \in Seq(Timer), NEW t \in Timer
    PROVE  /\ Append(list, t) \in Seq(Timer)
           /\ Range(Append(list, t)) = Range(list) \cup {t}
           /\ IsInjective(list) /\ t \notin Range(list) => IsInjective(Append(list, t))
<1>1. PICK more : more = Append(list, t)
  OBVIOUS
<1>2. /\ more \in Seq(Timer) /\ Len(more) = Len(list) + 1 /\ Len(list) \in Nat
      /\ more[Len(list) + 1] = t /\ \A n \in 1 .. Len(list) : more[n] = list[n]
  BY <1>1
<1>3. Range(more) = Range(list) \cup {t}
  <2>1. ASSUME NEW u \in Range(more) PROVE u \in Range(list) \cup {t}
    BY <1>2, <2>1, RangeOf
  <2>2. ASSUME NEW u \in Range(list) \cup {t} PROVE u \in Range(more)
    BY <1>2, <2>2, RangeOf
  <2> QED BY <2>1, <2>2
<1>4. ASSUME IsInjective(list), t \notin Range(list) PROVE IsInjective(more)
  <2>1. \A n \in 1 .. Len(list) : list[n] # t
    BY <1>4, RangeOf
  <2>2. \A m, n \in 1 .. Len(list) : list[m] = list[n] => m = n
    BY <1>4 DEF IsInjective
  <2>3. ASSUME NEW m \in 1 .. Len(more), NEW n \in 1 .. Len(more), more[m] = more[n] PROVE m = n
    BY <1>2, <2>1, <2>2, <2>3
  <2> QED BY <1>2, <2>3 DEF IsInjective
<1> QED BY <1>1, <1>2, <1>3, <1>4

LEMMA ConcatFacts ==
    ASSUME NEW first \in Seq(Timer), NEW rest \in Seq(Timer)
    PROVE  /\ first \o rest \in Seq(Timer)
           /\ Range(first \o rest) = Range(first) \cup Range(rest)
           /\ IsInjective(first) /\ IsInjective(rest) /\ Range(first) \cap Range(rest) = {}
                => IsInjective(first \o rest)
<1>1. PICK both : both = first \o rest
  OBVIOUS
<1>2. /\ both \in Seq(Timer) /\ Len(both) = Len(first) + Len(rest)
      /\ Len(first) \in Nat /\ Len(rest) \in Nat
      /\ \A n \in 1 .. Len(first) : both[n] = first[n]
      /\ \A n \in 1 .. Len(rest) : both[Len(first) + n] = rest[n]
  BY <1>1
<1>3. ASSUME NEW n \in 1 .. Len(both), ~(n <= Len(first))
      PROVE  n - Len(first) \in 1 .. Len(rest) /\ both[n] = rest[n - Len(first)]
  <2>1. n - Len(first) \in 1 .. Len(rest) /\ Len(first) + (n - Len(first)) = n
    BY <1>2, <1>3
  <2> QED BY <1>2, <2>1
<1>4. Range(both) = Range(first) \cup Range(rest)
  <2>1. ASSUME NEW t \in Range(both) PROVE t \in Range(first) \cup Range(rest)
    <3>1. PICK n \in 1 .. Len(both) : both[n] = t
      BY <1>2, RangeOf
    <3>2. CASE n <= Len(first)
      <4>1. n \in 1 .. Len(first) /\ first[n] = t
        BY <1>2, <3>1, <3>2
      <4> QED BY <4>1, RangeOf
    <3>3. CASE ~(n <= Len(first))
      BY <1>3, <3>1, <3>3, RangeOf
    <3> QED BY <3>2, <3>3
  <2>2. ASSUME NEW t \in Range(first) PROVE t \in Range(both)
    <3>1. PICK n \in 1 .. Len(first) : first[n] = t
      BY RangeOf
    <3>2. n \in 1 .. Len(both) /\ both[n] = t
      BY <1>2, <3>1
    <3> QED BY <1>2, <3>2, RangeOf
  <2>3. ASSUME NEW t \in Range(rest) PROVE t \in Range(both)
    <3>1. PICK n \in 1 .. Len(rest) : rest[n] = t
      BY RangeOf
    <3>2. Len(first) + n \in 1 .. Len(both) /\ both[Len(first) + n] = t
      BY <1>2, <3>1
    <3> QED BY <1>2, <3>2, RangeOf
  <2> QED BY <2>1, <2>2, <2>3
<1>5. ASSUME IsInjective(first), IsInjective(rest), Range(first) \cap Range(rest) = {}
      PROVE  IsInjective(both)
  <2>1. /\ \A m, n \in 1 .. Len(first) : first[m] = first[n] => m = n
        /\ \A m, n \in 1 .. Len(rest) : rest[m] = rest[n] => m = n
        /\ \A m \in 1 .. Len(first), n \in 1 .. Len(rest) : first[m] # rest[n]
    BY <1>5 DEF IsInjective, Range
  <2>2. ASSUME NEW m \in 1 .. Len(both), NEW n \in 1 .. Len(both), both[m] = both[n] PROVE m = n
    <3>1. CASE m <= Len(first) /\ n <= Len(first)
      BY <1>2, <2>1, <2>2, <3>1
    <3>2. CASE m <= Len(first) /\ ~(n <= Len(first))
      <4>1. m \in 1 .. Len(first) /\ both[m] = first[m]
        BY <1>2, <3>2
      <4>2. n - Len(first) \in 1 .. Len(rest) /\ both[n] = rest[n - Len(first)]
        BY <1>3, <3>2
      <4> QED BY <2>1, <2>2, <4>1, <4>2
    <3>3. CASE ~(m <= Len(first)) /\ n <= Len(first)
      <4>1. n \in 1 .. Len(first) /\ both[n] = first[n]
        BY <1>2, <3>3
      <4>2. m - Len(first) \in 1 .. Len(rest) /\ both[m] = rest[m - Len(first)]
        BY <1>3, <3>3
      <4> QED BY <2>1, <2>2, <4>1, <4>2
    <3>4. CASE ~(m <= Len(first)) /\ ~(n <= Len(first))
      <4>1. m - Len(first) = n - Len(first)
        BY <1>3, <2>1, <2>2, <3>4
      <4> QED BY <1>2, <4>1
    <3> QED BY <3>1, <3>2, <3>3, <3>4
  <2> QED BY <1>2, <2>2 DEF IsInjective
<1> QED BY <1>1, <1>2, <1>4, <1>5

\* Without the first timer of a list.
LEMMA TailFacts ==
    ASSUME NEW list \in Seq(Timer), list # << >>
    PROVE  /\ Head(list) \in Timer /\ Tail(list) \in Seq(Timer)
           /\ Head(list) \in Range(list) /\ Range(Tail(list)) \subseteq Range(list)
           /\ IsInjective(list) => /\ IsInjective(Tail(list))
                                   /\ Range(Tail(list)) = Range(list) \ {Head(list)}
<1>1. PICK rest : rest = Tail(list)
  OBVIOUS
<1>2. /\ rest \in Seq(Timer) /\ Len(list) \in Nat /\ Len(list) # 0 /\ Len(rest) = Len(list) - 1
      /\ \A n \in 1 .. Len(rest) : rest[n] = list[n + 1]
      /\ Head(list) = list[1] /\ list[1] \in Timer
  BY <1>1
<1>3. ASSUME NEW n \in 1 .. Len(rest) PROVE n + 1 \in 1 .. Len(list) /\ n + 1 # 1 /\ rest[n] = list[n + 1]
  BY <1>2
<1>4. Head(list) \in Range(list)
  BY <1>2, RangeOf
<1>5. Range(rest) \subseteq Range(list)
  <2>1. ASSUME NEW t \in Range(rest) PROVE t \in Range(list)
    BY <1>2, <1>3, RangeOf
  <2> QED BY <2>1
<1>6. ASSUME IsInjective(list)
      PROVE  IsInjective(rest) /\ Range(rest) = Range(list) \ {Head(list)}
  <2>1. \A m, n \in 1 .. Len(list) : list[m] = list[n] => m = n
    BY <1>6 DEF IsInjective
  <2>2. ASSUME NEW m \in 1 .. Len(rest), NEW n \in 1 .. Len(rest), rest[m] = rest[n] PROVE m = n
    BY <1>3, <2>1, <2>2
  <2>3. ASSUME NEW t \in Range(rest) PROVE t # Head(list)
    <3>1. PICK n \in 1 .. Len(rest) : rest[n] = t
      BY <1>2, RangeOf
    <3> QED BY <1>2, <1>3, <2>1, <3>1
  <2>4. ASSUME NEW t \in Range(list), t # Head(list) PROVE t \in Range(rest)
    <3>1. PICK n \in 1 .. Len(list) : list[n] = t
      BY RangeOf
    <3>2. n - 1 \in 1 .. Len(rest) /\ (n - 1) + 1 = n
      BY <1>2, <2>4, <3>1
    <3>3. rest[n - 1] = t
      BY <1>2, <3>1, <3>2
    <3> QED BY <1>2, <3>2, <3>3, RangeOf
  <2> QED BY <1>2, <1>5, <2>2, <2>3, <2>4 DEF IsInjective
<1> QED BY <1>1, <1>2, <1>4, <1>5, <1>6

-----------------------------------------------------------------------------
(* The recursive functions over lists.                                     *)

\* The timers of a list that are in a set, up to the n-th of the list.
LEMMA OnlyUnfolds ==
    ASSUME NEW list \in Seq(Timer), NEW S
    PROVE  \E f \in [0 .. Len(list) -> Seq(Timer)] :
              /\ f[0] = << >>
              /\ \A k \in 1 .. Len(list) :
                    f[k] = IF list[k] \in S THEN Append(f[k - 1], list[k]) ELSE f[k - 1]
              /\ Only(list, S) = f[Len(list)]
<1> DEFINE N == Len(list)
           Lists == Seq(Timer)
           Walk(f) == [n \in 0 .. Len(list) |->
                         IF n = 0 THEN << >>
                         ELSE IF list[n] \in S THEN Append(f[n - 1], list[n]) ELSE f[n - 1]]
           walk == CHOOSE f : f = Walk(f)
           step == [k \in Nat |-> [l \in Seq(Timer) |->
                       IF k \in 1 .. N /\ list[k] \in S THEN Append(l, list[k]) ELSE l]]
<1>1. N \in Nat /\ << >> \in Lists
  OBVIOUS
<1>2. step \in [Nat -> [Lists -> Lists]]
  <2>1. ASSUME NEW k \in Nat, NEW l \in Seq(Timer)
        PROVE  (IF k \in 1 .. N /\ list[k] \in S THEN Append(l, list[k]) ELSE l) \in Seq(Timer)
    <3>1. CASE k \in 1 .. N
      BY <3>1
    <3>2. CASE k \notin 1 .. N
      BY <3>2
    <3> QED BY <3>1, <3>2
  <2> QED BY <2>1
<1>3. ASSUME NEW k \in 1 .. N, NEW l \in Lists
      PROVE  step[k][l] = IF list[k] \in S THEN Append(l, list[k]) ELSE l
  BY <1>1, <1>3
<1>4. PICK f \in [0 .. N -> Lists] : Recursion(f, N, << >>, step)
  <2> HIDE DEF step, N, Lists
  <2> QED BY <1>1, <1>2, RecursionExists, Zenon
<1>5. f[0] = << >>
  BY <1>4 DEF Recursion
<1>6. ASSUME NEW k \in 1 .. N
      PROVE  f[k] = IF list[k] \in S THEN Append(f[k - 1], list[k]) ELSE f[k - 1]
  <2>1. k - 1 \in 0 .. N - 1 /\ (k - 1) + 1 = k /\ f[k - 1] \in Lists
    BY <1>1
  <2>2. f[k] = step[k][f[k - 1]]
    <3> HIDE DEF step
    <3> QED BY <1>4, <2>1 DEF Recursion
  <2> HIDE DEF step
  <2> QED BY <1>3, <2>1, <2>2
<1> HIDE DEF step
<1>7. f = Walk(f)
  <2>1. \A n \in 0 .. N : n # 0 => n \in 1 .. N
    BY <1>1
  <2> QED BY <1>5, <1>6, <2>1
<1>8. Only(list, S) = walk[Len(list)]
  BY Zenon DEF Only
<1>9. walk = Walk(walk)
  <2> HIDE DEF Walk
  <2> QED BY <1>7, Zenon
<1> HIDE DEF walk
<1>10. /\ walk[0] = << >>
       /\ \A k \in 1 .. N : walk[k] = IF list[k] \in S THEN Append(walk[k - 1], list[k]) ELSE walk[k - 1]
  <2>1. ASSUME NEW n \in 0 .. Len(list)
        PROVE  walk[n] = IF n = 0 THEN << >>
                         ELSE IF list[n] \in S THEN Append(walk[n - 1], list[n]) ELSE walk[n - 1]
    <3>1. walk[n] = Walk(walk)[n]
      <4> HIDE DEF Walk
      <4> QED BY <1>9, Zenon
    <3> QED BY <3>1, Zenon
  <2>2. 0 \in 0 .. Len(list)
    BY <1>1
  <2>3. ASSUME NEW k \in 1 .. N PROVE k \in 0 .. Len(list) /\ k # 0
    BY <1>1
  <2> HIDE DEF Walk
  <2>4. walk[0] = << >>
    BY <2>1, <2>2, Zenon
  <2>5. ASSUME NEW k \in 1 .. N
        PROVE  walk[k] = IF list[k] \in S THEN Append(walk[k - 1], list[k]) ELSE walk[k - 1]
    <3>1. k \in 0 .. Len(list) /\ k # 0
      BY <2>3
    <3> QED BY <2>1, <3>1, Zenon
  <2> QED BY <2>4, <2>5
<1>11. ASSUME NEW n \in 0 .. N PROVE walk[n] = f[n]
  <2> DEFINE Same == {k \in Nat : k <= N => walk[k] = f[k]}
  <2>1. 0 \in Same
    BY <1>5, <1>10
  <2>2. ASSUME NEW k \in Same PROVE k + 1 \in Same
    <3>1. k \in Nat /\ (k <= N => walk[k] = f[k])
      BY <2>2
    <3>2. CASE k + 1 <= N
      <4>1. k + 1 \in 1 .. N /\ (k + 1) - 1 = k /\ k <= N
        BY <1>1, <3>1, <3>2
      <4> QED BY <1>6, <1>10, <3>1, <4>1
    <3> QED BY <3>1, <3>2
  <2>3. Same \in SUBSET Nat /\ n \in Nat /\ n <= N
    BY <1>1
  <2>4. n \in Same
    <3> HIDE DEF Same
    <3> QED BY <2>1, <2>2, <2>3, Naturals
  <2> QED BY <2>3, <2>4
<1>12. N \in 0 .. N
  BY <1>1
<1>13. Only(list, S) = f[N]
  BY <1>8, <1>11, <1>12
<1> QED BY <1>5, <1>6, <1>13

LEMMA OnlyFacts ==
    ASSUME NEW list \in Seq(Timer), NEW S
    PROVE  /\ Only(list, S) \in Seq(Timer)
           /\ Range(Only(list, S)) = Range(list) \cap S
           /\ IsInjective(list) => IsInjective(Only(list, S))
<1>1. PICK f \in [0 .. Len(list) -> Seq(Timer)] :
              /\ f[0] = << >>
              /\ \A k \in 1 .. Len(list) :
                    f[k] = IF list[k] \in S THEN Append(f[k - 1], list[k]) ELSE f[k - 1]
              /\ Only(list, S) = f[Len(list)]
  BY OnlyUnfolds
<1> DEFINE N == Len(list)
           Upto(n) == {list[j] : j \in 1 .. n} \cap S
           Right == {n \in Nat : n <= N => /\ Range(f[n]) = Upto(n)
                                           /\ IsInjective(list) => IsInjective(f[n])}
<1>2. N \in Nat
  OBVIOUS
<1>3. 0 \in Right
  <2>1. Upto(0) = {}
    OBVIOUS
  <2> QED BY <1>1, <2>1, EmptyList
<1>4. ASSUME NEW n \in Right PROVE n + 1 \in Right
  <2>1. n \in Nat
    BY <1>4
  <2>2. CASE n + 1 <= N
    <3>1. n <= N /\ n \in 0 .. N /\ n + 1 \in 1 .. N /\ (n + 1) - 1 = n
      BY <1>2, <2>1, <2>2
    <3>2. /\ Range(f[n]) = Upto(n) /\ f[n] \in Seq(Timer) /\ list[n + 1] \in Timer
          /\ IsInjective(list) => IsInjective(f[n])
      BY <1>1, <1>4, <3>1
    <3>3. f[n + 1] = IF list[n + 1] \in S THEN Append(f[n], list[n + 1]) ELSE f[n]
      BY <1>1, <3>1
    <3>4. Upto(n + 1) = Upto(n) \cup ({list[n + 1]} \cap S)
      <4>1. \A j \in 1 .. n + 1 : j \in 1 .. n \/ j = n + 1
        BY <2>1
      <4>2. \A j \in 1 .. n : j \in 1 .. n + 1
        BY <2>1
      <4>3. n + 1 \in 1 .. n + 1
        BY <2>1
      <4> QED BY <4>1, <4>2, <4>3
    <3>5. IsInjective(list) => list[n + 1] \notin Upto(n)
      <4> SUFFICES ASSUME IsInjective(list), NEW j \in 1 .. n, list[j] = list[n + 1] PROVE FALSE
        OBVIOUS
      <4>1. j \in 1 .. N /\ j # n + 1
        BY <1>2, <2>1, <3>1
      <4> QED BY <3>1, <4>1 DEF IsInjective
    <3> HIDE DEF Upto
    <3>6. CASE list[n + 1] \in S
      <4>1. f[n + 1] = Append(f[n], list[n + 1])
        BY <3>3, <3>6
      <4>2. Range(f[n + 1]) = Range(f[n]) \cup {list[n + 1]}
        BY <3>2, <4>1, AppendFacts
      <4>3. IsInjective(list) => IsInjective(f[n + 1])
        BY <3>2, <3>5, <4>1, AppendFacts
      <4>4. Range(f[n + 1]) = Upto(n + 1)
        BY <3>2, <3>4, <3>6, <4>2
      <4> QED BY <4>3, <4>4
    <3>7. CASE list[n + 1] \notin S
      BY <3>2, <3>3, <3>4, <3>7
    <3>8. Range(f[n + 1]) = Upto(n + 1) /\ (IsInjective(list) => IsInjective(f[n + 1]))
      BY <3>6, <3>7
    <3> QED BY <2>1, <3>8
  <2>3. CASE ~(n + 1 <= N)
    BY <2>1, <2>3
  <2> QED BY <2>2, <2>3
<1>5. Right \in SUBSET Nat
  OBVIOUS
<1>6. N \in Right
  <2> HIDE DEF Right
  <2> QED BY <1>2, <1>3, <1>4, <1>5, Naturals
<1>7. Range(f[N]) = Upto(N) /\ (IsInjective(list) => IsInjective(f[N]))
  BY <1>2, <1>6
<1>8. Upto(N) = Range(list) \cap S
  BY DEF Range
<1>9. f[N] \in Seq(Timer)
  BY <1>1, <1>2
<1> QED BY <1>1, <1>7, <1>8, <1>9

\* f[k]: the timers of the first k of n buckets above bucket i, spliced.
Splicing(s, i, n, f) ==
    /\ f[0] = << >>
    /\ \A k \in 1 .. n :
          f[k] = IF i + k \in s.nonEmpty THEN f[k - 1] \o s.buckets[i + k] ELSE f[k - 1]
    /\ Above(s, i, n) = f[n]

LEMMA AboveUnfolds ==
    ASSUME NEW s, s.buckets \in [Bucket -> Seq(Timer)], NEW i \in Nat, NEW n \in Nat, i + n <= Bits
    PROVE  \E f \in [0 .. n -> Seq(Timer)] : Splicing(s, i, n, f)
<1> DEFINE Lists == Seq(Timer)
           Walk(f) == [k \in 0 .. n |->
                         IF k = 0 THEN << >>
                         ELSE IF i + k \in s.nonEmpty THEN f[k - 1] \o s.buckets[i + k] ELSE f[k - 1]]
           walk == CHOOSE f : f = Walk(f)
           step == [k \in Nat |-> [l \in Seq(Timer) |->
                       IF k \in 1 .. n /\ i + k \in s.nonEmpty THEN l \o s.buckets[i + k] ELSE l]]
<1>1. << >> \in Lists /\ \A k \in 1 .. n : s.buckets[i + k] \in Lists
  <2>1. ASSUME NEW k \in 1 .. n PROVE i + k \in Bucket
    BY TimeFacts DEF Bucket
  <2>2. ASSUME NEW k \in 1 .. n PROVE s.buckets[i + k] \in Seq(Timer)
    BY <2>1
  <2>3. << >> \in Seq(Timer)
    OBVIOUS
  <2> QED BY <2>2, <2>3, Zenon
<1>2. step \in [Nat -> [Lists -> Lists]]
  <2>1. ASSUME NEW k \in Nat, NEW l \in Seq(Timer)
        PROVE  (IF k \in 1 .. n /\ i + k \in s.nonEmpty THEN l \o s.buckets[i + k] ELSE l) \in Seq(Timer)
    <3>1. CASE k \in 1 .. n
      <4>1. PICK b \in Seq(Timer) : b = s.buckets[i + k]
        BY <1>1, <3>1
      <4>2. l \o b \in Seq(Timer)
        OBVIOUS
      <4> QED BY <4>1, <4>2
    <3>2. CASE k \notin 1 .. n
      BY <3>2
    <3> QED BY <3>1, <3>2
  <2> QED BY <2>1
<1>3. ASSUME NEW k \in 1 .. n, NEW l \in Lists
      PROVE  step[k][l] = IF i + k \in s.nonEmpty THEN l \o s.buckets[i + k] ELSE l
  <2>1. k \in Nat
    OBVIOUS
  <2> QED BY <2>1, Zenon
<1>4. PICK f \in [0 .. n -> Lists] : Recursion(f, n, << >>, step)
  <2> HIDE DEF step, Lists
  <2> QED BY <1>1, <1>2, RecursionExists, Zenon
<1>5. f[0] = << >>
  BY <1>4 DEF Recursion
<1> HIDE DEF step
<1>6. ASSUME NEW k \in 1 .. n
      PROVE  f[k] = IF i + k \in s.nonEmpty THEN f[k - 1] \o s.buckets[i + k] ELSE f[k - 1]
  <2>1. k - 1 \in 0 .. n - 1 /\ (k - 1) + 1 = k /\ f[k - 1] \in Lists
    OBVIOUS
  <2>2. f[k] = step[k][f[k - 1]]
    BY <1>4, <2>1 DEF Recursion
  <2> QED BY <1>3, <2>1, <2>2, Zenon
<1>7. f = Walk(f)
  <2>1. \A k \in 0 .. n : k # 0 => k \in 1 .. n
    OBVIOUS
  <2> QED BY <1>5, <1>6, <2>1
<1>8. Above(s, i, n) = walk[n]
  BY Zenon DEF Above
<1>9. walk = Walk(walk)
  <2> HIDE DEF Walk
  <2> QED BY <1>7, Zenon
<1> HIDE DEF walk
<1>10. /\ walk[0] = << >>
       /\ \A k \in 1 .. n :
             walk[k] = IF i + k \in s.nonEmpty THEN walk[k - 1] \o s.buckets[i + k] ELSE walk[k - 1]
  <2>1. ASSUME NEW k \in 0 .. n
        PROVE  walk[k] = IF k = 0 THEN << >>
                         ELSE IF i + k \in s.nonEmpty THEN walk[k - 1] \o s.buckets[i + k]
                              ELSE walk[k - 1]
    <3>1. walk[k] = Walk(walk)[k]
      <4> HIDE DEF Walk
      <4> QED BY <1>9, Zenon
    <3> QED BY <3>1, Zenon
  <2>2. 0 \in 0 .. n
    OBVIOUS
  <2>3. ASSUME NEW k \in 1 .. n PROVE k \in 0 .. n /\ k # 0
    OBVIOUS
  <2> HIDE DEF Walk
  <2>4. walk[0] = << >>
    BY <2>1, <2>2, Zenon
  <2>5. ASSUME NEW k \in 1 .. n
        PROVE  walk[k] = IF i + k \in s.nonEmpty THEN walk[k - 1] \o s.buckets[i + k] ELSE walk[k - 1]
    <3>1. k \in 0 .. n /\ k # 0
      BY <2>3
    <3> QED BY <2>1, <3>1, Zenon
  <2> QED BY <2>4, <2>5
<1>11. walk[n] = f[n]
  <2> DEFINE Same == {k \in Nat : k <= n => walk[k] = f[k]}
  <2>1. 0 \in Same
    BY <1>5, <1>10
  <2>2. ASSUME NEW k \in Same PROVE k + 1 \in Same
    <3>1. k \in Nat /\ (k <= n => walk[k] = f[k])
      BY <2>2
    <3>2. CASE k + 1 <= n
      <4>1. k + 1 \in 1 .. n /\ (k + 1) - 1 = k /\ k <= n
        BY <3>1, <3>2
      <4>2. walk[k + 1] = f[k + 1]
        BY <1>6, <1>10, <3>1, <4>1, Zenon
      <4> QED BY <3>1, <4>2
    <3> QED BY <3>1, <3>2
  <2>3. Same \in SUBSET Nat
    OBVIOUS
  <2>4. n \in Same
    <3> HIDE DEF Same
    <3> QED BY <2>1, <2>2, <2>3, Naturals
  <2> QED BY <2>4
<1>12. Above(s, i, n) = f[n]
  BY <1>8, <1>11
<1> QED BY <1>4, <1>5, <1>6, <1>12, Zenon DEF Splicing

\* The lists of a timer_set hold different timers, each of them once.
OnceEach(b) ==
    /\ \A j \in Bucket : IsInjective(b[j])
    /\ \A j, k \in Bucket : j # k => Range(b[j]) \cap Range(b[k]) = {}

\* The timers of the n buckets above bucket i whose bits are set.
Spliced(s, b, t) == b \in s.nonEmpty /\ t \in Range(s.buckets[b])
Splice(s, i, n) == {t \in Timer : \E k \in 1 .. n : Spliced(s, i + k, t)}

LEMMA AboveFacts ==
    ASSUME NEW s, s.buckets \in [Bucket -> Seq(Timer)], NEW i \in Nat, NEW n \in Nat, i + n <= Bits
    PROVE  /\ Above(s, i, n) \in Seq(Timer)
           /\ Range(Above(s, i, n)) = Splice(s, i, n)
           /\ OnceEach(s.buckets) => IsInjective(Above(s, i, n))
<1>1. PICK f \in [0 .. n -> Seq(Timer)] :
              /\ f[0] = << >>
              /\ \A k \in 1 .. n :
                    f[k] = IF i + k \in s.nonEmpty THEN f[k - 1] \o s.buckets[i + k] ELSE f[k - 1]
              /\ Above(s, i, n) = f[n]
  <2>1. \E f \in [0 .. n -> Seq(Timer)] : Splicing(s, i, n, f)
    BY AboveUnfolds
  <2> QED BY <2>1, Zenon DEF Splicing
<1> DEFINE Right == {k \in Nat : k <= n => /\ Range(f[k]) = Splice(s, i, k)
                                           /\ OnceEach(s.buckets) => IsInjective(f[k])}
<1>2. 0 \in Right
  <2>1. Splice(s, i, 0) = {}
    BY DEF Splice
  <2> QED BY <1>1, <2>1, EmptyList
<1>3. ASSUME NEW k \in Right PROVE k + 1 \in Right
  <2>1. k \in Nat
    BY <1>3
  <2>2. CASE k + 1 <= n
    <3>1. /\ k <= n /\ k \in 0 .. n /\ k + 1 \in 1 .. n /\ (k + 1) - 1 = k
          /\ i + (k + 1) \in Bucket
      BY <2>1, <2>2, TimeFacts DEF Bucket
    <3>2. PICK b \in Seq(Timer) : b = s.buckets[i + (k + 1)]
      BY <3>1
    <3>3. /\ Range(f[k]) = Splice(s, i, k) /\ f[k] \in Seq(Timer)
          /\ OnceEach(s.buckets) => IsInjective(f[k])
      BY <1>1, <1>3, <3>1
    <3>4. f[k + 1] = IF i + (k + 1) \in s.nonEmpty THEN f[k] \o b ELSE f[k]
      BY <1>1, <3>1, <3>2, Zenon
    <3>5. Range(b) \subseteq Timer
      BY DEF Range
    <3>7. CASE i + (k + 1) \in s.nonEmpty
      <4>1. f[k + 1] = f[k] \o b
        BY <3>4, <3>7
      <4>2. Range(f[k + 1]) = Range(f[k]) \cup Range(b)
        BY <3>3, <4>1, ConcatFacts
      <4>3. Splice(s, i, k + 1) = Splice(s, i, k) \cup Range(b)
        <5>1. ASSUME NEW t \in Timer
              PROVE  t \in Splice(s, i, k + 1) <=> t \in Splice(s, i, k) \/ t \in Range(b)
          <6>1. Spliced(s, i + (k + 1), t) <=> t \in Range(b)
            BY <3>2, <3>7 DEF Spliced
          <6>2. k + 1 \in 1 .. k + 1 /\ \A j \in 1 .. k : j \in 1 .. k + 1
            BY <2>1
          <6>3. \A j \in 1 .. k + 1 : j \in 1 .. k \/ j = k + 1
            BY <2>1
          <6> QED BY <6>1, <6>2, <6>3 DEF Splice
        <5>2. Splice(s, i, k + 1) \subseteq Timer /\ Splice(s, i, k) \subseteq Timer
          BY DEF Splice
        <5> QED BY <3>5, <5>1, <5>2
      <4>4. ASSUME OnceEach(s.buckets) PROVE IsInjective(f[k + 1])
        <5>1. IsInjective(b)
          BY <3>1, <3>2, <4>4 DEF OnceEach
        <5>2. Splice(s, i, k) \cap Range(b) = {}
          <6> SUFFICES ASSUME NEW t \in Splice(s, i, k), t \in Range(b) PROVE FALSE
            OBVIOUS
          <6>1. PICK j \in 1 .. k : t \in Range(s.buckets[i + j])
            BY DEF Splice, Spliced
          <6>2. i + j \in Bucket /\ i + j # i + (k + 1)
            BY <2>1, <2>2, TimeFacts DEF Bucket
          <6> QED BY <3>1, <3>2, <4>4, <6>1, <6>2 DEF OnceEach
        <5> QED BY <3>3, <4>1, <4>4, <5>1, <5>2, ConcatFacts
      <4>5. Range(f[k + 1]) = Splice(s, i, k + 1)
        BY <3>3, <4>2, <4>3
      <4> QED BY <2>1, <4>4, <4>5
    <3>8. CASE i + (k + 1) \notin s.nonEmpty
      <4>1. Splice(s, i, k + 1) = Splice(s, i, k)
        <5>1. \A t : ~Spliced(s, i + (k + 1), t)
          BY <3>8 DEF Spliced
        <5>2. \A j \in 1 .. k : j \in 1 .. k + 1
          BY <2>1
        <5>3. \A j \in 1 .. k + 1 : j \in 1 .. k \/ j = k + 1
          BY <2>1
        <5> QED BY <5>1, <5>2, <5>3 DEF Splice
      <4> QED BY <2>1, <3>3, <3>4, <3>8, <4>1
    <3> QED BY <3>7, <3>8
  <2>3. CASE ~(k + 1 <= n)
    BY <2>1, <2>3
  <2> QED BY <2>2, <2>3
<1>4. Right \in SUBSET Nat
  OBVIOUS
<1>5. n \in Right
  <2> HIDE DEF Right
  <2> QED BY <1>2, <1>3, <1>4, Naturals
<1>6. Range(f[n]) = Splice(s, i, n) /\ (OnceEach(s.buckets) => IsInjective(f[n]))
  BY <1>5
<1>7. f[n] \in Seq(Timer)
  BY <1>1
<1> QED BY <1>1, <1>6, <1>7

-----------------------------------------------------------------------------
(* The operations of a timer_set.                                          *)

Sets == [buckets : [Bucket -> Seq(Timer)], nonEmpty : SUBSET Bucket, last : Time, next : Time]
Dues == [Timer -> Time]

\* A timer is where get_index looks for it, once, and the bitmap is exact.
Placed(s, due) ==
    \A b \in Bucket :
       /\ b \in s.nonEmpty <=> s.buckets[b] # << >>
       /\ IsInjective(s.buckets[b])
       /\ \A t \in Range(s.buckets[b]) : get_index(due[t], s.last) = b

Held(s) == {t \in Timer : \E b \in Bucket : t \in Range(s.buckets[b])}

LEMMA SetFacts ==
    ASSUME NEW s \in Sets
    PROVE  /\ s.buckets \in [Bucket -> Seq(Timer)] /\ s.nonEmpty \in SUBSET Bucket
           /\ s.last \in Time /\ s.next \in Time
           /\ \A b \in Bucket : s.buckets[b] \in Seq(Timer)
           /\ \A b \in Bucket : Range(s.buckets[b]) \subseteq Held(s)
           /\ Held(s) \subseteq Timer
<1>1. s.buckets \in [Bucket -> Seq(Timer)]
  BY DEF Sets
<1>2. ASSUME NEW b \in Bucket, NEW t \in Range(s.buckets[b]) PROVE t \in Timer
  <2>1. PICK list \in Seq(Timer) : list = s.buckets[b]
    BY <1>1
  <2> QED BY <2>1 DEF Range
<1>3. ASSUME NEW b \in Bucket PROVE Range(s.buckets[b]) \subseteq Held(s)
  BY <1>2 DEF Held
<1> QED BY <1>1, <1>3 DEF Sets, Held

\* No timer is in two buckets.
LEMMA PlacedOnce ==
    ASSUME NEW s \in Sets, NEW due, Placed(s, due)
    PROVE  OnceEach(s.buckets)
<1>1. ASSUME NEW j \in Bucket, NEW k \in Bucket, NEW t \in Range(s.buckets[j]), t \in Range(s.buckets[k])
      PROVE  j = k
  <2>1. get_index(due[t], s.last) = j /\ get_index(due[t], s.last) = k
    BY <1>1 DEF Placed
  <2> QED BY <2>1
<1>2. \A j \in Bucket : IsInjective(s.buckets[j])
  BY DEF Placed
<1> QED BY <1>1, <1>2 DEF OnceEach

\* Only the expiries of the timers that a set holds matter.
LEMMA PlacedSame ==
    ASSUME NEW s \in Sets, NEW due, NEW other, Placed(s, due), \A t \in Held(s) : other[t] = due[t]
    PROVE  Placed(s, other)
<1>1. ASSUME NEW b \in Bucket, NEW t \in Range(s.buckets[b]) PROVE get_index(other[t], s.last) = b
  <2>1. t \in Held(s)
    BY SetFacts
  <2>2. other[t] = due[t]
    BY <2>1
  <2> QED BY <2>2 DEF Placed
<1> QED BY <1>1 DEF Placed

LEMMA InsertFacts ==
    ASSUME NEW s \in Sets, NEW due \in Dues, Placed(s, due), NEW t \in Timer, t \notin Held(s)
    PROVE  /\ insert(s, t, due[t]) \in Sets
           /\ Placed(insert(s, t, due[t]), due)
           /\ Held(insert(s, t, due[t])) = Held(s) \cup {t}
           /\ insert(s, t, due[t]).last = s.last
           /\ insert(s, t, due[t]).next = Lesser(due[t], s.next)
           /\ insert(s, t, due[t]).nonEmpty # {}
<1>1. PICK i : i = get_index(due[t], s.last)
  OBVIOUS
<1>2. due[t] \in Time /\ i \in Bucket
  BY <1>1, SetFacts, IndexFacts DEF Dues
<1>3. PICK list \in Seq(Timer) : list = s.buckets[i]
  BY <1>2, SetFacts
<1>4. PICK more : more = Append(list, t)
  OBVIOUS
<1>5. more \in Seq(Timer) /\ Range(more) = Range(list) \cup {t} /\ more # << >>
  BY <1>4, AppendFacts
<1>6. PICK r : r = insert(s, t, due[t])
  OBVIOUS
<1>7. r = [s EXCEPT !.buckets[i] = Append(@, t), !.nonEmpty = @ \cup {i}, !.next = Lesser(due[t], @)]
  BY <1>1, <1>6 DEF insert
<1>8. /\ r = [buckets |-> r.buckets, nonEmpty |-> r.nonEmpty, last |-> r.last, next |-> r.next]
      /\ r.buckets = [s.buckets EXCEPT ![i] = more] /\ r.nonEmpty = s.nonEmpty \cup {i}
      /\ r.last = s.last /\ r.next = Lesser(due[t], s.next)
  BY <1>3, <1>4, <1>7 DEF Sets
<1>9. r.buckets[i] = more /\ \A b \in Bucket : b # i => r.buckets[b] = s.buckets[b]
  BY <1>2, <1>8, SetFacts
<1>10. r \in Sets
  <2>1. r.next \in Time
    BY <1>2, <1>8, SetFacts DEF Lesser
  <2>2. r.buckets \in [Bucket -> Seq(Timer)]
    BY <1>5, <1>8, SetFacts
  <2>3. r.nonEmpty \in SUBSET Bucket /\ r.last \in Time
    BY <1>2, <1>8, SetFacts
  <2> QED BY <1>8, <2>1, <2>2, <2>3 DEF Sets
<1>11. ASSUME NEW b \in Bucket
       PROVE  /\ b \in r.nonEmpty <=> r.buckets[b] # << >>
              /\ IsInjective(r.buckets[b])
              /\ \A u \in Range(r.buckets[b]) : get_index(due[u], r.last) = b
  <2>1. CASE b = i
    <3>1. IsInjective(list) /\ t \notin Range(list)
      BY <1>2, <1>3, SetFacts DEF Placed
    <3>2. IsInjective(more)
      BY <1>4, <3>1, AppendFacts
    <3>3. \A u \in Range(list) : get_index(due[u], s.last) = b
      BY <1>2, <1>3, <2>1 DEF Placed
    <3> QED BY <1>1, <1>5, <1>8, <1>9, <2>1, <3>2, <3>3
  <2>2. CASE b # i
    BY <1>8, <1>9, <2>2 DEF Placed
  <2> QED BY <2>1, <2>2
<1>12. Held(r) = Held(s) \cup {t}
  <2>1. ASSUME NEW u \in Held(r) PROVE u \in Held(s) \cup {t}
    <3>1. PICK b \in Bucket : u \in Range(r.buckets[b])
      BY DEF Held
    <3>2. u = t \/ u \in Range(s.buckets[b])
      BY <1>3, <1>5, <1>9, <3>1
    <3> QED BY <3>2, SetFacts
  <2>2. ASSUME NEW u \in Held(s) \cup {t} PROVE u \in Held(r)
    <3>1. CASE u = t
      BY <1>2, <1>5, <1>9, <3>1 DEF Held
    <3>2. CASE u \in Held(s)
      <4>1. PICK b \in Bucket : u \in Range(s.buckets[b]) /\ u \in Timer
        BY <3>2 DEF Held
      <4>2. u \in Range(r.buckets[b])
        BY <1>3, <1>5, <1>9, <4>1
      <4> QED BY <4>1, <4>2 DEF Held
    <3> QED BY <2>2, <3>1, <3>2
  <2> QED BY <2>1, <2>2
<1>13. Placed(r, due)
  BY <1>11 DEF Placed
<1> QED BY <1>6, <1>8, <1>10, <1>12, <1>13

LEMMA RemoveFacts ==
    ASSUME NEW s \in Sets, NEW due \in Dues, Placed(s, due), NEW t \in Held(s)
    PROVE  /\ remove(s, t, due[t]) \in Sets
           /\ Placed(remove(s, t, due[t]), due)
           /\ Held(remove(s, t, due[t])) = Held(s) \ {t}
           /\ remove(s, t, due[t]).last = s.last
           /\ remove(s, t, due[t]).next = s.next
<1>1. PICK i : i = get_index(due[t], s.last)
  OBVIOUS
<1>2. t \in Timer /\ due[t] \in Time /\ i \in Bucket
  BY <1>1, SetFacts, IndexFacts DEF Dues
<1>3. PICK rest : rest = [b \in Bucket |-> Only(s.buckets[b], Timer \ {t})]
  OBVIOUS
<1>4. ASSUME NEW b \in Bucket
      PROVE  /\ rest[b] \in Seq(Timer) /\ Range(rest[b]) = Range(s.buckets[b]) \ {t}
             /\ IsInjective(rest[b])
  <2>1. PICK list \in Seq(Timer) : list = s.buckets[b]
    BY SetFacts
  <2>2. rest[b] = Only(list, Timer \ {t})
    BY <1>3, <2>1
  <2>3. IsInjective(list) /\ Range(list) \subseteq Timer
    BY <2>1, SetFacts DEF Placed
  <2>4. rest[b] \in Seq(Timer) /\ Range(rest[b]) = Range(list) \cap (Timer \ {t}) /\ IsInjective(rest[b])
    BY <2>2, <2>3, OnlyFacts
  <2> QED BY <2>1, <2>3, <2>4
<1>5. ASSUME NEW b \in Bucket, t \in Range(s.buckets[b]) PROVE b = i
  BY <1>1, <1>5 DEF Placed
<1>6. PICK r : r = remove(s, t, due[t])
  OBVIOUS
<1>7. r = [s EXCEPT !.buckets = rest, !.nonEmpty = IF rest[i] = << >> THEN @ \ {i} ELSE @]
  BY <1>1, <1>3, <1>6, Zenon DEF remove
<1>8. /\ r = [buckets |-> r.buckets, nonEmpty |-> r.nonEmpty, last |-> r.last, next |-> r.next]
      /\ r.buckets = rest
      /\ r.nonEmpty = IF rest[i] = << >> THEN s.nonEmpty \ {i} ELSE s.nonEmpty
      /\ r.last = s.last /\ r.next = s.next
  BY <1>7 DEF Sets
<1>9. r \in Sets
  <2>1. rest \in [Bucket -> Seq(Timer)]
    BY <1>3, <1>4
  <2> QED BY <1>8, <2>1, SetFacts DEF Sets
<1>10. ASSUME NEW b \in Bucket
       PROVE  /\ b \in r.nonEmpty <=> r.buckets[b] # << >>
              /\ IsInjective(r.buckets[b])
              /\ \A u \in Range(r.buckets[b]) : get_index(due[u], r.last) = b
  <2>1. PICK list \in Seq(Timer) : list = s.buckets[b]
    BY SetFacts
  <2>2. (b \in s.nonEmpty <=> list # << >>) /\ \A u \in Range(list) : get_index(due[u], s.last) = b
    BY <2>1 DEF Placed
  <2>3. PICK left \in Seq(Timer) : left = rest[b]
    BY <1>4
  <2>4. Range(left) = Range(list) \ {t} /\ IsInjective(left)
    BY <1>4, <2>1, <2>3
  <2>5. b \in r.nonEmpty <=> left # << >>
    <3>1. CASE b = i
      <4>1. i \in s.nonEmpty
        <5>1. PICK j \in Bucket : t \in Range(s.buckets[j])
          BY DEF Held
        <5>2. j = i
          BY <1>5, <5>1
        <5>3. list # << >>
          BY <2>1, <3>1, <5>1, <5>2, EmptyList
        <5> QED BY <2>2, <3>1, <5>3
      <4> QED BY <1>8, <2>3, <3>1, <4>1
    <3>2. CASE b # i
      <4>1. t \notin Range(list)
        BY <1>5, <2>1, <3>2
      <4>2. Range(left) = Range(list)
        BY <2>4, <4>1
      <4>3. left = << >> <=> list = << >>
        BY <4>2, EmptyList
      <4> QED BY <1>8, <2>2, <3>2, <4>3
    <3> QED BY <3>1, <3>2
  <2> QED BY <1>8, <2>2, <2>3, <2>4, <2>5
<1>11. Held(r) = Held(s) \ {t}
  <2>1. ASSUME NEW u \in Timer PROVE u \in Held(r) <=> u \in Held(s) /\ u # t
    BY <1>4, <1>8 DEF Held
  <2> QED BY <2>1 DEF Held
<1>12. Placed(r, due)
  BY <1>10 DEF Placed
<1> QED BY <1>6, <1>8, <1>9, <1>11, <1>12

LEMMA LeastFacts ==
    ASSUME NEW S \in SUBSET Time
    PROVE  /\ LeastOf(S) \in Time
           /\ \A x \in S : LeastOf(S) <= x
           /\ S # {} => LeastOf(S) \in S
           /\ S = {} => LeastOf(S) = MaxTimestamp
<1>1. CASE S = {}
  BY <1>1, TimeFacts DEF LeastOf, Time
<1>2. CASE S # {}
  <2>1. S \in SUBSET Nat
    BY TimeFacts
  <2>2. \E x \in S : \A y \in S : x <= y
    BY <1>2, <2>1, LeastNatural
  <2>3. LeastOf(S) = CHOOSE x \in S : \A y \in S : x <= y
    BY <1>2, Zenon DEF LeastOf
  <2>4. LeastOf(S) \in S /\ \A y \in S : LeastOf(S) <= y
    BY <2>2, <2>3, Zenon
  <2> QED BY <1>2, <2>4
<1> QED BY <1>1, <1>2

\* The highest of some buckets.
LEMMA HighestBucket ==
    ASSUME NEW S \in SUBSET Bucket, S # {}
    PROVE  LET h == CHOOSE b \in S : \A c \in S : c <= b
           IN h \in S /\ \A c \in S : c <= h
<1> DEFINE Under == {d \in Nat : d <= Bits /\ Bits - d \in S}
<1>1. Bits \in Nat /\ \A b \in S : b \in Nat /\ b <= Bits /\ Bits - (Bits - b) = b /\ Bits - b \in Nat
  BY TimeFacts DEF Bucket
<1>2. Under # {}
  <2>1. PICK b \in S : TRUE
    OBVIOUS
  <2>2. Bits - b \in Under
    BY <1>1, <2>1
  <2> QED BY <2>2
<1>3. Under \in SUBSET Nat
  OBVIOUS
<1>4. PICK d \in Under : \A e \in Under : d <= e
  <2> HIDE DEF Under
  <2> QED BY <1>2, <1>3, LeastNatural
<1>5. \E b \in S : \A c \in S : c <= b
  <2>1. Bits - d \in S /\ d \in Nat
    BY <1>4
  <2>2. ASSUME NEW c \in S PROVE c <= Bits - d
    <3>1. Bits - c \in Under /\ c \in Nat
      BY <1>1
    <3>2. d <= Bits - c
      BY <1>4, <3>1
    <3> QED BY <1>1, <2>1, <3>1, <3>2
  <2> QED BY <2>1, <2>2
<1> QED BY <1>5, Zenon

\* A bucket above that of a time holds timers that have expired, one below it
\* timers that have not and that stay there.
LEMMA Sorted ==
    ASSUME NEW s \in Sets, NEW due \in Dues, Placed(s, due), NEW time \in Time, s.last <= time,
           NEW b \in Bucket, NEW t \in Range(s.buckets[b])
    PROVE  /\ t \in Timer /\ due[t] \in Time
           /\ b > get_index(time, s.last) => due[t] < time
           /\ b < get_index(time, s.last) => due[t] > time /\ get_index(due[t], time) = b
           /\ b = get_index(time, s.last) /\ due[t] > time => get_index(due[t], time) > b
<1>1. t \in Timer /\ due[t] \in Time /\ s.last \in Time
  BY SetFacts DEF Dues
<1>2. get_index(due[t], s.last) = b
  BY DEF Placed
<1>3. b > get_index(time, s.last) => due[t] < time
  BY <1>1, <1>2, HigherIsSooner
<1>4. b < get_index(time, s.last) => due[t] > time
  <2>1. get_index(time, s.last) > get_index(due[t], s.last) => time < due[t]
    BY <1>1, HigherIsSooner
  <2>2. b \in Nat /\ get_index(time, s.last) \in Nat /\ time \in Nat /\ due[t] \in Nat
    BY <1>1, IndexFacts, TimeFacts DEF Bucket
  <2> QED BY <1>2, <2>1, <2>2
<1>5. b < get_index(time, s.last) => get_index(due[t], time) = b
  BY <1>1, <1>2, LowerStays
<1>6. b = get_index(time, s.last) /\ due[t] > time => get_index(due[t], time) > b
  <2>1. get_index(due[t], s.last) = get_index(time, s.last) /\ time < due[t]
           => get_index(due[t], time) > get_index(time, s.last)
    BY <1>1, LaterRises
  <2>2. time \in Nat /\ due[t] \in Nat
    BY <1>1, TimeFacts
  <2> QED BY <1>2, <2>1, <2>2
<1> QED BY <1>1, <1>3, <1>4, <1>5, <1>6

\* expire() returns the timers whose time has come, each of them once.
LEMMA ExpiredFacts ==
    ASSUME NEW s \in Sets, NEW due \in Dues, Placed(s, due), NEW time \in Time, s.last <= time
    PROVE  /\ expireList(s, time, due) \in Seq(Timer)
           /\ IsInjective(expireList(s, time, due))
           /\ Range(expireList(s, time, due)) = Held(s) \cap Over(time, due)
<1>1. PICK i : i = get_index(time, s.last)
  OBVIOUS
<1>2. i \in Bucket /\ i \in Nat /\ Bits \in Nat /\ i <= Bits
  BY <1>1, SetFacts, IndexFacts, TimeFacts DEF Bucket
<1>3. PICK above : above = Above(s, i, Bits - i)
  OBVIOUS
<1>4. above \in Seq(Timer) /\ Range(above) = Splice(s, i, Bits - i) /\ IsInjective(above)
  <2>1. s.buckets \in [Bucket -> Seq(Timer)] /\ Bits - i \in Nat /\ i + (Bits - i) <= Bits
    BY <1>2, SetFacts
  <2>2. OnceEach(s.buckets)
    BY PlacedOnce
  <2> QED BY <1>2, <1>3, <2>1, <2>2, AboveFacts
<1>5. PICK here \in Seq(Timer) : here = s.buckets[i]
  BY <1>2, SetFacts
<1>6. PICK over : over = Only(here, Over(time, due))
  OBVIOUS
<1>7. over \in Seq(Timer) /\ Range(over) = Range(here) \cap Over(time, due) /\ IsInjective(over)
  <2>1. IsInjective(here)
    BY <1>2, <1>5 DEF Placed
  <2> QED BY <1>6, <2>1, OnlyFacts
<1>8. ASSUME NEW t
      PROVE  t \in Splice(s, i, Bits - i) <=> \E b \in Bucket : b > i /\ t \in Range(s.buckets[b])
  <2>1. ASSUME NEW b \in Bucket, b > i, t \in Range(s.buckets[b]) PROVE t \in Splice(s, i, Bits - i)
    <3>1. b - i \in 1 .. Bits - i /\ i + (b - i) = b
      BY <1>2, <2>1 DEF Bucket
    <3>2. b \in s.nonEmpty
      <4>1. PICK list \in Seq(Timer) : list = s.buckets[b]
        BY SetFacts
      <4>2. list # << >>
        BY <2>1, <4>1, EmptyList
      <4> QED BY <4>1, <4>2 DEF Placed
    <3>3. Spliced(s, i + (b - i), t)
      BY <2>1, <3>1, <3>2 DEF Spliced
    <3>4. t \in Timer
      BY <2>1, SetFacts
    <3> QED BY <3>1, <3>3, <3>4 DEF Splice
  <2>2. ASSUME t \in Splice(s, i, Bits - i) PROVE \E b \in Bucket : b > i /\ t \in Range(s.buckets[b])
    <3>1. PICK k \in 1 .. Bits - i : Spliced(s, i + k, t)
      BY <2>2 DEF Splice
    <3>2. i + k \in Bucket /\ i + k > i
      BY <1>2 DEF Bucket
    <3> QED BY <3>1, <3>2 DEF Spliced
  <2> QED BY <2>1, <2>2
<1>9. PICK list : list = above \o over
  OBVIOUS
<1>10. list = expireList(s, time, due)
  BY <1>1, <1>3, <1>5, <1>6, <1>9, Zenon DEF expireList
<1>11. Range(above) \cap Range(over) = {}
  <2> SUFFICES ASSUME NEW t \in Range(above), t \in Range(over) PROVE FALSE
    OBVIOUS
  <2>1. PICK b \in Bucket : b > i /\ t \in Range(s.buckets[b])
    BY <1>4, <1>8
  <2>2. t \in Range(s.buckets[i])
    BY <1>5, <1>7
  <2>3. b # i
    BY <1>2, <2>1 DEF Bucket
  <2> QED BY <1>2, <2>1, <2>2, <2>3, PlacedOnce DEF OnceEach
<1>12. /\ list \in Seq(Timer) /\ IsInjective(list)
       /\ Range(list) = Range(above) \cup Range(over)
  BY <1>4, <1>7, <1>9, <1>11, ConcatFacts
<1>13. ASSUME NEW t PROVE t \in Range(list) <=> t \in Held(s) \cap Over(time, due)
  <2>1. ASSUME t \in Range(above) PROVE t \in Held(s) \cap Over(time, due)
    <3>1. PICK b \in Bucket : b > i /\ t \in Range(s.buckets[b])
      BY <1>4, <1>8, <2>1
    <3>2. t \in Timer /\ due[t] \in Time /\ due[t] < time
      BY <1>1, <3>1, Sorted
    <3>3. due[t] <= time
      <4>1. due[t] \in Nat /\ time \in Nat
        BY <3>2, TimeFacts
      <4> QED BY <3>2, <4>1
    <3> QED BY <3>1, <3>2, <3>3 DEF Held, Over
  <2>2. ASSUME t \in Range(over) PROVE t \in Held(s) \cap Over(time, due)
    BY <1>2, <1>5, <1>7, <2>2, SetFacts
  <2>3. ASSUME t \in Held(s), t \in Over(time, due) PROVE t \in Range(above) \cup Range(over)
    <3>1. PICK b \in Bucket : t \in Range(s.buckets[b])
      BY <2>3 DEF Held
    <3>2. due[t] <= time /\ due[t] \in Nat /\ time \in Nat
      BY <2>3, TimeFacts DEF Over, Dues
    <3>3. ~(b < i)
      BY <1>1, <3>1, <3>2, Sorted
    <3>4. CASE b = i
      BY <1>5, <1>7, <2>3, <3>1, <3>4
    <3>5. CASE b > i
      BY <1>4, <1>8, <3>1, <3>5
    <3> QED BY <1>2, <3>3, <3>4, <3>5 DEF Bucket
  <2> QED BY <1>12, <2>1, <2>2, <2>3
<1> QED BY <1>10, <1>12, <1>13

\* No timer of a set is due before its next.
NextIsEarly(s, due) == \A t \in Held(s) : s.next <= due[t]

\* expire() keeps the timers that are to come, where they now belong, and
\* finds the next of them.
LEMMA KeptFacts ==
    ASSUME NEW s \in Sets, NEW due \in Dues, Placed(s, due), NEW time \in Time, s.last <= time
    PROVE  /\ expireSet(s, time, due) \in Sets
           /\ Placed(expireSet(s, time, due), due)
           /\ Held(expireSet(s, time, due)) = Held(s) \cap Ahead(time, due)
           /\ expireSet(s, time, due).last = time
           /\ NextIsEarly(expireSet(s, time, due), due)
           /\ \/ expireSet(s, time, due).next = MaxTimestamp
              \/ expireSet(s, time, due).nonEmpty # {}
<1> DEFINE i == get_index(time, s.last)
           kept == Only(s.buckets[i], Ahead(time, due))
           moved(b) == Only(kept, {t \in Timer : get_index(due[t], time) = b})
           full == {b \in s.nonEmpty : b < i} \cup {get_index(due[t], time) : t \in Range(kept)}
           new == [b \in Bucket |->
                     IF b < i THEN s.buckets[b]
                     ELSE (IF b > i /\ b \notin s.nonEmpty THEN s.buckets[b] ELSE << >>) \o moved(b)]
           first == LeastOf({due[t] : t \in Range(kept)})
           h == CHOOSE b \in full : \A c \in full : c <= b
<1>1. PICK r : r = expireSet(s, time, due)
  OBVIOUS
<1>2. r = [ buckets |-> new,
            nonEmpty |-> IF new[i] = << >> THEN full \ {i} ELSE full \cup {i},
            last |-> time,
            next |-> IF first = MaxTimestamp /\ full # {}
                     THEN LeastOf({due[t] : t \in Range(new[h])})
                     ELSE first ]
  BY <1>1, ZenonT(60) DEF expireSet
<1>3. i = get_index(time, s.last)
  OBVIOUS
<1>4. kept = Only(s.buckets[i], Ahead(time, due))
  OBVIOUS
<1> HIDE DEF i, kept
<1>5. i \in Bucket /\ i \in Nat
  BY <1>3, SetFacts, IndexFacts, TimeFacts DEF Bucket
<1>6. PICK here \in Seq(Timer) : here = s.buckets[i]
  BY <1>5, SetFacts
<1>7. kept \in Seq(Timer) /\ Range(kept) = Range(here) \cap Ahead(time, due) /\ IsInjective(kept)
  <2>1. IsInjective(here)
    BY <1>5, <1>6 DEF Placed
  <2> QED BY <1>6, <1>4, <2>1, OnlyFacts
<1> DEFINE Moved(b) == {t \in Range(kept) : get_index(due[t], time) = b}
<1>8. ASSUME NEW t \in Range(kept)
      PROVE  /\ t \in Timer /\ due[t] \in Time /\ due[t] > time
             /\ get_index(due[t], time) \in Bucket /\ get_index(due[t], time) > i
  <2>1. t \in Range(s.buckets[i]) /\ due[t] > time
    BY <1>6, <1>7 DEF Ahead
  <2>2. t \in Timer /\ due[t] \in Time /\ get_index(due[t], time) > i
    BY <1>3, <1>5, <2>1, Sorted
  <2> QED BY <2>1, <2>2, IndexFacts
<1>9. ASSUME NEW b \in Bucket
      PROVE  moved(b) \in Seq(Timer) /\ IsInjective(moved(b)) /\ Range(moved(b)) = Moved(b)
  <2> DEFINE S == {t \in Timer : get_index(due[t], time) = b}
  <2>1. Only(kept, S) \in Seq(Timer) /\ IsInjective(Only(kept, S)) /\ Range(Only(kept, S)) = Range(kept) \cap S
    <3> HIDE DEF S
    <3> QED BY <1>7, OnlyFacts
  <2>2. Range(kept) \cap S = Moved(b)
    BY <1>8
  <2> QED BY <2>1, <2>2
<1>10. ASSUME NEW b \in Bucket, b < i PROVE new[b] = s.buckets[b]
  BY <1>10
<1>11. ASSUME NEW b \in Bucket, ~(b < i)
       PROVE  new[b] \in Seq(Timer) /\ IsInjective(new[b]) /\ Range(new[b]) = Moved(b)
  <2>1. PICK old : old = IF b > i /\ b \notin s.nonEmpty THEN s.buckets[b] ELSE << >>
    OBVIOUS
  <2>2. old = << >>
    BY <2>1 DEF Placed
  <2>3. new[b] = old \o moved(b)
    BY <1>11, <2>1
  <2>4. old \in Seq(Timer) /\ Range(old) = {} /\ IsInjective(old)
    BY <2>2, EmptyList
  <2>5. PICK more \in Seq(Timer) : more = moved(b)
    BY <1>9
  <2>6. IsInjective(more) /\ Range(more) = Moved(b)
    BY <1>9, <2>5
  <2>7. PICK both : both = old \o more
    OBVIOUS
  <2>8. both \in Seq(Timer) /\ Range(both) = Range(old) \cup Range(more) /\ IsInjective(both)
    BY <2>4, <2>6, <2>7, ConcatFacts
  <2>9. both = new[b] /\ Range(both) = Moved(b)
    BY <2>3, <2>4, <2>5, <2>6, <2>7, <2>8
  <2> QED BY <2>8, <2>9
<1> HIDE DEF moved, new, first, h
<1>12. full \in SUBSET Bucket /\ i \notin full
  BY <1>5, <1>8, SetFacts
<1>13. new[i] = << >>
  <2>1. Moved(i) = {}
    BY <1>5, <1>8
  <2>2. new[i] \in Seq(Timer) /\ Range(new[i]) = {}
    BY <1>5, <1>11, <2>1
  <2> QED BY <2>2, EmptyList
<1>14. /\ r.buckets = new /\ r.nonEmpty = full /\ r.last = time
       /\ r.next = IF first = MaxTimestamp /\ full # {}
                   THEN LeastOf({due[t] : t \in Range(new[h])})
                   ELSE first
  BY <1>2, <1>12, <1>13
<1>15. ASSUME NEW b \in Bucket
       PROVE  /\ new[b] \in Seq(Timer) /\ IsInjective(new[b])
              /\ b \in full <=> new[b] # << >>
              /\ \A t \in Range(new[b]) : get_index(due[t], time) = b /\ t \in Timer /\ due[t] > time
  <2>1. CASE b < i
    <3>1. new[b] = s.buckets[b]
      BY <1>10, <2>1
    <3>2. new[b] \in Seq(Timer) /\ IsInjective(new[b]) /\ (b \in s.nonEmpty <=> new[b] # << >>)
      BY <3>1, SetFacts DEF Placed
    <3>3. b \in full <=> b \in s.nonEmpty
      <4>1. \A t \in Range(kept) : get_index(due[t], time) # b
        BY <1>5, <1>8, <2>1 DEF Bucket
      <4> QED BY <2>1, <4>1
    <3>4. \A t \in Range(new[b]) : get_index(due[t], time) = b /\ t \in Timer /\ due[t] > time
      BY <1>3, <2>1, <3>1, Sorted
    <3> QED BY <3>2, <3>3, <3>4
  <2>2. CASE ~(b < i)
    <3>1. new[b] \in Seq(Timer) /\ IsInjective(new[b]) /\ Range(new[b]) = Moved(b)
      BY <1>11, <2>2
    <3>2. b \in full <=> Moved(b) # {}
      BY <2>2
    <3>3. new[b] = << >> <=> Moved(b) = {}
      BY <3>1, EmptyList
    <3>4. \A t \in Moved(b) : get_index(due[t], time) = b /\ t \in Timer /\ due[t] > time
      BY <1>8
    <3> QED BY <3>1, <3>2, <3>3, <3>4
  <2> QED BY <2>1, <2>2
<1>16. new \in [Bucket -> Seq(Timer)]
  <2>1. new = [b \in Bucket |-> new[b]]
    BY DEF new
  <2> QED BY <1>15, <2>1
<1>17. /\ first \in Time
       /\ \A t \in Range(kept) : first <= due[t]
       /\ Range(kept) # {} => \E u \in Range(kept) : first = due[u]
       /\ Range(kept) = {} => first = MaxTimestamp
  <2>1. PICK D : D = {due[t] : t \in Range(kept)}
    OBVIOUS
  <2>2. D \in SUBSET Time /\ first = LeastOf(D)
    BY <1>8, <2>1 DEF first
  <2>3. /\ first \in Time /\ \A x \in D : first <= x
        /\ D # {} => first \in D
        /\ D = {} => first = MaxTimestamp
    BY <2>2, LeastFacts
  <2>4. D = {} <=> Range(kept) = {}
    BY <2>1
  <2> HIDE DEF first
  <2> QED BY <2>1, <2>3, <2>4
<1>18. ASSUME NEW t \in Timer PROVE t \in Held(r) <=> \E b \in Bucket : t \in Range(new[b])
  BY <1>14 DEF Held
<1>19. ASSUME full # {}
       PROVE  /\ h \in full /\ \A b \in full : b <= h
              /\ LeastOf({due[t] : t \in Range(new[h])}) \in Time
              /\ \A t \in Range(new[h]) : LeastOf({due[u] : u \in Range(new[h])}) <= due[t]
              /\ \E t \in Range(new[h]) : LeastOf({due[u] : u \in Range(new[h])}) = due[t]
  <2>1. h \in full /\ \A b \in full : b <= h
    <3> HIDE DEF full
    <3> QED BY <1>12, <1>19, HighestBucket DEF h
  <2>2. PICK D : D = {due[t] : t \in Range(new[h])}
    OBVIOUS
  <2>3. D \in SUBSET Time
    BY <1>12, <1>15, <2>1, <2>2 DEF Dues
  <2>4. new[h] \in Seq(Timer) /\ new[h] # << >>
    BY <1>12, <1>15, <2>1
  <2>5. D # {}
    BY <2>2, <2>4, EmptyList
  <2>6. LeastOf(D) \in Time /\ LeastOf(D) \in D /\ \A x \in D : LeastOf(D) <= x
    BY <2>3, <2>5, LeastFacts
  <2> QED BY <2>1, <2>2, <2>6
<1>20. r \in Sets
  <2>1. r.next \in Time
    BY <1>14, <1>17, <1>19
  <2>2. r = [buckets |-> r.buckets, nonEmpty |-> r.nonEmpty, last |-> r.last, next |-> r.next]
    BY <1>2
  <2> HIDE DEF full
  <2> QED BY <1>12, <1>14, <1>16, <2>1, <2>2 DEF Sets
<1>21. Placed(r, due)
  <2> HIDE DEF full
  <2> QED BY <1>14, <1>15 DEF Placed
<1>22. Held(r) = Held(s) \cap Ahead(time, due)
  <2>1. ASSUME NEW t \in Held(r) PROVE t \in Held(s) \cap Ahead(time, due)
    <3>1. PICK b \in Bucket : t \in Range(new[b])
      BY <1>18, <2>1 DEF Held
    <3>2. t \in Timer /\ due[t] > time
      BY <1>15, <3>1
    <3>3. t \in Held(s)
      <4>1. CASE b < i
        BY <1>10, <3>1, <4>1, SetFacts
      <4>2. CASE ~(b < i)
        BY <1>5, <1>6, <1>7, <1>11, <3>1, <4>2, SetFacts
      <4> QED BY <4>1, <4>2
    <3> QED BY <3>2, <3>3 DEF Ahead
  <2>2. ASSUME NEW t \in Held(s), t \in Ahead(time, due) PROVE t \in Held(r)
    <3>1. PICK b \in Bucket : t \in Range(s.buckets[b])
      BY DEF Held
    <3>2. t \in Timer /\ due[t] \in Nat /\ due[t] > time /\ time \in Nat
      BY <2>2, TimeFacts DEF Ahead, Dues
    <3>3. ~(b > i)
      BY <1>3, <3>1, <3>2, Sorted
    <3>4. CASE b < i
      <4>1. t \in Range(new[b])
        BY <1>10, <3>1, <3>4
      <4> QED BY <1>18, <3>2, <4>1
    <3>5. CASE b = i
      <4>1. t \in Range(kept)
        BY <1>6, <1>7, <2>2, <3>1, <3>5
      <4>2. PICK c : c = get_index(due[t], time)
        OBVIOUS
      <4>3. c \in Bucket /\ c > i
        BY <1>8, <4>1, <4>2
      <4>4. ~(c < i) /\ t \in Moved(c)
        BY <1>5, <4>1, <4>2, <4>3 DEF Bucket
      <4>5. t \in Range(new[c])
        BY <1>11, <4>3, <4>4
      <4> QED BY <1>18, <3>2, <4>3, <4>5
    <3> QED BY <1>5, <3>3, <3>4, <3>5 DEF Bucket
  <2> QED BY <2>1, <2>2
<1>23. NextIsEarly(r, due)
  <2> SUFFICES ASSUME NEW t \in Held(r) PROVE r.next <= due[t]
    BY DEF NextIsEarly
  <2>1. PICK b \in Bucket : t \in Range(new[b]) /\ t \in Timer
    BY <1>18 DEF Held
  <2>2. b \in full /\ get_index(due[t], time) = b /\ due[t] \in Time
    <3>1. new[b] # << >>
      BY <2>1, EmptyList
    <3> QED BY <1>15, <2>1, <3>1 DEF Dues
  <2>3. ASSUME NEW u \in Timer, get_index(due[u], time) > b PROVE due[u] <= due[t]
    <3>1. due[u] \in Time /\ due[u] \in Nat /\ due[t] \in Nat
      BY <2>2, TimeFacts DEF Dues
    <3>2. due[u] < due[t]
      BY <2>2, <2>3, <3>1, HigherIsSooner
    <3> QED BY <3>1, <3>2
  <2>4. CASE first = MaxTimestamp
    <3>1. full # {}
      BY <2>2
    <3>2. r.next = LeastOf({due[u] : u \in Range(new[h])})
      BY <1>14, <2>4, <3>1
    <3>3. h \in Bucket /\ b <= h
      BY <1>12, <1>19, <2>2, <3>1
    <3>4. CASE b = h
      BY <1>19, <2>1, <3>1, <3>2, <3>4
    <3>5. CASE b # h
      <4>1. PICK u \in Range(new[h]) : r.next = due[u]
        BY <1>19, <3>1, <3>2
      <4>2. u \in Timer /\ get_index(due[u], time) = h
        BY <1>15, <3>3, <4>1
      <4>3. h > b
        BY <3>3, <3>5, TimeFacts DEF Bucket
      <4> QED BY <2>3, <4>1, <4>2, <4>3
    <3> QED BY <3>4, <3>5
  <2>5. CASE first # MaxTimestamp
    <3>1. r.next = first /\ Range(kept) # {}
      BY <1>14, <1>17, <2>5
    <3>2. PICK u \in Range(kept) : first = due[u]
      BY <1>17, <3>1
    <3>3. CASE b < i
      <4>1. u \in Timer /\ get_index(due[u], time) > i /\ get_index(due[u], time) \in Nat
        BY <1>8, TimeFacts DEF Bucket
      <4>2. get_index(due[u], time) > b
        BY <1>5, <3>3, <4>1, TimeFacts DEF Bucket
      <4> QED BY <2>3, <3>1, <3>2, <4>1, <4>2
    <3>4. CASE ~(b < i)
      <4>1. t \in Range(kept)
        BY <1>11, <2>1, <3>4
      <4> QED BY <1>17, <3>1, <4>1
    <3> QED BY <3>3, <3>4
  <2> QED BY <2>4, <2>5
<1>24. r.next = MaxTimestamp \/ r.nonEmpty # {}
  <2>1. CASE Range(kept) = {}
    BY <1>14, <1>17, <2>1
  <2>2. CASE Range(kept) # {}
    BY <1>14, <2>2
  <2> QED BY <2>1, <2>2
<1> QED BY <1>1, <1>14, <1>20, <1>21, <1>22, <1>23, <1>24, ZenonT(60)

-----------------------------------------------------------------------------
(* The timers, the set and the list of expired timers together.            *)

TimerStates == [expiry : Time, period : Period \cup {0},
                armed : BOOLEAN, queued : BOOLEAN, expired : BOOLEAN]
Due(tm) == [t \in Timer |-> tm[t].expiry]

\* The armed timers are in the set or in the list, which their flags say,
\* and none of those in the set is due before its next.
Filed(tm, s, list) ==
    /\ Placed(s, Due(tm))
    /\ NextIsEarly(s, Due(tm))
    /\ IsInjective(list)
    /\ \A t \in Timer : /\ tm[t].armed <=> tm[t].queued
                        /\ tm[t].queued <=> t \in Held(s) \/ t \in Range(list)
                        /\ ~(t \in Held(s) /\ t \in Range(list))
                        /\ t \in Range(list) => tm[t].expired
                        /\ t \in Held(s) => ~tm[t].expired

\* more is tm but for the timer t.
Replaced(tm, t, new, more) ==
    /\ more \in [Timer -> TimerStates] /\ more[t] = new
    /\ \A u \in Timer : u # t => more[u] = tm[u]
    /\ Due(tm) \in Dues /\ Due(more) \in Dues
    /\ Due(more)[t] = new.expiry
    /\ \A u \in Timer : u # t => Due(more)[u] = Due(tm)[u]
    /\ \A u \in Timer : Due(tm)[u] = tm[u].expiry

LEMMA DueFacts ==
    ASSUME NEW tm \in [Timer -> TimerStates], NEW t \in Timer, NEW new \in TimerStates
    PROVE  Replaced(tm, t, new, [tm EXCEPT ![t] = new])
<1> DEFINE more == [tm EXCEPT ![t] = new]
<1>1. /\ more \in [Timer -> TimerStates] /\ more[t] = new
      /\ \A u \in Timer : u # t => more[u] = tm[u]
  OBVIOUS
<1>2. ASSUME NEW any \in [Timer -> TimerStates]
      PROVE  Due(any) \in Dues /\ \A u \in Timer : Due(any)[u] = any[u].expiry
  <2>1. \A u \in Timer : any[u].expiry \in Time
    BY DEF TimerStates
  <2> QED BY <2>1 DEF Due, Dues
<1>3. Due(tm) \in Dues /\ \A u \in Timer : Due(tm)[u] = tm[u].expiry
  BY <1>2
<1>4. Due(more) \in Dues /\ \A u \in Timer : Due(more)[u] = more[u].expiry
  BY <1>1, <1>2
<1> HIDE DEF more
<1>5. Replaced(tm, t, new, more)
  BY <1>1, <1>3, <1>4 DEF Replaced
<1> QED BY <1>5 DEF more

\* Arming a timer that is in neither.
LEMMA ArmFiled ==
    ASSUME NEW tm \in [Timer -> TimerStates], NEW s \in Sets, NEW list \in Seq(Timer), Filed(tm, s, list),
           NEW t \in Timer, ~tm[t].queued,
           NEW new \in TimerStates, new.armed, new.queued, ~new.expired
    PROVE  /\ insert(s, t, new.expiry) \in Sets
           /\ Filed([tm EXCEPT ![t] = new], insert(s, t, new.expiry), list)
           /\ insert(s, t, new.expiry).last = s.last
           /\ insert(s, t, new.expiry).next = Lesser(new.expiry, s.next)
           /\ insert(s, t, new.expiry).nonEmpty # {}
<1>1. PICK more : more = [tm EXCEPT ![t] = new]
  OBVIOUS
<1>2. PICK r : r = insert(s, t, new.expiry)
  OBVIOUS
<1>3. PICK due : due = Due(more)
  OBVIOUS
<1>4. /\ more[t] = new /\ \A u \in Timer : u # t => more[u] = tm[u]
      /\ due \in Dues /\ due[t] = new.expiry /\ \A u \in Timer : u # t => due[u] = Due(tm)[u]
      /\ \A u \in Timer : due[u] \in Nat
  <2>1. /\ more[t] = new /\ \A u \in Timer : u # t => more[u] = tm[u]
        /\ due \in Dues /\ due[t] = new.expiry /\ \A u \in Timer : u # t => due[u] = Due(tm)[u]
    <3>1. Replaced(tm, t, new, more)
      BY <1>1, DueFacts
    <3> QED BY <1>3, <3>1 DEF Replaced
  <2>2. \A u \in Timer : due[u] \in Nat
    BY <2>1, TimeFacts DEF Dues
  <2> QED BY <2>1, <2>2
<1>5. t \notin Held(s) /\ t \notin Range(list)
  BY DEF Filed
<1>6. \A u \in Held(s) : due[u] = Due(tm)[u]
  BY <1>4, <1>5, SetFacts
<1>7. Placed(s, due)
  BY <1>6, PlacedSame DEF Filed
<1>8. /\ r \in Sets /\ Placed(r, due) /\ Held(r) = Held(s) \cup {t} /\ r.last = s.last
      /\ r.next = Lesser(new.expiry, s.next) /\ r.nonEmpty # {}
  <2>1. r = insert(s, t, due[t])
    BY <1>2, <1>4
  <2>2. /\ r \in Sets /\ Placed(r, due) /\ Held(r) = Held(s) \cup {t} /\ r.last = s.last
        /\ r.next = Lesser(due[t], s.next) /\ r.nonEmpty # {}
    BY <1>4, <1>5, <1>7, <2>1, InsertFacts
  <2> QED BY <1>4, <2>2
<1>9. NextIsEarly(r, due)
  <2> SUFFICES ASSUME NEW u \in Held(r) PROVE r.next <= due[u]
    BY DEF NextIsEarly
  <2>1. s.next \in Nat /\ due[t] \in Nat /\ u \in Timer
    BY <1>4, <1>8, SetFacts, TimeFacts
  <2>2. CASE u = t
    BY <1>4, <1>8, <2>1, <2>2 DEF Lesser
  <2>3. CASE u # t
    <3>1. s.next <= due[u] /\ due[u] \in Nat
      BY <1>4, <1>6, <1>8, <2>1, <2>3 DEF Filed, NextIsEarly
    <3> QED BY <1>4, <1>8, <2>1, <3>1 DEF Lesser
  <2> QED BY <2>2, <2>3
<1>10. Filed(more, r, list)
  <2>1. ASSUME NEW u \in Timer
        PROVE  /\ more[u].armed <=> more[u].queued
               /\ more[u].queued <=> u \in Held(r) \/ u \in Range(list)
               /\ ~(u \in Held(r) /\ u \in Range(list))
               /\ u \in Range(list) => more[u].expired
               /\ u \in Held(r) => ~more[u].expired
    <3>1. CASE u = t
      BY <1>4, <1>5, <1>8, <3>1
    <3>2. CASE u # t
      <4>1. more[u] = tm[u] /\ (u \in Held(r) <=> u \in Held(s))
        BY <1>4, <1>8, <3>2
      <4> QED BY <4>1 DEF Filed
    <3> QED BY <3>1, <3>2
  <2>2. IsInjective(list)
    BY DEF Filed
  <2> QED BY <1>3, <1>8, <1>9, <2>1, <2>2 DEF Filed
<1> QED BY <1>1, <1>2, <1>8, <1>10

\* Cancelling or destroying a timer that is not in the list.
Without(tm, s, t) == IF tm[t].queued THEN remove(s, t, tm[t].expiry) ELSE s

LEMMA DropFiled ==
    ASSUME NEW tm \in [Timer -> TimerStates], NEW s \in Sets, NEW list \in Seq(Timer), Filed(tm, s, list),
           NEW t \in Timer, ~(tm[t].queued /\ tm[t].expired),
           NEW new \in TimerStates, ~new.armed, ~new.queued
    PROVE  /\ Without(tm, s, t) \in Sets
           /\ Filed([tm EXCEPT ![t] = new], Without(tm, s, t), list)
           /\ Without(tm, s, t).last = s.last
           /\ Without(tm, s, t).next = s.next
           /\ t \notin Range(list)
<1>1. PICK more : more = [tm EXCEPT ![t] = new]
  OBVIOUS
<1>2. PICK r : r = Without(tm, s, t)
  OBVIOUS
<1>3. PICK due : due = Due(more)
  OBVIOUS
<1>4. /\ more[t] = new /\ \A u \in Timer : u # t => more[u] = tm[u]
      /\ due \in Dues /\ \A u \in Timer : u # t => due[u] = Due(tm)[u]
      /\ Due(tm) \in Dues /\ Due(tm)[t] = tm[t].expiry
  <2>1. Replaced(tm, t, new, more)
    BY <1>1, DueFacts
  <2> QED BY <1>3, <2>1 DEF Replaced
<1>5. t \notin Range(list)
  BY DEF Filed
<1>6. /\ r \in Sets /\ Placed(r, Due(tm)) /\ Held(r) = Held(s) \ {t} /\ r.last = s.last /\ r.next = s.next
  <2>1. Placed(s, Due(tm)) /\ (tm[t].queued <=> t \in Held(s))
    BY <1>5 DEF Filed
  <2>2. CASE tm[t].queued
    <3>1. r = remove(s, t, Due(tm)[t])
      BY <1>2, <1>4, <2>2 DEF Without
    <3> QED BY <1>4, <2>1, <2>2, <3>1, RemoveFacts
  <2>3. CASE ~tm[t].queued
    BY <1>2, <2>1, <2>3 DEF Without
  <2> QED BY <2>2, <2>3
<1>7. \A u \in Held(r) : u \in Timer /\ u # t /\ u \in Held(s) /\ due[u] = Due(tm)[u]
  BY <1>4, <1>6, SetFacts
<1>8. Placed(r, due)
  BY <1>6, <1>7, PlacedSame
<1>9. NextIsEarly(r, due)
  BY <1>6, <1>7 DEF Filed, NextIsEarly
<1>10. Filed(more, r, list)
  <2>1. ASSUME NEW u \in Timer
        PROVE  /\ more[u].armed <=> more[u].queued
               /\ more[u].queued <=> u \in Held(r) \/ u \in Range(list)
               /\ ~(u \in Held(r) /\ u \in Range(list))
               /\ u \in Range(list) => more[u].expired
               /\ u \in Held(r) => ~more[u].expired
    <3>1. CASE u = t
      BY <1>4, <1>5, <1>6, <3>1
    <3>2. CASE u # t
      <4>1. more[u] = tm[u] /\ (u \in Held(r) <=> u \in Held(s))
        BY <1>4, <1>6, <3>2
      <4> QED BY <4>1 DEF Filed
    <3> QED BY <3>1, <3>2
  <2>2. IsInjective(list)
    BY DEF Filed
  <2> QED BY <1>3, <1>8, <1>9, <2>1, <2>2 DEF Filed
<1> QED BY <1>1, <1>2, <1>5, <1>6, <1>10

\* A timer leaves the list to be called.
LEMMA FireFiled ==
    ASSUME NEW tm \in [Timer -> TimerStates], NEW s \in Sets, NEW list \in Seq(Timer), Filed(tm, s, list),
           list # << >>, NEW new \in TimerStates, ~new.armed, ~new.queued
    PROVE  Filed([tm EXCEPT ![Head(list)] = new], s, Tail(list))
<1>1. PICK t : t = Head(list)
  OBVIOUS
<1>2. PICK rest : rest = Tail(list)
  OBVIOUS
<1>3. /\ t \in Timer /\ t \in Range(list) /\ rest \in Seq(Timer) /\ IsInjective(rest)
      /\ Range(rest) = Range(list) \ {t}
  BY <1>1, <1>2, TailFacts DEF Filed
<1>4. PICK more : more = [tm EXCEPT ![t] = new]
  OBVIOUS
<1>5. PICK due : due = Due(more)
  OBVIOUS
<1>6. /\ more[t] = new /\ \A u \in Timer : u # t => more[u] = tm[u]
      /\ \A u \in Timer : u # t => due[u] = Due(tm)[u]
  <2>1. Replaced(tm, t, new, more)
    BY <1>3, <1>4, DueFacts
  <2> QED BY <1>5, <2>1 DEF Replaced
<1>7. t \notin Held(s)
  BY <1>3 DEF Filed
<1>8. \A u \in Held(s) : due[u] = Due(tm)[u]
  BY <1>6, <1>7, SetFacts
<1>9. Placed(s, due)
  BY <1>8, PlacedSame DEF Filed
<1>10. NextIsEarly(s, due)
  BY <1>8 DEF Filed, NextIsEarly
<1>11. ASSUME NEW u \in Timer
       PROVE  /\ more[u].armed <=> more[u].queued
              /\ more[u].queued <=> u \in Held(s) \/ u \in Range(rest)
              /\ ~(u \in Held(s) /\ u \in Range(rest))
              /\ u \in Range(rest) => more[u].expired
              /\ u \in Held(s) => ~more[u].expired
  <2>1. CASE u = t
    BY <1>3, <1>6, <1>7, <2>1
  <2>2. CASE u # t
    <3>1. more[u] = tm[u] /\ (u \in Range(rest) <=> u \in Range(list))
      BY <1>3, <1>6, <2>2
    <3> QED BY <3>1 DEF Filed
  <2> QED BY <2>1, <2>2
<1>12. Filed(more, s, rest)
  BY <1>3, <1>5, <1>9, <1>10, <1>11 DEF Filed
<1> QED BY <1>1, <1>2, <1>4, <1>12

\* The timers that have expired move from the set to the list.
Marked(tm, list) ==
    [t \in Timer |-> IF t \in Range(list) THEN [tm[t] EXCEPT !.expired = TRUE] ELSE tm[t]]

LEMMA CollectFiled ==
    ASSUME NEW tm \in [Timer -> TimerStates], NEW s \in Sets, Filed(tm, s, << >>),
           NEW time \in Time, s.last <= time
    PROVE  LET list == expireList(s, time, Due(tm))
               r == expireSet(s, time, Due(tm))
           IN /\ list \in Seq(Timer) /\ r \in Sets
              /\ Marked(tm, list) \in [Timer -> TimerStates]
              /\ Filed(Marked(tm, list), r, list)
              /\ r.last = time
              /\ r.next = MaxTimestamp \/ r.nonEmpty # {}
              /\ \A t \in Range(list) : t \in Timer /\ tm[t].expiry <= time
<1>1. PICK due : due = Due(tm)
  OBVIOUS
<1>2. due \in Dues /\ \A u \in Timer : due[u] = tm[u].expiry /\ due[u] \in Nat
  <2>1. \A u \in Timer : tm[u].expiry \in Time
    BY DEF TimerStates
  <2>2. due \in Dues /\ \A u \in Timer : due[u] = tm[u].expiry
    BY <1>1, <2>1 DEF Due, Dues
  <2> QED BY <2>1, <2>2, TimeFacts
<1>3. Placed(s, due)
  BY <1>1 DEF Filed
<1>4. PICK list : list = expireList(s, time, due)
  OBVIOUS
<1>5. list \in Seq(Timer) /\ IsInjective(list) /\ Range(list) = Held(s) \cap Over(time, due)
  BY <1>2, <1>3, <1>4, ExpiredFacts
<1>6. PICK r : r = expireSet(s, time, due)
  OBVIOUS
<1>7. /\ r \in Sets /\ Placed(r, due) /\ Held(r) = Held(s) \cap Ahead(time, due) /\ r.last = time
      /\ NextIsEarly(r, due) /\ (r.next = MaxTimestamp \/ r.nonEmpty # {})
  BY <1>2, <1>3, <1>6, KeptFacts
<1>8. PICK more : more = Marked(tm, list)
  OBVIOUS
<1>9. ASSUME NEW u \in Timer
      PROVE  /\ more[u] \in TimerStates
             /\ more[u].expiry = tm[u].expiry
             /\ more[u].armed <=> tm[u].armed
             /\ more[u].queued <=> tm[u].queued
             /\ more[u].expired <=> u \in Range(list) \/ tm[u].expired
  <2>1. tm[u] \in TimerStates
    OBVIOUS
  <2>2. more[u] = IF u \in Range(list) THEN [tm[u] EXCEPT !.expired = TRUE] ELSE tm[u]
    BY <1>8 DEF Marked
  <2>3. CASE u \in Range(list)
    <3>1. more[u] = [tm[u] EXCEPT !.expired = TRUE]
      BY <2>2, <2>3
    <3> QED BY <2>1, <2>3, <3>1 DEF TimerStates
  <2>4. CASE u \notin Range(list)
    BY <2>1, <2>2, <2>4 DEF TimerStates
  <2> QED BY <2>3, <2>4
<1>10. more \in [Timer -> TimerStates]
  <2>1. more = [u \in Timer |-> more[u]]
    BY <1>8 DEF Marked
  <2> QED BY <1>9, <2>1
<1>11. Due(more) = due
  BY <1>1, <1>9 DEF Due
<1>12. ASSUME NEW u \in Timer
       PROVE  /\ more[u].armed <=> more[u].queued
              /\ more[u].queued <=> u \in Held(r) \/ u \in Range(list)
              /\ ~(u \in Held(r) /\ u \in Range(list))
              /\ u \in Range(list) => more[u].expired
              /\ u \in Held(r) => ~more[u].expired
  <2>1. /\ tm[u].armed <=> tm[u].queued
        /\ tm[u].queued <=> u \in Held(s)
        /\ u \in Held(s) => ~tm[u].expired
    BY EmptyList DEF Filed
  <2>2. /\ u \in Range(list) <=> u \in Held(s) /\ due[u] <= time
        /\ u \in Held(r) <=> u \in Held(s) /\ due[u] > time
    BY <1>5, <1>7 DEF Over, Ahead
  <2>3. ~(due[u] <= time /\ due[u] > time) /\ (due[u] <= time \/ due[u] > time)
    <3>1. due[u] \in Nat /\ time \in Nat
      BY <1>2, TimeFacts
    <3> QED BY <3>1
  <2> QED BY <1>9, <2>1, <2>2, <2>3, Zenon
<1>13. Filed(more, r, list)
  BY <1>5, <1>7, <1>11, <1>12 DEF Filed
<1>14. \A t \in Range(list) : t \in Timer /\ tm[t].expiry <= time
  BY <1>2, <1>5 DEF Over
<1> QED BY <1>1, <1>4, <1>5, <1>6, <1>7, <1>8, <1>10, <1>13, <1>14

-----------------------------------------------------------------------------
(* The inductive invariant.                                                *)

\* TypeOK, with the variables of the set as one record.
Typed ==
    /\ now \in 1 .. Horizon
    /\ timer \in [Timer -> TimerStates]
    /\ Set \in Sets
    /\ expired \in Seq(Timer)
    /\ deadline \in Time \cup {Never}
    /\ signal \in BOOLEAN /\ crashed \in BOOLEAN
    /\ pc \in {"loop", "expiring", "callback", "asleep"}
    /\ running \in Timer \cup {NoTimer}

Consistent ==
    /\ Typed
    /\ Filed(timer, Set, expired)
    /\ last <= now
    /\ \A t \in Range(expired) : timer[t].expiry <= now
    /\ pc # "callback" => running = NoTimer
    /\ pc \in {"loop", "asleep"} => expired = << >>

LEMMA TypedFacts ==
    ASSUME Typed
    PROVE  /\ now \in Time /\ now \in Nat /\ now # 0
           /\ last \in Time /\ last \in Nat /\ next \in Time /\ next \in Nat
           /\ Set.last = last /\ Set.next = next /\ Set.nonEmpty = nonEmpty /\ Set.buckets = buckets
           /\ deadline \in Int
           /\ \A t \in Timer : timer[t] \in TimerStates /\ timer[t].expiry \in Nat
<1>1. now \in Time /\ now \in Nat /\ now # 0
  BY TimeFacts DEF Typed, Time
<1>2. Set.last = last /\ Set.next = next /\ Set.nonEmpty = nonEmpty /\ Set.buckets = buckets
  BY DEF Set
<1>3. last \in Time /\ next \in Time
  BY <1>2, SetFacts DEF Typed
<1>4. last \in Nat /\ next \in Nat
  BY <1>3, TimeFacts
<1>5. deadline \in Int
  BY TimeFacts DEF Typed, Never
<1>6. ASSUME NEW t \in Timer PROVE timer[t] \in TimerStates /\ timer[t].expiry \in Nat
  <2>1. timer[t] \in TimerStates
    BY DEF Typed
  <2>2. timer[t].expiry \in Time
    BY <2>1 DEF TimerStates
  <2> QED BY <2>1, <2>2, TimeFacts
<1> QED BY <1>1, <1>2, <1>3, <1>4, <1>5, <1>6

LEMMA SetToFacts ==
    ASSUME NEW s \in Sets, SetTo(s)
    PROVE  /\ Set' = s
           /\ last' = s.last /\ next' = s.next /\ nonEmpty' = s.nonEmpty
<1>1. s = [buckets |-> s.buckets, nonEmpty |-> s.nonEmpty, last |-> s.last, next |-> s.next]
  BY DEF Sets
<1>2. /\ buckets' = s.buckets /\ nonEmpty' = s.nonEmpty /\ last' = s.last /\ next' = s.next
  BY DEF SetTo
<1>3. Set' = [buckets |-> buckets', nonEmpty |-> nonEmpty', last |-> last', next |-> next']
  BY DEF Set
<1> QED BY <1>1, <1>2, <1>3

\* What enable_timer sets the kernel timer to.
Wake(when) == IF when = 0 THEN Never ELSE when

\* timer::arm, from a state of the timers in which t is not queued.
ArmedBy(t, until) ==
    /\ Set' \in Sets /\ timer' \in [Timer -> TimerStates]
    /\ Filed(timer', Set', expired)
    /\ \A u \in Timer : u # t => timer'[u] = timer[u]
    /\ last' = last /\ next' = Lesser(until, next) /\ nonEmpty' # {}
    /\ deadline' = IF until < next THEN Wake(Greater(last, until)) ELSE deadline
    /\ deadline' \in Time \cup {Never}

LEMMA ArmOnFiled ==
    ASSUME Typed, NEW t \in Timer, NEW until \in Time, NEW p \in Period \cup {0},
           NEW tm \in [Timer -> TimerStates], NEW s \in Sets, Filed(tm, s, expired),
           ~tm[t].queued, \A u \in Timer : u # t => tm[u] = timer[u],
           s.last = last, s.next = next, ArmOn(s, t, until, p)
    PROVE  ArmedBy(t, until)
<1>1. PICK new : new = [expiry |-> until, period |-> p, armed |-> TRUE, queued |-> TRUE, expired |-> FALSE]
  OBVIOUS
<1>2. new \in TimerStates /\ new.armed /\ new.queued /\ ~new.expired /\ new.expiry = until
  BY <1>1 DEF TimerStates
<1>3. timer' = [timer EXCEPT ![t] = new]
  BY <1>1 DEF ArmOn, ArmState
<1>4. timer' = [tm EXCEPT ![t] = new] /\ timer' \in [Timer -> TimerStates]
      /\ \A u \in Timer : u # t => timer'[u] = timer[u]
  BY <1>2, <1>3 DEF Typed
<1>5. PICK r : r = insert(s, t, until)
  OBVIOUS
<1>6. /\ r \in Sets /\ Filed([tm EXCEPT ![t] = new], r, expired)
      /\ r.last = last /\ r.next = Lesser(until, next) /\ r.nonEmpty # {}
  <2>1. r = insert(s, t, new.expiry)
    BY <1>2, <1>5
  <2>2. expired \in Seq(Timer)
    BY DEF Typed
  <2>3. /\ insert(s, t, new.expiry) \in Sets
        /\ Filed([tm EXCEPT ![t] = new], insert(s, t, new.expiry), expired)
        /\ insert(s, t, new.expiry).last = s.last
        /\ insert(s, t, new.expiry).next = Lesser(new.expiry, s.next)
        /\ insert(s, t, new.expiry).nonEmpty # {}
    BY <1>2, <2>2, ArmFiled, ZenonT(60)
  <2> QED BY <1>2, <2>1, <2>3
<1>7. SetTo(r)
  BY <1>5 DEF ArmOn
<1>8. Set' = r /\ last' = last /\ next' = Lesser(until, next) /\ nonEmpty' # {}
  BY <1>6, <1>7, SetToFacts
<1>9. deadline' = IF until < next THEN Wake(Greater(last, until)) ELSE deadline
  <2>1. CASE until < next
    <3>1. enable_timer(get_next_timeout(r))
      BY <1>5, <2>1 DEF ArmOn
    <3>2. until \in Nat /\ next \in Nat
      BY TypedFacts, TimeFacts
    <3>3. get_next_timeout(r) = Greater(last, until)
      BY <1>6, <2>1, <3>2 DEF get_next_timeout, Lesser
    <3> QED BY <2>1, <3>1, <3>3 DEF enable_timer, Wake
  <2>2. CASE ~(until < next)
    BY <2>2 DEF ArmOn
  <2> QED BY <2>1, <2>2
<1>10. deadline' \in Time \cup {Never}
  <2>1. Greater(last, until) \in Time
    BY TypedFacts DEF Greater
  <2> QED BY <1>9, <2>1 DEF Wake, Typed
<1> QED BY <1>4, <1>6, <1>8, <1>9, <1>10 DEF ArmedBy

\* A timer that is not among the expired ones has been armed.
LEMMA ArmedConsistent ==
    ASSUME Consistent, NEW t \in Timer, t \notin Range(expired), NEW until, ArmedBy(t, until),
           now' = now, expired' = expired, signal' = signal, pc' = pc, running' = running,
           crashed' = crashed
    PROVE  Consistent'
<1>1. Typed /\ Typed'
  BY DEF Consistent, Typed, ArmedBy
<1>2. \A u \in Range(expired) : u # t /\ u \in Timer
  BY <1>1 DEF Typed, Range
<1>3. \A u \in Range(expired') : timer'[u].expiry <= now'
  BY <1>2 DEF Consistent, ArmedBy
<1>4. Filed(timer', Set', expired') /\ last' <= now'
  BY DEF Consistent, ArmedBy
<1> QED BY <1>1, <1>3, <1>4 DEF Consistent

LEMMA ArmStep ==
    ASSUME Consistent, NEW t \in Timer, NEW until \in Time, NEW p \in Period \cup {0}, Arm(t, until, p)
    PROVE  Consistent' /\ ArmedBy(t, until)
<1>1. Typed /\ Filed(timer, Set, expired) /\ timer \in [Timer -> TimerStates] /\ Set \in Sets
  BY DEF Consistent, Typed
<1>2. ~timer[t].queued /\ t \notin Range(expired)
  BY <1>1 DEF Arm, Filed
<1>3. ArmedBy(t, until)
  <2>1. ArmOn(Set, t, until, p)
    BY DEF Arm
  <2>2. Set.last = last /\ Set.next = next
    BY <1>1, TypedFacts
  <2> QED BY <1>1, <1>2, <2>1, <2>2, ArmOnFiled
<1>4. /\ now' = now /\ expired' = expired /\ signal' = signal /\ pc' = pc /\ running' = running
      /\ crashed' = crashed
  BY DEF Arm
<1> QED BY <1>2, <1>3, <1>4, ArmedConsistent

\* A timer that is neither armed nor queued any more.
Off(r) == [r EXCEPT !.queued = FALSE, !.armed = FALSE]

LEMMA OffFacts ==
    ASSUME NEW r \in TimerStates
    PROVE  /\ Off(r) \in TimerStates /\ ~Off(r).armed /\ ~Off(r).queued
           /\ Off(r).expiry = r.expiry /\ Off(r).period = r.period
           /\ [r EXCEPT !.armed = FALSE, !.queued = FALSE] = Off(r)
BY DEF Off, TimerStates

\* What the set is without a timer that is not among the expired ones.
LEMMA WithoutFacts ==
    ASSUME Consistent, NEW t \in Timer, ~DelTimerCrashes(t),
           NEW new \in TimerStates, ~new.armed, ~new.queued
    PROVE  /\ Without(timer, Set, t) \in Sets
           /\ Filed([timer EXCEPT ![t] = new], Without(timer, Set, t), expired)
           /\ Without(timer, Set, t).last = last
           /\ Without(timer, Set, t).next = next
           /\ t \notin Range(expired)
<1>1. Typed /\ Filed(timer, Set, expired)
  BY DEF Consistent
<1>2. timer \in [Timer -> TimerStates] /\ Set \in Sets /\ expired \in Seq(Timer)
  BY <1>1 DEF Typed
<1>3. ~(timer[t].queued /\ timer[t].expired)
  BY DEF DelTimerCrashes
<1>4. /\ Without(timer, Set, t) \in Sets
      /\ Filed([timer EXCEPT ![t] = new], Without(timer, Set, t), expired)
      /\ Without(timer, Set, t).last = Set.last
      /\ Without(timer, Set, t).next = Set.next
      /\ t \notin Range(expired)
  BY <1>1, <1>2, <1>3, DropFiled, Zenon
<1>5. Set.last = last /\ Set.next = next
  BY <1>1, TypedFacts
<1> QED BY <1>4, <1>5

\* timer::cancel and ~timer, of a timer that is not among the expired ones.
LEMMA DropStep ==
    ASSUME Consistent, NEW t \in Timer, ~DelTimerCrashes(t),
           NEW new \in TimerStates, ~new.armed, ~new.queued, timer' = [timer EXCEPT ![t] = new],
           SetTo(Without(timer, Set, t)),
           now' = now, expired' = expired, deadline' = deadline, signal' = signal, pc' = pc,
           running' = running, crashed' = crashed
    PROVE  Consistent' /\ last' = last /\ next' = next
<1>1. PICK r : r = Without(timer, Set, t)
  OBVIOUS
<1>2. /\ r \in Sets /\ Filed([timer EXCEPT ![t] = new], r, expired)
      /\ r.last = last /\ r.next = next /\ t \notin Range(expired)
  BY <1>1, WithoutFacts, Zenon
<1>3. Set' = r /\ last' = last /\ next' = next
  BY <1>1, <1>2, SetToFacts
<1>4. Typed
  BY DEF Consistent
<1>5. timer' \in [Timer -> TimerStates] /\ \A u \in Timer : u # t => timer'[u] = timer[u]
  BY <1>4 DEF Typed
<1>6. Typed'
  BY <1>2, <1>3, <1>4, <1>5 DEF Typed
<1>7. \A u \in Range(expired') : timer'[u].expiry <= now'
  <2>1. \A u \in Range(expired) : u # t /\ u \in Timer
    BY <1>2, <1>4 DEF Typed, Range
  <2> QED BY <1>5, <2>1 DEF Consistent
<1>8. Filed(timer', Set', expired')
  BY <1>2, <1>3
<1> QED BY <1>3, <1>6, <1>7, <1>8 DEF Consistent

\* Steps that leave the timers alone.
LEMMA QuietStep ==
    ASSUME Consistent, timer' = timer, setVars' = setVars, expired' = expired,
           now' \in 1 .. Horizon, now <= now', deadline' \in Time \cup {Never},
           signal' \in BOOLEAN, crashed' \in BOOLEAN,
           pc' \in {"loop", "expiring", "callback", "asleep"}, running' \in Timer \cup {NoTimer},
           pc' # "callback" => running' = NoTimer,
           pc' \in {"loop", "asleep"} => expired = << >>
    PROVE  Consistent' /\ last' = last /\ next' = next /\ nonEmpty' = nonEmpty
<1>1. Set' = Set /\ last' = last /\ next' = next /\ nonEmpty' = nonEmpty
  BY DEF Set, setVars
<1>2. Typed /\ Typed'
  BY <1>1 DEF Consistent, Typed
<1>3. \A u \in Range(expired') : timer'[u].expiry <= now'
  <2>1. ASSUME NEW u \in Range(expired) PROVE timer[u].expiry <= now'
    <3>1. u \in Timer
      BY <1>2 DEF Typed, Range
    <3>2. timer[u].expiry \in Nat /\ now \in Nat /\ now' \in Nat
      BY <1>2, <3>1, TypedFacts, TimeFacts
    <3>3. timer[u].expiry <= now
      BY DEF Consistent
    <3> QED BY <3>2, <3>3
  <2> QED BY <2>1
<1>4. last' <= now'
  <2>1. last \in Nat /\ now \in Nat /\ now' \in Nat
    BY <1>2, TypedFacts, TimeFacts
  <2> QED BY <1>1, <2>1 DEF Consistent
<1>5. Filed(timer', Set', expired')
  BY <1>1 DEF Consistent
<1> QED BY <1>1, <1>2, <1>3, <1>4, <1>5 DEF Consistent

\* A step that leaves what the kernel timer depends on alone.
Still == last' = last /\ next' = next /\ deadline' = deadline

LEMMA CrashStep ==
    ASSUME Consistent, Crash
    PROVE  Consistent' /\ Still
<1>1. /\ now' = now /\ timer' = timer /\ setVars' = setVars /\ expired' = expired
      /\ deadline' = deadline /\ signal' = signal /\ crashed' = TRUE /\ pc' = pc /\ running' = running
  BY DEF Crash, setVars
<1>2. /\ now \in 1 .. Horizon /\ now <= now /\ deadline \in Time \cup {Never} /\ signal \in BOOLEAN
      /\ pc \in {"loop", "expiring", "callback", "asleep"} /\ running \in Timer \cup {NoTimer}
      /\ pc # "callback" => running = NoTimer
      /\ pc \in {"loop", "asleep"} => expired = << >>
  BY TimeFacts DEF Consistent, Typed
<1>3. Consistent' /\ last' = last /\ next' = next
  BY <1>1, <1>2, QuietStep
<1> QED BY <1>1, <1>3 DEF Still

LEMMA CancelStep ==
    ASSUME Consistent, NEW t \in Timer, Cancel(t)
    PROVE  Consistent' /\ Still
<1>1. timer[t] \in TimerStates /\ timer \in [Timer -> TimerStates]
  BY DEF Consistent, Typed
<1>2. CASE DelTimerCrashes(t)
  <2>1. Crash
    BY <1>2 DEF Cancel
  <2> QED BY <2>1, CrashStep
<1>3. CASE ~DelTimerCrashes(t)
  <2>1. PICK new : new = Off(timer[t])
    OBVIOUS
  <2>2. new \in TimerStates /\ ~new.armed /\ ~new.queued
    BY <1>1, <2>1, OffFacts
  <2>3. timer' = [timer EXCEPT ![t] = new]
    <3>1. timer' = [timer EXCEPT ![t].armed = FALSE, ![t].queued = FALSE]
      BY <1>3 DEF Cancel
    <3>2. [timer EXCEPT ![t].armed = FALSE, ![t].queued = FALSE]
             = [timer EXCEPT ![t] = [timer[t] EXCEPT !.armed = FALSE, !.queued = FALSE]]
      BY <1>1
    <3> QED BY <1>1, <2>1, <3>1, <3>2, OffFacts
  <2>4. SetTo(Without(timer, Set, t))
    BY <1>3 DEF Cancel, Without
  <2>5. /\ now' = now /\ expired' = expired /\ deadline' = deadline /\ signal' = signal /\ pc' = pc
        /\ running' = running /\ crashed' = crashed
    BY <1>3 DEF Cancel
  <2>6. Consistent' /\ last' = last /\ next' = next
    BY <1>3, <2>2, <2>3, <2>4, <2>5, DropStep, Zenon
  <2> QED BY <2>5, <2>6 DEF Still
<1> QED BY <1>2, <1>3

LEMMA FreshFacts == Fresh \in TimerStates /\ ~Fresh.armed /\ ~Fresh.queued
<1>1. 0 \in Time
  BY TimeFacts DEF Time
<1> QED BY <1>1 DEF Fresh, TimerStates

LEMMA DestroyStep ==
    ASSUME Consistent, NEW t \in Timer, Destroy(t)
    PROVE  Consistent' /\ Still
<1>1. CASE DelTimerCrashes(t)
  <2>1. Crash
    BY <1>1 DEF Destroy
  <2> QED BY <2>1, CrashStep
<1>2. CASE ~DelTimerCrashes(t)
  <2>1. timer' = [timer EXCEPT ![t] = Fresh] /\ SetTo(Without(timer, Set, t))
    BY <1>2 DEF Destroy, Without
  <2>2. /\ now' = now /\ expired' = expired /\ deadline' = deadline /\ signal' = signal /\ pc' = pc
        /\ running' = running /\ crashed' = crashed
    BY <1>2 DEF Destroy
  <2>3. Consistent' /\ last' = last /\ next' = next
    BY <1>2, <2>1, <2>2, DropStep, FreshFacts, Zenon
  <2> QED BY <2>2, <2>3 DEF Still
<1> QED BY <1>1, <1>2

LEMMA RearmStep ==
    ASSUME Consistent, NEW t \in Timer, NEW until \in Time, NEW p \in Period \cup {0}, Rearm(t, until, p)
    PROVE  Consistent' /\ (Still \/ ArmedBy(t, until))
<1>1. Typed /\ timer[t] \in TimerStates /\ timer \in [Timer -> TimerStates]
  BY DEF Consistent, Typed
<1>2. CASE DelTimerCrashes(t)
  <2>1. Crash
    BY <1>2 DEF Rearm
  <2> QED BY <2>1, CrashStep
<1>3. CASE ~DelTimerCrashes(t)
  <2>1. PICK new : new = Off(timer[t])
    OBVIOUS
  <2>2. new \in TimerStates /\ ~new.armed /\ ~new.queued
    BY <1>1, <2>1, OffFacts
  <2>3. PICK r : r = Without(timer, Set, t)
    OBVIOUS
  <2>4. /\ r \in Sets /\ Filed([timer EXCEPT ![t] = new], r, expired)
        /\ r.last = last /\ r.next = next /\ t \notin Range(expired)
    BY <1>3, <2>2, <2>3, WithoutFacts, Zenon
  <2>5. PICK tm : tm = [timer EXCEPT ![t] = new]
    OBVIOUS
  <2>6. tm \in [Timer -> TimerStates] /\ ~tm[t].queued /\ \A u \in Timer : u # t => tm[u] = timer[u]
    BY <1>1, <2>2, <2>5
  <2>7. ArmOn(r, t, until, p) /\ Filed(tm, r, expired)
    BY <1>3, <2>3, <2>4, <2>5 DEF Rearm, Without
  <2>8. ArmedBy(t, until)
    BY <1>1, <2>4, <2>6, <2>7, ArmOnFiled, Zenon
  <2>9. /\ now' = now /\ expired' = expired /\ signal' = signal /\ pc' = pc /\ running' = running
        /\ crashed' = crashed
    BY <1>3 DEF Rearm
  <2> QED BY <2>4, <2>8, <2>9, ArmedConsistent
<1> QED BY <1>2, <1>3

\* complete_timers takes the expired timers out of the set.
LEMMA CollectStep ==
    ASSUME Consistent, CollectExpired, pc = "loop", pc' = "expiring",
           now' = now, deadline' = deadline, running' = running, crashed' = crashed, signal' \in BOOLEAN
    PROVE  /\ Consistent' /\ last' = now
           /\ next' = MaxTimestamp \/ nonEmpty' # {}
           /\ expired' \in Seq(Timer) /\ timer' = Marked(timer, expired')
<1>1. /\ Typed /\ timer \in [Timer -> TimerStates] /\ Set \in Sets /\ expired = << >>
      /\ Filed(timer, Set, << >>) /\ now \in Time /\ Set.last <= now
  BY TypedFacts DEF Consistent, Typed
<1>2. PICK list : list = expireList(Set, now, Due(timer))
  OBVIOUS
<1>3. PICK r : r = expireSet(Set, now, Due(timer))
  OBVIOUS
<1>4. expired' = list /\ timer' = Marked(timer, list) /\ SetTo(r)
  <2>1. \E due \in {Due(timer)} :
        \E l \in {expireList(Set, now, due)}, s \in {expireSet(Set, now, due)} :
           expired' = l /\ timer' = Marked(timer, l) /\ SetTo(s)
    BY Zenon DEF CollectExpired, Due, Marked
  <2> QED BY <1>2, <1>3, <2>1
<1>5. /\ list \in Seq(Timer) /\ r \in Sets
      /\ Marked(timer, list) \in [Timer -> TimerStates]
      /\ Filed(Marked(timer, list), r, list)
      /\ r.last = now
      /\ r.next = MaxTimestamp \/ r.nonEmpty # {}
      /\ \A t \in Range(list) : t \in Timer /\ timer[t].expiry <= now
  BY <1>1, <1>2, <1>3, CollectFiled, Zenon
<1>6. Set' = r /\ last' = r.last /\ next' = r.next /\ nonEmpty' = r.nonEmpty
  BY <1>4, <1>5, SetToFacts
<1>7. Typed'
  BY <1>1, <1>4, <1>5, <1>6 DEF Typed
<1>8. \A t \in Range(expired') : timer'[t].expiry <= now'
  <2> SUFFICES ASSUME NEW t \in Range(list) PROVE timer'[t].expiry <= now
    BY <1>4
  <2>1. t \in Timer /\ timer[t].expiry <= now /\ timer[t] \in TimerStates
    BY <1>1, <1>5
  <2>2. timer'[t] = [timer[t] EXCEPT !.expired = TRUE]
    BY <1>4, <2>1 DEF Marked
  <2>3. timer'[t].expiry = timer[t].expiry
    BY <2>1, <2>2 DEF TimerStates
  <2> QED BY <2>1, <2>3
<1>9. Filed(timer', Set', expired')
  BY <1>4, <1>5, <1>6
<1>10. last' <= now'
  BY <1>1, <1>5, <1>6, TimeFacts
<1>11. running' = NoTimer
  BY DEF Consistent
<1> QED BY <1>4, <1>5, <1>6, <1>7, <1>8, <1>9, <1>10, <1>11 DEF Consistent

\* A periodic timer is armed again within the time there is.
LEMMA NextPeriod ==
    ASSUME Typed, NEW p \in Period
    PROVE  now + p \in Time /\ now + p # 0
<1>1. /\ now \in Nat /\ 1 <= now /\ now <= Horizon /\ Horizon \in Nat
      /\ p \in Nat /\ p # 0 /\ Horizon + p <= MaxTimestamp /\ MaxTimestamp \in Nat
  BY TimeFacts DEF Typed
<1> QED BY <1>1 DEF Time

\* The timer that fires is armed.
LEMMA FireShape ==
    ASSUME Consistent, Fire
    PROVE  /\ expired # << >> /\ Head(expired) \in Timer /\ Head(expired) \in Range(expired)
           /\ timer[Head(expired)].armed /\ timer[Head(expired)].expiry <= now
           /\ \/ /\ timer[Head(expired)].period = 0
                 /\ timer' = [timer EXCEPT ![Head(expired)] = Off(timer[Head(expired)])]
                 /\ setVars' = setVars
              \/ /\ timer[Head(expired)].period \in Period
                 /\ timer' = ArmState(Head(expired), now + timer[Head(expired)].period,
                                      timer[Head(expired)].period)
                 /\ SetTo(insert(Set, Head(expired), now + timer[Head(expired)].period))
           /\ expired' = Tail(expired) /\ pc = "expiring" /\ pc' = "callback" /\ running' = Head(expired)
           /\ now' = now /\ deadline' = deadline /\ signal' = signal /\ crashed' = crashed
<1>1. expired \in Seq(Timer) /\ expired # << >> /\ timer \in [Timer -> TimerStates]
  BY DEF Consistent, Typed, Fire
<1>2. PICK t : t = Head(expired)
  OBVIOUS
<1>3. t \in Timer /\ t \in Range(expired) /\ timer[t] \in TimerStates
  BY <1>1, <1>2, TailFacts
<1>4. timer[t].armed /\ timer[t].expiry <= now
  BY <1>3 DEF Consistent, Filed
<1>5. /\ expired' = Tail(expired) /\ pc = "expiring" /\ pc' = "callback" /\ running' = t
      /\ now' = now /\ deadline' = deadline /\ signal' = signal /\ crashed' = crashed
      /\ IF timer[t].period = 0
         THEN /\ timer' = [timer EXCEPT ![t].queued = FALSE, ![t].armed = FALSE]
              /\ setVars' = setVars
         ELSE /\ timer' = ArmState(t, now + timer[t].period, timer[t].period)
              /\ SetTo(insert(Set, t, now + timer[t].period))
  BY <1>2, <1>4 DEF Fire
<1>6. [timer EXCEPT ![t].queued = FALSE, ![t].armed = FALSE] = [timer EXCEPT ![t] = Off(timer[t])]
  BY <1>1, <1>3 DEF Off
<1>7. timer[t].period \in Period \cup {0}
  BY <1>3 DEF TimerStates
<1>8. CASE timer[t].period = 0
  BY <1>1, <1>2, <1>3, <1>4, <1>5, <1>6, <1>8
<1>9. CASE timer[t].period # 0
  BY <1>1, <1>2, <1>3, <1>4, <1>5, <1>7, <1>9
<1> QED BY <1>8, <1>9

LEMMA FireStep ==
    ASSUME Consistent, Fire
    PROVE  /\ Consistent' /\ last' = last
           /\ (next' = next /\ nonEmpty' = nonEmpty) \/ nonEmpty' # {}
<1>1. /\ Typed /\ timer \in [Timer -> TimerStates] /\ Set \in Sets /\ expired \in Seq(Timer)
      /\ Filed(timer, Set, expired)
  BY DEF Consistent, Typed
<1>2. PICK t : t = Head(expired)
  OBVIOUS
<1>3. /\ expired # << >> /\ t \in Timer
      /\ \/ /\ timer[t].period = 0
            /\ timer' = [timer EXCEPT ![t] = Off(timer[t])]
            /\ setVars' = setVars
         \/ /\ timer[t].period \in Period
            /\ timer' = ArmState(t, now + timer[t].period, timer[t].period)
            /\ SetTo(insert(Set, t, now + timer[t].period))
      /\ expired' = Tail(expired) /\ pc' = "callback" /\ running' = t
      /\ now' = now /\ deadline' = deadline /\ signal' = signal /\ crashed' = crashed
  BY <1>2, FireShape
<1>4. PICK off : off = Off(timer[t])
  OBVIOUS
<1>5. timer[t] \in TimerStates /\ off \in TimerStates /\ ~off.armed /\ ~off.queued
  BY <1>1, <1>3, <1>4, OffFacts
<1>6. PICK tm : tm = [timer EXCEPT ![t] = off]
  OBVIOUS
<1>7. /\ tm \in [Timer -> TimerStates] /\ ~tm[t].queued
      /\ \A u \in Timer : u # t => tm[u] = timer[u]
  BY <1>1, <1>3, <1>5, <1>6
<1>8. Tail(expired) \in Seq(Timer) /\ Range(Tail(expired)) = Range(expired) \ {t}
  BY <1>1, <1>2, <1>3, TailFacts DEF Filed
<1>9. Filed(tm, Set, Tail(expired))
  <2>1. Filed([timer EXCEPT ![Head(expired)] = off], Set, Tail(expired))
    BY <1>1, <1>3, <1>5, FireFiled, Zenon
  <2> QED BY <1>2, <1>6, <2>1
<1>10. /\ timer' \in [Timer -> TimerStates] /\ Set' \in Sets /\ last' = last
       /\ Filed(timer', Set', Tail(expired))
       /\ \A u \in Timer : u # t => timer'[u] = timer[u]
       /\ (next' = next /\ nonEmpty' = nonEmpty) \/ nonEmpty' # {}
  <2>1. CASE timer' = [timer EXCEPT ![t] = Off(timer[t])] /\ setVars' = setVars
    <3>1. timer' = tm /\ Set' = Set /\ last' = last /\ next' = next /\ nonEmpty' = nonEmpty
      BY <1>4, <1>6, <2>1 DEF Set, setVars
    <3> QED BY <1>1, <1>7, <1>9, <3>1
  <2>2. CASE /\ timer[t].period \in Period
             /\ timer' = ArmState(t, now + timer[t].period, timer[t].period)
             /\ SetTo(insert(Set, t, now + timer[t].period))
    <3>1. PICK until : until = now + timer[t].period
      OBVIOUS
    <3>2. until \in Time
      BY <1>1, <2>2, <3>1, NextPeriod
    <3>3. PICK new : new = [expiry |-> until, period |-> timer[t].period,
                            armed |-> TRUE, queued |-> TRUE, expired |-> FALSE]
      OBVIOUS
    <3>4. new \in TimerStates /\ new.armed /\ new.queued /\ ~new.expired /\ new.expiry = until
      BY <2>2, <3>2, <3>3 DEF TimerStates
    <3>5. timer' = [tm EXCEPT ![t] = new]
      <4>1. timer' = [timer EXCEPT ![t] = new]
        BY <2>2, <3>1, <3>3 DEF ArmState
      <4>2. [tm EXCEPT ![t] = new] = [timer EXCEPT ![t] = new]
        BY <1>1, <1>6
      <4> QED BY <4>1, <4>2
    <3>6. /\ insert(Set, t, new.expiry) \in Sets
          /\ Filed([tm EXCEPT ![t] = new], insert(Set, t, new.expiry), Tail(expired))
          /\ insert(Set, t, new.expiry).last = Set.last
          /\ insert(Set, t, new.expiry).next = Lesser(new.expiry, Set.next)
          /\ insert(Set, t, new.expiry).nonEmpty # {}
      <4>1. Set \in Sets /\ Tail(expired) \in Seq(Timer) /\ t \in Timer
        BY <1>1, <1>3, <1>8
      <4> QED BY <1>7, <1>9, <3>4, <4>1, ArmFiled, ZenonT(60)
    <3>7. PICK r : r = insert(Set, t, new.expiry)
      OBVIOUS
    <3>8. r = insert(Set, t, until)
      BY <3>4, <3>7
    <3>9. r \in Sets /\ SetTo(r)
      BY <2>2, <3>1, <3>6, <3>7, <3>8
    <3>10. Set' = r /\ last' = r.last /\ nonEmpty' = r.nonEmpty
      BY <3>9, SetToFacts
    <3>11. Set.last = last
      BY <1>1, TypedFacts
    <3>12. timer' \in [Timer -> TimerStates] /\ \A u \in Timer : u # t => timer'[u] = timer[u]
      BY <1>7, <3>4, <3>5
    <3> QED BY <3>5, <3>6, <3>7, <3>10, <3>11, <3>12
  <2> QED BY <1>3, <2>1, <2>2
<1>11. Typed'
  BY <1>1, <1>3, <1>8, <1>10 DEF Typed
<1>12. \A u \in Range(expired') : timer'[u].expiry <= now'
  <2>1. ASSUME NEW u \in Range(Tail(expired)) PROVE timer'[u].expiry <= now
    <3>1. u \in Range(expired) /\ u # t /\ u \in Timer
      <4>1. \A v \in Range(expired) : v \in Timer
        BY <1>1 DEF Range
      <4> QED BY <1>8, <2>1, <4>1
    <3> QED BY <1>10, <3>1 DEF Consistent
  <2> QED BY <1>3, <2>1
<1>13. Filed(timer', Set', expired') /\ last' <= now'
  BY <1>3, <1>10 DEF Consistent
<1>14. pc' = "callback"
  BY <1>3
<1> QED BY <1>10, <1>11, <1>12, <1>13, <1>14 DEF Consistent

-----------------------------------------------------------------------------
(* The steps of MCNext.                                                    *)

LEMMA InitConsistent ==
    ASSUME MCInit
    PROVE  Consistent
<1>1. /\ now = 1 /\ timer = [t \in Timer |-> Fresh] /\ buckets = [b \in Bucket |-> << >>]
      /\ nonEmpty = {} /\ last = 0 /\ next = MaxTimestamp /\ expired = << >> /\ deadline = Never
      /\ signal \in BOOLEAN /\ pc = "loop" /\ running = NoTimer /\ crashed = FALSE
  BY DEF MCInit, Init, LowresInit
<1>2. 0 \in Time /\ MaxTimestamp \in Time /\ 1 \in 1 .. Horizon
  BY TimeFacts DEF Time
<1>3. Set \in Sets
  <2>1. buckets \in [Bucket -> Seq(Timer)]
    BY <1>1, EmptyList
  <2> QED BY <1>1, <1>2, <2>1 DEF Set, Sets
<1>4. timer \in [Timer -> TimerStates]
  BY <1>1, FreshFacts
<1>5. Typed
  BY <1>1, <1>2, <1>3, <1>4, EmptyList DEF Typed
<1>6. Set.buckets = buckets /\ Set.nonEmpty = nonEmpty
  BY DEF Set
<1>7. \A b \in Bucket : Set.buckets[b] = << >>
  BY <1>1, <1>6
<1>8. Held(Set) = {}
  BY <1>7, EmptyList DEF Held
<1>9. Placed(Set, Due(timer))
  BY <1>1, <1>6, <1>7, EmptyList DEF Placed
<1>10. \A t \in Timer : ~timer[t].armed /\ ~timer[t].queued
  BY <1>1, FreshFacts
<1>11. Filed(timer, Set, expired)
  BY <1>1, <1>8, <1>9, <1>10, EmptyList DEF Filed, NextIsEarly
<1> QED BY <1>1, <1>5, <1>11, EmptyList DEF Consistent

\* What a step may do to a timer, as seen by Consistent and by the kernel
\* timer: what the user does and what the reactor does.
UserMove(t) ==
    \/ Cancel(t) \/ Destroy(t)
    \/ \E until \in Time, p \in Period \cup {0} :
          (clock = "steady" \/ until # 0) /\ (Arm(t, until, p) \/ Rearm(t, until, p))

LEMMA UserMoves ==
    ASSUME Typed, (clock = "steady" /\ User) \/ (clock = "lowres" /\ LowresUser)
    PROVE  \E t \in Timer : UserMove(t)
<1>1. \A p \in Period : now + p \in Time /\ now + p # 0
  BY NextPeriod
<1>2. CASE clock = "steady" /\ User
  <2>1. PICK t \in Timer :
            \/ Cancel(t) \/ Destroy(t)
            \/ \E until \in Time : Arm(t, until, 0) \/ Rearm(t, until, 0)
            \/ \E p \in Period : Arm(t, now + p, p) \/ Rearm(t, now + p, p)
    BY <1>2 DEF User
  <2>2. UserMove(t)
    <3>1. CASE Cancel(t) \/ Destroy(t)
      BY <3>1 DEF UserMove
    <3>2. ASSUME NEW until \in Time, Arm(t, until, 0) \/ Rearm(t, until, 0) PROVE UserMove(t)
      <4>1. 0 \in Period \cup {0}
        OBVIOUS
      <4> QED BY <1>2, <3>2, <4>1, Zenon DEF UserMove
    <3>3. ASSUME NEW p \in Period, Arm(t, now + p, p) \/ Rearm(t, now + p, p) PROVE UserMove(t)
      <4>1. now + p \in Time /\ p \in Period \cup {0}
        BY <1>1
      <4> QED BY <1>2, <3>3, <4>1, Zenon DEF UserMove
    <3> QED BY <2>1, <3>1, <3>2, <3>3
  <2> QED BY <2>2
<1>3. CASE clock = "lowres" /\ LowresUser
  <2>1. PICK t \in Timer :
            \/ Cancel(t) \/ Destroy(t)
            \/ \E until \in Time \ {0} : Arm(t, until, 0) \/ Rearm(t, until, 0)
            \/ \E p \in Period : Arm(t, now + p, p) \/ Rearm(t, now + p, p)
    BY <1>3 DEF LowresUser
  <2>2. UserMove(t)
    <3>1. CASE Cancel(t) \/ Destroy(t)
      BY <3>1 DEF UserMove
    <3>2. ASSUME NEW until \in Time \ {0}, Arm(t, until, 0) \/ Rearm(t, until, 0) PROVE UserMove(t)
      <4>1. 0 \in Period \cup {0} /\ until \in Time /\ until # 0
        OBVIOUS
      <4> QED BY <3>2, <4>1, Zenon DEF UserMove
    <3>3. ASSUME NEW p \in Period, Arm(t, now + p, p) \/ Rearm(t, now + p, p) PROVE UserMove(t)
      <4>1. now + p \in Time /\ now + p # 0 /\ p \in Period \cup {0}
        BY <1>1
      <4> QED BY <3>3, <4>1, Zenon DEF UserMove
    <3> QED BY <2>1, <3>1, <3>2, <3>3
  <2> QED BY <2>2
<1> QED BY <1>2, <1>3

\* What the kernel timer is set to when the expired timers have been called.
EndsExpiring ==
    /\ pc = "expiring" /\ expired = << >> /\ pc' = "loop"
    /\ timer' = timer /\ setVars' = setVars /\ expired' = expired /\ now' = now /\ signal' = signal
    /\ running' = running /\ crashed' = crashed
    /\ nonEmpty # {} => deadline' = Wake(Greater(last, next))
    /\ nonEmpty = {} => deadline' \in {deadline, Never}

\* A step of either clock is one of these.
Move ==
    \/ \E t \in Timer : UserMove(t)
    \/ /\ CollectExpired /\ pc = "loop" /\ pc' = "expiring" /\ signal' \in BOOLEAN
       /\ now' = now /\ deadline' = deadline /\ running' = running /\ crashed' = crashed
    \/ Fire
    \/ EndCallback
    \/ EndsExpiring
    \/ KernelTimer
    \/ Wakeup
    \/ TimePasses
    \/ LowresSleep
    \/ Awake
    \/ UNCHANGED vars

LEMMA Moves ==
    ASSUME Consistent, [MCNext]_<<clock, vars>>
    PROVE  Move /\ clock' = clock
<1>1. Typed
  BY DEF Consistent
<1>2. CASE UNCHANGED <<clock, vars>>
  BY <1>2 DEF Move
<1>3. CASE MCNext
  <2>1. clock' = clock
    BY <1>3 DEF MCNext, On
  <2>2. CASE (clock = "steady" /\ User) \/ (clock = "lowres" /\ LowresUser)
    BY <1>1, <2>1, <2>2, UserMoves DEF Move
  <2>3. CASE StartExpiring \/ LowresStartExpiring
    <3>1. /\ CollectExpired /\ pc = "loop" /\ pc' = "expiring" /\ signal' \in BOOLEAN
          /\ now' = now /\ deadline' = deadline /\ running' = running /\ crashed' = crashed
      <4>1. signal \in BOOLEAN
        BY <1>1 DEF Typed
      <4>2. CASE StartExpiring
        BY <4>2 DEF StartExpiring
      <4>3. CASE LowresStartExpiring
        BY <4>1, <4>3 DEF LowresStartExpiring
      <4> QED BY <2>3, <4>2, <4>3
    <3> QED BY <2>1, <3>1 DEF Move
  <2>4. CASE EndExpiring \/ LowresEndExpiring
    <3>1. EndsExpiring
      <4>1. get_next_timeout(Set) = Greater(last, next)
        BY <1>1, TypedFacts DEF get_next_timeout
      <4>2. CASE EndExpiring
        BY <4>1, <4>2 DEF EndExpiring, EndsExpiring, enable_timer, Wake, setVars
      <4>3. CASE LowresEndExpiring
        BY <4>1, <4>3 DEF LowresEndExpiring, EndsExpiring, enable_timer, Wake, setVars
      <4> QED BY <2>4, <4>2, <4>3
    <3> QED BY <2>1, <3>1 DEF Move
  <2>5. CASE Fire \/ EndCallback \/ KernelTimer \/ Wakeup \/ TimePasses \/ LowresSleep \/ Awake
    BY <2>1, <2>5 DEF Move
  <2>6. \/ (clock = "steady" /\ User) \/ (clock = "lowres" /\ LowresUser)
        \/ StartExpiring \/ LowresStartExpiring
        \/ EndExpiring \/ LowresEndExpiring
        \/ Fire \/ EndCallback \/ KernelTimer \/ Wakeup \/ TimePasses \/ LowresSleep \/ Awake
    <3>1. MCNext
      BY <1>3
    <3> QED BY <3>1 DEF MCNext, On
  <2> QED BY <2>2, <2>3, <2>4, <2>5, <2>6
<1> QED BY <1>2, <1>3

\* The steps that leave the timers alone keep the invariant.
LEMMA QuietSteps ==
    ASSUME Consistent,
           EndCallback \/ EndsExpiring \/ KernelTimer \/ Wakeup \/ TimePasses \/ LowresSleep \/ Awake
             \/ UNCHANGED vars
    PROVE  Consistent' /\ last' = last /\ next' = next /\ nonEmpty' = nonEmpty
<1>1. /\ Typed /\ last \in Time /\ next \in Time /\ now \in Nat
      /\ pc # "callback" => running = NoTimer
      /\ pc \in {"loop", "asleep"} => expired = << >>
  BY TypedFacts DEF Consistent
<1>2. Wake(Greater(last, next)) \in Time \cup {Never}
  BY <1>1 DEF Wake, Greater
<1>3. now' \in 1 .. Horizon /\ now <= now'
  <2>1. CASE now' = now
    BY <1>1, <2>1 DEF Typed
  <2>2. CASE TimePasses
    BY <1>1, <2>2, TimeFacts DEF TimePasses, Typed
  <2> QED BY <2>1, <2>2 DEF EndCallback, EndsExpiring, KernelTimer, Wakeup, LowresSleep, Awake, vars
<1>4. timer' = timer /\ setVars' = setVars /\ expired' = expired /\ crashed' = crashed
  BY DEF EndCallback, EndsExpiring, KernelTimer, Wakeup, TimePasses, LowresSleep, Awake, vars, setVars
<1>5. deadline' \in Time \cup {Never}
  <2>1. deadline \in Time \cup {Never}
    BY <1>1 DEF Typed
  <2>2. CASE EndsExpiring
    BY <1>2, <2>1, <2>2 DEF EndsExpiring
  <2>3. CASE KernelTimer
    BY <2>3 DEF KernelTimer
  <2>4. CASE deadline' = deadline
    BY <2>1, <2>4
  <2> QED BY <2>2, <2>3, <2>4 DEF EndCallback, Wakeup, TimePasses, LowresSleep, Awake, vars
<1>6. signal' \in BOOLEAN /\ crashed' \in BOOLEAN
  <2>1. signal \in BOOLEAN /\ crashed \in BOOLEAN
    BY <1>1 DEF Typed
  <2>2. signal' = TRUE \/ signal' = signal
    BY DEF EndCallback, EndsExpiring, KernelTimer, Wakeup, TimePasses, LowresSleep, Awake, vars
  <2> QED BY <1>4, <2>1, <2>2
<1>7. /\ pc' \in {"loop", "expiring", "callback", "asleep"} /\ running' \in Timer \cup {NoTimer}
      /\ pc' # "callback" => running' = NoTimer
      /\ pc' \in {"loop", "asleep"} => expired = << >>
  <2>1. pc \in {"loop", "expiring", "callback", "asleep"} /\ running \in Timer \cup {NoTimer}
    BY <1>1 DEF Typed
  <2>2. CASE pc' = pc /\ running' = running
    BY <1>1, <2>1, <2>2
  <2>3. CASE EndCallback
    BY <2>3 DEF EndCallback
  <2>4. CASE EndsExpiring
    BY <1>1, <2>1, <2>4 DEF EndsExpiring
  <2>5. CASE LowresSleep
    BY <1>1, <2>1, <2>5 DEF LowresSleep
  <2>6. CASE Awake
    BY <1>1, <2>1, <2>6 DEF Awake
  <2> QED BY <2>2, <2>3, <2>4, <2>5, <2>6 DEF KernelTimer, Wakeup, TimePasses, vars
<1> QED BY <1>3, <1>4, <1>5, <1>6, <1>7, QuietStep, Zenon

LEMMA StepConsistent ==
    ASSUME Consistent, [MCNext]_<<clock, vars>>
    PROVE  Consistent'
<1>1. Move
  BY Moves
<1>2. CASE \E t \in Timer : UserMove(t)
  <2>1. PICK t \in Timer : UserMove(t)
    BY <1>2
  <2>2. CASE Cancel(t)
    BY <2>2, CancelStep
  <2>3. CASE Destroy(t)
    BY <2>3, DestroyStep
  <2>4. CASE \E until \in Time, p \in Period \cup {0} : Arm(t, until, p) \/ Rearm(t, until, p)
    BY <2>4, ArmStep, RearmStep
  <2> QED BY <2>1, <2>2, <2>3, <2>4 DEF UserMove
<1>3. CASE /\ CollectExpired /\ pc = "loop" /\ pc' = "expiring" /\ signal' \in BOOLEAN
           /\ now' = now /\ deadline' = deadline /\ running' = running /\ crashed' = crashed
  BY <1>3, CollectStep
<1>4. CASE Fire
  BY <1>4, FireStep
<1>5. CASE EndCallback \/ EndsExpiring \/ KernelTimer \/ Wakeup \/ TimePasses \/ LowresSleep \/ Awake
             \/ UNCHANGED vars
  BY <1>5, QuietSteps
<1> QED BY <1>1, <1>2, <1>3, <1>4, <1>5 DEF Move

-----------------------------------------------------------------------------
(* The kernel timer.                                                       *)

Woken == signal \/ (deadline # Never /\ deadline <= Greater(last, next))

\* Where the reactor may sleep the kernel timer is set for the next timer;
\* where it works through expired timers a timer is left to set it for; and
\* until a reactor on the steady clock has looked for expired timers its
\* signal waits.
Timely ==
    /\ pc \in {"loop", "asleep"} /\ next # MaxTimestamp => Woken
    /\ pc \in {"expiring", "callback"} => last # 0 /\ (next = MaxTimestamp \/ nonEmpty # {})
    /\ clock = "steady" /\ last = 0 => signal

LEMMA ArmedTimely ==
    ASSUME Typed, Timely, NEW t \in Timer, NEW until \in Time, clock = "steady" \/ until # 0,
           ArmedBy(t, until), pc' = pc, signal' = signal, clock' = clock
    PROVE  Timely'
<1>1. last \in Nat /\ next \in Nat /\ until \in Nat /\ last' = last /\ next' = Lesser(until, next)
  BY TypedFacts, TimeFacts DEF ArmedBy
<1>2. nonEmpty' # {}
  BY DEF ArmedBy
<1>3. ASSUME pc \in {"loop", "asleep"}, next' # MaxTimestamp PROVE Woken'
  <2>1. CASE until < next
    <3>1. deadline' = Wake(Greater(last, until)) /\ next' = until
      BY <1>1, <2>1 DEF ArmedBy, Lesser
    <3>2. CASE Greater(last, until) = 0
      <4>1. last = 0 /\ until = 0
        BY <1>1, <3>2 DEF Greater
      <4>2. signal
        BY <4>1 DEF Timely
      <4> QED BY <4>2 DEF Woken
    <3>3. CASE Greater(last, until) # 0
      <4>1. deadline' = Greater(last', next')
        BY <1>1, <3>1, <3>3 DEF Wake
      <4>2. deadline' \in Nat
        BY <1>1, <3>1, <4>1 DEF Greater
      <4> QED BY <4>1, <4>2 DEF Woken, Never
    <3> QED BY <3>2, <3>3
  <2>2. CASE ~(until < next)
    <3>1. next' = next /\ deadline' = deadline
      BY <1>1, <2>2 DEF ArmedBy, Lesser
    <3>2. Woken
      BY <1>3, <3>1 DEF Timely
    <3> QED BY <1>1, <3>1, <3>2 DEF Woken
  <2> QED BY <2>1, <2>2
<1>4. pc' \in {"expiring", "callback"} => last' # 0
  BY <1>1 DEF Timely
<1>5. clock' = "steady" /\ last' = 0 => signal'
  BY <1>1 DEF Timely
<1> QED BY <1>2, <1>3, <1>4, <1>5 DEF Timely

\* Nothing that the kernel timer depends on changes outside of a callback.
LEMMA StillTimely ==
    ASSUME Timely, Still, pc \in {"loop", "asleep"}, pc' \in {"loop", "asleep"},
           signal' = signal, clock' = clock
    PROVE  Timely'
BY DEF Timely, Woken, Still

LEMMA UserTimely ==
    ASSUME Consistent, Timely, CallbacksCancel = FALSE, NEW t \in Timer, UserMove(t), clock' = clock
    PROVE  Timely'
<1>1. Typed
  BY DEF Consistent
<1>2. CASE Cancel(t)
  <2>1. Still /\ pc = "loop"
    BY <1>2, CancelStep DEF Cancel, CancellingCode
  <2>2. pc' = pc /\ signal' = signal
    BY <1>2 DEF Cancel, Crash
  <2> QED BY <2>1, <2>2, StillTimely
<1>3. CASE Destroy(t)
  <2>1. Still /\ pc = "loop"
    BY <1>3, DestroyStep DEF Destroy, CancellingCode
  <2>2. pc' = pc /\ signal' = signal
    BY <1>3 DEF Destroy, Crash
  <2> QED BY <2>1, <2>2, StillTimely
<1>4. ASSUME NEW until \in Time, NEW p \in Period \cup {0}, clock = "steady" \/ until # 0,
             Arm(t, until, p)
      PROVE  Timely'
  <2>1. ArmedBy(t, until)
    BY <1>4, ArmStep
  <2>2. pc' = pc /\ signal' = signal
    BY <1>4 DEF Arm
  <2> QED BY <1>1, <1>4, <2>1, <2>2, ArmedTimely
<1>5. ASSUME NEW until \in Time, NEW p \in Period \cup {0}, clock = "steady" \/ until # 0,
             Rearm(t, until, p)
      PROVE  Timely'
  <2>1. Still \/ ArmedBy(t, until)
    BY <1>5, RearmStep
  <2>2. pc = "loop"
    BY <1>5 DEF Rearm, CancellingCode
  <2>3. pc' = pc /\ signal' = signal
    BY <1>5 DEF Rearm, Crash
  <2>4. CASE Still
    BY <2>2, <2>3, <2>4, StillTimely
  <2>5. CASE ArmedBy(t, until)
    BY <1>1, <1>5, <2>3, <2>5, ArmedTimely
  <2> QED BY <2>1, <2>4, <2>5
<1> QED BY <1>2, <1>3, <1>4, <1>5 DEF UserMove

LEMMA StepTimely ==
    ASSUME Consistent, Timely, CallbacksCancel = FALSE, [MCNext]_<<clock, vars>>
    PROVE  Timely'
<1>1. Move /\ clock' = clock /\ Typed
  BY Moves DEF Consistent
<1>2. /\ now \in Nat /\ now # 0 /\ last \in Nat /\ next \in Nat
  BY <1>1, TypedFacts
<1>3. CASE \E t \in Timer : UserMove(t)
  BY <1>1, <1>3, UserTimely
<1>4. CASE /\ CollectExpired /\ pc = "loop" /\ pc' = "expiring" /\ signal' \in BOOLEAN
           /\ now' = now /\ deadline' = deadline /\ running' = running /\ crashed' = crashed
  <2>1. last' = now /\ (next' = MaxTimestamp \/ nonEmpty' # {})
    BY <1>4, CollectStep
  <2>2. pc' = "expiring"
    BY <1>4
  <2> QED BY <1>2, <2>1, <2>2 DEF Timely
<1>5. CASE Fire
  <2>1. last' = last /\ ((next' = next /\ nonEmpty' = nonEmpty) \/ nonEmpty' # {})
    BY <1>5, FireStep
  <2>2. pc = "expiring" /\ pc' = "callback" /\ signal' = signal
    BY <1>5, FireShape
  <2> QED BY <1>1, <2>1, <2>2 DEF Timely
<1>6. ASSUME EndCallback \/ EndsExpiring \/ KernelTimer \/ Wakeup \/ TimePasses \/ LowresSleep
               \/ Awake \/ UNCHANGED vars
      PROVE  Timely'
  <2>1. last' = last /\ next' = next /\ nonEmpty' = nonEmpty
    BY <1>6, QuietSteps
  <2>2. CASE EndCallback
    <3>1. pc = "callback" /\ pc' = "expiring" /\ signal' = signal
      BY <2>2 DEF EndCallback
    <3> QED BY <1>1, <2>1, <3>1 DEF Timely
  <2>3. CASE EndsExpiring
    <3>1. pc = "expiring" /\ pc' = "loop" /\ signal' = signal
      BY <2>3 DEF EndsExpiring
    <3>2. ASSUME next # MaxTimestamp PROVE Woken'
      <4>1. nonEmpty # {} /\ last # 0
        BY <3>1, <3>2 DEF Timely
      <4>2. Greater(last, next) \in Nat /\ Greater(last, next) # 0
        BY <1>2, <4>1 DEF Greater
      <4>3. deadline' = Greater(last, next)
        BY <2>3, <4>1, <4>2 DEF EndsExpiring, Wake
      <4> QED BY <2>1, <4>2, <4>3 DEF Woken, Never
    <3> QED BY <1>1, <2>1, <3>1, <3>2 DEF Timely
  <2>4. CASE KernelTimer \/ Wakeup
    <3>1. signal' /\ pc' = pc
      BY <2>4 DEF KernelTimer, Wakeup
    <3> QED BY <1>1, <2>1, <3>1 DEF Timely, Woken
  <2>5. CASE TimePasses \/ UNCHANGED vars
    <3>1. pc' = pc /\ signal' = signal /\ deadline' = deadline
      BY <2>5 DEF TimePasses, vars
    <3> QED BY <1>1, <2>1, <3>1 DEF Timely, Woken
  <2>6. CASE LowresSleep \/ Awake
    <3>1. /\ pc \in {"loop", "asleep"} /\ pc' \in {"loop", "asleep"}
          /\ signal' = signal /\ deadline' = deadline
      BY <2>6 DEF LowresSleep, Awake
    <3> QED BY <1>1, <2>1, <3>1, StillTimely DEF Still
  <2> QED BY <1>6, <2>2, <2>3, <2>4, <2>5, <2>6
<1> QED BY <1>1, <1>3, <1>4, <1>5, <1>6 DEF Move

-----------------------------------------------------------------------------
(* What follows from the invariant.                                        *)

LEMMA ConsistentTypeOK ==
    ASSUME Consistent
    PROVE  TypeOK
<1>1. Typed
  BY DEF Consistent
<1>2. /\ buckets \in [Bucket -> Seq(Timer)] /\ nonEmpty \subseteq Bucket
      /\ last \in Time /\ next \in Time
  <2>1. Set.buckets = buckets /\ Set.nonEmpty = nonEmpty /\ Set \in Sets
    BY <1>1 DEF Set, Typed
  <2> QED BY <1>1, <2>1, SetFacts, TypedFacts
<1> QED BY <1>1, <1>2 DEF Typed, TypeOK, TimerStates

LEMMA ConsistentSet ==
    ASSUME Consistent
    PROVE  SetConsistent
<1>1. Typed /\ Filed(timer, Set, expired)
  BY DEF Consistent
<1>2. Set.buckets = buckets /\ Set.nonEmpty = nonEmpty /\ Set.last = last
  BY DEF Set
<1>3. ASSUME NEW b \in Bucket
      PROVE  /\ (b \in nonEmpty) = (buckets[b] # << >>)
             /\ IsInjective(buckets[b])
             /\ \A t \in Range(buckets[b]) : get_index(timer[t].expiry, last) = b
  <2>1. /\ b \in nonEmpty <=> buckets[b] # << >>
        /\ IsInjective(buckets[b])
        /\ \A t \in Range(buckets[b]) : get_index(Due(timer)[t], last) = b
    BY <1>1, <1>2 DEF Filed, Placed
  <2>2. \A t \in Range(buckets[b]) : t \in Timer
    BY <1>1, <1>2, SetFacts DEF Typed
  <2>3. \A t \in Range(buckets[b]) : Due(timer)[t] = timer[t].expiry
    BY <2>2 DEF Due
  <2> QED BY <2>1, <2>3
<1>4. ASSUME NEW t \in Timer
      PROVE  /\ timer[t].queued <=> InSet(t) \/ t \in Range(expired)
             /\ ~(InSet(t) /\ t \in Range(expired))
  <2>1. InSet(t) <=> t \in Held(Set)
    BY <1>2 DEF InSet, Held
  <2> QED BY <1>1, <2>1 DEF Filed
<1>5. IsInjective(expired)
  BY <1>1 DEF Filed
<1> QED BY <1>3, <1>4, <1>5 DEF SetConsistent

LEMMA TimelyDeadline ==
    ASSUME Consistent, Timely
    PROVE  NoMissedDeadline
<1> SUFFICES ASSUME pc = "loop", NEW t \in Timer, timer[t].queued, timer[t].expiry < MaxTimestamp,
                    ~signal
             PROVE  deadline # Never /\ deadline <= Greater(timer[t].expiry, last)
  BY DEF NoMissedDeadline
<1>1. /\ Typed /\ Filed(timer, Set, expired) /\ expired = << >>
  BY DEF Consistent
<1>2. /\ last \in Nat /\ next \in Nat /\ timer[t].expiry \in Nat /\ deadline \in Int /\ MaxTimestamp \in Nat
      /\ Set.next = next
  BY <1>1, TypedFacts, TimeFacts
<1>3. next <= timer[t].expiry
  <2>1. t \in Held(Set)
    BY <1>1, EmptyList DEF Filed
  <2>2. Set.next <= Due(timer)[t]
    BY <1>1, <2>1 DEF Filed, NextIsEarly
  <2> QED BY <1>2, <2>2 DEF Due
<1>4. next # MaxTimestamp
  BY <1>2, <1>3
<1>5. deadline # Never /\ deadline <= Greater(last, next)
  BY <1>4 DEF Timely, Woken
<1> QED BY <1>2, <1>3, <1>5 DEF Greater

LEMMA AlwaysConsistent == MCSpec => []Consistent
<1>1. MCInit => Consistent
  BY InitConsistent
<1>2. Consistent /\ [MCNext]_<<clock, vars>> => Consistent'
  BY StepConsistent
<1> QED BY <1>1, <1>2, PTL DEF MCSpec

\* The variables have their types, in every behaviour of the timers of either
\* clock.
THEOREM TimersTypeCorrect == MCSpec => []TypeOK
<1>1. Consistent => TypeOK
  BY ConsistentTypeOK
<1> QED BY <1>1, AlwaysConsistent, PTL

\* timer_set is consistent after any sequence of operations, for any number
\* of timers and of bits of a time point: a timer is found where get_index
\* looks for it although _last moves, the bitmap is exact, and every queued
\* timer is in the set or among the expired ones, once.
THEOREM TimerSetConsistent == MCSpec => []SetConsistent
<1>1. Consistent => SetConsistent
  BY ConsistentSet
<1> QED BY <1>1, AlwaysConsistent, PTL

\* When no callback cancels, rearms or destroys a timer, the kernel timer is
\* set early enough for every timer in the set whenever the reactor may
\* sleep, or its signal is waiting.  (When they do, it may not be: the run
\* of MC_TimersLost shows how.)
THEOREM DeadlinesKept ==
    ASSUME CallbacksCancel = FALSE
    PROVE  MCSpec => []NoMissedDeadline
<1>1. MCInit => Consistent /\ Timely
  <2>1. MCInit => Timely
    BY DEF MCInit, Init, LowresInit, Timely, Woken
  <2> QED BY <2>1, InitConsistent
<1>2. Consistent /\ Timely /\ [MCNext]_<<clock, vars>> => (Consistent /\ Timely)'
  BY StepConsistent, StepTimely
<1>3. Consistent /\ Timely => NoMissedDeadline
  BY TimelyDeadline
<1> QED BY <1>1, <1>2, <1>3, PTL DEF MCSpec

-----------------------------------------------------------------------------
(* Timers are alarms.                                                      *)

AlarmDue(tm) == [t \in Timer |-> IF tm[t].armed THEN tm[t].expiry ELSE Never]
AlarmEvery(tm) == [t \in Timer |-> tm[t].period]

\* The alarms do not tell apart states of the timers with the same expiries,
\* periods and armed flags.
LEMMA SameAlarms ==
    ASSUME NEW tm, NEW more,
           \A t \in Timer : /\ more[t].expiry = tm[t].expiry /\ more[t].period = tm[t].period
                            /\ more[t].armed <=> tm[t].armed
    PROVE  AlarmDue(more) = AlarmDue(tm) /\ AlarmEvery(more) = AlarmEvery(tm)
<1>1. ASSUME NEW t \in Timer
      PROVE  (IF more[t].armed THEN more[t].expiry ELSE Never) = (IF tm[t].armed THEN tm[t].expiry ELSE Never)
  <2>1. CASE tm[t].armed
    BY <2>1
  <2>2. CASE ~tm[t].armed
    BY <2>2
  <2> QED BY <2>1, <2>2
<1> QED BY <1>1 DEF AlarmDue, AlarmEvery

\* One timer changes.
LEMMA AlarmChange ==
    ASSUME timer \in [Timer -> TimerStates], NEW t \in Timer, NEW new \in TimerStates, NEW d,
           timer' = [timer EXCEPT ![t] = new], d = IF new.armed THEN new.expiry ELSE Never
    PROVE  /\ AlarmDue(timer') = [AlarmDue(timer) EXCEPT ![t] = d]
           /\ AlarmEvery(timer') = [AlarmEvery(timer) EXCEPT ![t] = new.period]
<1>1. PICK tm : tm = timer
  OBVIOUS
<1>2. PICK more : more = timer'
  OBVIOUS
<1>3. more[t] = new /\ \A u \in Timer : u # t => more[u] = tm[u]
  BY <1>1, <1>2
<1>4. ASSUME NEW u \in Timer
      PROVE  /\ AlarmDue(more)[u] = [AlarmDue(tm) EXCEPT ![t] = d][u]
             /\ AlarmEvery(more)[u] = [AlarmEvery(tm) EXCEPT ![t] = new.period][u]
  <2>1. CASE u = t
    BY <1>3, <2>1 DEF AlarmDue, AlarmEvery
  <2>2. CASE u # t
    BY <1>3, <2>2 DEF AlarmDue, AlarmEvery
  <2> QED BY <2>1, <2>2
<1>5. AlarmDue(more) = [AlarmDue(tm) EXCEPT ![t] = d]
  <2>1. AlarmDue(more) = [u \in Timer |-> AlarmDue(more)[u]]
    BY DEF AlarmDue
  <2>2. [AlarmDue(tm) EXCEPT ![t] = d] = [u \in Timer |-> [AlarmDue(tm) EXCEPT ![t] = d][u]]
    BY DEF AlarmDue
  <2> QED BY <1>4, <2>1, <2>2
<1>6. AlarmEvery(more) = [AlarmEvery(tm) EXCEPT ![t] = new.period]
  <2>1. AlarmEvery(more) = [u \in Timer |-> AlarmEvery(more)[u]]
    BY DEF AlarmEvery
  <2>2. [AlarmEvery(tm) EXCEPT ![t] = new.period]
           = [u \in Timer |-> [AlarmEvery(tm) EXCEPT ![t] = new.period][u]]
    BY DEF AlarmEvery
  <2> QED BY <1>4, <2>1, <2>2
<1> QED BY <1>1, <1>2, <1>5, <1>6

\* The variables of the alarms.
AlarmStep ==
    \/ Alarm!Next
    \/ /\ now' = now /\ running' = running
       /\ AlarmDue(timer') = AlarmDue(timer) /\ AlarmEvery(timer') = AlarmEvery(timer)

\* What arm() and rearm() do to the timer.
Arms(t, until, p) == timer' = ArmState(t, until, p) /\ now' = now /\ running' = running

LEMMA AlarmArm ==
    ASSUME Typed, NEW t \in Timer, NEW until \in Time, NEW p \in Period \cup {0},
           Arms(t, until, p)
    PROVE  Alarm!Arm(t)
<1>1. PICK new : new = [expiry |-> until, period |-> p, armed |-> TRUE, queued |-> TRUE, expired |-> FALSE]
  OBVIOUS
<1>2. new \in TimerStates /\ new.armed /\ new.expiry = until /\ new.period = p
  BY <1>1 DEF TimerStates
<1>3. timer' = [timer EXCEPT ![t] = new] /\ timer \in [Timer -> TimerStates]
  BY <1>1 DEF Arms, ArmState, Typed
<1>4. /\ AlarmDue(timer') = [AlarmDue(timer) EXCEPT ![t] = until]
      /\ AlarmEvery(timer') = [AlarmEvery(timer) EXCEPT ![t] = p]
  <2>1. PICK d : d = (IF new.armed THEN new.expiry ELSE Never)
    OBVIOUS
  <2>2. t \in Timer /\ new \in TimerStates /\ timer \in [Timer -> TimerStates]
        /\ timer' = [timer EXCEPT ![t] = new]
    BY <1>2, <1>3
  <2>3. /\ AlarmDue(timer') = [AlarmDue(timer) EXCEPT ![t] = d]
        /\ AlarmEvery(timer') = [AlarmEvery(timer) EXCEPT ![t] = new.period]
    BY <2>1, <2>2, AlarmChange, ZenonT(60)
  <2> QED BY <1>2, <2>1, <2>3
<1>5. AlarmDue(timer')[t] = until /\ AlarmEvery(timer')[t] = p
  BY <1>4 DEF AlarmDue, AlarmEvery
<1> QED BY <1>4, <1>5 DEF Arms, Alarm!Arm, AlarmDue, AlarmEvery

LEMMA AlarmCancel ==
    ASSUME Consistent, NEW t \in Timer, NEW new \in TimerStates, ~new.armed,
           timer' = [timer EXCEPT ![t] = new], now' = now, running' = running,
           new.period \in {0, timer[t].period}, timer[t].armed \/ new.period = 0
    PROVE  Alarm!Cancel(t) \/ Alarm!Renew(t)
<1>1. Typed /\ timer \in [Timer -> TimerStates] /\ timer[t] \in TimerStates
  BY DEF Consistent, Typed
<1>2. /\ AlarmDue(timer') = [AlarmDue(timer) EXCEPT ![t] = Never]
      /\ AlarmEvery(timer') = [AlarmEvery(timer) EXCEPT ![t] = new.period]
  BY <1>1, AlarmChange
<1>3. CASE timer[t].armed
  <2>1. AlarmDue(timer)[t] # Never
    <3>1. timer[t].expiry \in Nat
      BY <1>1, TypedFacts
    <3> QED BY <1>3, <3>1 DEF AlarmDue, Never
  <2>2. AlarmEvery(timer') \in {AlarmEvery(timer), [AlarmEvery(timer) EXCEPT ![t] = 0]}
    <3>1. CASE new.period = 0
      BY <1>2, <3>1
    <3>2. CASE new.period = timer[t].period
      BY <1>2, <3>2 DEF AlarmEvery
    <3> QED BY <3>1, <3>2
  <2> QED BY <1>2, <2>1, <2>2 DEF Alarm!Cancel, AlarmDue, AlarmEvery
<1>4. CASE ~timer[t].armed
  <2>1. AlarmDue(timer)[t] = Never
    BY <1>4 DEF AlarmDue
  <2>2. AlarmDue(timer') = AlarmDue(timer)
    BY <1>2, <2>1 DEF AlarmDue
  <2>3. AlarmEvery(timer') = [AlarmEvery(timer) EXCEPT ![t] = 0]
    BY <1>2, <1>4
  <2> QED BY <2>1, <2>2, <2>3 DEF Alarm!Renew, AlarmDue, AlarmEvery
<1> QED BY <1>3, <1>4

LEMMA AlarmFire ==
    ASSUME Consistent, Fire
    PROVE  \E t \in Timer : Alarm!Fire(t)
<1>1. PICK t : t = Head(expired)
  OBVIOUS
<1>2. /\ t \in Timer /\ timer[t].armed /\ timer[t].expiry <= now
      /\ \/ /\ timer[t].period = 0
            /\ timer' = [timer EXCEPT ![t] = Off(timer[t])]
         \/ /\ timer[t].period \in Period
            /\ timer' = ArmState(t, now + timer[t].period, timer[t].period)
      /\ pc = "expiring" /\ running' = t /\ now' = now
  BY <1>1, FireShape
<1>3. Typed /\ timer \in [Timer -> TimerStates] /\ timer[t] \in TimerStates /\ running = NoTimer
  BY <1>2 DEF Consistent, Typed
<1>4. PICK e : e = timer[t].period
  OBVIOUS
<1>5. AlarmDue(timer)[t] = timer[t].expiry /\ AlarmDue(timer)[t] # Never /\ AlarmEvery(timer)[t] = e
  <2>1. timer[t].expiry \in Nat
    BY <1>2, <1>3, TypedFacts
  <2> QED BY <1>2, <1>4, <2>1 DEF AlarmDue, AlarmEvery, Never
<1>6. PICK new : /\ new \in TimerStates /\ timer' = [timer EXCEPT ![t] = new] /\ new.period = e
                 /\ (IF new.armed THEN new.expiry ELSE Never) = (IF e = 0 THEN Never ELSE now + e)
  <2>1. CASE timer[t].period = 0 /\ timer' = [timer EXCEPT ![t] = Off(timer[t])]
    <3>1. Off(timer[t]) \in TimerStates /\ ~Off(timer[t]).armed /\ Off(timer[t]).period = e
      BY <1>3, <1>4, OffFacts
    <3> QED BY <1>4, <2>1, <3>1
  <2>2. CASE timer[t].period \in Period /\ timer' = ArmState(t, now + timer[t].period, timer[t].period)
    <3>1. now + e \in Time /\ e # 0 /\ e \in Period
      BY <1>3, <1>4, <2>2, NextPeriod, TimeFacts
    <3>2. PICK rec : rec = [expiry |-> now + e, period |-> e,
                            armed |-> TRUE, queued |-> TRUE, expired |-> FALSE]
      OBVIOUS
    <3>3. rec \in TimerStates /\ rec.armed /\ rec.expiry = now + e /\ rec.period = e
      BY <3>1, <3>2 DEF TimerStates
    <3>4. timer' = [timer EXCEPT ![t] = rec]
      BY <1>4, <2>2, <3>2 DEF ArmState
    <3> QED BY <3>1, <3>3, <3>4
  <2> QED BY <1>2, <2>1, <2>2
<1>7. /\ AlarmDue(timer') = [AlarmDue(timer) EXCEPT ![t] = IF e = 0 THEN Never ELSE now + e]
      /\ AlarmEvery(timer') = [AlarmEvery(timer) EXCEPT ![t] = e]
  <2>1. PICK d : d = (IF new.armed THEN new.expiry ELSE Never)
    OBVIOUS
  <2>2. t \in Timer /\ new \in TimerStates /\ timer \in [Timer -> TimerStates]
        /\ timer' = [timer EXCEPT ![t] = new]
    BY <1>2, <1>3, <1>6
  <2>3. /\ AlarmDue(timer') = [AlarmDue(timer) EXCEPT ![t] = d]
        /\ AlarmEvery(timer') = [AlarmEvery(timer) EXCEPT ![t] = new.period]
    BY <2>1, <2>2, AlarmChange, ZenonT(60)
  <2> QED BY <1>6, <2>1, <2>3
<1>8. AlarmEvery(timer') = AlarmEvery(timer)
  BY <1>5, <1>7 DEF AlarmEvery
<1>9. PICK ev : ev = AlarmEvery(timer)
  OBVIOUS
<1>10. PICK du : du = AlarmDue(timer)
  OBVIOUS
<1>11. /\ du[t] # Never /\ du[t] <= now
       /\ AlarmDue(timer') = [du EXCEPT ![t] = IF ev[t] = 0 THEN Never ELSE now + ev[t]]
  BY <1>2, <1>5, <1>7, <1>9, <1>10
<1>12. Alarm!Fire(t)
  BY <1>2, <1>3, <1>8, <1>9, <1>10, <1>11 DEF Alarm!Fire, AlarmDue, AlarmEvery
<1> QED BY <1>2, <1>12

LEMMA AlarmSteps ==
    ASSUME Consistent, [MCNext]_<<clock, vars>>
    PROVE  AlarmStep
<1>1. Move /\ Typed /\ timer \in [Timer -> TimerStates]
  BY Moves DEF Consistent, Typed
<1>2. ASSUME NEW t \in Timer, Cancel(t) PROVE AlarmStep
  <2>1. timer[t] \in TimerStates /\ timer[t].armed
    BY <1>1, <1>2 DEF Cancel
  <2>2. CASE DelTimerCrashes(t)
    BY <1>2, <2>2 DEF Cancel, Crash, AlarmStep
  <2>3. CASE ~DelTimerCrashes(t)
    <3>1. timer' = [timer EXCEPT ![t].armed = FALSE, ![t].queued = FALSE] /\ now' = now /\ running' = running
      BY <1>2, <2>3 DEF Cancel
    <3>2. [timer EXCEPT ![t].armed = FALSE, ![t].queued = FALSE]
             = [timer EXCEPT ![t] = [timer[t] EXCEPT !.armed = FALSE, !.queued = FALSE]]
      BY <1>1, <2>1
    <3>3. PICK new : new = Off(timer[t])
      OBVIOUS
    <3>4. new \in TimerStates /\ ~new.armed /\ new.period = timer[t].period /\ timer' = [timer EXCEPT ![t] = new]
      BY <2>1, <3>1, <3>2, <3>3, OffFacts
    <3>5. Alarm!Cancel(t) \/ Alarm!Renew(t)
      BY <2>1, <3>1, <3>4, AlarmCancel
    <3> QED BY <3>5, Zenon DEF AlarmStep, Alarm!Next
  <2> QED BY <2>2, <2>3
<1>3. ASSUME NEW t \in Timer, Destroy(t) PROVE AlarmStep
  <2>1. CASE DelTimerCrashes(t)
    BY <1>3, <2>1 DEF Destroy, Crash, AlarmStep
  <2>2. CASE ~DelTimerCrashes(t)
    <3>1. timer' = [timer EXCEPT ![t] = Fresh] /\ now' = now /\ running' = running
      BY <1>3, <2>2 DEF Destroy
    <3>2. Fresh \in TimerStates /\ ~Fresh.armed /\ Fresh.period = 0
      BY FreshFacts DEF Fresh
    <3>3. Alarm!Cancel(t) \/ Alarm!Renew(t)
      BY <3>1, <3>2, AlarmCancel
    <3> QED BY <3>3, Zenon DEF AlarmStep, Alarm!Next
  <2> QED BY <2>1, <2>2
<1>4. ASSUME NEW t \in Timer, NEW until \in Time, NEW p \in Period \cup {0},
             Arm(t, until, p) \/ Rearm(t, until, p)
      PROVE  AlarmStep
  <2>1. CASE Rearm(t, until, p) /\ DelTimerCrashes(t)
    BY <2>1 DEF Rearm, Crash, AlarmStep
  <2>2. CASE Arm(t, until, p) \/ (Rearm(t, until, p) /\ ~DelTimerCrashes(t))
    <3>1. Arms(t, until, p)
      BY <2>2 DEF Arms, Arm, Rearm, ArmOn
    <3>2. Alarm!Arm(t)
      BY <1>1, <3>1, AlarmArm
    <3> QED BY <3>2, Zenon DEF AlarmStep, Alarm!Next
  <2> QED BY <1>4, <2>1, <2>2
<1>5. CASE \E t \in Timer : UserMove(t)
  BY <1>2, <1>3, <1>4, <1>5 DEF UserMove
<1>6. CASE /\ CollectExpired /\ pc = "loop" /\ pc' = "expiring" /\ signal' \in BOOLEAN
           /\ now' = now /\ deadline' = deadline /\ running' = running /\ crashed' = crashed
  <2>1. timer' = Marked(timer, expired')
    BY <1>6, CollectStep
  <2>2. ASSUME NEW t \in Timer
        PROVE  /\ timer'[t].expiry = timer[t].expiry /\ timer'[t].period = timer[t].period
               /\ timer'[t].armed <=> timer[t].armed
    <3>1. timer[t] \in TimerStates
      BY <1>1
    <3>2. timer'[t] = IF t \in Range(expired') THEN [timer[t] EXCEPT !.expired = TRUE] ELSE timer[t]
      BY <2>1 DEF Marked
    <3> QED BY <3>1, <3>2 DEF TimerStates
  <2>3. AlarmDue(timer') = AlarmDue(timer) /\ AlarmEvery(timer') = AlarmEvery(timer)
    BY <2>2, SameAlarms
  <2> QED BY <1>6, <2>3 DEF AlarmStep
<1>7. CASE Fire
  BY <1>7, AlarmFire, Zenon DEF AlarmStep, Alarm!Next
<1>8. CASE EndCallback
  <2>1. now' = now /\ timer' = timer /\ running' = NoTimer
    BY <1>8 DEF EndCallback
  <2>2. CASE running = NoTimer
    BY <2>1, <2>2 DEF AlarmStep
  <2>3. CASE running # NoTimer
    BY <2>1, <2>3 DEF AlarmStep, Alarm!Next, Alarm!Return
  <2> QED BY <2>2, <2>3
<1>9. CASE TimePasses
  BY <1>9 DEF TimePasses, AlarmStep, Alarm!Next, Alarm!Pass
<1>10. CASE EndsExpiring \/ KernelTimer \/ Wakeup \/ LowresSleep \/ Awake \/ UNCHANGED vars
  BY <1>10 DEF EndsExpiring, KernelTimer, Wakeup, LowresSleep, Awake, vars, AlarmStep
<1> QED BY <1>1, <1>5, <1>6, <1>7, <1>8, <1>9, <1>10 DEF Move

\* Timers of either clock are alarms, whatever their callbacks do: no timer
\* fires before its expiry, twice for one arming, or after it was cancelled.
THEOREM TimersAreAlarms == MCSpec => ImplementsAlarms
<1>1. MCInit => Alarm!Init
  <2> SUFFICES ASSUME MCInit PROVE Alarm!Init
    OBVIOUS
  <2>1. now = 1 /\ timer = [t \in Timer |-> Fresh] /\ running = NoTimer
    BY DEF MCInit, Init, LowresInit
  <2>2. 1 \in Time
    BY TimeFacts DEF Time
  <2>3. \A t \in Timer : ~timer[t].armed /\ timer[t].period = 0
    BY <2>1 DEF Fresh
  <2> QED BY <2>1, <2>2, <2>3 DEF Alarm!Init
<1>2. Consistent /\ [MCNext]_<<clock, vars>> => [Alarm!Next]_Alarm!alarmVars
  <2> SUFFICES ASSUME Consistent, [MCNext]_<<clock, vars>> PROVE [Alarm!Next]_Alarm!alarmVars
    OBVIOUS
  <2>1. AlarmStep
    BY AlarmSteps
  <2> QED BY <2>1 DEF AlarmStep, Alarm!alarmVars, AlarmDue, AlarmEvery
<1> QED BY <1>1, <1>2, AlwaysConsistent, PTL DEF MCSpec, ImplementsAlarms, Alarm!Spec
=============================================================================
