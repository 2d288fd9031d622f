---------------------------- MODULE Statistics_proof ---------------------------
(* Proofs about the samples of two classes and their statistics, for any    *)
(* number of samples of any size: the filter keeps half of a class but no   *)
(* lone excursion, no error means separate classes, the verdicts do not     *)
(* depend on the order of the classes, and a summary is coherent.           *)
EXTENDS Statistics, Metrics_proof

SortedSamples(s) ==
  /\ s \in Seq(Nat) /\ s # <<>>
  /\ \A j, k \in 1 .. Len(s) : j <= k => s[j] <= s[k]

-------------------------------------------------------------------------------
(* Interpolation.                                                           *)

\* What is interpolated lies above the lower sample by the weight's share of the distance.
Lifted(low, d, w) == 100 * low + d * w

LEMMA InterpolatedAs ==
  ASSUME NEW low \in Int, NEW d \in Int, NEW w \in Int
  PROVE  Interpolated(low, low + d, w) = Lifted(low, d, w)
  BY DEF Interpolated, Lifted

LEMMA InterpolatedOrdered ==
  ASSUME NEW low \in Nat, NEW high \in Nat, low <= high,
         NEW v \in 0 .. 100, NEW w \in v .. 100
  PROVE  /\ Interpolated(low, high, v) \in Nat
         /\ 100 * low <= Interpolated(low, high, v)
         /\ Interpolated(low, high, v) <= Interpolated(low, high, w)
         /\ Interpolated(low, high, w) <= 100 * high
<1>1. PICK d \in Nat : high = low + d
  <2>1. high - low \in Nat /\ high = low + (high - low)
    OBVIOUS
  <2> QED BY <2>1
<1>2. d * v \in Nat /\ d * w \in Nat /\ d * v <= d * w /\ d * w <= d * 100
  <2>1. v \in Nat /\ w \in Nat /\ v <= w /\ w <= 100
    OBVIOUS
  <2>2. d * v \in Nat /\ d * w \in Nat
    BY <2>1, ProductNat, Zenon
  <2>3. d * v <= d * w /\ d * w <= d * 100
    <3>1. 100 \in Nat
      OBVIOUS
    <3> QED BY <2>1, <3>1, ProductMonotone, Zenon
  <2> QED BY <2>2, <2>3
<1>3. Interpolated(low, high, v) = 100 * low + d * v
  <2>1. low \in Int /\ d \in Int /\ v \in Int
    OBVIOUS
  <2>2. Interpolated(low, low + d, v) = Lifted(low, d, v)
    BY <2>1, InterpolatedAs, Zenon
  <2> QED BY <1>1, <2>2 DEF Lifted
<1>4. Interpolated(low, high, w) = 100 * low + d * w
  <2>1. low \in Int /\ d \in Int /\ w \in Int
    OBVIOUS
  <2>2. Interpolated(low, low + d, w) = Lifted(low, d, w)
    BY <2>1, InterpolatedAs, Zenon
  <2> QED BY <1>1, <2>2 DEF Lifted
<1> DEFINE dv == d * v
           dw == d * w
<1>5. /\ Interpolated(low, high, v) = 100 * low + dv
      /\ Interpolated(low, high, w) = 100 * low + dw
      /\ dv \in Nat /\ dw \in Nat /\ dv <= dw /\ dw <= d * 100 /\ 100 * high = 100 * low + d * 100
  BY <1>1, <1>2, <1>3, <1>4
<1> HIDE DEF dv, dw
<1> QED BY <1>5

-------------------------------------------------------------------------------
(* The place of a quantile: the index below it and the rest.                *)

LEMMA Place ==
  ASSUME NEW s, SortedSamples(s), NEW percent \in 0 .. 100
  PROVE  /\ Len(s) \in Nat \ {0}
         /\ Lower(s, percent) \in 1 .. Len(s) /\ Weight(s, percent) \in 0 .. 99
         /\ 100 * (Lower(s, percent) - 1) + Weight(s, percent) = percent * (Len(s) - 1)
         /\ Weight(s, percent) # 0 => Lower(s, percent) < Len(s)
<1>1. Len(s) \in Nat \ {0}
  BY DEF SortedSamples
<1> DEFINE last == Len(s) - 1
           place == percent * last
<1>2. last \in Nat /\ percent \in Nat /\ last * percent <= last * 100
  BY <1>1, ProductMonotone
<1>3. place \in Nat /\ place <= 100 * last
  BY <1>2, ProductNat
<1>4. /\ place \div 100 \in Nat /\ place % 100 \in 0 .. 99
      /\ 100 * (place \div 100) + (place % 100) = place
  <2> HIDE DEF place
  <2> QED BY <1>3
<1>5. place \div 100 <= last /\ (place % 100 # 0 => place \div 100 < last)
  <2> HIDE DEF place, last
  <2> QED BY <1>2, <1>3, <1>4
<1> QED BY <1>1, <1>2, <1>4, <1>5 DEF Lower, Weight

\* The sample a quantile is interpolated towards; where there is no weight it is the
\* sample itself.
Upper(s, percent) == IF Weight(s, percent) = 0 THEN Lower(s, percent) ELSE Lower(s, percent) + 1

LEMMA QuantileAs ==
  ASSUME NEW s, SortedSamples(s), NEW percent \in 0 .. 100
  PROVE  /\ Upper(s, percent) \in Lower(s, percent) .. Len(s)
         /\ s[Lower(s, percent)] \in Nat /\ s[Upper(s, percent)] \in Nat
         /\ s[Lower(s, percent)] <= s[Upper(s, percent)]
         /\ Quantile(s, percent) =
              Interpolated(s[Lower(s, percent)], s[Upper(s, percent)], Weight(s, percent))
<1> DEFINE l == Lower(s, percent)
           u == Upper(s, percent)
           w == Weight(s, percent)
<1>1. l \in 1 .. Len(s) /\ u \in l .. Len(s) /\ u \in 1 .. Len(s) /\ w \in 0 .. 99
  <2>1. Len(s) \in Nat /\ l \in 1 .. Len(s) /\ w \in 0 .. 99 /\ (w # 0 => l < Len(s))
    BY Place
  <2>2. u = IF w = 0 THEN l ELSE l + 1
    BY DEF Upper
  <2> HIDE DEF l, u, w
  <2> QED BY <2>1, <2>2
<1>2. s[l] \in Nat /\ s[u] \in Nat /\ s[l] <= s[u]
  <2> HIDE DEF l, u
  <2> QED BY <1>1 DEF SortedSamples
<1>3. Quantile(s, percent) = Interpolated(s[l], s[u], w)
  <2>1. CASE w = 0
    <3>1. Quantile(s, percent) = 100 * s[l]
      BY <2>1 DEF Quantile, SortedSamples
    <3>2. u = l
      BY <2>1 DEF Upper
    <3> HIDE DEF l, u, w
    <3> QED BY <1>2, <2>1, <3>1, <3>2 DEF Interpolated
  <2>2. CASE w # 0
    BY <2>2 DEF Quantile, SortedSamples, Upper
  <2> QED BY <2>1, <2>2
<1> QED BY <1>1, <1>2, <1>3

\* No quantile is below the smallest sample, above the largest one, or above a quantile of
\* a larger percentage: the columns min, median, p95, p99 and max of a report are ordered.
THEOREM QuantilesOrdered ==
  ASSUME NEW s, SortedSamples(s), NEW p \in 0 .. 100, NEW q \in p .. 100
  PROVE  /\ 100 * s[1] <= Quantile(s, p)
         /\ Quantile(s, p) <= Quantile(s, q)
         /\ Quantile(s, q) <= 100 * s[Len(s)]
<1> DEFINE lp == Lower(s, p)
           up == Upper(s, p)
           wp == Weight(s, p)
           lq == Lower(s, q)
           uq == Upper(s, q)
           wq == Weight(s, q)
           n == Len(s)
<1>1. /\ n \in Nat \ {0} /\ q \in 0 .. 100
      /\ lp \in 1 .. n /\ wp \in 0 .. 99 /\ 100 * (lp - 1) + wp = p * (n - 1)
      /\ lq \in 1 .. n /\ wq \in 0 .. 99 /\ 100 * (lq - 1) + wq = q * (n - 1)
  <2>1. q \in 0 .. 100
    OBVIOUS
  <2> QED BY <2>1, Place
<1>2. /\ up \in lp .. n /\ s[lp] \in Nat /\ s[up] \in Nat /\ s[lp] <= s[up]
      /\ Quantile(s, p) = Interpolated(s[lp], s[up], wp)
  BY QuantileAs
<1>3. /\ uq \in lq .. n /\ s[lq] \in Nat /\ s[uq] \in Nat /\ s[lq] <= s[uq]
      /\ Quantile(s, q) = Interpolated(s[lq], s[uq], wq)
  BY <1>1, QuantileAs
<1>4. 100 * (lp - 1) + wp <= 100 * (lq - 1) + wq
  <2>1. (n - 1) * p <= (n - 1) * q
    <3>1. n - 1 \in Nat /\ p \in Nat /\ q \in Nat /\ p <= q
      BY <1>1
    <3> HIDE DEF n
    <3> QED BY <3>1, ProductMonotone
  <2>2. (n - 1) * p = p * (n - 1) /\ (n - 1) * q = q * (n - 1)
    BY <1>1
  <2> QED BY <1>1, <2>1, <2>2
<1>5. (wp = 0 => up = lp) /\ (wp # 0 => up = lp + 1) /\ (wq = 0 => uq = lq) /\ (wq # 0 => uq = lq + 1)
  BY DEF Upper
<1>6. \A j, k \in 1 .. n : s[j] \in Nat /\ (j <= k => s[j] <= s[k])
  BY DEF SortedSamples
<1> HIDE DEF lp, up, wp, lq, uq, wq, n
<1>7. /\ 100 * s[lp] <= Quantile(s, p) /\ Quantile(s, p) <= 100 * s[up] /\ Quantile(s, p) \in Nat
      /\ 100 * s[lq] <= Quantile(s, q) /\ Quantile(s, q) <= 100 * s[uq] /\ Quantile(s, q) \in Nat
  <2>1. wp \in 0 .. 100 /\ wp \in wp .. 100 /\ wq \in 0 .. 100 /\ wq \in wq .. 100
    BY <1>1
  <2>2. /\ Interpolated(s[lp], s[up], wp) \in Nat
        /\ 100 * s[lp] <= Interpolated(s[lp], s[up], wp)
        /\ Interpolated(s[lp], s[up], wp) <= 100 * s[up]
    BY <1>2, <2>1, InterpolatedOrdered
  <2>3. /\ Interpolated(s[lq], s[uq], wq) \in Nat
        /\ 100 * s[lq] <= Interpolated(s[lq], s[uq], wq)
        /\ Interpolated(s[lq], s[uq], wq) <= 100 * s[uq]
    BY <1>3, <2>1, InterpolatedOrdered
  <2> QED BY <1>2, <1>3, <2>2, <2>3
<1>8. 100 * s[1] <= Quantile(s, p)
  <2>1. s[1] \in Nat /\ s[1] <= s[lp]
    BY <1>1, <1>6
  <2> QED BY <1>2, <1>7, <2>1
<1>9. Quantile(s, q) <= 100 * s[n]
  <2>1. s[n] \in Nat /\ s[uq] <= s[n]
    BY <1>1, <1>3, <1>6
  <2> QED BY <1>3, <1>7, <2>1
<1>10. Quantile(s, p) <= Quantile(s, q)
  <2>1. lp < lq \/ (lp = lq /\ wp <= wq)
    BY <1>1, <1>4
  <2>2. CASE lp < lq
    <3>1. up \in 1 .. n /\ up <= lq
      BY <1>1, <1>2, <1>5, <2>2
    <3>2. s[up] <= s[lq]
      BY <1>1, <1>6, <3>1
    <3> QED BY <1>2, <1>3, <1>7, <3>2
  <2>3. CASE lp = lq /\ wp = 0
    BY <1>2, <1>5, <1>7, <2>3
  <2>4. CASE lp = lq /\ wp <= wq /\ wp # 0
    <3>1. up = uq /\ wp \in 0 .. 100 /\ wq \in wp .. 100
      BY <1>1, <1>5, <2>4
    <3>2. Interpolated(s[lp], s[up], wp) <= Interpolated(s[lp], s[up], wq)
      BY <1>2, <3>1, InterpolatedOrdered
    <3> QED BY <1>2, <1>3, <2>4, <3>1, <3>2
  <2> QED BY <2>1, <2>2, <2>3, <2>4
<1> QED BY <1>8, <1>9, <1>10 DEF n

-------------------------------------------------------------------------------
(* The classes that are collected.                                          *)

ClassesInv == fixed \in Seq(Samples) /\ random \in Seq(Samples)

LEMMA ClassesCollected == Spec => []ClassesInv
<1>1. Init => ClassesInv
  BY DEF Init, ClassesInv
<1>2. ClassesInv /\ [Next]_vars => ClassesInv'
  <2> SUFFICES ASSUME ClassesInv, [Next]_vars PROVE ClassesInv'
    OBVIOUS
  <2>1. CASE CollectFixed
    BY <2>1 DEF CollectFixed, ClassesInv
  <2>2. CASE CollectRandom
    BY <2>2 DEF CollectRandom, ClassesInv
  <2>3. CASE UNCHANGED vars
    BY <2>3 DEF vars, ClassesInv
  <2>4. CASE Collected
    BY <2>3, <2>4 DEF Collected
  <2> QED BY <2>1, <2>2, <2>3, <2>4 DEF Next
<1> QED BY <1>1, <1>2, PTL DEF Spec

LEMMA ClassesAreInts ==
  ASSUME ClassesInv
  PROVE  /\ fixed \in Seq(Int) /\ random \in Seq(Int)
         /\ fixed \in Seq(Nat) /\ random \in Seq(Nat)
<1>1. ASSUME NEW s \in Seq(Samples) PROVE s \in Seq(Int) /\ s \in Seq(Nat)
  <2>1. \A j \in 1 .. Len(s) : s[j] \in Nat
    <3>1. \A j \in 1 .. Len(s) : s[j] \in Samples
      OBVIOUS
    <3>2. Samples \subseteq Nat
      BY SamplesAssumption
    <3> QED BY <3>1, <3>2
  <2>2. s \in [1 .. Len(s) -> Nat] /\ s \in [1 .. Len(s) -> Int] /\ Len(s) \in Nat
    BY <2>1
  <2> QED BY <2>2
<1> QED BY <1>1 DEF ClassesInv

\* Whatever the samples are, the rejection of outliers leaves at least half of each class.
THEOREM FilterKeeps == Spec => []HalfKept
<1>1. ClassesInv => HalfKept
  BY ClassesAreInts, FilterKeepsHalf DEF HalfKept, KeptCount
<1> QED BY <1>1, ClassesCollected, PTL

\* Classes that are classified without an error do not overlap.
THEOREM ErrorsTell == Spec => []ZeroErrorSeparates
<1>1. ClassesInv => ZeroErrorSeparates
  BY ClassesAreInts, ErrorsSeparate DEF ZeroErrorSeparates
<1> QED BY <1>1, ClassesCollected, PTL

\* The size of t, the signal-to-noise ratio and the verdicts of the two classes do not depend
\* on which of them is called fixed.
THEOREM ClassesExchange == Spec => []ClassesSymmetric
<1>1. ClassesInv => ClassesSymmetric
  BY ClassesAreInts, VerdictsSymmetric DEF ClassesSymmetric
<1> QED BY <1>1, ClassesCollected, PTL

-------------------------------------------------------------------------------
(* A single excursion.                                                      *)

\* Where all samples but one lie between lo and hi, every rank but the last does.
LEMMA RankedOfOthers ==
  ASSUME NEW s \in Seq(Int), NEW k \in DOMAIN s, NEW lo \in Int, NEW hi \in Int, lo <= s[k],
         \A j \in DOMAIN s \ {k} : lo <= s[j] /\ s[j] <= hi,
         NEW p \in 1 .. Len(s), p < Len(s)
  PROVE  Ranked(s, p) \in Int /\ lo <= Ranked(s, p) /\ Ranked(s, p) <= hi
<1>1. IsFiniteSet(DOMAIN s) /\ Cardinality(DOMAIN s) = Len(s) /\ \A j \in DOMAIN s : s[j] \in Int
  BY Places
<1>2. Below(s, lo) = {}
  <2>1. \A j \in DOMAIN s : ~(s[j] < lo)
    BY <1>1
  <2> QED BY <2>1 DEF Below
<1>3. Cardinality(Below(s, lo)) < p
  <2>1. Cardinality(Below(s, lo)) = 0
    BY <1>2, FS_EmptySet
  <2> QED BY <2>1
<1>4. p <= Cardinality(UpTo(s, hi))
  <2>1. DOMAIN s \ {k} \subseteq UpTo(s, hi)
    BY DEF UpTo
  <2>2. IsFiniteSet(UpTo(s, hi)) /\ Cardinality(UpTo(s, hi)) \in Nat
    BY CountsOf
  <2>3. Cardinality(DOMAIN s \ {k}) <= Cardinality(UpTo(s, hi))
    BY <2>1, <2>2, FS_Subset
  <2>4. Cardinality(DOMAIN s \ {k}) \in Nat /\ Len(s) = Cardinality(DOMAIN s \ {k}) + 1
    BY <1>1, RemoveOne
  <2> QED BY <2>2, <2>3, <2>4
<1>5. Ranked(s, p) \in Int
  BY RankedIs
<1> QED BY <1>3, <1>4, <1>5, RankedAtMost, RankedAtLeast

\* ... and so does the median.
LEMMA MedianOfOthers ==
  ASSUME NEW s \in Seq(Int), NEW k \in DOMAIN s, NEW lo \in Int, NEW hi \in Int, lo <= s[k],
         \A j \in DOMAIN s \ {k} : lo <= s[j] /\ s[j] <= hi, Len(s) >= 3
  PROVE  Median2(s) \in Int /\ 2 * lo <= Median2(s) /\ Median2(s) <= 2 * hi
<1>1. s # <<>>
  OBVIOUS
<1>2. PICK p, q \in 1 .. Len(s) :
        p < Len(s) /\ q < Len(s) /\ p = LowerMiddle(s) /\ q = UpperMiddle(s)
  <2>1. /\ LowerMiddle(s) \in 1 .. Len(s) /\ UpperMiddle(s) \in LowerMiddle(s) .. Len(s)
        /\ UpperMiddle(s) < Len(s)
    BY <1>1, Middles
  <2> QED BY <2>1
<1>3. Ranked(s, p) \in Int /\ lo <= Ranked(s, p) /\ Ranked(s, p) <= hi
  BY <1>2, RankedOfOthers
<1>4. Ranked(s, q) \in Int /\ lo <= Ranked(s, q) /\ Ranked(s, q) <= hi
  BY <1>2, RankedOfOthers
<1>5. Median2(s) = Ranked(s, p) + Ranked(s, q)
  BY <1>1, <1>2, MedianIs
<1> QED BY <1>3, <1>4, <1>5

LEMMA DistanceWithin ==
  ASSUME NEW a \in Int, NEW m \in Int, NEW lo \in Int, NEW hi \in Int,
         lo <= a, a <= hi, 2 * lo <= m, m <= 2 * hi
  PROVE  Distance(2 * a, m) \in Nat /\ Distance(2 * a, m) <= 2 * (hi - lo)
<1>1. CASE 2 * a >= m
  BY <1>1 DEF Distance
<1>2. CASE ~(2 * a >= m)
  BY <1>2 DEF Distance
<1> QED BY <1>1, <1>2

LEMMA DistanceAbove ==
  ASSUME NEW a \in Int, NEW m \in Int, NEW hi \in Int, hi < a, m <= 2 * hi
  PROVE  Distance(2 * a, m) \in Nat /\ Distance(2 * a, m) >= 2 * (a - hi)
<1>1. 2 * a >= m
  OBVIOUS
<1> QED BY <1>1 DEF Distance

Others(s, k) == {s[j] : j \in DOMAIN s \ {k}}

\* The least and the greatest of the samples but one.
LEMMA OthersRange ==
  ASSUME NEW s \in Seq(Nat), NEW k \in DOMAIN s, Len(s) >= 2,
         \A j \in DOMAIN s \ {k} : s[j] < s[k]
  PROVE  \E lo, hi \in Others(s, k) : \A j \in DOMAIN s \ {k} : lo <= s[j] /\ s[j] <= hi
<1> DEFINE O == DOMAIN s \ {k}
           gaps == {s[k] - v : v \in Others(s, k)}
<1>1. \A j \in O : s[j] \in Nat /\ s[j] < s[k] /\ s[k] \in Nat
  OBVIOUS
<1>2. O # {}
  <2>1. CASE k = 1
    BY <2>1
  <2>2. CASE k # 1
    BY <2>2
  <2> QED BY <2>1, <2>2
<1>3. Others(s, k) = {s[j] : j \in O}
  BY DEF Others
<1> HIDE DEF O
<1>4. /\ Others(s, k) \subseteq Nat /\ Others(s, k) # {}
      /\ \A v \in Others(s, k) : s[k] - v \in Nat
  BY <1>1, <1>2, <1>3
<1>5. PICK lo \in Others(s, k) : \A v \in Others(s, k) : lo <= v
  BY <1>4, SmallestNat
<1>6. PICK hi \in Others(s, k) : \A v \in Others(s, k) : s[k] - hi <= s[k] - v
  <2>1. gaps \subseteq Nat /\ gaps # {}
    BY <1>4
  <2>2. PICK g \in gaps : \A h \in gaps : g <= h
    <3> HIDE DEF gaps
    <3> QED BY <2>1, SmallestNat
  <2> QED BY <2>2
<1>7. \A v \in Others(s, k) : v <= hi
  <2> SUFFICES ASSUME NEW v \in Others(s, k) PROVE v <= hi
    OBVIOUS
  <2>1. s[k] - hi <= s[k] - v /\ hi \in Nat /\ v \in Nat
    BY <1>4, <1>6
  <2>2. s[k] \in Nat
    OBVIOUS
  <2> QED BY <2>1, <2>2
<1>8. \A j \in O : lo <= s[j] /\ s[j] <= hi
  BY <1>3, <1>5, <1>7
<1> QED BY <1>5, <1>6, <1>8 DEF O

LEMMA ExcursionOutside ==
  ASSUME NEW s \in Seq(Nat), NEW k \in DOMAIN s, Excursion(s, k)
  PROVE  ~WithinMad(Deviation2(s)[k], Mad4(s))
<1> DEFINE O == DOMAIN s \ {k}
           x == s[k]
<1>1. Len(s) >= 5 /\ s \in Seq(Int) /\ s # <<>>
  BY DEF Excursion
<1>2. \A v, w \in Others(s, k) : x >= 2 * v /\ x - v > 6 * Distance(v, w)
  BY DEF Excursion, Others
<1>3. x \in Nat /\ \A j \in O : s[j] \in Nat /\ s[j] \in Others(s, k)
  BY DEF Others
<1>4. \A j \in O : s[j] < x
  <2> SUFFICES ASSUME NEW j \in O PROVE s[j] < x
    OBVIOUS
  <2>1. s[j] \in Others(s, k) /\ s[j] \in Nat
    BY <1>3
  <2> HIDE DEF x
  <2>2. x - s[j] > 6 * Distance(s[j], s[j])
    BY <1>2, <2>1
  <2>3. Distance(s[j], s[j]) = 0
    BY <2>1 DEF Distance
  <2> QED BY <1>3, <2>1, <2>2, <2>3
<1>5. PICK lo, hi \in Others(s, k) : \A j \in O : lo <= s[j] /\ s[j] <= hi
  BY <1>1, <1>4, OthersRange
<1>6. lo \in Nat /\ hi \in Nat /\ lo <= hi /\ hi < x
  BY <1>3, <1>4, <1>5 DEF Others
<1>7. x - hi > 6 * (hi - lo)
  <2> HIDE DEF x
  <2>1. x - hi > 6 * Distance(hi, lo)
    BY <1>2, <1>5
  <2>2. Distance(hi, lo) = hi - lo
    BY <1>6 DEF Distance
  <2> QED BY <2>1, <2>2
<1> DEFINE m == Median2(s)
           d == Deviation2(s)
           range == hi - lo
<1>8. m \in Int /\ 2 * lo <= m /\ m <= 2 * hi
  <2>1. lo <= s[k] /\ Len(s) >= 3 /\ lo \in Int /\ hi \in Int
    BY <1>1, <1>3, <1>6
  <2> QED BY <1>1, <1>5, <2>1, MedianOfOthers
<1>9. /\ d \in Seq(Int) /\ Len(d) = Len(s) /\ DOMAIN d = DOMAIN s
      /\ \A j \in DOMAIN s : d[j] = Distance(2 * s[j], m)
  <2>1. /\ d \in Seq(Int) /\ Len(d) = Len(s)
        /\ \A j \in DOMAIN s : d[j] = Distance(2 * s[j], m)
    BY <1>1, DeviationsAre
  <2>2. DOMAIN d = DOMAIN s
    BY <1>1, <2>1, Places
  <2> HIDE DEF d, m
  <2> QED BY <2>1, <2>2
<1>10. range \in Nat
  BY <1>6
<1> HIDE DEF m, d
<1>11. \A j \in O : d[j] \in Nat /\ d[j] <= 2 * range
  <2> SUFFICES ASSUME NEW j \in O PROVE d[j] \in Nat /\ d[j] <= 2 * range
    OBVIOUS
  <2>1. d[j] = Distance(2 * s[j], m) /\ s[j] \in Int /\ lo <= s[j] /\ s[j] <= hi
    BY <1>3, <1>5, <1>9
  <2>2. Distance(2 * s[j], m) \in Nat /\ Distance(2 * s[j], m) <= 2 * (hi - lo)
    BY <1>6, <1>8, <2>1, DistanceWithin
  <2> QED BY <2>1, <2>2
<1>12. d[k] \in Nat /\ d[k] > 12 * range
  <2>1. d[k] = Distance(2 * x, m)
    BY <1>9
  <2> HIDE DEF x
  <2>2. Distance(2 * x, m) \in Nat /\ Distance(2 * x, m) >= 2 * (x - hi)
    <3>1. x \in Int /\ hi \in Int
      BY <1>3, <1>6
    <3> QED BY <1>6, <1>8, <3>1, DistanceAbove
  <2> QED BY <1>3, <1>6, <1>7, <2>1, <2>2
<1>13. Mad4(s) \in Int /\ Mad4(s) <= 4 * range
  <2>1. Mad4(s) = Median2(d)
    BY DEF Mad4, d
  <2> DEFINE top == 2 * range
  <2>2. top \in Int /\ 0 \in Int /\ Len(d) >= 3
    BY <1>1, <1>9, <1>10
  <2>3. k \in DOMAIN d /\ 0 <= d[k] /\ \A j \in DOMAIN d \ {k} : 0 <= d[j] /\ d[j] <= top
    BY <1>9, <1>11, <1>12
  <2> HIDE DEF top, range
  <2>4. Median2(d) \in Int /\ Median2(d) <= 2 * top
    BY <1>9, <2>2, <2>3, MedianOfOthers
  <2> QED BY <1>10, <2>1, <2>4 DEF top
<1> HIDE DEF range
<1>14. ~(20000 * d[k] <= 51891 * Mad4(s))
  BY <1>10, <1>12, <1>13
<1> QED BY <1>14 DEF WithinMad, d

\* A sample far above all others is always an outlier to the filter.
THEOREM ExcursionsFall == Spec => []ExcursionRejected
<1>1. ClassesInv => ExcursionRejected
  BY ClassesAreInts, ExcursionOutside DEF ExcursionRejected
<1> QED BY <1>1, ClassesCollected, PTL

-------------------------------------------------------------------------------
(* The summary of a benchmark.                                              *)

LEMMA SortedIs ==
  ASSUME NEW s \in Seq(Nat), s # <<>>
  PROVE  /\ SortedSamples(Sorted(s)) /\ Len(Sorted(s)) = Len(s)
         /\ \A k \in 1 .. Len(s) : Sorted(s)[k] = Ranked(s, k)
<1>1. s \in Seq(Int) /\ Len(s) \in Nat /\ Len(s) > 0
  OBVIOUS
<1>2. ASSUME NEW k \in 1 .. Len(s) PROVE Ranked(s, k) \in Nat
  <2>1. PICK j \in DOMAIN s : Ranked(s, k) = s[j]
    BY <1>1, RankedIs
  <2> QED BY <2>1
<1>3. Sorted(s) = [k \in 1 .. Len(s) |-> Ranked(s, k)]
  BY DEF Sorted
<1>4. Sorted(s) \in [1 .. Len(s) -> Nat]
  BY <1>2, <1>3
<1>5. Sorted(s) \in Seq(Nat) /\ Len(Sorted(s)) = Len(s) /\ Sorted(s) # <<>>
  BY <1>1, <1>4
<1>6. \A k \in 1 .. Len(s) : Sorted(s)[k] = Ranked(s, k)
  BY <1>3
<1>7. ASSUME NEW j \in 1 .. Len(s), NEW k \in 1 .. Len(s), j <= k
      PROVE  Sorted(s)[j] <= Sorted(s)[k]
  <2>1. k \in j .. Len(s)
    BY <1>7
  <2>2. Ranked(s, j) <= Ranked(s, k)
    BY <1>1, <2>1, RankedMonotone
  <2> QED BY <1>6, <2>2
<1> QED BY <1>5, <1>6, <1>7 DEF SortedSamples

\* All samples lie between the first and the last of the sorted ones, which are samples.
LEMMA SortedEnds ==
  ASSUME NEW s \in Seq(Nat), s # <<>>
  PROVE  /\ Ranked(s, 1) \in Nat /\ Ranked(s, Len(s)) \in Nat
         /\ \A j \in DOMAIN s : Ranked(s, 1) <= s[j] /\ s[j] <= Ranked(s, Len(s))
         /\ \E j \in DOMAIN s : Ranked(s, 1) = s[j]
         /\ \E j \in DOMAIN s : Ranked(s, Len(s)) = s[j]
<1> DEFINE n == Len(s)
           lo == Ranked(s, 1)
           hi == Ranked(s, n)
<1>1. s \in Seq(Int) /\ n \in Nat /\ n > 0 /\ 1 \in 1 .. n /\ n \in 1 .. n
  OBVIOUS
<1>2. \A j \in DOMAIN s : s[j] \in Nat
  OBVIOUS
<1>3. lo \in Int /\ Cardinality(Below(s, lo)) < 1 /\ \E j \in DOMAIN s : lo = s[j]
  BY <1>1, RankedIs
<1>4. hi \in Int /\ n <= Cardinality(UpTo(s, hi)) /\ \E j \in DOMAIN s : hi = s[j]
  BY <1>1, RankedIs
<1>5. Below(s, lo) = {}
  <2>1. IsFiniteSet(Below(s, lo)) /\ Cardinality(Below(s, lo)) \in Nat
    BY <1>1, CountsOf
  <2> HIDE DEF lo
  <2>2. Cardinality(Below(s, lo)) = 0
    BY <1>3, <2>1
  <2> QED BY <2>1, <2>2, FS_EmptySet
<1>6. UpTo(s, hi) = DOMAIN s
  <2>1. UpTo(s, hi) \in SUBSET DOMAIN s
    BY DEF UpTo
  <2>2. /\ IsFiniteSet(DOMAIN s) /\ Cardinality(DOMAIN s) = n
        /\ Cardinality(UpTo(s, hi)) \in Nat /\ Cardinality(UpTo(s, hi)) <= n
    BY <1>1, Places, CountsOf
  <2> HIDE DEF hi, n
  <2>3. Cardinality(UpTo(s, hi)) = Cardinality(DOMAIN s)
    BY <1>1, <1>4, <2>2
  <2> QED BY <2>1, <2>2, <2>3, FS_Subset
<1> HIDE DEF lo, hi
<1>7. \A j \in DOMAIN s : lo <= s[j] /\ s[j] <= hi
  BY <1>2, <1>3, <1>5, <1>6 DEF Below, UpTo
<1> QED BY <1>2, <1>3, <1>4, <1>7 DEF lo, hi

\* The interpolated median is the other median of the program.
LEMMA MediansAgree ==
  ASSUME NEW s \in Seq(Nat), s # <<>>
  PROVE  2 * Quantile(Sorted(s), 50) = 100 * Median2(s)
<1> DEFINE n == Len(s)
           t == Sorted(s)
           h == n \div 2
<1>1. /\ SortedSamples(t) /\ t # <<>> /\ Len(t) = n /\ n \in Nat /\ n > 0
      /\ \A k \in 1 .. n : t[k] = Ranked(s, k) /\ t[k] \in Nat
  <2>1. SortedSamples(t) /\ Len(t) = n /\ \A k \in 1 .. n : t[k] = Ranked(s, k)
    BY SortedIs
  <2> HIDE DEF t
  <2> QED BY <2>1 DEF SortedSamples
<1> HIDE DEF t
<1>2. h \in Nat /\ n = 2 * h + (n % 2) /\ n % 2 \in {0, 1}
  <2> HIDE DEF n
  <2> QED BY <1>1
<1>3. Lower(t, 50) = 1 + (50 * (n - 1)) \div 100 /\ Weight(t, 50) = (50 * (n - 1)) % 100
  BY <1>1 DEF Lower, Weight
<1>4. CASE n % 2 = 1
  <2>1. 50 * (n - 1) = 100 * h
    <3> HIDE DEF n, h
    <3> QED BY <1>1, <1>2, <1>4
  <2>2. (100 * h) \div 100 = h /\ (100 * h) % 100 = 0
    <3> HIDE DEF h
    <3> QED BY <1>2
  <2>3. Lower(t, 50) = 1 + h /\ Weight(t, 50) = 0
    BY <1>3, <2>1, <2>2
  <2>4. Quantile(t, 50) = 100 * t[1 + h]
    BY <1>1, <2>3 DEF Quantile
  <2>5. 1 + h \in 1 .. n
    <3> HIDE DEF n, h
    <3> QED BY <1>1, <1>2, <1>4
  <2>6. Median2(s) = 2 * Ranked(s, h + 1)
    <3>1. Len(s) % 2 # 0
      BY <1>4
    <3> QED BY <3>1 DEF Median2
  <2>7. t[1 + h] = Ranked(s, h + 1) /\ t[1 + h] \in Nat
    <3>1. 1 + h = h + 1
      BY <1>2
    <3> HIDE DEF n, h
    <3> QED BY <1>1, <2>5, <3>1
  <2> HIDE DEF h, n
  <2> QED BY <2>4, <2>6, <2>7 DEF t
<1>5. CASE n % 2 = 0
  <2>1. h > 0 /\ 50 * (n - 1) = 100 * (h - 1) + 50 /\ h - 1 \in Nat
    <3> HIDE DEF n, h
    <3> QED BY <1>1, <1>2, <1>5
  <2>2. (100 * (h - 1) + 50) \div 100 = h - 1 /\ (100 * (h - 1) + 50) % 100 = 50
    <3> DEFINE g == h - 1
    <3>1. g \in Nat
      BY <2>1
    <3> HIDE DEF g
    <3>2. (100 * g + 50) \div 100 = g /\ (100 * g + 50) % 100 = 50
      BY <3>1
    <3> QED BY <3>2 DEF g
  <2>3. Lower(t, 50) = h /\ Weight(t, 50) = 50
    <3>1. 1 + (h - 1) = h
      BY <2>1
    <3> QED BY <1>3, <2>1, <2>2, <3>1
  <2>4. Quantile(t, 50) = Interpolated(t[h], t[h + 1], 50)
    BY <1>1, <2>3 DEF Quantile
  <2>5. h \in 1 .. n /\ h + 1 \in 1 .. n
    <3> HIDE DEF n, h
    <3> QED BY <1>1, <1>2, <1>5, <2>1
  <2>6. Median2(s) = Ranked(s, h) + Ranked(s, h + 1)
    <3>1. Len(s) % 2 = 0
      BY <1>5
    <3> QED BY <3>1 DEF Median2
  <2> HIDE DEF h, n
  <2>7. t[h] = Ranked(s, h) /\ t[h] \in Nat /\ t[h + 1] = Ranked(s, h + 1) /\ t[h + 1] \in Nat
    BY <1>1, <2>5
  <2>8. Interpolated(t[h], t[h + 1], 50) = 50 * (t[h] + t[h + 1])
    BY <2>7 DEF Interpolated
  <2> QED BY <2>4, <2>6, <2>7, <2>8 DEF t
<1>6. n % 2 = 0 \/ n % 2 = 1
  BY <1>2
<1> QED BY <1>4, <1>5, <1>6

\* The summary of no samples is all zeros.
LEMMA EmptySummary ==
  ASSUME NEW s \in Seq(Nat), s = <<>>
  PROVE  /\ Summary(s).median = 0 /\ Summary(s).p95 = 0 /\ Summary(s).p99 = 0
         /\ Summary(s).min = 0 /\ Summary(s).max = 0 /\ Summary(s).sum = 0
         /\ Summary(s).count = 0 /\ Summary(s).spread = 0
<1>1. Len(s) = 0 /\ DOMAIN s = {} /\ s \in Seq(Int)
  OBVIOUS
<1>2. Sorted(s) = <<>>
  <2>1. Sorted(s) = [k \in DOMAIN s |-> Ranked(s, k)]
    BY <1>1 DEF Sorted
  <2>2. Sorted(s) = [k \in DOMAIN s |-> s[k]]
    BY <1>1, <2>1
  <2> QED BY <2>2
<1>3. \A percent : Quantile(Sorted(s), percent) = 0
  BY <1>2 DEF Quantile
<1>4. Sum(s) = 0
  <2>1. Sum(s) = SumOn(s, {})
    BY <1>1, SumOfInts
  <2> QED BY <2>1, SumEmpty
<1> QED BY <1>1, <1>3, <1>4 DEF Summary

LEMMA SummaryIs ==
  ASSUME NEW s \in Seq(Nat), s # <<>>
  PROVE  /\ Summary(s).median = Quantile(Sorted(s), 50)
         /\ Summary(s).p95 = Quantile(Sorted(s), 95) /\ Summary(s).p99 = Quantile(Sorted(s), 99)
         /\ Summary(s).min = Sorted(s)[1] /\ Summary(s).max = Sorted(s)[Len(s)]
         /\ Summary(s).sum = Sum(s) /\ Summary(s).count = Len(s)
         /\ Summary(s).spread = IF Len(s) < 2 THEN 0 ELSE Spread(s)
<1>1. Len(s) # 0
  OBVIOUS
<1> QED BY <1>1 DEF Summary

\* What SummaryCoherent says, of the samples s.
CoherentSummary(s) ==
  LET r == Summary(s)
  IN  /\ 100 * r.min <= r.median /\ r.median <= r.p95 /\ r.p95 <= r.p99 /\ r.p99 <= 100 * r.max
      /\ r.count * r.min <= r.sum /\ r.sum <= r.count * r.max
      /\ r.spread = 0 <=> r.min = r.max
      /\ 2 * r.median = 100 * Median2(s)

\* The three quantiles of a report.
LEMMA ReportedQuantiles ==
  ASSUME NEW t, SortedSamples(t)
  PROVE  /\ 100 * t[1] <= Quantile(t, 50) /\ Quantile(t, 50) <= Quantile(t, 95)
         /\ Quantile(t, 95) <= Quantile(t, 99) /\ Quantile(t, 99) <= 100 * t[Len(t)]
<1>1. 50 \in 0 .. 100 /\ 95 \in 50 .. 100
  OBVIOUS
<1>2. 95 \in 0 .. 100 /\ 99 \in 95 .. 100
  OBVIOUS
<1>3. 100 * t[1] <= Quantile(t, 50) /\ Quantile(t, 50) <= Quantile(t, 95)
  BY <1>1, QuantilesOrdered, Zenon
<1>4. Quantile(t, 95) <= Quantile(t, 99) /\ Quantile(t, 99) <= 100 * t[Len(t)]
  BY <1>2, QuantilesOrdered, Zenon
<1> QED BY <1>3, <1>4, Zenon

LEMMA SummariesCoherent ==
  ASSUME NEW s \in Seq(Nat)
  PROVE  CoherentSummary(s)
<1>1. CASE s = <<>>
  <2>1. Median2(s) = 0
    BY <1>1 DEF Median2
  <2> DEFINE r == Summary(s)
  <2>2. r.median = 0 /\ r.p95 = 0 /\ r.p99 = 0 /\ r.min = 0 /\ r.max = 0
        /\ r.sum = 0 /\ r.count = 0 /\ r.spread = 0
    BY <1>1, EmptySummary
  <2> HIDE DEF r
  <2>3. /\ 100 * r.min <= r.median /\ r.median <= r.p95 /\ r.p95 <= r.p99
        /\ r.p99 <= 100 * r.max
        /\ r.count * r.min <= r.sum /\ r.sum <= r.count * r.max
        /\ r.spread = 0 <=> r.min = r.max
        /\ 2 * r.median = 100 * Median2(s)
    BY <2>1, <2>2
  <2> QED BY <2>3 DEF CoherentSummary, r
<1>2. CASE s # <<>>
  <2> DEFINE t == Sorted(s)
             r == Summary(s)
             n == Len(s)
             lo == Ranked(s, 1)
             hi == Ranked(s, n)
  <2>1. SortedSamples(t) /\ Len(t) = n /\ t[1] = lo /\ t[n] = hi
    <3>1. 1 \in 1 .. Len(s) /\ Len(s) \in 1 .. Len(s)
      BY <1>2
    <3> QED BY <1>2, <3>1, SortedIs
  <2>2. r.min = lo /\ r.max = hi /\ r.sum = Sum(s) /\ r.count = n
    BY <1>2, <2>1, SummaryIs
  <2>3. 100 * lo <= r.median /\ r.median <= r.p95 /\ r.p95 <= r.p99 /\ r.p99 <= 100 * hi
    <3>1. r.median = Quantile(t, 50) /\ r.p95 = Quantile(t, 95) /\ r.p99 = Quantile(t, 99)
      BY <1>2, SummaryIs
    <3> HIDE DEF t, r, lo, hi, n
    <3>2. /\ 100 * t[1] <= Quantile(t, 50) /\ Quantile(t, 50) <= Quantile(t, 95)
          /\ Quantile(t, 95) <= Quantile(t, 99) /\ Quantile(t, 99) <= 100 * t[Len(t)]
      BY <2>1, ReportedQuantiles, Zenon
    <3>3. t[1] = lo /\ t[Len(t)] = hi
      BY <2>1, Zenon
    <3> QED BY <3>1, <3>2, <3>3
  <2>4. s \in Seq(Int) /\ n \in Nat /\ n > 0
    BY <1>2
  <2>5. /\ lo \in Nat /\ hi \in Nat
        /\ \A j \in DOMAIN s : s[j] \in Nat /\ lo <= s[j] /\ s[j] <= hi
        /\ \E j \in DOMAIN s : lo = s[j]
        /\ \E j \in DOMAIN s : hi = s[j]
    <3>1. \A j \in DOMAIN s : s[j] \in Nat
      OBVIOUS
    <3> QED BY <1>2, <3>1, SortedEnds
  <2>6. n * lo <= Sum(s) /\ Sum(s) <= n * hi
    <3>1. IsFiniteSet(DOMAIN s) /\ Cardinality(DOMAIN s) = n /\ Sum(s) = SumOn(s, DOMAIN s)
      BY <2>4, Places, SumOfInts
    <3> HIDE DEF lo, hi
    <3>2. Cardinality(DOMAIN s) * lo <= SumOn(s, DOMAIN s) /\ SumOn(s, DOMAIN s) <= Cardinality(DOMAIN s) * hi
      <4>1. lo \in Int /\ hi \in Int /\ \A j \in DOMAIN s : s[j] \in Int /\ lo <= s[j] /\ s[j] <= hi
        BY <2>5
      <4> QED BY <3>1, <4>1, SumBounds
    <3> QED BY <3>1, <3>2
  <2>7. r.spread = 0 <=> lo = hi
    <3>1. CASE n < 2
      <4>1. DOMAIN s = {1}
        <5>1. DOMAIN s = 1 .. n
          OBVIOUS
        <5> HIDE DEF n
        <5>2. n = 1
          BY <2>4, <3>1
        <5>3. 1 .. 1 = {1}
          OBVIOUS
        <5> QED BY <5>1, <5>2, <5>3
      <4>2. lo = hi
        <5> HIDE DEF lo, hi
        <5> QED BY <2>5, <4>1
      <4>3. r.spread = 0
        BY <1>2, <3>1, SummaryIs
      <4> QED BY <4>2, <4>3
    <3>2. CASE ~(n < 2)
      <4>1. r.spread = Spread(s)
        BY <1>2, <3>2, SummaryIs
      <4>2. Spread(s) = 0 <=> \A j, k \in DOMAIN s : s[j] = s[k]
        BY <2>4, SumOfInts
      <4> HIDE DEF lo, hi, r
      <4>3. (\A j, k \in DOMAIN s : s[j] = s[k]) <=> lo = hi
        BY <2>5
      <4> QED BY <4>1, <4>2, <4>3
    <3> QED BY <3>1, <3>2
  <2>8. 2 * r.median = 100 * Median2(s)
    <3>1. r.median = Quantile(t, 50)
      BY <1>2, SummaryIs
    <3> QED BY <1>2, <3>1, MediansAgree
  <2> HIDE DEF t, n, lo, hi
  <2> QED BY <2>2, <2>3, <2>6, <2>7, <2>8 DEF CoherentSummary
<1> QED BY <1>1, <1>2

\* Every summary of every list of samples is coherent: its columns are ordered, its mean lies
\* between its ends, it has a deviation exactly when the samples differ, and its median is
\* that of the evaluation lab.
THEOREM SummaryOfEverySample == Spec => []SummaryCoherent
<1>1. ClassesInv => SummaryCoherent
  <2>1. SummaryCoherent <=> CoherentSummary(fixed)
    BY DEF SummaryCoherent, CoherentSummary
  <2> QED BY <2>1, ClassesAreInts, SummariesCoherent
<1> QED BY <1>1, ClassesCollected, PTL
===============================================================================
