----------------------------- MODULE Timer_proof -----------------------------
(* Proofs about Timer, for counters of any width that are apart by any     *)
(* number of ticks.                                                        *)
EXTENDS Timer, Metrics_proof

-------------------------------------------------------------------------------
(* The inductive invariant.  Each stamp is the time it was taken at, moved  *)
(* by what the counter of its CPU is ahead; what passed between two stamps  *)
(* is less than one turn of a counter.                                      *)

Ticks == 0 .. CounterModulus - 1

\* Some ticks after from it is to.
Later(from, to, ticks) == to = (from + ticks) % CounterModulus

\* What CalibrationSound says of a rate.
SoundRate(rate) ==
  /\ rate[2] >= CalibrationInterval
  /\ rate[1] <= rate[2] /\ rate[2] - rate[1] <= 2 * MaxDelay

Asleep == CalibrationInterval .. CalibrationInterval + MaxDelay

\* The clock stamp is a ticks before the first counter stamp, which was taken at.
FirstStamps(a, at) ==
  /\ Later(ns_start, at, a) /\ Later(at, tsc_start, Ahead[aux_start])

\* The second counter stamp was taken s ticks after that, at bt.
SecondStamp(s, at, bt) ==
  /\ Later(at, bt, s) /\ Later(bt, tsc_end, Ahead[aux_end])

Calibrating == {"round", "tsc start", "tsc end", "ns end"}

StampsInv ==
  /\ tpc = "tsc start" => ns_start \in Ticks /\ \E a \in 0 .. MaxDelay : Later(ns_start, now, a)
  /\ tpc \in {"tsc end", "ns end"} =>
       ns_start \in Ticks /\ aux_start \in TimerCpus /\ tsc_start \in Ticks
  /\ tpc = "tsc end" =>
       /\ pinned => aux_start = cpu
       /\ \E a \in 0 .. MaxDelay, s \in Asleep, at \in Ticks :
            FirstStamps(a, at) /\ Later(at, now, s)
  /\ tpc = "ns end" =>
       /\ aux_end \in TimerCpus /\ tsc_end \in Ticks
       /\ pinned => aux_start = aux_end
       /\ \E a \in 0 .. MaxDelay, s \in Asleep, c \in 0 .. MaxDelay, at \in Ticks, bt \in Ticks :
            FirstStamps(a, at) /\ SecondStamp(s, at, bt) /\ Later(bt, now, c)

RatesInv ==
  /\ estimates \in Seq(Nat \X Nat) /\ \A k \in DOMAIN estimates : SoundRate(estimates[k])
  /\ tsc_hz # <<0, 0>> => SoundRate(tsc_hz)
  /\ pinned /\ clock_works =>
       tpc # "thrown" /\ (tpc \in Calibrating => Len(estimates) = n)

\* A sample that is longer than a delay is one the thread was moved in.
OverheadInv ==
  /\ values \in Seq(Nat) /\ spoiled \in Nat /\ overhead \in Nat
  /\ tpc \in Calibrating => values = <<>>
  /\ tpc \in {"sample", "sample end"} => Len(values) = n
  /\ Cardinality({j \in DOMAIN values : values[j] > MaxDelay}) <= spoiled
  /\ tpc \in {"batch", "batch end", "returned"} =>
       (2 * spoiled < OverheadSamples => overhead <= MaxDelay)

Timed(ticks) == Later(began, now, ticks) /\ Later(began, tsc_start, Ahead[cpu])

BatchInv ==
  /\ tpc \in {"sample end", "batch end"} => began \in Ticks /\ tsc_start \in Ticks
  /\ tpc = "sample end" /\ ~moved => \E d \in 0 .. MaxDelay : Timed(d)
  /\ tpc = "batch end" /\ ~moved => \E d \in 0 .. MaxBatch : Timed(d)
  /\ BatchSound

TimerInv ==
  /\ now \in Ticks /\ cpu \in TimerCpus /\ pinned \in BOOLEAN /\ clock_works \in BOOLEAN
  /\ n \in Nat /\ moved \in BOOLEAN
  /\ tpc \in Calibrating \union {"sample", "sample end", "batch", "batch end", "returned", "thrown"}
  /\ StampsInv /\ RatesInv /\ OverheadInv /\ BatchInv

LEMMA TicksAssumption ==
  /\ CounterModulus \in Nat /\ CounterModulus > 0 /\ MaxDelay \in Nat /\ MaxBatch \in Nat
  /\ CalibrationInterval \in Nat /\ CalibrationInterval > 0
  /\ CalibrationInterval + 3 * MaxDelay < CounterModulus /\ MaxBatch < CounterModulus
  /\ \A c \in TimerCpus : Ahead[c] \in Ticks
  /\ 0 \in Ticks
  BY TimerAssumption DEF Ticks

-------------------------------------------------------------------------------
(* Counters that wrap.                                                      *)

LEMMA OneTurn ==
  ASSUME NEW m \in Nat, m > 0, NEW b \in Int
  PROVE  /\ 0 <= b /\ b < m => b % m = b
         /\ m <= b /\ b < m + m => b % m = b - m
         /\ b < 0 /\ 0 - m <= b => b % m = b + m
<1>1. 0 <= b /\ b < m => b % m = b
  BY SMTT(30)
<1>2. m <= b /\ b < m + m => b % m = b - m
  BY SMTT(30)
<1>3. b < 0 /\ 0 - m <= b => b % m = b + m
  BY SMTT(30)
<1> QED BY <1>1, <1>2, <1>3

LEMMA LaterIs ==
  ASSUME NEW from \in Ticks, NEW d \in Ticks
  PROVE  /\ from + d < CounterModulus => (from + d) % CounterModulus = from + d
         /\ CounterModulus <= from + d => (from + d) % CounterModulus = from + d - CounterModulus
<1>1. from + d \in Int /\ 0 <= from + d /\ from + d < CounterModulus + CounterModulus
      /\ CounterModulus \in Nat /\ CounterModulus > 0
  BY TicksAssumption DEF Ticks
<1> QED BY <1>1, OneTurn DEF Ticks

LEMMA LaterTicks ==
  ASSUME NEW from \in Ticks, NEW d \in Ticks
  PROVE  (from + d) % CounterModulus \in Ticks
  BY LaterIs, TicksAssumption DEF Ticks

\* Nothing else is as many ticks later, and Since tells how many.
LEMMA LaterSince ==
  ASSUME NEW from \in Ticks, NEW to \in Ticks, NEW d \in Ticks, Later(from, to, d)
  PROVE  Since(from, to) = d
<1> DEFINE b == to - from
<1>1. /\ from + d < CounterModulus => to = from + d
      /\ CounterModulus <= from + d => to = from + d - CounterModulus
  BY LaterIs DEF Later
<1>2. b \in Int /\ CounterModulus \in Nat /\ CounterModulus > 0 /\ d \in Int /\ 0 <= d
      /\ d < CounterModulus /\ (b = d \/ b = d - CounterModulus)
  BY <1>1, TicksAssumption DEF Ticks
<1> HIDE DEF b
<1>3. b % CounterModulus = d
  BY <1>2, OneTurn
<1> QED BY <1>3 DEF Since, b

LEMMA SinceTicks ==
  ASSUME NEW from \in Ticks, NEW to \in Ticks
  PROVE  Since(from, to) \in Nat
  BY TicksAssumption DEF Since, Ticks

LEMMA LaterAdd ==
  ASSUME NEW from \in Ticks, NEW via \in Ticks, NEW to \in Ticks, NEW d \in Ticks,
         NEW e \in Ticks, d + e \in Ticks, Later(from, via, d), Later(via, to, e)
  PROVE  Later(from, to, d + e)
<1> DEFINE f == d + e
<1>1. /\ from + d < CounterModulus => via = from + d
      /\ CounterModulus <= from + d => via = from + d - CounterModulus
  BY LaterIs DEF Later
<1>2. /\ via + e < CounterModulus => to = via + e
      /\ CounterModulus <= via + e => to = via + e - CounterModulus
  BY LaterIs DEF Later
<1>3. /\ from + f < CounterModulus => (from + f) % CounterModulus = from + f
      /\ CounterModulus <= from + f => (from + f) % CounterModulus = from + f - CounterModulus
  BY LaterIs
<1>4. /\ from + f < CounterModulus => to = from + f
      /\ CounterModulus <= from + f => to = from + f - CounterModulus
  BY <1>1, <1>2, TicksAssumption DEF Ticks
<1> QED BY <1>3, <1>4, TicksAssumption DEF Later, Ticks

\* Two stamps of one counter are as far apart as the times they were taken at.
LEMMA LaterStamps ==
  ASSUME NEW x \in Ticks, NEW y \in Ticks, NEW p \in Ticks, NEW q \in Ticks,
         NEW ahead \in Ticks, NEW d \in Ticks,
         Later(x, p, ahead), Later(y, q, ahead), Later(x, y, d)
  PROVE  Later(p, q, d)
<1>1. /\ x + ahead < CounterModulus => p = x + ahead
      /\ CounterModulus <= x + ahead => p = x + ahead - CounterModulus
  BY LaterIs DEF Later
<1>2. /\ y + ahead < CounterModulus => q = y + ahead
      /\ CounterModulus <= y + ahead => q = y + ahead - CounterModulus
  BY LaterIs DEF Later
<1>3. /\ x + d < CounterModulus => y = x + d
      /\ CounterModulus <= x + d => y = x + d - CounterModulus
  BY LaterIs DEF Later
<1>4. /\ p + d < CounterModulus => (p + d) % CounterModulus = p + d
      /\ CounterModulus <= p + d => (p + d) % CounterModulus = p + d - CounterModulus
  BY LaterIs
<1>5. /\ p + d < CounterModulus => q = p + d
      /\ CounterModulus <= p + d => q = p + d - CounterModulus
  BY <1>1, <1>2, <1>3, TicksAssumption DEF Ticks
<1> QED BY <1>4, <1>5, TicksAssumption DEF Later, Ticks

\* The stamps of a round: of the clock at its ends, x and y, and of a counter in between, p at
\* the time at and q at the time bt.
RoundStamped(a, s, c, at, bt, x, p, q, y, ahead) ==
  /\ a \in 0 .. MaxDelay /\ s \in Asleep /\ c \in 0 .. MaxDelay
  /\ {at, bt, x, p, q, y, ahead} \subseteq Ticks
  /\ Later(x, at, a) /\ Later(at, p, ahead) /\ Later(at, bt, s) /\ Later(bt, q, ahead)
  /\ Later(bt, y, c)

\* A round that ends on the CPU it started on gives a sound rate.
LEMMA RoundSound ==
  ASSUME NEW a, NEW s, NEW c, NEW at, NEW bt, NEW x, NEW p, NEW q, NEW y, NEW ahead,
         RoundStamped(a, s, c, at, bt, x, p, q, y, ahead)
  PROVE  /\ Since(x, y) \in Nat /\ Since(x, y) # 0 /\ Since(p, q) \in Nat
         /\ SoundRate(<<Since(p, q), Since(x, y)>>)
<1>0. /\ a \in 0 .. MaxDelay /\ s \in Asleep /\ c \in 0 .. MaxDelay
      /\ {at, bt, x, p, q, y, ahead} \subseteq Ticks
      /\ Later(x, at, a) /\ Later(at, p, ahead) /\ Later(at, bt, s) /\ Later(bt, q, ahead)
      /\ Later(bt, y, c)
  BY Zenon DEF RoundStamped
<1>1. a \in Ticks /\ s \in Ticks /\ c \in Ticks /\ a + s \in Ticks /\ a + s + c \in Ticks
  BY <1>0, TicksAssumption DEF Ticks, Asleep
<1>2. Since(p, q) = s
  <2>1. Later(p, q, s)
    BY <1>0, <1>1, LaterStamps
  <2> QED BY <1>0, <1>1, <2>1, LaterSince
<1>3. Since(x, y) = a + s + c
  <2>1. Later(x, bt, a + s)
    BY <1>0, <1>1, LaterAdd
  <2>2. Later(x, y, a + s + c)
    BY <1>0, <1>1, <2>1, LaterAdd
  <2> QED BY <1>0, <1>1, <2>2, LaterSince
<1>4. /\ a \in Nat /\ s \in Nat /\ c \in Nat /\ a <= MaxDelay /\ c <= MaxDelay
      /\ CalibrationInterval <= s
  BY <1>0, TicksAssumption DEF Asleep
<1> DEFINE rate == <<Since(p, q), Since(x, y)>>
<1>5. rate[1] = s /\ rate[2] = a + s + c
  BY <1>2, <1>3
<1> HIDE DEF rate
<1>6. SoundRate(rate)
  BY <1>4, <1>5, TicksAssumption DEF SoundRate
<1> QED BY <1>2, <1>3, <1>4, <1>6, TicksAssumption DEF rate

-------------------------------------------------------------------------------
(* The rate in the middle.                                                  *)

\* Dividends and divisors in the order of their ratios.
LEMMA RatiosTransitive ==
  ASSUME NEW a \in Nat, NEW p \in Nat, NEW b \in Nat, NEW q \in Nat, q > 0,
         NEW c \in Nat, NEW r \in Nat, a * q <= b * p, b * r <= c * q
  PROVE  a * r <= c * p
<1>1. r * (a * q) <= r * (b * p) /\ p * (b * r) <= p * (c * q)
  BY ProductMonotone, ProductNat
<1> DEFINE u == a * r
           w == c * p
<1>2. u \in Nat /\ w \in Nat
  BY ProductNat
<1>3. q * u = r * (a * q) /\ r * (b * p) = p * (b * r) /\ q * w = p * (c * q)
  OBVIOUS
<1>4. q * u \in Nat /\ q * w \in Nat /\ q * u <= q * w
  <2>1. q * u \in Nat /\ q * w \in Nat /\ r * (b * p) \in Nat
    BY <1>2, ProductNat
  <2> HIDE DEF u, w
  <2> QED BY <1>1, <1>3, <2>1
<1> HIDE DEF u, w
<1> SUFFICES ASSUME w + 1 <= u PROVE FALSE
  BY <1>2 DEF u, w
<1>5. q * (w + 1) <= q * u
  BY <1>2, ProductMonotone
<1>6. q * (w + 1) = q * w + q
  BY <1>2
<1> QED BY <1>2, <1>4, <1>5, <1>6

\* What is returned for the middle of the sorted rates is one of the rates.
LEMMA RankedRateIs ==
  ASSUME NEW rates \in Seq(Nat \X Nat), \A j \in DOMAIN rates : rates[j][2] > 0,
         NEW k \in 1 .. Len(rates)
  PROVE  \E j \in DOMAIN rates : RankedRate(rates, k) = rates[j]
<1> DEFINE J == DOMAIN rates
           R == {p \in J \X J : ~Slower(rates[p[2]], rates[p[1]])}
<1>1. IsFiniteSet(J) /\ Cardinality(J) = Len(rates)
  <2>1. J = 1 .. Len(rates) /\ Len(rates) \in Nat
    OBVIOUS
  <2>2. 1 \in Int /\ Len(rates) \in Int /\ 1 <= Len(rates)
    BY <2>1
  <2>3. IsFiniteSet(1 .. Len(rates))
        /\ Cardinality(1 .. Len(rates)) = IF 1 > Len(rates) THEN 0 ELSE Len(rates) - 1 + 1
    BY <2>2, FS_Interval
  <2> QED BY <2>1, <2>2, <2>3
<1>2. \A j \in J : rates[j][1] \in Nat /\ rates[j][2] \in Nat /\ rates[j][2] > 0
  <2>1. \A j \in J : rates[j] \in Nat \X Nat
    OBVIOUS
  <2> QED BY <2>1
<1>3. \A i, j \in J : <<i, j>> \in R <=> ~Slower(rates[j], rates[i])
  OBVIOUS
<1>4. \A i, j \in J : <<i, j>> \in R <=> rates[i][1] * rates[j][2] <= rates[j][1] * rates[i][2]
  <2> HIDE DEF R
  <2>1. SUFFICES ASSUME NEW i \in J, NEW j \in J
        PROVE  <<i, j>> \in R <=> rates[i][1] * rates[j][2] <= rates[j][1] * rates[i][2]
    OBVIOUS
  <2> DEFINE x == rates[i][1] * rates[j][2]
             y == rates[j][1] * rates[i][2]
  <2>2. x \in Nat /\ y \in Nat
    BY <1>2, ProductNat
  <2>3. <<i, j>> \in R <=> ~(y < x)
    BY <1>3 DEF Slower
  <2> HIDE DEF x, y
  <2>4. <<i, j>> \in R <=> x <= y
    BY <2>2, <2>3
  <2> QED BY <2>4 DEF x, y
<1>5. Orders(R, J)
  <2> HIDE DEF R
  <2>1. ASSUME NEW i \in J, NEW j \in J PROVE <<i, j>> \in R \/ <<j, i>> \in R
    <3> DEFINE x == rates[i][1] * rates[j][2]
               y == rates[j][1] * rates[i][2]
    <3>1. x \in Nat /\ y \in Nat
      BY <1>2, ProductNat
    <3>2. (<<i, j>> \in R <=> x <= y) /\ (<<j, i>> \in R <=> y <= x)
      BY <1>4
    <3> HIDE DEF x, y
    <3> QED BY <3>1, <3>2
  <2>2. ASSUME NEW i \in J, NEW j \in J, NEW m \in J, <<i, j>> \in R, <<j, m>> \in R
        PROVE  <<i, m>> \in R
    <3>1. rates[i][1] * rates[j][2] <= rates[j][1] * rates[i][2]
          /\ rates[j][1] * rates[m][2] <= rates[m][1] * rates[j][2]
      BY <1>4, <2>2
    <3> DEFINE a == rates[i][1]
               p == rates[i][2]
               b == rates[j][1]
               q == rates[j][2]
               c == rates[m][1]
               r == rates[m][2]
    <3>2. a \in Nat /\ p \in Nat /\ b \in Nat /\ q \in Nat /\ q > 0 /\ c \in Nat /\ r \in Nat
      BY <1>2
    <3>3. a * q <= b * p /\ b * r <= c * q
      BY <3>1
    <3> HIDE DEF a, p, b, q, c, r
    <3>4. a * r <= c * p
      BY <3>2, <3>3, RatiosTransitive
    <3>5. rates[i][1] * rates[m][2] <= rates[m][1] * rates[i][2]
      BY <3>4 DEF a, c, p, r
    <3> QED BY <1>4, <3>5
  <2> HIDE DEF J
  <2> QED BY <2>1, <2>2 DEF Orders
<1>6. PICK i \in J : /\ Cardinality({j \in J : <<i, j>> \notin R}) < k
                     /\ k <= Cardinality({j \in J : <<j, i>> \in R})
  <2>1. k \in 1 .. Cardinality(J)
    BY <1>1
  <2> HIDE DEF R, J
  <2> QED BY <1>1, <1>5, <2>1, RankExists
<1> DEFINE Lower(v) == {j \in J : Slower(rates[j], v)}
           Upper(v) == {j \in J : ~Slower(v, rates[j])}
           Fits(v) == Cardinality(Lower(v)) < k /\ k <= Cardinality(Upper(v))
<1>7. {j \in J : <<i, j>> \notin R} = Lower(rates[i]) /\ {j \in J : <<j, i>> \in R} = Upper(rates[i])
  <2> HIDE DEF R
  <2> QED BY <1>3, <1>6
<1>8. rates[i] \in Range(rates) /\ Fits(rates[i])
  <2>1. rates[i] \in Range(rates)
    BY DEF Range
  <2> HIDE DEF R, Lower, Upper
  <2> QED BY <1>6, <1>7, <2>1
<1>9. RankedRate(rates, k) = CHOOSE v \in Range(rates) : Fits(v)
  BY DEF RankedRate
<1>10. RankedRate(rates, k) \in Range(rates)
  <2> HIDE DEF Fits
  <2> QED BY <1>8, <1>9
<1> QED BY <1>10 DEF Range

-------------------------------------------------------------------------------
(* Every step keeps the invariant.                                          *)

Phases == Calibrating \union {"sample", "sample end", "batch", "batch end", "returned", "thrown"}

TypesInv ==
  /\ now \in Ticks /\ cpu \in TimerCpus /\ pinned \in BOOLEAN /\ clock_works \in BOOLEAN
  /\ n \in Nat /\ moved \in BOOLEAN /\ tpc \in Phases

LEMMA InvIsParts == TimerInv <=> TypesInv /\ StampsInv /\ RatesInv /\ OverheadInv /\ BatchInv
  BY DEF TimerInv, TypesInv, Phases

LEMMA InitInv == Init => TimerInv
<1> SUFFICES ASSUME Init PROVE TimerInv
  OBVIOUS
<1>1. TypesInv
  BY TicksAssumption DEF Init, TypesInv, Phases, Calibrating
<1>2. StampsInv
  BY DEF Init, StampsInv
<1>3. RatesInv
  BY DEF Init, RatesInv, Calibrating
<1>4. OverheadInv
  <2>1. {j \in DOMAIN values : values[j] > MaxDelay} = {}
    BY DEF Init
  <2>2. Cardinality({j \in DOMAIN values : values[j] > MaxDelay}) = 0
    BY <2>1, FS_EmptySet
  <2> HIDE DEF Calibrating
  <2> QED BY <2>2 DEF Init, OverheadInv, Calibrating
<1>5. BatchInv
  BY DEF Init, BatchInv, BatchSound
<1> QED BY <1>1, <1>2, <1>3, <1>4, <1>5, InvIsParts

LEMMA PassesLater ==
  ASSUME now \in Ticks, NEW low \in Nat, NEW high \in Nat, high \in Ticks, Passes(low .. high)
  PROVE  /\ UNCHANGED <<cpu, pinned, clock_works>>
         /\ now' \in Ticks
         /\ \E t \in low .. high : t \in Ticks /\ Later(now, now', t)
<1>1. PICK t \in low .. high : now' = (now + t) % CounterModulus
  BY DEF Passes
<1>2. t \in Ticks
  BY TicksAssumption DEF Ticks
<1>3. now' \in Ticks
  BY <1>1, <1>2, LaterTicks
<1> QED BY <1>1, <1>2, <1>3 DEF Passes, Later

\* How long each pause may be.
LEMMA Pauses ==
  ASSUME now \in Ticks
  PROVE  /\ Delay => /\ UNCHANGED <<cpu, pinned, clock_works>> /\ now' \in Ticks
                     /\ \E t \in 0 .. MaxDelay : t \in Ticks /\ Later(now, now', t)
         /\ Passes(0 .. MaxBatch) =>
                     /\ UNCHANGED <<cpu, pinned, clock_works>> /\ now' \in Ticks
                     /\ \E t \in 0 .. MaxBatch : t \in Ticks /\ Later(now, now', t)
         /\ Passes(CalibrationInterval .. CalibrationInterval + MaxDelay) =>
                     /\ UNCHANGED <<cpu, pinned, clock_works>> /\ now' \in Ticks
                     /\ \E t \in Asleep : t \in Ticks /\ Later(now, now', t)
<1>1. MaxDelay \in Ticks /\ MaxBatch \in Ticks /\ CalibrationInterval + MaxDelay \in Ticks
      /\ CalibrationInterval + MaxDelay \in Nat
  BY TicksAssumption DEF Ticks
<1> QED BY <1>1, PassesLater, TicksAssumption DEF Delay, Asleep

LEMMA TscTicks ==
  ASSUME now \in Ticks, cpu \in TimerCpus
  PROVE  Tsc \in Ticks /\ Later(now, Tsc, Ahead[cpu])
<1>1. Ahead[cpu] \in Ticks
  BY TicksAssumption
<1> QED BY <1>1, LaterTicks DEF Tsc, Later

LEMMA OneMore ==
  ASSUME n \in Nat, n' = n + 1
  PROVE  n' \in Nat
  OBVIOUS

LEMMA NextTypes ==
  ASSUME TypesInv, [Next]_vars
  PROVE  TypesInv'
<1> USE DEF TypesInv, Phases, Calibrating
<1>1. CASE Migrate
  BY <1>1 DEF Migrate
<1>2. CASE StartRound
  BY <1>2, Pauses DEF StartRound, machine, observed
<1>3. CASE StartSleep
  BY <1>3, Pauses DEF StartSleep, observed
<1>4. CASE EndSleep
  BY <1>4, Pauses DEF EndSleep, observed
<1>5. CASE EndRound
  <2>1. UNCHANGED machine /\ UNCHANGED observed /\ tpc' = "round" /\ n' = n + 1
    BY <1>5 DEF EndRound
  <2>2. n' \in Nat
    BY <2>1, OneMore, Zenon
  <2> QED BY <2>1, <2>2, Zenon DEF machine, observed
<1>6. CASE EndCalibration
  BY <1>6 DEF EndCalibration, machine, observed
<1>7. CASE StartSample
  <2>1. moved' = FALSE /\ tpc' = "sample end" /\ n' = n
    BY <1>7 DEF StartSample, TakeStart
  <2>2. UNCHANGED <<cpu, pinned, clock_works>> /\ now' \in Ticks
    BY <1>7, Pauses DEF StartSample
  <2> QED BY <2>1, <2>2
<1>8. CASE EndSample
  <2>1. UNCHANGED machine /\ UNCHANGED moved /\ tpc' = "sample" /\ n' = n + 1
    BY <1>8 DEF EndSample
  <2>2. n' \in Nat
    BY <2>1, OneMore, Zenon
  <2> QED BY <2>1, <2>2, Zenon DEF machine
<1>9. CASE EndOverhead
  BY <1>9 DEF EndOverhead, machine, observed
<1>10. CASE StartBatch
  <2>1. moved' = FALSE /\ tpc' = "batch end" /\ n' = n
    BY <1>10 DEF StartBatch, TakeStart
  <2>2. UNCHANGED <<cpu, pinned, clock_works>> /\ now' \in Ticks
    BY <1>10, Pauses DEF StartBatch
  <2> QED BY <2>1, <2>2
<1>11. CASE EndBatch
  BY <1>11 DEF EndBatch, machine, observed
<1>12. CASE Over \/ UNCHANGED vars
  BY <1>12 DEF Over, vars, machine, observed
<1> QED BY <1>1, <1>2, <1>3, <1>4, <1>5, <1>6, <1>7, <1>8, <1>9, <1>10, <1>11, <1>12 DEF Next

\* Neither a step of the scheduler nor a stuttering one disturbs what the stamps tell.
LEMMA StampsSame ==
  ASSUME StampsInv, UNCHANGED <<now, tpc, stamps>>, pinned' => pinned /\ cpu' = cpu
  PROVE  StampsInv'
<1>1. UNCHANGED <<now, tpc, ns_start, tsc_start, aux_start, tsc_end, aux_end>>
  BY DEF stamps
<1>2. (tpc = "tsc start" => ns_start \in Ticks /\ \E a \in 0 .. MaxDelay : Later(ns_start, now, a))'
  BY <1>1 DEF StampsInv, Later
<1>3. (tpc \in {"tsc end", "ns end"} =>
         ns_start \in Ticks /\ aux_start \in TimerCpus /\ tsc_start \in Ticks)'
  BY <1>1 DEF StampsInv
<1>4. (tpc = "tsc end" =>
         /\ pinned => aux_start = cpu
         /\ \E a \in 0 .. MaxDelay, s \in Asleep, at \in Ticks :
              FirstStamps(a, at) /\ Later(at, now, s))'
  <2> SUFFICES ASSUME tpc' = "tsc end"
      PROVE  /\ pinned' => aux_start' = cpu'
             /\ \E a \in 0 .. MaxDelay, s \in Asleep, at \in Ticks :
                  (FirstStamps(a, at) /\ Later(at, now, s))'
    OBVIOUS
  <2>1. (pinned => aux_start = cpu) /\ \E a \in 0 .. MaxDelay, s \in Asleep, at \in Ticks :
          FirstStamps(a, at) /\ Later(at, now, s)
    BY <1>1 DEF StampsInv
  <2>2. \A a, s, at : FirstStamps(a, at) /\ Later(at, now, s) => (FirstStamps(a, at) /\ Later(at, now, s))'
    BY <1>1 DEF FirstStamps, Later
  <2>3. pinned' => aux_start' = cpu'
    BY <1>1, <2>1, Zenon
  <2> QED BY <2>1, <2>2, <2>3
<1>5. (tpc = "ns end" =>
         /\ aux_end \in TimerCpus /\ tsc_end \in Ticks
         /\ pinned => aux_start = aux_end
         /\ \E a \in 0 .. MaxDelay, s \in Asleep, c \in 0 .. MaxDelay, at \in Ticks, bt \in Ticks :
              FirstStamps(a, at) /\ SecondStamp(s, at, bt) /\ Later(bt, now, c))'
  <2> SUFFICES ASSUME tpc' = "ns end"
      PROVE  /\ aux_end' \in TimerCpus /\ tsc_end' \in Ticks
             /\ pinned' => aux_start' = aux_end'
             /\ \E a \in 0 .. MaxDelay, s \in Asleep, c \in 0 .. MaxDelay, at \in Ticks, bt \in Ticks :
                  (FirstStamps(a, at) /\ SecondStamp(s, at, bt) /\ Later(bt, now, c))'
    OBVIOUS
  <2>1. /\ aux_end \in TimerCpus /\ tsc_end \in Ticks
        /\ pinned => aux_start = aux_end
        /\ \E a \in 0 .. MaxDelay, s \in Asleep, c \in 0 .. MaxDelay, at \in Ticks, bt \in Ticks :
             FirstStamps(a, at) /\ SecondStamp(s, at, bt) /\ Later(bt, now, c)
    BY <1>1 DEF StampsInv
  <2>2. \A a, s, c, at, bt :
          FirstStamps(a, at) /\ SecondStamp(s, at, bt) /\ Later(bt, now, c)
            => (FirstStamps(a, at) /\ SecondStamp(s, at, bt) /\ Later(bt, now, c))'
    BY <1>1 DEF FirstStamps, SecondStamp, Later
  <2>3. pinned' => aux_start' = aux_end'
    BY <1>1, <2>1, Zenon
  <2> QED BY <1>1, <2>1, <2>2, <2>3
<1> QED BY <1>2, <1>3, <1>4, <1>5 DEF StampsInv

LEMMA NextStamps ==
  ASSUME TypesInv, StampsInv, [Next]_vars
  PROVE  StampsInv'
<1>1. now \in Ticks /\ cpu \in TimerCpus /\ (pinned => cpu' = cpu \/ ~Migrate)
  BY DEF TypesInv, Migrate
<1>2. CASE Migrate
  <2>1. ~pinned /\ pinned' = pinned /\ UNCHANGED <<now, tpc, stamps>>
    BY <1>2 DEF Migrate
  <2>2. ~pinned'
    BY <2>1, Zenon
  <2> QED BY <2>1, <2>2, StampsSame
<1>3. CASE StartRound
  <2>1. CASE clock_works
    <3>1. ns_start' = now /\ tpc' = "tsc start" /\ Delay
      BY <1>3, <2>1 DEF StartRound
    <3>2. PICK t \in 0 .. MaxDelay : Later(now, now', t)
      BY <1>1, <3>1, Pauses
    <3>3. Later(ns_start', now', t)
      BY <3>1, <3>2
    <3> QED BY <1>1, <3>1, <3>3 DEF StampsInv, Later
  <2>2. CASE ~clock_works
    <3>1. tpc' = "thrown"
      BY <1>3, <2>2 DEF StartRound
    <3> QED BY <3>1 DEF StampsInv
  <2> QED BY <2>1, <2>2
<1>4. CASE StartSleep
  <2>1. /\ tpc = "tsc start" /\ tsc_start' = Tsc /\ aux_start' = cpu /\ tpc' = "tsc end"
        /\ Passes(CalibrationInterval .. CalibrationInterval + MaxDelay)
        /\ ns_start' = ns_start
    BY <1>4 DEF StartSleep
  <2>2. cpu' = cpu /\ \E s \in Asleep : Later(now, now', s)
    BY <1>1, <2>1, Pauses
  <2>3. PICK s \in Asleep : Later(now, now', s)
    BY <2>2
  <2>4. PICK a \in 0 .. MaxDelay : Later(ns_start, now, a)
    BY <2>1 DEF StampsInv
  <2>5. Later(now, tsc_start', Ahead[aux_start']) /\ tsc_start' \in Ticks
    BY <1>1, <2>1, TscTicks
  <2>6. \E a1 \in 0 .. MaxDelay, s1 \in Asleep, at \in Ticks :
          (FirstStamps(a1, at) /\ Later(at, now, s1))'
    <3>1. FirstStamps(a, now)' <=> Later(ns_start', now', a) /\ Later(now', tsc_start', Ahead[aux_start'])
      BY DEF FirstStamps, Later
    <3> PICK at \in Ticks : at = now
      BY <1>1
    <3> WITNESS a \in 0 .. MaxDelay, s \in Asleep, at \in Ticks
    <3> QED BY <2>1, <2>3, <2>4, <2>5 DEF FirstStamps, Later
  <2>7. ns_start' \in Ticks /\ aux_start' \in TimerCpus /\ aux_start' = cpu'
    BY <1>1, <2>1, <2>2 DEF StampsInv
  <2> QED BY <2>1, <2>5, <2>6, <2>7 DEF StampsInv
<1>5. CASE EndSleep
  <2>1. /\ tpc = "tsc end" /\ tsc_end' = Tsc /\ aux_end' = cpu /\ tpc' = "ns end" /\ Delay
        /\ UNCHANGED <<ns_start, tsc_start, aux_start>>
    BY <1>5 DEF EndSleep
  <2>2. pinned' = pinned /\ \E c \in 0 .. MaxDelay : Later(now, now', c)
    BY <1>1, <2>1, Pauses
  <2>3. PICK c \in 0 .. MaxDelay : Later(now, now', c)
    BY <2>2
  <2>4. PICK a \in 0 .. MaxDelay, s \in Asleep, at \in Ticks :
          FirstStamps(a, at) /\ Later(at, now, s)
    BY <2>1 DEF StampsInv
  <2>5. Later(now, tsc_end', Ahead[aux_end']) /\ tsc_end' \in Ticks /\ aux_end' \in TimerCpus
    BY <1>1, <2>1, TscTicks
  <2>6. \E a1 \in 0 .. MaxDelay, s1 \in Asleep, c1 \in 0 .. MaxDelay, at1 \in Ticks, bt \in Ticks :
          (FirstStamps(a1, at1) /\ SecondStamp(s1, at1, bt) /\ Later(bt, now, c1))'
    <3> PICK bt \in Ticks : bt = now
      BY <1>1
    <3> WITNESS a \in 0 .. MaxDelay, s \in Asleep, c \in 0 .. MaxDelay, at \in Ticks, bt \in Ticks
    <3> QED BY <2>1, <2>3, <2>4, <2>5 DEF FirstStamps, SecondStamp, Later
  <2>7. /\ ns_start' \in Ticks /\ aux_start' \in TimerCpus /\ tsc_start' \in Ticks
        /\ pinned => aux_start' = aux_end'
    BY <2>1 DEF StampsInv
  <2>8. pinned' => aux_start' = aux_end'
    BY <2>2, <2>7, Zenon
  <2> QED BY <2>1, <2>5, <2>6, <2>7, <2>8 DEF StampsInv
<1>6. CASE EndRound
  <2>1. tpc' = "round"
    BY <1>6 DEF EndRound
  <2> QED BY <2>1 DEF StampsInv
<1>7. CASE EndCalibration
  <2>1. tpc' \in {"thrown", "sample"}
    BY <1>7 DEF EndCalibration
  <2> QED BY <2>1 DEF StampsInv
<1>8. CASE StartSample \/ EndSample \/ EndOverhead \/ StartBatch \/ EndBatch
  <2>1. tpc' \in {"sample", "sample end", "batch", "batch end", "returned"}
    BY <1>8 DEF StartSample, EndSample, EndOverhead, StartBatch, EndBatch, TakeStart
  <2> QED BY <2>1 DEF StampsInv
<1>9. CASE Over \/ UNCHANGED vars
  <2>1. UNCHANGED <<now, tpc, stamps>> /\ UNCHANGED <<pinned, cpu>>
    BY <1>9 DEF Over, vars, machine
  <2>2. pinned' => pinned /\ cpu' = cpu
    BY <2>1, Zenon
  <2> QED BY <2>1, <2>2, StampsSame
<1> QED BY <1>2, <1>3, <1>4, <1>5, <1>6, <1>7, <1>8, <1>9 DEF Next

\* A round of two CPUs is dropped, and one of a single CPU gives a sound rate.
LEMMA RoundEnds ==
  ASSUME TypesInv, StampsInv, tpc = "ns end"
  PROVE  /\ Since(ns_start, now) \in Nat /\ Since(ns_start, now) # 0
         /\ aux_start = aux_end =>
              /\ Since(tsc_start, tsc_end) \in Nat
              /\ SoundRate(<<Since(tsc_start, tsc_end), Since(ns_start, now)>>)
<1>1. PICK a \in 0 .. MaxDelay, s \in Asleep, c \in 0 .. MaxDelay, at \in Ticks, bt \in Ticks :
        FirstStamps(a, at) /\ SecondStamp(s, at, bt) /\ Later(bt, now, c)
  BY DEF StampsInv
<1>2. /\ ns_start \in Ticks /\ tsc_start \in Ticks /\ tsc_end \in Ticks /\ now \in Ticks
      /\ aux_start \in TimerCpus /\ aux_end \in TimerCpus
  BY DEF StampsInv, TypesInv
<1>3. Ahead[aux_start] \in Ticks /\ Ahead[aux_end] \in Ticks
  BY <1>2, TicksAssumption
<1>4. /\ Later(ns_start, at, a) /\ Later(at, tsc_start, Ahead[aux_start])
      /\ Later(at, bt, s) /\ Later(bt, tsc_end, Ahead[aux_end]) /\ Later(bt, now, c)
  BY <1>1 DEF FirstStamps, SecondStamp
<1>5. PICK q \in Ticks : Later(bt, q, Ahead[aux_start])
  BY <1>3, LaterTicks DEF Later
<1>6. Since(ns_start, now) \in Nat /\ Since(ns_start, now) # 0
  <2>1. RoundStamped(a, s, c, at, bt, ns_start, tsc_start, q, now, Ahead[aux_start])
    BY <1>2, <1>3, <1>4, <1>5, Zenon DEF RoundStamped
  <2> QED BY <2>1, RoundSound, Zenon
<1>7. ASSUME aux_start = aux_end
      PROVE  /\ Since(tsc_start, tsc_end) \in Nat
             /\ SoundRate(<<Since(tsc_start, tsc_end), Since(ns_start, now)>>)
  <2>1. RoundStamped(a, s, c, at, bt, ns_start, tsc_start, tsc_end, now, Ahead[aux_start])
    BY <1>2, <1>3, <1>4, <1>7, Zenon DEF RoundStamped
  <2> QED BY <2>1, RoundSound, Zenon
<1> QED BY <1>6, <1>7

RatesSound ==
  /\ estimates \in Seq(Nat \X Nat) /\ \A k \in DOMAIN estimates : SoundRate(estimates[k])
  /\ tsc_hz # <<0, 0>> => SoundRate(tsc_hz)
RoundsCounted ==
  pinned /\ clock_works => tpc # "thrown" /\ (tpc \in Calibrating => Len(estimates) = n)

LEMMA RatesAre == RatesInv <=> RatesSound /\ RoundsCounted
  BY DEF RatesInv, RatesSound, RoundsCounted

LEMMA RatesSame ==
  ASSUME RatesInv, UNCHANGED <<estimates, tsc_hz>>,
         pinned' /\ clock_works' => /\ pinned /\ clock_works /\ tpc' # "thrown"
                                    /\ tpc' \in Calibrating => tpc \in Calibrating /\ n' = n
  PROVE  RatesInv'
<1>1. RatesSound'
  BY RatesAre DEF RatesSound, SoundRate
<1>2. RoundsCounted'
  <2>1. RoundsCounted
    BY RatesAre
  <2> QED BY <2>1, Zenon DEF RoundsCounted
<1> QED BY <1>1, <1>2 DEF RatesInv, RatesSound, RoundsCounted

\* The step that ends a round.
LEMMA RoundKept ==
  ASSUME TypesInv, StampsInv, RatesInv, EndRound
  PROVE  RatesInv'
<1> DEFINE rate == <<Since(tsc_start, tsc_end), Since(ns_start, now)>>
<1>1. /\ tpc = "ns end" /\ n' = n + 1 /\ tpc' = "round" /\ UNCHANGED <<machine, tsc_hz>>
      /\ estimates' = IF Since(ns_start, now) = 0 \/ aux_start # aux_end THEN estimates
                      ELSE Append(estimates, rate)
  BY DEF EndRound
<1>2. estimates' = IF aux_start # aux_end THEN estimates ELSE Append(estimates, rate)
  BY <1>1, RoundEnds
<1>3. estimates \in Seq(Nat \X Nat) /\ \A k \in DOMAIN estimates : SoundRate(estimates[k])
  BY DEF RatesInv
<1>4. aux_start = aux_end => rate \in Nat \X Nat /\ SoundRate(rate)
  BY <1>1, RoundEnds
<1> HIDE DEF rate
<1>5. /\ estimates' \in Seq(Nat \X Nat) /\ \A k \in DOMAIN estimates' : SoundRate(estimates'[k])
      /\ aux_start = aux_end => Len(estimates') = Len(estimates) + 1
  <2>1. CASE aux_start # aux_end
    BY <1>2, <1>3, <2>1
  <2>2. CASE aux_start = aux_end
    <3>1. estimates' = Append(estimates, rate)
      BY <1>2, <2>2
    <3>2. /\ estimates' \in Seq(Nat \X Nat) /\ Len(estimates') = Len(estimates) + 1
          /\ \A k \in DOMAIN estimates' : \/ k \in DOMAIN estimates /\ estimates'[k] = estimates[k]
                                         \/ estimates'[k] = rate
      BY <1>3, <1>4, <2>2, <3>1
    <3> QED BY <1>3, <1>4, <2>2, <3>2
  <2> QED BY <2>1, <2>2
<1>6. RatesSound'
  <2>1. tsc_hz' # <<0, 0>> => SoundRate(tsc_hz')
    BY <1>1 DEF RatesInv
  <2> QED BY <1>5, <2>1 DEF RatesSound, SoundRate
<1>7. RoundsCounted'
  <2> SUFFICES ASSUME pinned', clock_works'
      PROVE  tpc' # "thrown" /\ (tpc' \in Calibrating => Len(estimates') = n')
    BY DEF RoundsCounted
  <2>1. pinned /\ clock_works
    BY <1>1, Zenon DEF machine
  <2>2. aux_start = aux_end
    <3>1. pinned => aux_start = aux_end
      BY <1>1 DEF StampsInv
    <3> QED BY <2>1, <3>1, Zenon
  <2>3. Len(estimates) = n
    <3>1. tpc \in Calibrating
      BY <1>1 DEF Calibrating
    <3>2. RoundsCounted
      BY RatesAre
    <3> QED BY <2>1, <3>1, <3>2, Zenon DEF RoundsCounted
  <2>4. Len(estimates') = n' /\ tpc' # "thrown"
    BY <1>1, <1>5, <2>2, <2>3
  <2> QED BY <2>4
<1> QED BY <1>6, <1>7 DEF RatesInv, RatesSound, RoundsCounted

\* The step that ends the calibration.
LEMMA CalibrationEnds ==
  ASSUME TypesInv, RatesInv, EndCalibration
  PROVE  RatesInv'
<1>1. /\ tpc = "round" /\ n = CalibrationRounds /\ estimates' = <<>> /\ UNCHANGED machine
      /\ IF estimates = <<>>
           THEN tpc' = "thrown" /\ UNCHANGED tsc_hz
           ELSE tpc' = "sample" /\ tsc_hz' = RankedRate(estimates, Len(estimates) \div 2 + 1)
  BY DEF EndCalibration
<1>2. RatesSound'
  <2>1. tsc_hz' # <<0, 0>> => SoundRate(tsc_hz')
    <3>1. CASE estimates = <<>>
      BY <1>1, <3>1 DEF RatesInv
    <3>2. CASE estimates # <<>>
      <4> DEFINE k == Len(estimates) \div 2 + 1
      <4>1. estimates \in Seq(Nat \X Nat) /\ \A j \in DOMAIN estimates : SoundRate(estimates[j])
        BY DEF RatesInv
      <4>2. k \in 1 .. Len(estimates)
        <5>1. Len(estimates) \in Nat /\ Len(estimates) > 0
          BY <3>2, <4>1
        <5> QED BY <5>1
      <4>3. \A j \in DOMAIN estimates : estimates[j][2] > 0
        <5>1. SUFFICES ASSUME NEW j \in DOMAIN estimates PROVE estimates[j][2] > 0
          OBVIOUS
        <5>2. estimates[j][2] \in Nat /\ estimates[j][2] >= CalibrationInterval
          BY <4>1 DEF SoundRate
        <5> QED BY <5>2, TicksAssumption
      <4> HIDE DEF k
      <4>4. PICK j \in DOMAIN estimates : RankedRate(estimates, k) = estimates[j]
        BY <4>1, <4>2, <4>3, RankedRateIs
      <4>5. tsc_hz' = estimates[j]
        BY <1>1, <3>2, <4>4 DEF k
      <4> QED BY <4>1, <4>5
    <3> QED BY <3>1, <3>2
  <2>2. estimates' \in Seq(Nat \X Nat) /\ \A k \in DOMAIN estimates' : SoundRate(estimates'[k])
    BY <1>1
  <2> QED BY <2>1, <2>2 DEF RatesSound, SoundRate
<1>3. RoundsCounted'
  <2> SUFFICES ASSUME pinned', clock_works'
      PROVE  tpc' # "thrown" /\ (tpc' \in Calibrating => Len(estimates') = n')
    BY DEF RoundsCounted
  <2>1. pinned /\ clock_works
    BY <1>1, Zenon DEF machine
  <2>2. Len(estimates) = n
    <3>1. tpc \in Calibrating
      BY <1>1 DEF Calibrating
    <3>2. RoundsCounted
      BY RatesAre
    <3> QED BY <2>1, <3>1, <3>2, Zenon DEF RoundsCounted
  <2>3. estimates # <<>>
    BY <1>1, <2>2, TimerAssumption
  <2>4. tpc' = "sample"
    BY <1>1, <2>3
  <2> QED BY <2>4 DEF Calibrating
<1> QED BY <1>2, <1>3 DEF RatesInv, RatesSound, RoundsCounted

LEMMA NextRates ==
  ASSUME TypesInv, StampsInv, RatesInv, [Next]_vars
  PROVE  RatesInv'
<1>0. now \in Ticks
  BY DEF TypesInv
<1>1. CASE Migrate
  <2>1. ~pinned /\ pinned' = pinned /\ UNCHANGED <<estimates, tsc_hz>>
    BY <1>1 DEF Migrate, results
  <2>2. ~pinned'
    BY <2>1, Zenon
  <2> QED BY <2>1, <2>2, RatesSame
<1>2. CASE StartRound
  <2>1. UNCHANGED <<n, estimates, tsc_hz>> /\ tpc = "round"
    BY <1>2 DEF StartRound, results
  <2>2. CASE clock_works
    <3>1. tpc' = "tsc start" /\ Delay
      BY <1>2, <2>2 DEF StartRound
    <3>2. UNCHANGED <<pinned, clock_works>>
      BY <1>0, <3>1, Pauses
    <3>3. pinned' /\ clock_works' => pinned /\ clock_works
      BY <3>2, Zenon
    <3> QED BY <2>1, <3>1, <3>3, RatesSame DEF Calibrating
  <2>3. CASE ~clock_works
    <3>1. UNCHANGED machine
      BY <1>2, <2>3 DEF StartRound
    <3>2. ~clock_works'
      BY <2>3, <3>1, Zenon DEF machine
    <3> QED BY <2>1, <3>2, RatesSame
  <2> QED BY <2>2, <2>3
<1>3. CASE StartSleep \/ EndSleep
  <2>1. UNCHANGED <<n, estimates, tsc_hz>> /\ tpc \in Calibrating /\ tpc' # "thrown"
    BY <1>3 DEF StartSleep, EndSleep, results, Calibrating
  <2>2. UNCHANGED <<pinned, clock_works>>
    BY <1>0, <1>3, Pauses DEF StartSleep, EndSleep
  <2>3. pinned' /\ clock_works' => pinned /\ clock_works
    BY <2>2, Zenon
  <2> QED BY <2>1, <2>3, RatesSame
<1>4. CASE EndRound
  BY <1>4, RoundKept
<1>5. CASE EndCalibration
  BY <1>5, CalibrationEnds
<1>6. CASE StartSample \/ EndSample \/ EndOverhead \/ StartBatch \/ EndBatch
  <2>1. /\ UNCHANGED <<estimates, tsc_hz>> /\ tpc' # "thrown" /\ tpc' \notin Calibrating
    BY <1>6 DEF StartSample, EndSample, EndOverhead, StartBatch, EndBatch, TakeStart, results,
                Calibrating
  <2>2. UNCHANGED <<pinned, clock_works>>
    <3>1. CASE StartSample \/ StartBatch
      BY <1>0, <3>1, Pauses DEF StartSample, StartBatch
    <3>2. CASE EndSample \/ EndOverhead \/ EndBatch
      BY <3>2 DEF EndSample, EndOverhead, EndBatch, machine
    <3> QED BY <1>6, <3>1, <3>2
  <2>3. pinned' /\ clock_works' => pinned /\ clock_works
    BY <2>2, Zenon
  <2> QED BY <2>1, <2>3, RatesSame
<1>7. CASE Over \/ UNCHANGED vars
  <2>1. UNCHANGED <<tpc, n, estimates, tsc_hz>> /\ UNCHANGED <<pinned, clock_works>>
    BY <1>7 DEF Over, vars, machine, results
  <2>2. pinned' /\ clock_works' => pinned /\ clock_works /\ tpc # "thrown"
    <3>1. RoundsCounted
      BY RatesAre
    <3> QED BY <2>1, <3>1, Zenon DEF RoundsCounted
  <2> QED BY <2>1, <2>2, RatesSame
<1> QED BY <1>1, <1>2, <1>3, <1>4, <1>5, <1>6, <1>7 DEF Next

\* Between two stamps of an undisturbed thread lies what passed on the clock.
LEMMA Undisturbed ==
  ASSUME TypesInv, began \in Ticks, tsc_start \in Ticks, NEW d \in Ticks, Timed(d)
  PROVE  Since(tsc_start, Tsc) = d /\ Since(began, now) = d
<1>1. now \in Ticks /\ cpu \in TimerCpus
  BY DEF TypesInv
<1>2. Ahead[cpu] \in Ticks
  BY <1>1, TicksAssumption
<1>3. Later(began, now, d) /\ Later(began, tsc_start, Ahead[cpu])
  BY DEF Timed
<1>4. Tsc \in Ticks /\ Later(now, Tsc, Ahead[cpu])
  BY <1>1, TscTicks
<1>5. PICK at \in Ticks, stamp \in Ticks, start \in Ticks, time \in Ticks :
        at = began /\ stamp = Tsc /\ start = tsc_start /\ time = now
  BY <1>1, <1>4
<1>6. Later(start, stamp, d) /\ Later(at, time, d)
  BY <1>2, <1>3, <1>4, <1>5, LaterStamps
<1> QED BY <1>5, <1>6, LaterSince

LongSamples == {j \in DOMAIN values : values[j] > MaxDelay}

LEMMA LongFinite ==
  ASSUME values \in Seq(Nat)
  PROVE  IsFiniteSet(LongSamples) /\ Cardinality(LongSamples) \in Nat
         /\ LongSamples \subseteq DOMAIN values
<1>1. values \in Seq(Int)
  OBVIOUS
<1>2. IsFiniteSet(DOMAIN values) /\ LongSamples \in SUBSET DOMAIN values
  BY <1>1, Places DEF LongSamples
<1> QED BY <1>2, FS_Subset, FS_CardinalityType

\* What the overhead is when less than half of the samples are long.
LEMMA MiddleShort ==
  ASSUME values \in Seq(Nat), values # <<>>, NEW m \in Nat, Cardinality(LongSamples) <= m
  PROVE  /\ Ranked(values, Len(values) \div 2 + 1) \in Nat
         /\ 2 * m < Len(values) => Ranked(values, Len(values) \div 2 + 1) <= MaxDelay
<1> DEFINE l == Len(values)
           k == l \div 2 + 1
<1>1. values \in Seq(Int) /\ l \in Nat /\ l > 0
  OBVIOUS
<1>2. k \in 1 .. l
  BY <1>1
<1>3. Ranked(values, k) \in Nat
  <2>1. \E j \in DOMAIN values : Ranked(values, k) = values[j]
    BY <1>1, <1>2, RankedIs
  <2> QED BY <2>1
<1>4. ASSUME 2 * m < l PROVE Ranked(values, k) <= MaxDelay
  <2>1. UpTo(values, MaxDelay) = DOMAIN values \ LongSamples
    <3>1. \A j \in DOMAIN values : values[j] \in Nat
      OBVIOUS
    <3> QED BY <3>1, TicksAssumption DEF UpTo, LongSamples
  <2>2. DOMAIN values \intersect LongSamples = LongSamples
    BY LongFinite
  <2>3. Cardinality(UpTo(values, MaxDelay)) = l - Cardinality(LongSamples)
    <3>1. IsFiniteSet(DOMAIN values) /\ Cardinality(DOMAIN values) = l
      BY <1>1, Places
    <3>2. Cardinality(DOMAIN values \ LongSamples)
            = Cardinality(DOMAIN values) - Cardinality(DOMAIN values \intersect LongSamples)
      BY <3>1, FS_Difference
    <3> QED BY <2>1, <2>2, <3>1, <3>2
  <2>4. k <= l - m
    BY <1>1, <1>4
  <2>5. l - m <= l - Cardinality(LongSamples)
    <3>1. Cardinality(LongSamples) \in Nat
      BY LongFinite
    <3> HIDE DEF l
    <3> QED BY <1>1, <3>1
  <2>6. k <= Cardinality(UpTo(values, MaxDelay))
    <3>1. Cardinality(LongSamples) \in Nat /\ k \in Nat
      BY <1>2, LongFinite
    <3> HIDE DEF l, k
    <3> QED BY <1>1, <2>3, <2>4, <2>5, <3>1
  <2> QED BY <1>1, <1>2, <2>6, RankedAtMost, TicksAssumption
<1> QED BY <1>3, <1>4

LEMMA AppendIs ==
  ASSUME NEW s \in Seq(Nat), NEW v \in Nat, NEW len, len = Len(s)
  PROVE  /\ Append(s, v) \in Seq(Nat) /\ Len(Append(s, v)) = len + 1
         /\ DOMAIN Append(s, v) = DOMAIN s \union {len + 1}
         /\ len + 1 \notin DOMAIN s /\ Append(s, v)[len + 1] = v
         /\ \A j \in DOMAIN s : Append(s, v)[j] = s[j]
<1>1. Append(s, v) \in Seq(Nat) /\ Len(Append(s, v)) = len + 1 /\ Append(s, v)[len + 1] = v
      /\ \A j \in DOMAIN s : Append(s, v)[j] = s[j]
  OBVIOUS
<1>2. len \in Nat /\ DOMAIN s = 1 .. len /\ DOMAIN Append(s, v) = 1 .. len + 1
  BY <1>1
<1>3. 1 .. len + 1 = (1 .. len) \union {len + 1}
  BY <1>2
<1> QED BY <1>1, <1>2, <1>3

\* The step that takes a sample.
LEMMA SampleTaken ==
  ASSUME TypesInv, OverheadInv, BatchInv, EndSample
  PROVE  OverheadInv'
<1> DEFINE v == Since(tsc_start, Tsc)
<1>1. /\ tpc = "sample end" /\ values' = Append(values, v)
      /\ spoiled' = spoiled + (IF moved THEN 1 ELSE 0)
      /\ n' = n + 1 /\ tpc' = "sample" /\ UNCHANGED overhead
  BY DEF EndSample
<1>2. began \in Ticks /\ tsc_start \in Ticks
  BY <1>1 DEF BatchInv
<1>3. v \in Nat
  <2>1. Tsc \in Ticks
    BY TscTicks DEF TypesInv
  <2> QED BY <1>2, <2>1, SinceTicks
<1>4. v > MaxDelay => moved
  <2> SUFFICES ASSUME ~moved PROVE v <= MaxDelay
    BY <1>3, TicksAssumption
  <2>1. PICK d \in 0 .. MaxDelay : Timed(d)
    BY <1>1 DEF BatchInv
  <2>2. d \in Ticks
    BY TicksAssumption DEF Ticks
  <2>3. v = d
    BY <1>2, <2>1, <2>2, Undisturbed
  <2> QED BY <2>3, TicksAssumption
<1>5. values \in Seq(Nat) /\ Len(values) = n /\ Cardinality(LongSamples) <= spoiled
      /\ spoiled \in Nat /\ overhead \in Nat
  BY <1>1 DEF OverheadInv, LongSamples
<1> HIDE DEF v
<1>6. values' \in Seq(Nat) /\ Len(values') = n + 1 /\ DOMAIN values' = DOMAIN values \union {n + 1}
      /\ n + 1 \notin DOMAIN values /\ values'[n + 1] = v
      /\ \A j \in DOMAIN values : values'[j] = values[j]
  <2>1. values \in Seq(Nat) /\ Len(values) = n
    BY <1>5
  <2>2. /\ Append(values, v) \in Seq(Nat) /\ Len(Append(values, v)) = n + 1
        /\ DOMAIN Append(values, v) = DOMAIN values \union {n + 1}
        /\ n + 1 \notin DOMAIN values /\ Append(values, v)[n + 1] = v
        /\ \A j \in DOMAIN values : Append(values, v)[j] = values[j]
    BY <1>3, <2>1, AppendIs
  <2>3. values' = Append(values, v)
    BY <1>1
  <2> QED BY <2>2, <2>3, Zenon
<1>7. LongSamples' = LongSamples \union (IF v > MaxDelay THEN {n + 1} ELSE {})
  BY <1>6 DEF LongSamples
<1>8. spoiled' \in Nat /\ spoiled <= spoiled' /\ (moved => spoiled' = spoiled + 1)
  <2>1. CASE moved
    <3>1. spoiled' = spoiled + 1
      BY <1>1, <2>1
    <3> QED BY <1>5, <3>1
  <2>2. CASE ~moved
    <3>1. spoiled' = spoiled
      <4>1. spoiled' = spoiled + 0
        BY <1>1, <2>2, Zenon
      <4> QED BY <1>5, <4>1
    <3> QED BY <1>5, <2>2, <3>1
  <2> QED BY <2>1, <2>2
<1>9. Cardinality(LongSamples') <= spoiled'
  <2>1. Cardinality(LongSamples) \in Nat /\ IsFiniteSet(LongSamples) /\ n + 1 \notin LongSamples
    BY <1>5, <1>6, LongFinite
  <2>2. CASE v > MaxDelay
    <3>1. LongSamples' = LongSamples \union {n + 1}
      BY <1>7, <2>2
    <3>2. Cardinality(LongSamples') = Cardinality(LongSamples) + 1
      BY <2>1, <3>1, AddOne
    <3>3. spoiled' = spoiled + 1
      BY <1>4, <1>8, <2>2
    <3> QED BY <1>5, <2>1, <3>2, <3>3
  <2>3. CASE ~(v > MaxDelay)
    <3>1. LongSamples' = LongSamples
      BY <1>7, <2>3
    <3> QED BY <1>5, <1>8, <2>1, <3>1
  <2> QED BY <2>2, <2>3
<1> QED BY <1>1, <1>5, <1>6, <1>8, <1>9 DEF OverheadInv, LongSamples, Calibrating

\* The step that sorts the samples.
LEMMA OverheadTaken ==
  ASSUME TypesInv, OverheadInv, EndOverhead
  PROVE  OverheadInv'
<1>1. /\ tpc = "sample" /\ n = OverheadSamples /\ tpc' = "batch" /\ values' = <<>>
      /\ overhead' = Ranked(values, Len(values) \div 2 + 1) /\ UNCHANGED spoiled
  BY DEF EndOverhead, observed
<1>2. /\ values \in Seq(Nat) /\ Len(values) = OverheadSamples /\ spoiled \in Nat
      /\ Cardinality(LongSamples) <= spoiled
  BY <1>1 DEF OverheadInv, LongSamples
<1>3. values # <<>>
  BY <1>2, TimerAssumption
<1>4. overhead' \in Nat /\ (2 * spoiled < OverheadSamples => overhead' <= MaxDelay)
  BY <1>1, <1>2, <1>3, MiddleShort
<1>5. Cardinality(LongSamples') <= spoiled'
  <2>1. LongSamples' = {}
    BY <1>1 DEF LongSamples
  <2> QED BY <1>1, <1>2, <2>1, FS_EmptySet
<1> QED BY <1>1, <1>2, <1>4, <1>5 DEF OverheadInv, LongSamples, Calibrating

LEMMA OverheadSame ==
  ASSUME OverheadInv, UNCHANGED <<values, spoiled, overhead>>,
         tpc' \in Calibrating => tpc \in Calibrating,
         tpc' \in {"sample", "sample end"} =>
           (tpc \in {"sample", "sample end"} /\ n' = n) \/ (values = <<>> /\ n' = 0),
         tpc' \in {"batch", "batch end", "returned"} => tpc \in {"batch", "batch end", "returned"}
  PROVE  OverheadInv'
<1>1. LongSamples' = LongSamples
  BY DEF LongSamples
<1>2. Cardinality(LongSamples') <= spoiled'
  BY <1>1 DEF OverheadInv, LongSamples
<1> QED BY <1>2 DEF OverheadInv, LongSamples

LEMMA NextOverhead ==
  ASSUME TypesInv, OverheadInv, BatchInv, [Next]_vars
  PROVE  OverheadInv'
<1> USE DEF Calibrating
<1>1. CASE Migrate
  BY <1>1, OverheadSame DEF Migrate, results
<1>2. CASE StartRound
  <2>1. UNCHANGED <<values, spoiled, overhead>> /\ tpc = "round" /\ tpc' \in {"tsc start", "thrown"}
    BY <1>2 DEF StartRound, results, observed
  <2> QED BY <2>1, OverheadSame
<1>3. CASE StartSleep \/ EndSleep \/ EndRound
  BY <1>3, OverheadSame DEF StartSleep, EndSleep, EndRound, results, observed
<1>4. CASE EndCalibration
  <2>1. /\ UNCHANGED <<values, spoiled, overhead>> /\ tpc = "round" /\ n' = 0
        /\ tpc' \in {"sample", "thrown"}
    BY <1>4 DEF EndCalibration, observed
  <2>2. values = <<>>
    BY <2>1 DEF OverheadInv
  <2> QED BY <2>1, <2>2, OverheadSame
<1>5. CASE StartSample \/ StartBatch \/ EndBatch
  <2>1. CASE StartSample
    BY <2>1, OverheadSame DEF StartSample, TakeStart, results
  <2>2. CASE StartBatch
    BY <2>2, OverheadSame DEF StartBatch, TakeStart, results
  <2>3. CASE EndBatch
    BY <2>3, OverheadSame DEF EndBatch, observed
  <2> QED BY <1>5, <2>1, <2>2, <2>3
<1>6. CASE EndSample
  BY <1>6, SampleTaken
<1>7. CASE EndOverhead
  BY <1>7, OverheadTaken
<1>8. CASE Over \/ UNCHANGED vars
  <2>1. UNCHANGED <<values, spoiled, overhead, tpc, n>>
    BY <1>8 DEF Over, vars, results, observed
  <2> QED BY <2>1, OverheadSame
<1> QED BY <1>1, <1>2, <1>3, <1>4, <1>5, <1>6, <1>7, <1>8 DEF Next

\* The stamp that starts a sample or a batch.
LEMMA StartTaken ==
  ASSUME TypesInv, NEW phase, TakeStart(phase), NEW longest \in Ticks, longest \in Nat,
         Passes(0 .. longest)
  PROVE  /\ began' \in Ticks /\ tsc_start' \in Ticks /\ tpc' = phase
         /\ \E d \in 0 .. longest : Timed(d)'
<1>1. now \in Ticks /\ cpu \in TimerCpus
  BY DEF TypesInv
<1>2. tsc_start' = Tsc /\ began' = now /\ tpc' = phase
  BY DEF TakeStart
<1>3. cpu' = cpu /\ \E t \in 0 .. longest : Later(now, now', t)
  BY <1>1, PassesLater
<1>4. Tsc \in Ticks /\ Later(now, Tsc, Ahead[cpu])
  BY <1>1, TscTicks
<1>5. PICK t \in 0 .. longest : Later(now, now', t)
  BY <1>3
<1>6. Timed(t)'
  BY <1>2, <1>3, <1>4, <1>5 DEF Timed, Later
<1> QED BY <1>1, <1>2, <1>4, <1>6

LEMMA BatchEnds ==
  ASSUME TypesInv, OverheadInv, BatchInv, EndBatch
  PROVE  BatchInv'
<1>1. /\ tpc = "batch end" /\ tpc' = "returned" /\ UNCHANGED <<now, moved, began, spoiled>>
      /\ net' = SubtractOverhead(Since(tsc_start, Tsc))
  BY DEF EndBatch, machine, observed
<1>2. BatchSound'
  <2> SUFFICES ASSUME ~moved, 2 * spoiled < OverheadSamples
      PROVE  net' \in 0 .. Since(began', now') /\ Since(began', now') - net' <= MaxDelay
    BY <1>1, Zenon DEF BatchSound, Since
  <2>1. PICK d \in 0 .. MaxBatch : Timed(d)
    BY <1>1 DEF BatchInv
  <2>2. d \in Ticks /\ d \in Nat
    BY TicksAssumption DEF Ticks
  <2>3. began \in Ticks /\ tsc_start \in Ticks
    BY <1>1 DEF BatchInv
  <2>4. Since(tsc_start, Tsc) = d /\ Since(began, now) = d
    BY <2>1, <2>2, <2>3, Undisturbed
  <2>5. Since(began', now') = d
    BY <1>1, <2>4
  <2>6. overhead \in Nat /\ overhead <= MaxDelay
    BY <1>1 DEF OverheadInv
  <2>7. net' = IF d > overhead THEN d - overhead ELSE 0
    BY <1>1, <2>4 DEF SubtractOverhead
  <2>8. net' \in 0 .. d /\ d - net' <= MaxDelay
    BY <2>2, <2>6, <2>7, TicksAssumption
  <2> QED BY <2>5, <2>8
<1> QED BY <1>1, <1>2 DEF BatchInv

LEMMA BatchSame ==
  ASSUME BatchInv, UNCHANGED <<now, tpc, tsc_start, began, net, spoiled>>,
         ~moved' => ~moved /\ cpu' = cpu
  PROVE  BatchInv'
<1>1. (tpc \in {"sample end", "batch end"} => began \in Ticks /\ tsc_start \in Ticks)'
  BY DEF BatchInv
<1>2. \A d : Timed(d) /\ cpu' = cpu => Timed(d)'
  BY DEF Timed, Later
<1>3. ASSUME tpc' = "sample end", ~moved' PROVE \E d \in 0 .. MaxDelay : Timed(d)'
  <2>1. \E d \in 0 .. MaxDelay : Timed(d)
    BY <1>3, Zenon DEF BatchInv
  <2> QED BY <1>2, <1>3, <2>1, Zenon
<1>4. ASSUME tpc' = "batch end", ~moved' PROVE \E d \in 0 .. MaxBatch : Timed(d)'
  <2>1. \E d \in 0 .. MaxBatch : Timed(d)
    BY <1>4, Zenon DEF BatchInv
  <2> QED BY <1>2, <1>4, <2>1, Zenon
<1>5. BatchSound'
  <2>1. BatchSound
    BY DEF BatchInv
  <2> QED BY <2>1, Zenon DEF BatchSound, Since
<1> QED BY <1>1, <1>3, <1>4, <1>5 DEF BatchInv

LEMMA NextBatch ==
  ASSUME TypesInv, OverheadInv, BatchInv, [Next]_vars
  PROVE  BatchInv'
<1>1. CASE Migrate
  <2>1. UNCHANGED <<now, tpc, tsc_start, began, net, spoiled>> /\ moved'
    BY <1>1 DEF Migrate, stamps, results
  <2> QED BY <2>1, BatchSame
<1>2. CASE StartSample
  <2>1. TakeStart("sample end") /\ Passes(0 .. MaxDelay)
    BY <1>2 DEF StartSample, Delay
  <2>2. MaxDelay \in Ticks /\ MaxDelay \in Nat
    BY TicksAssumption DEF Ticks
  <2>3. /\ began' \in Ticks /\ tsc_start' \in Ticks /\ tpc' = "sample end"
        /\ \E d \in 0 .. MaxDelay : Timed(d)'
    BY <2>1, <2>2, StartTaken
  <2> QED BY <2>3 DEF BatchInv, BatchSound
<1>3. CASE StartBatch
  <2>1. TakeStart("batch end") /\ Passes(0 .. MaxBatch)
    BY <1>3 DEF StartBatch
  <2>2. MaxBatch \in Ticks /\ MaxBatch \in Nat
    BY TicksAssumption DEF Ticks
  <2>3. /\ began' \in Ticks /\ tsc_start' \in Ticks /\ tpc' = "batch end"
        /\ \E d \in 0 .. MaxBatch : Timed(d)'
    BY <2>1, <2>2, StartTaken
  <2> QED BY <2>3 DEF BatchInv, BatchSound
<1>4. CASE EndBatch
  BY <1>4, BatchEnds
<1>5. CASE StartRound \/ StartSleep \/ EndSleep \/ EndRound \/ EndCalibration \/ EndSample \/ EndOverhead
  <2>1. tpc' \in Calibrating \union {"sample", "batch", "thrown"}
    BY <1>5 DEF StartRound, StartSleep, EndSleep, EndRound, EndCalibration, EndSample, EndOverhead,
                Calibrating
  <2> QED BY <2>1 DEF BatchInv, BatchSound, Calibrating
<1>6. CASE Over \/ UNCHANGED vars
  <2>1. UNCHANGED <<now, tpc, tsc_start, began, net, spoiled, moved, cpu>>
    BY <1>6 DEF Over, vars, machine, stamps, results, observed
  <2>2. ~moved' => ~moved /\ cpu' = cpu
    BY <2>1, Zenon
  <2> QED BY <2>1, <2>2, BatchSame
<1> QED BY <1>1, <1>2, <1>3, <1>4, <1>5, <1>6 DEF Next

LEMMA NextInv ==
  ASSUME TimerInv, [Next]_vars
  PROVE  TimerInv'
<1>1. TypesInv /\ StampsInv /\ RatesInv /\ OverheadInv /\ BatchInv
  BY InvIsParts
<1>2. TypesInv' /\ StampsInv' /\ RatesInv' /\ OverheadInv' /\ BatchInv'
  BY <1>1, NextTypes, NextStamps, NextRates, NextOverhead, NextBatch
<1> QED BY <1>2 DEF TimerInv, TypesInv, Phases

-------------------------------------------------------------------------------
(* Theorems.                                                                *)

LEMMA TimerAlways == Spec => []TimerInv
<1>1. Init => TimerInv
  BY InitInv
<1>2. TimerInv /\ [Next]_vars => TimerInv'
  BY NextInv
<1> QED BY <1>1, <1>2, PTL DEF Spec

\* Wherever the scheduler moves the thread between its CPUs, the rate calibrate_tsc_hz
\* returns is of one counter and misses the true one by the gaps between two stamps at most;
\* a pinned thread always gets one.
THEOREM CalibrationAlwaysSound == Spec => []CalibrationSound
<1>1. TimerInv => CalibrationSound
  <2> SUFFICES ASSUME TimerInv PROVE CalibrationSound
    OBVIOUS
  <2>1. RatesInv
    BY InvIsParts
  <2>2. tsc_hz # <<0, 0>> => SoundRate(tsc_hz)
    BY <2>1 DEF RatesInv
  <2>3. RoundsCounted
    BY <2>1, RatesAre
  <2>4. pinned /\ clock_works =>
          tpc # "thrown" /\ (tpc = "round" => Len(estimates) = n)
    <3>1. tpc = "round" => tpc \in Calibrating
      BY DEF Calibrating
    <3> QED BY <2>3, <3>1, Zenon DEF RoundsCounted
  <2> QED BY <2>2, <2>4, Zenon DEF CalibrationSound, SoundRate
<1> QED BY <1>1, TimerAlways, PTL

\* While the thread was moved in less than half of the samples of measure_overhead_cycles, a
\* batch it was not moved in is reported with what it took, less at most one gap.
THEOREM BatchAlwaysSound == Spec => []BatchSound
<1>1. TimerInv => BatchSound
  BY DEF TimerInv, BatchInv
<1> QED BY <1>1, TimerAlways, PTL
===============================================================================
