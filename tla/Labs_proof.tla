------------------------------- MODULE Labs_proof ------------------------------
(* Proofs about the labs: OperationalLab for an int of any width;           *)
(* EvaluationLab, what the blocks of the two classes have in common, how    *)
(* many there are and what an accepted report says of them, for every       *)
(* number of runs, every length of a trace, every window and every length   *)
(* of the simulated fault; DefensiveLab, its counts, for any secret.        *)
EXTENDS OperationalLab, EvaluationLab, DefensiveLab, SequenceTheorems, Metrics_proof

-------------------------------------------------------------------------------
(* Integers of limited width.                                               *)

LEMMA Remainder ==
  ASSUME NEW m \in Nat \ {0}, NEW a \in 0 .. m - 1
  PROVE  a % m = a
  OBVIOUS

\* What fits into an int is not changed by wrapping.
LEMMA WrapIdentity ==
  ASSUME NEW n \in Ints
  PROVE  Wrap(n) = n
<1>1. n + IntMax + 1 \in 0 .. (2 * IntMax + 2) - 1 /\ 2 * IntMax + 2 \in Nat \ {0}
  BY IntMaxAssumption DEF Ints
<1>2. (n + IntMax + 1) % (2 * IntMax + 2) = n + IntMax + 1
  BY <1>1, Remainder
<1> QED BY <1>2, IntMaxAssumption DEF Wrap, Ints

\* Whatever is wrapped is an int.
LEMMA WrapInts ==
  ASSUME NEW n \in Int
  PROVE  Wrap(n) \in Ints
<1>1. 2 * IntMax + 2 \in Nat \ {0} /\ n + IntMax + 1 \in Int
  BY IntMaxAssumption
<1>2. (n + IntMax + 1) % (2 * IntMax + 2) \in 0 .. (2 * IntMax + 2) - 1
  BY <1>1
<1> QED BY <1>2, IntMaxAssumption DEF Wrap, Ints

-------------------------------------------------------------------------------
(* The inductive invariant.  The events of the catalogue that were gone     *)
(* through are all detected and recovered; what is reported are products.   *)

LabCounters(d, m, a, r) ==
  detected_events = d /\ missed_events = m /\ recovery_attempts = a /\ recovered_events = r

OpInv ==
  /\ op_phase \in {"idle", "count", "report", "done"}
  /\ op_runs \in Ints
  /\ event \in 1 .. Catalogue + 1
  /\ op_phase = "idle" => op_runs = 0 /\ event = 1 /\ LabCounters(0, 0, 0, 0) /\ benign = <<0, 0>>
  /\ op_phase = "count" =>
       /\ op_runs > 0 /\ events_generated = Wrap(Catalogue * op_runs)
       /\ LabCounters(event - 1, 0, event - 1, event - 1) /\ benign = <<0, 0>>
  /\ op_phase = "report" \/ (op_phase = "done" /\ event > Catalogue) =>
       /\ op_runs > 0 /\ event = Catalogue + 1 /\ events_generated = Wrap(Catalogue * op_runs)
       /\ LabCounters(Wrap(Catalogue * op_runs), Wrap(0), Wrap(Catalogue * op_runs),
                      Wrap(Catalogue * op_runs))
       /\ benign_events = Wrap(op_runs * 20) /\ false_positive_events = op_runs
  /\ op_phase = "done" /\ event <= Catalogue =>
       event = 1 /\ LabCounters(0, 0, 0, 0) /\ benign = <<0, 0>>

LEMMA OpInit == OperationalIdle => OpInv
  BY IntMaxAssumption DEF OperationalIdle, OpInv, LabCounters, benign, Ints, Catalogue

LEMMA OpStart ==
  ASSUME OpInv, NEW n \in Ints, NEW path, StartOperational(n, path)
  PROVE  OpInv'
<1>1. /\ op_phase = "idle" /\ op_runs' = n
      /\ UNCHANGED <<event, counters, benign>>
  BY DEF StartOperational
<1>2. event = 1 /\ LabCounters(0, 0, 0, 0) /\ benign = <<0, 0>>
  BY <1>1 DEF OpInv
<1>3. event' = 1 /\ LabCounters(0, 0, 0, 0)' /\ benign' = <<0, 0>>
  BY <1>1, <1>2 DEF LabCounters, counters, benign
<1>4. CASE op_phase' = "done"
  BY <1>1, <1>3, <1>4 DEF OpInv, Catalogue
<1>5. CASE ~(n <= 0 \/ path = "")
  <2>1. op_phase' = "count" /\ events_generated' = Wrap(Catalogue * n)
    BY <1>5 DEF StartOperational
  <2>2. n \in Int
    BY IntMaxAssumption DEF Ints
  <2>3. ~(n <= 0)
    BY <1>5, Zenon
  <2>4. n > 0 /\ op_runs' = n
    BY <1>1, <2>2, <2>3
  <2> QED BY <1>3, <2>1, <2>4 DEF OpInv, LabCounters, Catalogue
<1> QED BY <1>4, <1>5 DEF StartOperational

LEMMA OpCount ==
  ASSUME OpInv, CountEvent
  PROVE  OpInv'
<1>1. event \in Detectable /\ event \in Detectable \intersect Recoverable
  BY DEF OpInv, CountEvent, Detectable, Recoverable, Catalogue
<1>2. /\ event \in 1 .. 9 /\ event' = event + 1 /\ op_phase = "count" /\ op_phase' = "count"
      /\ detected_events' = detected_events + 1 /\ missed_events' = missed_events
      /\ recovery_attempts' = recovery_attempts + 1 /\ recovered_events' = recovered_events + 1
      /\ UNCHANGED <<op_runs, events_generated, benign>>
  BY <1>1 DEF OpInv, CountEvent, Catalogue
<1> QED BY <1>2 DEF OpInv, LabCounters, benign, Catalogue

LEMMA OpScale ==
  ASSUME OpInv, ScaleCounters
  PROVE  OpInv'
<1>1. event = 10 /\ op_runs \in Ints /\ op_runs > 0 /\ LabCounters(9, 0, 9, 9)
  BY DEF OpInv, ScaleCounters, LabCounters, Catalogue
<1>2. op_runs \in Int
  BY <1>1, IntMaxAssumption DEF Ints
<1>3. 0 * op_runs = 0
  BY <1>2
<1>4. LabCounters(Wrap(Catalogue * op_runs), Wrap(0), Wrap(Catalogue * op_runs),
                  Wrap(Catalogue * op_runs))'
  BY <1>1, <1>3 DEF ScaleCounters, LabCounters, Catalogue
<1> QED BY <1>1, <1>4 DEF OpInv, ScaleCounters, Catalogue

LEMMA OpWrite ==
  ASSUME OpInv, NEW path, WriteOperationalReport(path)
  PROVE  OpInv'
<1>1. /\ op_phase = "report" /\ op_phase' = "done"
      /\ UNCHANGED <<op_runs, event, events_generated, counters, benign>>
  BY DEF WriteOperationalReport
<1> QED BY <1>1 DEF OpInv, LabCounters, counters, benign, Catalogue

LEMMA OpStutter ==
  ASSUME OpInv, UNCHANGED operationalState
  PROVE  OpInv'
  BY DEF OpInv, LabCounters, operationalState, counters, benign, Catalogue

\* Of a step of the lab, whoever else writes a report meanwhile.
LEMMA OpStep ==
  ASSUME OpInv, OperationalNext \/ UNCHANGED operationalState
  PROVE  OpInv'
  BY OpStart, OpCount, OpScale, OpWrite, OpStutter DEF OperationalNext

-------------------------------------------------------------------------------

\* All rates are exact as long as twenty benign events for each run fit into an int.
LEMMA RatesFollow ==
  ASSUME OpInv
  PROVE  RatesExact
<1> SUFFICES ASSUME Counted, 20 * op_runs <= IntMax
             PROVE  /\ events_generated = Catalogue * op_runs
                    /\ detected_events + missed_events = events_generated
                    /\ recovery_attempts = recovered_events /\ recovered_events <= detected_events
                    /\ benign_events = 20 * false_positive_events /\ false_positive_events > 0
  BY DEF RatesExact
<1>1. op_runs \in Int /\ event \in 1 .. 10
  BY IntMaxAssumption DEF OpInv, Ints, Catalogue
<1>2. op_phase = "report" \/ (op_phase = "done" /\ event > Catalogue)
  BY <1>1 DEF OpInv, Counted, benign, Catalogue
<1>3. /\ op_runs > 0 /\ events_generated = Wrap(9 * op_runs)
      /\ LabCounters(Wrap(9 * op_runs), Wrap(0), Wrap(9 * op_runs), Wrap(9 * op_runs))
      /\ benign_events = Wrap(op_runs * 20) /\ false_positive_events = op_runs
  BY <1>2 DEF OpInv, Catalogue
<1>4. 9 * op_runs \in Ints /\ op_runs * 20 \in Ints /\ 0 \in Ints
  BY <1>1, <1>3, IntMaxAssumption DEF Ints
<1>5. Wrap(9 * op_runs) = 9 * op_runs /\ Wrap(op_runs * 20) = op_runs * 20 /\ Wrap(0) = 0
  BY <1>4, WrapIdentity
<1> QED BY <1>1, <1>3, <1>5 DEF LabCounters, Catalogue

\* The rates that tests/operational_lab_test.cpp asserts of two runs are those of every
\* number of runs whose products fit, whatever the width of an int.
THEOREM OperationalRates == OperationalSpec => []RatesExact
<1>1. OperationalIdle /\ report = "none" => OpInv
  BY OpInit
<1>2. OpInv /\ [OperationalNext]_operationalVars => OpInv'
  BY OpStep DEF operationalVars
<1>3. OpInv => RatesExact
  BY RatesFollow
<1> QED BY <1>1, <1>2, <1>3, PTL DEF OperationalSpec

-------------------------------------------------------------------------------
(* Arithmetic of the blocks.                                                *)

LEMMA Division ==
  ASSUME NEW a \in Nat, NEW w \in Nat \ {0}
  PROVE  a \div w \in Nat /\ a % w \in 0 .. w - 1 /\ a = w * (a \div w) + (a % w)
  OBVIOUS

\* The place of a timing tells its block and its place in it.
LEMMA OnePlace ==
  ASSUME NEW w \in Nat \ {0}, NEW p \in Nat, NEW q \in Nat,
         NEW r \in 0 .. w - 1, NEW s \in 0 .. w - 1, w * p + r = w * q + s
  PROVE  p = q /\ r = s
<1>1. ASSUME NEW x \in Nat, NEW y \in Nat, NEW a \in 0 .. w - 1, NEW b \in 0 .. w - 1,
             w * x + a = w * y + b
      PROVE  ~(x < y)
  <2> SUFFICES ASSUME x < y PROVE FALSE
    OBVIOUS
  <2>1. x + 1 \in Nat /\ x + 1 <= y
    OBVIOUS
  <2>2. w * (x + 1) <= w * y
    BY <2>1, ProductMonotone
  <2>3. w * (x + 1) = w * x + w /\ w * x \in Nat /\ w * y \in Nat
    BY ProductNat
  <2> QED BY <1>1, <2>2, <2>3
<1>2. ~(p < q) /\ ~(q < p)
  BY <1>1
<1>3. p = q
  BY <1>2
<1>4. w * p \in Nat
  BY ProductNat
<1> QED BY <1>3, <1>4

LEMMA DivisionUnique ==
  ASSUME NEW a \in Nat, NEW w \in Nat \ {0}, NEW q \in Nat, NEW r \in 0 .. w - 1, a = w * q + r
  PROVE  a \div w = q /\ a % w = r
  BY Division, OnePlace

\* Blocks are counted once for each of n runs, and once over all of them: what is
\* left over of each run may make blocks, but less than one of each run.
LEMMA RoundingLoss ==
  ASSUME NEW n \in Nat \ {0}, NEW t \in Nat, NEW w \in Nat \ {0}
  PROVE  /\ n * (t \div w) \in Nat /\ (n * t) \div w \in Nat
         /\ n * (t \div w) <= (n * t) \div w
         /\ (n * t) \div w - n * (t \div w) < n
         /\ t % w = 0 => n * (t \div w) = (n * t) \div w
<1> DEFINE q == t \div w
           r == t % w
<1>1. q \in Nat /\ r \in 0 .. w - 1 /\ t = w * q + r
  BY Division
<1> HIDE DEF q, r
<1>2. n * q \in Nat /\ n * r \in Nat /\ n * t = w * (n * q) + n * r
  BY <1>1, ProductNat
<1> DEFINE e == (n * r) \div w
           f == (n * r) % w
<1>3. e \in Nat /\ f \in 0 .. w - 1 /\ n * r = w * e + f
  BY <1>2, Division
<1> HIDE DEF e, f
<1>4. n * q + e \in Nat /\ n * t = w * (n * q + e) + f
  BY <1>2, <1>3
<1>5. n * t \in Nat
  BY ProductNat
<1>6. (n * t) \div w = n * q + e
  BY <1>3, <1>4, <1>5, DivisionUnique
<1>7. e < n
  <2> SUFFICES ASSUME n <= e PROVE FALSE
    BY <1>3
  <2>1. w * n <= w * e
    BY <1>3, ProductMonotone
  <2>2. n * r <= n * (w - 1)
    BY <1>1, ProductMonotone
  <2>3. n * (w - 1) = w * n - n /\ w * n \in Nat /\ w * e \in Nat
    BY <1>3, ProductNat
  <2> QED BY <1>2, <1>3, <2>1, <2>2, <2>3
<1>8. ASSUME r = 0 PROVE e = 0
  <2>1. n * r = 0
    BY <1>8
  <2>2. w * e \in Nat /\ w * e = 0
    BY <1>3, <2>1, ProductNat
  <2>3. e = 0 \/ 1 <= e
    BY <1>3
  <2>4. 1 <= e => w * 1 <= w * e
    BY <1>3, ProductMonotone
  <2> QED BY <2>2, <2>3, <2>4
<1> QED BY <1>2, <1>3, <1>6, <1>7, <1>8 DEF q, r
-------------------------------------------------------------------------------
(* Traces and blocks.                                                       *)

Sample == [run : Nat, shot : Nat, time : Timings]

\* A trace of some length: the timings of one run, none of them twice.
TraceOf(t, length, r) ==
  /\ t \in Seq(Sample) /\ Len(t) = length
  /\ \A k \in 1 .. length : t[k].run = r
  /\ \A j, k \in 1 .. length : t[j].shot = t[k].shot => j = k

NoneTwice(all, w) ==
  \A n, m \in 1 .. Len(all) : \A k, l \in 1 .. w :
    all[n][k].run = all[m][l].run /\ all[n][k].shot = all[m][l].shot => n = m /\ k = l

\* Blocks of w timings, each block of one run before the given one, no timing in two.
BlocksOf(all, w, r) ==
  /\ all \in Seq(Seq(Sample))
  /\ \A n \in 1 .. Len(all) : Len(all[n]) = w
  /\ \A n \in 1 .. Len(all), k \in 1 .. w :
       all[n][k].run < r /\ all[n][k].run = all[n][1].run
  /\ NoneTwice(all, w)

LEMMA CollectedIsTrace ==
  ASSUME NEW count \in Nat, NEW first \in Nat \ {0}, run \in Nat, NEW t \in Collected(count, first)
  PROVE  TraceOf(t, count, run) /\ \A k \in 1 .. count : t[k].shot = first + k - 1
<1>1. PICK times \in [1 .. count -> Timings] :
        t = [k \in 1 .. count |-> [run |-> run, shot |-> first + k - 1, time |-> times[k]]]
  BY DEF Collected
<1>2. \A k \in 1 .. count : t[k] = [run |-> run, shot |-> first + k - 1, time |-> times[k]]
  BY <1>1
<1>3. \A k \in 1 .. count :
        t[k] \in Sample /\ t[k].run = run /\ t[k].shot = first + k - 1
  <2> SUFFICES ASSUME NEW k \in 1 .. count
               PROVE  t[k] \in Sample /\ t[k].run = run /\ t[k].shot = first + k - 1
    OBVIOUS
  <2>1. first + k - 1 \in Nat /\ times[k] \in Timings
    OBVIOUS
  <2>2. t[k] = [run |-> run, shot |-> first + k - 1, time |-> times[k]]
    BY <1>2
  <2> QED BY <2>1, <2>2 DEF Sample
<1>4. t \in [1 .. count -> Sample]
  BY <1>1, <1>3
<1>5. t \in Seq(Sample) /\ Len(t) = count
  BY <1>4
<1> QED BY <1>3, <1>5 DEF TraceOf

LEMMA Piece ==
  ASSUME NEW S, NEW s, NEW from \in Nat, NEW count \in Nat,
         \A k \in 1 .. count : s[from + k] \in S
  PROVE  /\ SubSeq(s, from + 1, from + count) \in Seq(S)
         /\ Len(SubSeq(s, from + 1, from + count)) = count
         /\ \A k \in 1 .. count : SubSeq(s, from + 1, from + count)[k] = s[from + k]
<1> DEFINE m == from + 1
           n == from + count
<1>1. m \in Int /\ n \in Int /\ n - m + 1 = count
  OBVIOUS
<1>2. \A k \in m .. n : s[k] \in S
  <2> SUFFICES ASSUME NEW k \in m .. n PROVE s[k] \in S
    OBVIOUS
  <2>1. k - from \in 1 .. count /\ from + (k - from) = k
    OBVIOUS
  <2> QED BY <2>1
<1>3. m <= n \/ count = 0
  OBVIOUS
<1>4. \A k \in 1 .. count : m + k - 1 = from + k
  OBVIOUS
<1> HIDE DEF m, n
<1>5. /\ SubSeq(s, m, n) \in Seq(S)
      /\ Len(SubSeq(s, m, n)) = IF m <= n THEN n - m + 1 ELSE 0
      /\ \A k \in 1 .. n - m + 1 : SubSeq(s, m, n)[k] = s[m + k - 1]
  BY <1>1, <1>2, SubSeqProperties
<1> QED BY <1>1, <1>3, <1>4, <1>5 DEF m, n

\* The end of a trace is replaced by shots taken later.
LEMMA RecaptureIsTrace ==
  ASSUME NEW length \in Nat, NEW r \in Nat, NEW lost \in 0 .. length, NEW t, NEW again,
         TraceOf(t, length, r), \A k \in 1 .. length : t[k].shot = k,
         TraceOf(again, lost, r), \A k \in 1 .. lost : again[k].shot = length + k
  PROVE  TraceOf(SubSeq(t, 1, Len(t) - lost) \o again, length, r)
<1> DEFINE kept == length - lost
           head == SubSeq(t, 1, kept)
           new == head \o again
<1>1. kept \in Nat /\ Len(t) = length /\ t \in Seq(Sample) /\ kept <= length
  BY DEF TraceOf
<1>2. \A k \in 1 .. kept : k \in 1 .. length /\ t[k] \in Sample
  BY <1>1
<1>3. head \in Seq(Sample) /\ Len(head) = kept /\ \A k \in 1 .. kept : head[k] = t[k]
  <2> HIDE DEF kept
  <2>1. 1 \in Int /\ kept \in Int
    BY <1>1
  <2>2. /\ SubSeq(t, 1, kept) \in Seq(Sample)
        /\ Len(SubSeq(t, 1, kept)) = IF 1 <= kept THEN kept - 1 + 1 ELSE 0
        /\ \A k \in 1 .. kept - 1 + 1 : SubSeq(t, 1, kept)[k] = t[1 + k - 1]
    BY <1>2, <2>1, SubSeqProperties
  <2> QED BY <1>1, <2>2
<1>4. again \in Seq(Sample) /\ Len(again) = lost
  BY DEF TraceOf
<1> HIDE DEF head
<1>5. /\ new \in Seq(Sample) /\ Len(new) = length
      /\ \A k \in 1 .. length : new[k] = IF k <= kept THEN head[k] ELSE again[k - kept]
  <2>1. /\ head \o again \in Seq(Sample) /\ Len(head \o again) = Len(head) + Len(again)
        /\ \A k \in 1 .. Len(head) + Len(again) :
             (head \o again)[k] = IF k <= Len(head) THEN head[k] ELSE again[k - Len(head)]
    BY <1>3, <1>4, ConcatProperties
  <2> QED BY <1>1, <1>3, <1>4, <2>1
<1>6. ASSUME NEW k \in 1 .. length
      PROVE  new[k].run = r /\ new[k].shot = (IF k <= kept THEN k ELSE length + k - kept)
  <2>1. CASE k <= kept
    <3>1. k \in 1 .. kept
      BY <1>1, <2>1
    <3> QED BY <1>3, <1>5, <2>1, <3>1 DEF TraceOf
  <2>2. CASE ~(k <= kept)
    <3>1. k - kept \in 1 .. lost /\ length + (k - kept) = length + k - kept
      BY <1>1, <2>2
    <3>2. new[k] = again[k - kept]
      BY <1>5, <2>2
    <3> QED BY <2>2, <3>1, <3>2 DEF TraceOf
  <2> QED BY <2>1, <2>2
<1>7. \A j, k \in 1 .. length : new[j].shot = new[k].shot => j = k
  <2> HIDE DEF new, kept
  <2> QED BY <1>1, <1>6
<1> QED BY <1>1, <1>5, <1>6, <1>7 DEF TraceOf, head

\* The blocks that are averaged are pieces of the trace that do not overlap.
LEMMA Averaged ==
  ASSUME NEW length \in Nat, NEW w \in Nat \ {0}, NEW r \in Nat, NEW t, TraceOf(t, length, r)
  PROVE  /\ Len(AverageBlocks(t, w)) = length \div w
         /\ BlocksOf(AverageBlocks(t, w), w, r + 1)
         /\ \A n \in 1 .. length \div w, k \in 1 .. w : AverageBlocks(t, w)[n][k].run = r
<1> DEFINE q == length \div w
           b == AverageBlocks(t, w)
           place(n, k) == (n - 1) * w + k
<1>1. t \in Seq(Sample) /\ Len(t) = length /\ q \in Nat
      /\ \A k \in 1 .. length : t[k] \in Sample /\ t[k].run = r
  <2>1. t \in Seq(Sample) /\ Len(t) = length /\ \A k \in 1 .. length : t[k].run = r
    BY DEF TraceOf
  <2>2. \A k \in 1 .. length : t[k] \in Sample
    BY <2>1
  <2>3. q \in Nat
    BY Division
  <2> QED BY <2>1, <2>2, <2>3
<1>2. \A n \in 1 .. q : (n - 1) * w \in Nat /\ n * w = (n - 1) * w + w /\ n * w <= length
  <2> SUFFICES ASSUME NEW n \in 1 .. q
               PROVE  (n - 1) * w \in Nat /\ n * w = (n - 1) * w + w /\ n * w <= length
    OBVIOUS
  <2>1. length \in Nat /\ length = w * q + (length % w) /\ length % w \in Nat
    BY Division
  <2> HIDE DEF q
  <2>2. n - 1 \in Nat /\ n \in Nat /\ n <= q
    BY <1>1
  <2>3. w * n <= w * q /\ w * q \in Nat /\ (n - 1) * w \in Nat /\ w * n \in Nat
    BY <1>1, <2>2, ProductMonotone, ProductNat
  <2>4. n * w = (n - 1) * w + w /\ n * w = w * n
    BY <2>2
  <2> QED BY <2>1, <2>3, <2>4
<1>3. b = [n \in 1 .. q |-> SubSeq(t, (n - 1) * w + 1, n * w)]
  BY <1>1 DEF AverageBlocks
<1> HIDE DEF q, b
<1>4. ASSUME NEW n \in 1 .. q
      PROVE  /\ b[n] \in Seq(Sample) /\ Len(b[n]) = w
             /\ \A k \in 1 .. w : place(n, k) \in 1 .. length /\ b[n][k] = t[place(n, k)]
  <2> DEFINE base == (n - 1) * w
  <2>1. base \in Nat /\ n * w = base + w /\ base + w <= length
    BY <1>2
  <2>2. b[n] = SubSeq(t, base + 1, base + w)
    BY <1>3, <2>1
  <2> HIDE DEF base
  <2>3. \A k \in 1 .. w : base + k \in 1 .. length /\ t[base + k] \in Sample
    BY <1>1, <2>1
  <2>4. /\ SubSeq(t, base + 1, base + w) \in Seq(Sample)
        /\ Len(SubSeq(t, base + 1, base + w)) = w
        /\ \A k \in 1 .. w : SubSeq(t, base + 1, base + w)[k] = t[base + k]
    BY <2>1, <2>3, Piece
  <2> QED BY <2>2, <2>3, <2>4 DEF base
<1>5. b \in Seq(Seq(Sample)) /\ Len(b) = q
  <2>1. b \in [1 .. q -> Seq(Sample)]
    BY <1>3, <1>4
  <2> QED BY <1>1, <2>1
<1>6. \A n \in 1 .. q, k \in 1 .. w : b[n][k].run = r
  BY <1>1, <1>4
<1>7. ASSUME NEW n \in 1 .. q, NEW m \in 1 .. q, NEW k \in 1 .. w, NEW l \in 1 .. w,
             b[n][k].shot = b[m][l].shot
      PROVE  n = m /\ k = l
  <2>1. place(n, k) \in 1 .. length /\ place(m, l) \in 1 .. length
        /\ t[place(n, k)].shot = t[place(m, l)].shot
    BY <1>4, <1>7
  <2>2. place(n, k) = place(m, l)
    <3> HIDE DEF place
    <3> QED BY <2>1 DEF TraceOf
  <2>3. /\ n - 1 \in Nat /\ m - 1 \in Nat /\ k - 1 \in 0 .. w - 1 /\ l - 1 \in 0 .. w - 1
        /\ w * (n - 1) + (k - 1) = w * (m - 1) + (l - 1)
    BY <1>1, <2>2
  <2>4. n - 1 = m - 1 /\ k - 1 = l - 1
    BY <2>3, OnePlace
  <2> QED BY <1>1, <2>4
<1>8. BlocksOf(b, w, r + 1)
  <2>1. \A n \in 1 .. q, k \in 1 .. w : b[n][k].run < r + 1 /\ b[n][k].run = b[n][1].run
    BY <1>6
  <2>2. \A n \in 1 .. q : Len(b[n]) = w
    BY <1>4
  <2>3. \A n, m \in 1 .. q : \A k, l \in 1 .. w :
          b[n][k].run = b[m][l].run /\ b[n][k].shot = b[m][l].shot => n = m /\ k = l
    BY <1>7
  <2> QED BY <1>5, <2>1, <2>2, <2>3 DEF BlocksOf, NoneTwice
<1> QED BY <1>5, <1>6, <1>8 DEF b, q

\* The blocks of a run are appended to those of the runs before.
OfRun(b, w, r) == \A n \in 1 .. Len(b), k \in 1 .. w : b[n][k].run = r

Joined(new, all, b) ==
  /\ Len(new) = Len(all) + Len(b)
  /\ \A n \in 1 .. Len(new) : new[n] = IF n <= Len(all) THEN all[n] ELSE b[n - Len(all)]

LEMMA Appended ==
  ASSUME NEW w \in Nat \ {0}, NEW r \in Nat, NEW all, NEW b,
         BlocksOf(all, w, r), BlocksOf(b, w, r + 1), OfRun(b, w, r)
  PROVE  BlocksOf(all \o b, w, r + 1) /\ Joined(all \o b, all, b)
<1> USE DEF OfRun
<1> DEFINE new == all \o b
           old(n) == n <= Len(all)
<1>1. /\ all \in Seq(Seq(Sample)) /\ b \in Seq(Seq(Sample))
      /\ Len(all) \in Nat /\ Len(b) \in Nat
  BY DEF BlocksOf
<1>2. /\ new \in Seq(Seq(Sample)) /\ Len(new) = Len(all) + Len(b)
      /\ \A n \in 1 .. Len(new) : new[n] = IF old(n) THEN all[n] ELSE b[n - Len(all)]
  BY <1>1, ConcatProperties
<1> HIDE DEF new
<1>3. \A n \in 1 .. Len(new) :
        IF old(n) THEN n \in 1 .. Len(all) ELSE n - Len(all) \in 1 .. Len(b)
  BY <1>1, <1>2
<1>4. ASSUME NEW n \in 1 .. Len(new), NEW k \in 1 .. w
      PROVE  /\ Len(new[n]) = w /\ new[n][k].run < r + 1 /\ new[n][k].run = new[n][1].run
             /\ IF old(n) THEN new[n][k].run < r ELSE new[n][k].run = r
  <2>1. CASE old(n)
    <3>1. n \in 1 .. Len(all) /\ new[n] = all[n]
      BY <1>2, <1>3, <2>1
    <3>2. Len(all[n]) = w /\ all[n][k].run < r /\ all[n][k].run = all[n][1].run
      BY <3>1 DEF BlocksOf
    <3>3. all[n][k].run \in Nat
      <4>1. all[n] \in Seq(Sample)
        BY <1>1, <3>1
      <4>2. all[n][k] \in Sample
        BY <3>2, <4>1
      <4> QED BY <4>2 DEF Sample
    <3> QED BY <2>1, <3>1, <3>2, <3>3
  <2>2. CASE ~old(n)
    <3>1. n - Len(all) \in 1 .. Len(b) /\ new[n] = b[n - Len(all)]
      BY <1>2, <1>3, <2>2
    <3>2. Len(new[n]) = w
      BY <3>1 DEF BlocksOf
    <3>3. new[n][k].run = r /\ new[n][1].run = r
      BY <3>1
    <3> QED BY <2>2, <3>2, <3>3
  <2> QED BY <2>1, <2>2
<1>5. ASSUME NEW n \in 1 .. Len(new), NEW m \in 1 .. Len(new), NEW k \in 1 .. w, NEW l \in 1 .. w,
             new[n][k].run = new[m][l].run, new[n][k].shot = new[m][l].shot
      PROVE  n = m /\ k = l
  <2>1. old(n) <=> old(m)
    <3>1. IF old(n) THEN new[n][k].run < r ELSE new[n][k].run = r
      BY <1>4
    <3>2. IF old(m) THEN new[m][l].run < r ELSE new[m][l].run = r
      BY <1>4
    <3> HIDE DEF old
    <3> QED BY <1>5, <3>1, <3>2
  <2>2. CASE old(n)
    <3>1. /\ n \in 1 .. Len(all) /\ new[n] = all[n]
          /\ m \in 1 .. Len(all) /\ new[m] = all[m]
      BY <1>2, <1>3, <2>1, <2>2
    <3>2. all[n][k].run = all[m][l].run /\ all[n][k].shot = all[m][l].shot
      BY <1>5, <3>1
    <3> QED BY <3>1, <3>2 DEF BlocksOf, NoneTwice
  <2>3. CASE ~old(n)
    <3> DEFINE x == n - Len(all)
               y == m - Len(all)
    <3>1. x \in 1 .. Len(b) /\ new[n] = b[x] /\ y \in 1 .. Len(b) /\ new[m] = b[y]
      BY <1>2, <1>3, <2>1, <2>3
    <3>2. x = y => n = m
      BY <1>1
    <3> HIDE DEF x, y
    <3>3. b[x][k].run = b[y][l].run /\ b[x][k].shot = b[y][l].shot
      BY <1>5, <3>1
    <3>4. NoneTwice(b, w)
      BY DEF BlocksOf
    <3>5. x = y /\ k = l
      BY <3>1, <3>3, <3>4 DEF NoneTwice
    <3> QED BY <3>2, <3>5
  <2> QED BY <2>2, <2>3
<1>6. 1 \in 1 .. w
  OBVIOUS
<1>7. BlocksOf(new, w, r + 1)
  <2>1. \A n \in 1 .. Len(new) : Len(new[n]) = w
    BY <1>4, <1>6
  <2>2. \A n \in 1 .. Len(new), k \in 1 .. w :
          new[n][k].run < r + 1 /\ new[n][k].run = new[n][1].run
    BY <1>4
  <2>3. \A n, m \in 1 .. Len(new) : \A k, l \in 1 .. w :
          new[n][k].run = new[m][l].run /\ new[n][k].shot = new[m][l].shot => n = m /\ k = l
    BY <1>5
  <2> QED BY <1>2, <2>1, <2>2, <2>3 DEF BlocksOf, NoneTwice
<1> QED BY <1>2, <1>7 DEF new, Joined
-------------------------------------------------------------------------------
(* The inductive invariant.                                                 *)

Active ==
  \/ ev_phase \in {"collect", "fault", "average", "report", "thrown"}
  \/ ev_phase = "done" /\ run > 0

EvTypes ==
  /\ ev_phase \in {"idle", "collect", "fault", "average", "report", "done", "thrown"}
  /\ runs \in Int /\ trace_samples \in Int /\ averaging_window \in Int /\ run \in Nat

\* Of the runs that are over, every one has left as many blocks as fit into its traces.
BlocksInv ==
  /\ BlocksOf(fixed_all, averaging_window, run) /\ BlocksOf(random_all, averaging_window, run)
  /\ Len(fixed_all) = run * (trace_samples \div averaging_window)
  /\ Len(random_all) = Len(fixed_all)
  /\ \A n \in 1 .. Len(fixed_all) : fixed_all[n][1].run = random_all[n][1].run

TracesInv ==
  /\ run < runs /\ TraceOf(fixed, trace_samples, run) /\ TraceOf(random, trace_samples, run)
  /\ ev_phase = "fault" =>
       run = 0 /\ trace_samples > FaultLength /\ \A k \in 1 .. trace_samples : fixed[k].shot = k

CapturesInv ==
  captures = IF trace_samples > FaultLength /\ (run > 0 \/ ev_phase = "average")
               THEN <<1, 1>> ELSE <<0, 0>>

EvInv ==
  /\ EvTypes
  /\ Active => runs > 0 /\ trace_samples > 0 /\ averaging_window > 0 /\ run <= runs /\ BlocksInv
  /\ ~Active => run = 0 /\ fixed_all = <<>> /\ random_all = <<>>
  /\ ev_phase \in {"fault", "average"} => TracesInv
  /\ ev_phase = "report" \/ (ev_phase = "done" /\ run > 0) => run = runs
  /\ ev_phase = "idle" => captures = <<0, 0>>
  /\ ev_phase # "thrown" => CapturesInv

LEMMA EvInit == EvaluationIdle => EvInv
<1> SUFFICES ASSUME EvaluationIdle PROVE EvInv
  OBVIOUS
<1>1. /\ ev_phase = "idle" /\ run = 0 /\ runs = 0 /\ trace_samples = 0 /\ averaging_window = 0
      /\ fixed_all = <<>> /\ random_all = <<>> /\ captures = <<0, 0>>
  BY DEF EvaluationIdle, captures
<1> QED BY <1>1, TraceAssumption DEF EvInv, EvTypes, Active, CapturesInv

LEMMA EvStart ==
  ASSUME EvInv, NEW r \in Int, NEW s \in Int, NEW w \in Nat, NEW path,
         StartEvaluation(r, s, w, path)
  PROVE  EvInv'
<1>1. /\ ev_phase = "idle" /\ runs' = r /\ trace_samples' = s /\ averaging_window' = w
      /\ run' = run /\ fixed_all' = fixed_all /\ random_all' = random_all /\ captures' = captures
      /\ ev_phase' \in {"done", "collect"}
  BY DEF StartEvaluation, blocks, captures
<1>2. ev_phase' = "collect" => r > 0 /\ s > 0 /\ w > 0
  <2> SUFFICES ASSUME ev_phase' = "collect" PROVE r > 0 /\ s > 0 /\ w > 0
    OBVIOUS
  <2>1. ev_phase' = IF r <= 0 \/ s <= 0 \/ w = 0 \/ path = "" THEN "done" ELSE "collect"
    BY Zenon DEF StartEvaluation
  <2>2. ~(r <= 0) /\ ~(s <= 0) /\ w # 0
    BY <2>1, Zenon
  <2> QED BY <2>2
<1>3. run = 0 /\ fixed_all = <<>> /\ random_all = <<>> /\ captures = <<0, 0>>
  BY <1>1 DEF EvInv, Active
<1>4. ASSUME ev_phase' = "collect" PROVE BlocksInv'
  <2>1. w \in Nat \ {0} /\ s \in Nat
    BY <1>2, <1>4
  <2>2. 0 * (s \div w) = 0
    BY <2>1, Division
  <2>3. BlocksOf(<<>>, w, 0) /\ Len(<<>>) = 0
    BY DEF BlocksOf, NoneTwice
  <2> QED BY <1>1, <1>3, <2>2, <2>3 DEF BlocksInv
<1> QED BY <1>1, <1>2, <1>3, <1>4 DEF EvInv, EvTypes, Active, CapturesInv

LEMMA EvCollect ==
  ASSUME EvInv, CollectTraces
  PROVE  EvInv'
<1>1. /\ ev_phase = "collect" /\ run < runs
      /\ fixed' \in Collected(trace_samples, 1) /\ random' \in Collected(trace_samples, 1)
      /\ ev_phase' = IF run = 0 /\ trace_samples > FaultLength THEN "fault" ELSE "average"
      /\ UNCHANGED <<runs, trace_samples, averaging_window, run, fixed_all, random_all, captures>>
  BY DEF CollectTraces, parameters, blocks, captures
<1>2. /\ runs > 0 /\ trace_samples > 0 /\ averaging_window > 0 /\ run <= runs /\ BlocksInv
      /\ EvTypes /\ CapturesInv /\ Active
  BY <1>1 DEF EvInv, Active
<1>3. BlocksInv'
  BY <1>1, <1>2 DEF BlocksInv
<1>4. /\ TraceOf(fixed', trace_samples, run) /\ TraceOf(random', trace_samples, run)
      /\ \A k \in 1 .. trace_samples : fixed'[k].shot = k
  <2>1. trace_samples \in Nat /\ run \in Nat /\ 1 \in Nat \ {0}
    BY <1>2 DEF EvTypes
  <2>2. /\ TraceOf(fixed', trace_samples, run) /\ TraceOf(random', trace_samples, run)
        /\ \A k \in 1 .. trace_samples : fixed'[k].shot = 1 + k - 1
    BY <1>1, <2>1, CollectedIsTrace
  <2> QED BY <2>1, <2>2
<1>5. TracesInv'
  BY <1>1, <1>4 DEF TracesInv
<1>6. captures' = captures /\ CapturesInv'
  <2>1. run \in Nat /\ trace_samples \in Int
    BY <1>2 DEF EvTypes
  <2> QED BY <1>1, <1>2, <2>1, TraceAssumption DEF CapturesInv
<1>7. EvTypes' /\ Active' /\ ev_phase' \in {"fault", "average"}
  BY <1>1, <1>2 DEF EvTypes, Active
<1> QED BY <1>1, <1>2, <1>3, <1>5, <1>6, <1>7 DEF EvInv

LEMMA EvRecover ==
  ASSUME EvInv, RecoverCapture
  PROVE  EvInv'
<1>1. PICK again \in Collected(FaultLength, trace_samples + 1) :
        fixed' = SubSeq(fixed, 1, Len(fixed) - FaultLength) \o again
  BY DEF RecoverCapture
<1>2. /\ ev_phase = "fault" /\ ev_phase' = "average"
      /\ simulated_capture_faults' = simulated_capture_faults + 1
      /\ recovered_captures' = recovered_captures + (IF Len(fixed') = trace_samples THEN 1 ELSE 0)
      /\ UNCHANGED <<runs, trace_samples, averaging_window, run, random, fixed_all, random_all>>
  BY DEF RecoverCapture, parameters, blocks
<1>3. /\ runs > 0 /\ trace_samples > 0 /\ averaging_window > 0 /\ run <= runs /\ BlocksInv
      /\ EvTypes /\ CapturesInv /\ Active /\ TracesInv
  BY <1>2 DEF EvInv, Active
<1>4. trace_samples \in Nat /\ run = 0 /\ FaultLength \in 0 .. trace_samples /\ FaultLength \in Nat
  BY <1>2, <1>3, TraceAssumption DEF EvTypes, TracesInv
<1>5. TraceOf(fixed', trace_samples, run)
  <2>1. run \in Nat /\ trace_samples + 1 \in Nat \ {0}
    BY <1>4
  <2>2. /\ TraceOf(again, FaultLength, run)
        /\ \A k \in 1 .. FaultLength : again[k].shot = trace_samples + 1 + k - 1
    BY <1>1, <1>4, <2>1, CollectedIsTrace
  <2>3. \A k \in 1 .. FaultLength : again[k].shot = trace_samples + k
    BY <1>4, <2>2
  <2>4. TraceOf(fixed, trace_samples, run) /\ \A k \in 1 .. trace_samples : fixed[k].shot = k
    BY <1>2, <1>3 DEF TracesInv
  <2> QED BY <1>1, <1>4, <2>1, <2>2, <2>3, <2>4, RecaptureIsTrace
<1>6. TracesInv'
  BY <1>2, <1>3, <1>5 DEF TracesInv
<1>7. CapturesInv'
  <2>1. trace_samples > FaultLength /\ captures = <<0, 0>>
    BY <1>2, <1>3, <1>4 DEF TracesInv, CapturesInv
  <2>2. Len(fixed') = trace_samples
    BY <1>5 DEF TraceOf
  <2> QED BY <1>2, <2>1, <2>2 DEF CapturesInv, captures
<1>8. BlocksInv' /\ EvTypes' /\ Active'
  BY <1>2, <1>3 DEF BlocksInv, EvTypes, Active
<1> QED BY <1>2, <1>3, <1>6, <1>7, <1>8 DEF EvInv

\* Both classes give as many blocks, so that aligning them cuts nothing off.
LEMMA NothingCut ==
  ASSUME EvInv, AppendBlocks
  PROVE  /\ fixed_all' = fixed_all \o AverageBlocks(fixed, averaging_window)
         /\ random_all' = random_all \o AverageBlocks(random, averaging_window)
         /\ Len(AverageBlocks(fixed, averaging_window)) = trace_samples \div averaging_window
         /\ Len(AverageBlocks(random, averaging_window)) = trace_samples \div averaging_window
<1> DEFINE f == AverageBlocks(fixed, averaging_window)
           r == AverageBlocks(random, averaging_window)
           aligned_fixed == AlignSamples(f, r)
           aligned_random == SubSeq(r, 1, Len(aligned_fixed))
<1>1. ev_phase = "average"
  BY DEF AppendBlocks
<1>2. TracesInv /\ BlocksInv /\ run \in Nat /\ trace_samples \in Nat /\ averaging_window \in Nat \ {0}
  BY <1>1 DEF EvInv, EvTypes, Active
<1>3. /\ Len(f) = trace_samples \div averaging_window /\ Len(r) = trace_samples \div averaging_window
      /\ f \in Seq(Seq(Sample)) /\ r \in Seq(Seq(Sample))
  <2>1. TraceOf(fixed, trace_samples, run) /\ TraceOf(random, trace_samples, run)
    BY <1>2 DEF TracesInv
  <2> QED BY <1>2, <2>1, Averaged DEF BlocksOf, NoneTwice
<1>4. fixed_all \in Seq(Seq(Sample)) /\ random_all \in Seq(Seq(Sample))
  BY <1>2 DEF BlocksInv, BlocksOf
<1>5. IF aligned_fixed = <<>>
        THEN UNCHANGED blocks
        ELSE fixed_all' = fixed_all \o aligned_fixed /\ random_all' = random_all \o aligned_random
  BY DEF AppendBlocks
<1> HIDE DEF f, r
<1>6. aligned_fixed = f /\ aligned_random = r
  <2>1. aligned_fixed = SubSeq(f, 1, Len(f))
    BY <1>3 DEF AlignSamples
  <2>2. SubSeq(f, 1, Len(f)) = f /\ SubSeq(r, 1, Len(r)) = r
    BY <1>3, SubSeqFull
  <2> QED BY <1>3, <2>1, <2>2
<1>7. CASE f = <<>>
  <2>1. r = <<>>
    BY <1>3, <1>7
  <2>2. fixed_all \o <<>> = fixed_all /\ random_all \o <<>> = random_all
    BY <1>4, ConcatEmptySeq
  <2>3. fixed_all' = fixed_all /\ random_all' = random_all
    BY <1>5, <1>6, <1>7 DEF blocks
  <2> QED BY <1>3, <1>7, <2>1, <2>2, <2>3 DEF f, r
<1>8. CASE f # <<>>
  BY <1>3, <1>5, <1>6, <1>8 DEF f, r
<1> QED BY <1>7, <1>8

LEMMA EvAppend ==
  ASSUME EvInv, AppendBlocks
  PROVE  EvInv'
<1> DEFINE w == averaging_window
           q == trace_samples \div averaging_window
           f == AverageBlocks(fixed, averaging_window)
           r == AverageBlocks(random, averaging_window)
<1>1. /\ ev_phase = "average" /\ ev_phase' = "collect" /\ run' = run + 1
      /\ UNCHANGED <<runs, trace_samples, averaging_window, captures>>
  BY DEF AppendBlocks, parameters, captures
<1>2. /\ runs > 0 /\ trace_samples > 0 /\ averaging_window > 0 /\ BlocksInv
      /\ EvTypes /\ CapturesInv /\ TracesInv /\ Active
  BY <1>1 DEF EvInv, Active
<1>3. /\ run \in Nat /\ trace_samples \in Nat /\ averaging_window \in Nat \ {0} /\ q \in Nat
      /\ run < runs /\ runs \in Int
  <2>1. run \in Nat /\ trace_samples \in Nat /\ averaging_window \in Nat \ {0}
        /\ run < runs /\ runs \in Int
    BY <1>2 DEF EvTypes, TracesInv
  <2> QED BY <2>1, Division
<1>4. fixed_all' = fixed_all \o f /\ random_all' = random_all \o r /\ Len(f) = q /\ Len(r) = q
  BY NothingCut
<1>5. /\ BlocksOf(f, w, run + 1) /\ BlocksOf(r, w, run + 1)
      /\ \A n \in 1 .. q, k \in 1 .. w : f[n][k].run = run /\ r[n][k].run = run
  <2>1. TraceOf(fixed, trace_samples, run) /\ TraceOf(random, trace_samples, run)
    BY <1>2 DEF TracesInv
  <2> QED BY <1>3, <2>1, Averaged
<1> HIDE DEF f, r, q
<1>6. /\ BlocksOf(fixed_all', w, run + 1) /\ Len(fixed_all') = Len(fixed_all) + q
      /\ \A n \in 1 .. Len(fixed_all') :
           fixed_all'[n] = IF n <= Len(fixed_all) THEN fixed_all[n] ELSE f[n - Len(fixed_all)]
  <2>1. BlocksOf(fixed_all, w, run) /\ BlocksOf(f, w, run + 1) /\ OfRun(f, w, run)
    BY <1>2, <1>4, <1>5 DEF BlocksInv, OfRun
  <2>2. BlocksOf(fixed_all \o f, w, run + 1) /\ Joined(fixed_all \o f, fixed_all, f)
    BY <1>3, <2>1, Appended
  <2> QED BY <1>4, <2>2 DEF Joined
<1>7. /\ BlocksOf(random_all', w, run + 1) /\ Len(random_all') = Len(random_all) + q
      /\ \A n \in 1 .. Len(random_all') :
           random_all'[n] = IF n <= Len(random_all) THEN random_all[n] ELSE r[n - Len(random_all)]
  <2>1. BlocksOf(random_all, w, run) /\ BlocksOf(r, w, run + 1) /\ OfRun(r, w, run)
    BY <1>2, <1>4, <1>5 DEF BlocksInv, OfRun
  <2>2. BlocksOf(random_all \o r, w, run + 1) /\ Joined(random_all \o r, random_all, r)
    BY <1>3, <2>1, Appended
  <2> QED BY <1>4, <2>2 DEF Joined
<1>8. Len(fixed_all) \in Nat /\ Len(random_all) = Len(fixed_all) /\ Len(fixed_all) = run * q
  BY <1>2 DEF BlocksInv, BlocksOf, q
<1>9. \A n \in 1 .. Len(fixed_all') : fixed_all'[n][1].run = random_all'[n][1].run
  <2> SUFFICES ASSUME NEW n \in 1 .. Len(fixed_all')
               PROVE  fixed_all'[n][1].run = random_all'[n][1].run
    OBVIOUS
  <2>1. n \in 1 .. Len(random_all')
    BY <1>6, <1>7, <1>8
  <2>2. CASE n <= Len(fixed_all)
    <3>1. n \in 1 .. Len(fixed_all)
      BY <1>8, <2>2
    <3> QED BY <1>2, <1>6, <1>7, <1>8, <2>1, <2>2, <3>1 DEF BlocksInv
  <2>3. CASE ~(n <= Len(fixed_all))
    <3>1. n - Len(fixed_all) \in 1 .. q /\ 1 \in 1 .. w
      BY <1>3, <1>6, <1>8, <2>3
    <3>2. fixed_all'[n] = f[n - Len(fixed_all)] /\ random_all'[n] = r[n - Len(fixed_all)]
      BY <1>6, <1>7, <1>8, <2>1, <2>3
    <3> QED BY <1>5, <3>1, <3>2
  <2> QED BY <2>2, <2>3
<1>10. (run + 1) * q = run * q + q
  BY <1>3
<1>11. BlocksInv'
  <2>1. q' = q
    BY <1>1 DEF q
  <2> QED BY <1>1, <1>6, <1>7, <1>8, <1>9, <1>10, <2>1 DEF BlocksInv, q
<1>12. CapturesInv'
  BY <1>1, <1>2, <1>3 DEF CapturesInv
<1> QED BY <1>1, <1>2, <1>3, <1>11, <1>12 DEF EvInv, EvTypes, Active
LEMMA EvEvaluate ==
  ASSUME EvInv, Evaluate
  PROVE  EvInv'
<1>1. /\ ev_phase = "collect" /\ run = runs /\ ev_phase' = "report"
      /\ UNCHANGED <<runs, trace_samples, averaging_window, run, fixed_all, random_all, captures>>
  BY DEF Evaluate, parameters, blocks, captures
<1>2. /\ runs > 0 /\ trace_samples > 0 /\ averaging_window > 0 /\ BlocksInv
      /\ EvTypes /\ CapturesInv
  BY <1>1 DEF EvInv, Active
<1>3. BlocksInv'
  BY <1>1, <1>2 DEF BlocksInv
<1>4. CapturesInv'
  <2>1. run > 0
    BY <1>1, <1>2
  <2> QED BY <1>1, <1>2, <2>1 DEF CapturesInv
<1> QED BY <1>1, <1>2, <1>3, <1>4 DEF EvInv, EvTypes, Active

\* The end of a call leaves what was found as it is.
LEMMA EvEnd ==
  ASSUME EvInv,
         \/ ev_phase = "report" /\ ev_phase' = "done"
         \/ ev_phase \in {"collect", "fault", "average"} /\ ev_phase' = "thrown",
         UNCHANGED <<runs, trace_samples, averaging_window, run, fixed_all, random_all, captures>>
  PROVE  EvInv'
<1>1. /\ runs > 0 /\ trace_samples > 0 /\ averaging_window > 0 /\ run <= runs /\ BlocksInv
      /\ EvTypes /\ CapturesInv /\ Active
  BY DEF EvInv, Active
<1>2. BlocksInv'
  BY <1>1 DEF BlocksInv
<1>3. CASE ev_phase = "report" /\ ev_phase' = "done"
  <2>1. run = runs /\ run > 0
    BY <1>1, <1>3 DEF EvInv
  <2>2. CapturesInv'
    BY <1>1, <1>3, <2>1 DEF CapturesInv
  <2> QED BY <1>1, <1>2, <1>3, <2>1, <2>2 DEF EvInv, EvTypes, Active
<1>4. CASE ev_phase' = "thrown"
  BY <1>1, <1>2, <1>4 DEF EvInv, EvTypes, Active
<1> QED BY <1>3, <1>4

LEMMA EvStutter ==
  ASSUME EvInv, UNCHANGED evaluationState
  PROVE  EvInv'
<1>1. UNCHANGED <<ev_phase, runs, trace_samples, averaging_window, run, fixed, random,
                  fixed_all, random_all, captures>>
  BY DEF evaluationState, parameters, traces, blocks, captures
<1> QED BY <1>1 DEF EvInv, EvTypes, Active, BlocksInv, TracesInv, CapturesInv

LEMMA EvStep ==
  ASSUME EvInv, EvaluationNext \/ UNCHANGED evaluationState
  PROVE  EvInv'
<1>1. CASE \E r, s \in Int, w \in Nat, path \in STRING : StartEvaluation(r, s, w, path)
  BY <1>1, EvStart
<1>2. CASE CollectTraces
  BY <1>2, EvCollect
<1>3. CASE RecoverCapture
  BY <1>3, EvRecover
<1>4. CASE AppendBlocks
  BY <1>4, EvAppend
<1>5. CASE Evaluate
  BY <1>5, EvEvaluate
<1>6. CASE ThrowEvaluation
  BY <1>6, EvEnd DEF ThrowEvaluation, parameters, blocks, captures
<1>7. CASE \E path \in STRING : WriteEvaluationReport(path)
  BY <1>7, EvEnd DEF WriteEvaluationReport, parameters, blocks, captures
<1>8. CASE UNCHANGED evaluationState
  BY <1>8, EvStutter
<1> QED BY <1>1, <1>2, <1>3, <1>4, <1>5, <1>6, <1>7, <1>8 DEF EvaluationNext

-------------------------------------------------------------------------------
(* What the invariant says of the properties.                               *)

LEMMA AlignedFollows == EvInv => PairsAligned
<1> SUFFICES ASSUME EvInv PROVE PairsAligned
  OBVIOUS
<1>1. CASE ~Active
  BY <1>1 DEF EvInv, PairsAligned
<1>2. CASE Active
  <2> DEFINE w == averaging_window
  <2>1. BlocksInv /\ w \in Nat \ {0} /\ 1 \in 1 .. w
    BY <1>2 DEF EvInv, EvTypes
  <2>2. /\ DOMAIN fixed_all = 1 .. Len(fixed_all) /\ DOMAIN random_all = 1 .. Len(fixed_all)
        /\ \A n \in 1 .. Len(fixed_all) :
             /\ Len(fixed_all[n]) = w /\ Len(random_all[n]) = w
             /\ DOMAIN fixed_all[n] = 1 .. w /\ DOMAIN random_all[n] = 1 .. w
    BY <2>1 DEF BlocksInv, BlocksOf
  <2>3. \A n \in 1 .. Len(fixed_all), k \in 1 .. w :
          /\ fixed_all[n][k].run = random_all[n][1].run
          /\ random_all[n][k].run = random_all[n][1].run
    BY <2>1 DEF BlocksInv, BlocksOf
  <2>4. \A n, m \in 1 .. Len(fixed_all) : \A k, l \in 1 .. w :
          /\ fixed_all[n][k].run = fixed_all[m][l].run
             /\ fixed_all[n][k].shot = fixed_all[m][l].shot => n = m /\ k = l
          /\ random_all[n][k].run = random_all[m][l].run
             /\ random_all[n][k].shot = random_all[m][l].shot => n = m /\ k = l
    <3>1. NoneTwice(fixed_all, w) /\ NoneTwice(random_all, w) /\ Len(random_all) = Len(fixed_all)
      BY <2>1 DEF BlocksInv, BlocksOf
    <3> QED BY <3>1 DEF NoneTwice
  <2>5. Len(fixed_all) = Len(random_all)
    BY <2>1 DEF BlocksInv
  <2>6. ASSUME NEW n \in DOMAIN fixed_all
        PROVE  /\ Len(fixed_all[n]) = w /\ Len(random_all[n]) = w
               /\ \A k \in 1 .. w : /\ fixed_all[n][k].run = random_all[n][1].run
                                    /\ random_all[n][k].run = random_all[n][1].run
    BY <2>2, <2>3, <2>6
  <2>7. ASSUME NEW all \in {fixed_all, random_all}, NEW n \in DOMAIN all, NEW m \in DOMAIN all,
               NEW k \in DOMAIN all[n], NEW l \in DOMAIN all[m],
               all[n][k].run = all[m][l].run, all[n][k].shot = all[m][l].shot
        PROVE  n = m /\ k = l
    <3>1. CASE all = fixed_all
      <4>1. n \in 1 .. Len(fixed_all) /\ m \in 1 .. Len(fixed_all) /\ k \in 1 .. w /\ l \in 1 .. w
        BY <2>2, <3>1
      <4>2. fixed_all[n][k].run = fixed_all[m][l].run /\ fixed_all[n][k].shot = fixed_all[m][l].shot
        BY <2>7, <3>1
      <4> QED BY <2>4, <4>1, <4>2
    <3>2. CASE all = random_all
      <4>1. n \in 1 .. Len(fixed_all) /\ m \in 1 .. Len(fixed_all) /\ k \in 1 .. w /\ l \in 1 .. w
        BY <2>2, <3>2
      <4>2. random_all[n][k].run = random_all[m][l].run /\ random_all[n][k].shot = random_all[m][l].shot
        BY <2>7, <3>2
      <4> QED BY <2>4, <4>1, <4>2
    <3> QED BY <3>1, <3>2
  <2> QED BY <2>5, <2>6, <2>7 DEF PairsAligned
<1> QED BY <1>1, <1>2

LEMMA FinishedFacts ==
  ASSUME EvInv, Finished
  PROVE  /\ runs \in Nat \ {0} /\ run = runs /\ trace_samples \in Nat
         /\ averaging_window \in Nat \ {0} /\ BlocksInv /\ CapturesInv
  BY DEF EvInv, EvTypes, Active, Finished

LEMMA LossFollows == EvInv => LossIsRounding
<1> SUFFICES ASSUME EvInv, Finished
             PROVE  /\ Len(fixed_all) <= RequestedPairs
                    /\ RequestedPairs - Len(fixed_all) < runs
                    /\ trace_samples % averaging_window = 0 => Len(fixed_all) = RequestedPairs
  BY DEF LossIsRounding
<1>1. /\ runs \in Nat \ {0} /\ trace_samples \in Nat /\ averaging_window \in Nat \ {0}
      /\ Len(fixed_all) = runs * (trace_samples \div averaging_window)
  BY FinishedFacts DEF BlocksInv
<1> QED BY <1>1, RoundingLoss DEF RequestedPairs

LEMMA FaultFollows == EvInv => FaultRecovered
<1> SUFFICES ASSUME EvInv, Finished
             PROVE  /\ simulated_capture_faults = (IF trace_samples > FaultLength THEN 1 ELSE 0)
                    /\ recovered_captures = simulated_capture_faults
                    /\ Len(fixed_all) = runs * (trace_samples \div averaging_window)
  BY DEF FaultRecovered
<1>1. run > 0 /\ BlocksInv /\ CapturesInv /\ run = runs
  BY FinishedFacts
<1>2. captures = IF trace_samples > FaultLength THEN <<1, 1>> ELSE <<0, 0>>
  BY <1>1 DEF CapturesInv
<1> QED BY <1>1, <1>2 DEF captures, BlocksInv

\* README.md says of the alignment: "paired classes are truncated to a common sample count".
\* For every number of runs, length of a trace and window, the n-th blocks of the two
\* classes are from the same run, and no timing is in two of them.
THEOREM EvaluationPairs == EvaluationSpec => []PairsAligned
<1>1. EvaluationIdle => EvInv
  BY EvInit
<1>2. EvInv /\ [EvaluationNext]_evaluationVars => EvInv'
  BY EvStep DEF evaluationVars
<1>3. EvInv => PairsAligned
  BY AlignedFollows
<1> QED BY <1>1, <1>2, <1>3, PTL DEF EvaluationSpec

\* What alignment_loss_percent counts as lost is less than a block of each run, and nothing
\* where the window divides the trace.
THEOREM EvaluationLoss == EvaluationSpec => []LossIsRounding
<1>1. EvaluationIdle => EvInv
  BY EvInit
<1>2. EvInv /\ [EvaluationNext]_evaluationVars => EvInv'
  BY EvStep DEF evaluationVars
<1>3. EvInv => LossIsRounding
  BY LossFollows
<1> QED BY <1>1, <1>2, <1>3, PTL DEF EvaluationSpec

\* The simulated fault is recovered whenever it is simulated, and costs no block.
THEOREM EvaluationFault == EvaluationSpec => []FaultRecovered
<1>1. EvaluationIdle => EvInv
  BY EvInit
<1>2. EvInv /\ [EvaluationNext]_evaluationVars => EvInv'
  BY EvStep DEF evaluationVars
<1>3. EvInv => FaultRecovered
  BY FaultFollows
<1> QED BY <1>1, <1>2, <1>3, PTL DEF EvaluationSpec

-------------------------------------------------------------------------------
(* What an accepted report says of the classes.                             *)

\* A block's sum is an integer.
LEMMA ValueInt ==
  ASSUME NEW block \in Seq(Sample)
  PROVE  Value(block) \in Int
<1> DEFINE times == [k \in DOMAIN block |-> block[k].time]
<1>1. DOMAIN block = 1 .. Len(block) /\ Len(block) \in Nat
  OBVIOUS
<1>2. IsFiniteSet(DOMAIN block)
  BY <1>1, FS_Interval
<1>3. DOMAIN times = DOMAIN block
  OBVIOUS
<1>4. \A k \in DOMAIN block : times[k] \in Int
  <2> SUFFICES ASSUME NEW k \in DOMAIN block PROVE times[k] \in Int
    OBVIOUS
  <2>1. block[k] \in Sample
    OBVIOUS
  <2>2. block[k].time \in Nat
    BY <2>1, TraceAssumption DEF Sample
  <2> QED BY <2>2
<1>5. Value(block) = FoldFunction(+, 0, times)
  BY DEF Value
<1> HIDE DEF times
<1>6. Value(block) = SumOn(times, DOMAIN block)
  BY <1>3, <1>5 DEF SumOn, SumFunctionOnSet, FoldFunction
<1> QED BY <1>2, <1>4, <1>6, SumInt

LEMMA FunctionIsSequence ==
  ASSUME NEW n \in Nat, NEW S, NEW s \in [1 .. n -> S]
  PROVE  s \in Seq(S) /\ Len(s) = n
  OBVIOUS

LEMMA ValuesAre ==
  ASSUME NEW all \in Seq(Seq(Sample))
  PROVE  /\ Values(all) \in Seq(Int) /\ Len(Values(all)) = Len(all)
         /\ \A n \in DOMAIN all : Values(all)[n] = Value(all[n])
<1>1. DOMAIN all = 1 .. Len(all) /\ Len(all) \in Nat /\ \A n \in DOMAIN all : all[n] \in Seq(Sample)
  OBVIOUS
<1>2. \A n \in DOMAIN all : Value(all[n]) \in Int
  BY <1>1, ValueInt
<1>3. Values(all) = [n \in 1 .. Len(all) |-> Value(all[n])]
  BY <1>1 DEF Values
<1> DEFINE values == Values(all)
<1>4. DOMAIN values = 1 .. Len(all) /\ \A n \in DOMAIN all : values[n] = Value(all[n])
  <2> HIDE DEF Value
  <2> QED BY <1>1, <1>3
<1>5. values \in [1 .. Len(all) -> Int]
  <2>1. DOMAIN all = 1 .. Len(all)
    BY <1>1
  <2> HIDE DEF Value
  <2> QED BY <1>2, <1>3, <2>1, Zenon
<1> HIDE DEF values
<1>6. values \in Seq(Int) /\ Len(values) = Len(all)
  <2>1. Len(all) \in Nat
    BY <1>1
  <2> QED BY <1>5, <2>1, FunctionIsSequence, Zenon
<1> QED BY <1>4, <1>6 DEF values

\* Of fewer than ten samples a class, five percent is less than one.
LEMMA AcceptedSeparates ==
  ASSUME NEW f \in Seq(Int), NEW r \in Seq(Int), NEW medians, Len(f) = Len(r), Len(f) < 10,
         Acceptable(f, r, medians)
  PROVE  f # <<>> /\ \A k \in DOMAIN f, n \in DOMAIN r : f[k] < r[n]
<1>1. f # <<>> /\ r # <<>> /\ 100 * ClassificationErrors(f, r) <= 5 * (Len(f) + Len(r))
  BY DEF Acceptable
<1>2. /\ ClassificationErrors(f, r) \in Nat
      /\ ClassificationErrors(f, r) = 0 => \A k \in DOMAIN f, n \in DOMAIN r : f[k] < r[n]
  BY <1>1, ErrorsSeparate
<1>3. ClassificationErrors(f, r) = 0
  <2>1. Len(f) \in Nat
    OBVIOUS
  <2> QED BY <1>1, <1>2, <2>1
<1> QED BY <1>1, <1>2, <1>3

\* A good verdict is given once, of the blocks there are then, and they stay.
AcceptedInv ==
  repeatability_ok =>
    /\ ev_phase \in {"report", "done"}
    /\ Acceptable(Values(fixed_all), Values(random_all), run_medians)

LEMMA AcceptedInit == EvaluationIdle => AcceptedInv
BY DEF EvaluationIdle, AcceptedInv

LEMMA AcceptedStays ==
  ASSUME AcceptedInv, UNCHANGED <<blocks, repeatability_ok>>,
         ev_phase \in {"report", "done"} => ev_phase' \in {"report", "done"}
  PROVE  AcceptedInv'
<1>1. fixed_all' = fixed_all /\ random_all' = random_all /\ run_medians' = run_medians
      /\ repeatability_ok' = repeatability_ok
  BY DEF blocks
<1>2. ASSUME repeatability_ok'
      PROVE  /\ ev_phase' \in {"report", "done"}
             /\ Acceptable(Values(fixed_all'), Values(random_all'), run_medians')
  <2>1. /\ ev_phase \in {"report", "done"}
        /\ Acceptable(Values(fixed_all), Values(random_all), run_medians)
    BY <1>1, <1>2, Zenon DEF AcceptedInv
  <2>2. Acceptable(Values(fixed_all'), Values(random_all'), run_medians')
    BY <1>1, <2>1, Zenon
  <2> QED BY <2>1, <2>2, Zenon
<1> QED BY <1>2, Zenon DEF AcceptedInv

LEMMA AcceptedStep ==
  ASSUME AcceptedInv, EvaluationNext \/ UNCHANGED evaluationState
  PROVE  AcceptedInv'
<1>1. CASE AppendBlocks
  <2>1. ev_phase = "average" /\ repeatability_ok' = repeatability_ok
    BY <1>1 DEF AppendBlocks, verdicts
  <2>2. ~repeatability_ok
    BY <2>1 DEF AcceptedInv
  <2> QED BY <2>1, <2>2, Zenon DEF AcceptedInv
<1>2. CASE Evaluate
  <2>1. /\ ev_phase' = "report" /\ UNCHANGED blocks
        /\ repeatability_ok' = Acceptable(Values(fixed_all), Values(random_all), run_medians)
    BY <1>2 DEF Evaluate
  <2>2. fixed_all' = fixed_all /\ random_all' = random_all /\ run_medians' = run_medians
    BY <2>1 DEF blocks
  <2>3. ASSUME repeatability_ok'
        PROVE  Acceptable(Values(fixed_all'), Values(random_all'), run_medians')
    <3>1. Acceptable(Values(fixed_all), Values(random_all), run_medians)
      BY <2>1, <2>3, Zenon
    <3> QED BY <2>2, <3>1, Zenon
  <2> QED BY <2>1, <2>3, Zenon DEF AcceptedInv
<1>3. CASE ~AppendBlocks /\ ~Evaluate
  <2>1. /\ UNCHANGED <<blocks, repeatability_ok>>
        /\ ev_phase \in {"report", "done"} => ev_phase' \in {"report", "done"}
    BY <1>3 DEF EvaluationNext, StartEvaluation, CollectTraces, RecoverCapture, ThrowEvaluation,
                WriteEvaluationReport, verdicts, evaluationState
  <2> QED BY <2>1, AcceptedStays
<1> QED BY <1>1, <1>2, <1>3

LEMMA AcceptedFollows == EvInv /\ AcceptedInv => AcceptedMeansSeparated
<1> SUFFICES ASSUME EvInv, AcceptedInv, Finished, repeatability_ok, Len(fixed_all) < 10
             PROVE  /\ fixed_all # <<>>
                    /\ \A n, m \in DOMAIN fixed_all : Value(fixed_all[n]) < Value(random_all[m])
  BY DEF AcceptedMeansSeparated
<1>1. BlocksInv
  BY DEF EvInv, Finished, Active
<1>2. /\ fixed_all \in Seq(Seq(Sample)) /\ random_all \in Seq(Seq(Sample))
      /\ Len(random_all) = Len(fixed_all)
  BY <1>1 DEF BlocksInv, BlocksOf
<1>3. Acceptable(Values(fixed_all), Values(random_all), run_medians)
  BY Zenon DEF AcceptedInv
<1>4. /\ Values(fixed_all) \in Seq(Int) /\ Values(random_all) \in Seq(Int)
      /\ Len(Values(fixed_all)) = Len(fixed_all) /\ Len(Values(random_all)) = Len(fixed_all)
      /\ \A n \in DOMAIN fixed_all : Values(fixed_all)[n] = Value(fixed_all[n])
      /\ \A n \in DOMAIN random_all : Values(random_all)[n] = Value(random_all[n])
  BY <1>2, ValuesAre
<1>5. /\ Values(fixed_all) # <<>>
      /\ \A k \in DOMAIN Values(fixed_all), n \in DOMAIN Values(random_all) :
           Values(fixed_all)[k] < Values(random_all)[n]
  BY <1>3, <1>4, AcceptedSeparates
<1>6. /\ DOMAIN Values(fixed_all) = DOMAIN fixed_all /\ DOMAIN Values(random_all) = DOMAIN fixed_all
      /\ DOMAIN random_all = DOMAIN fixed_all
  BY <1>2, <1>4
<1>7. fixed_all # <<>>
  BY <1>4, <1>5
<1> QED BY <1>4, <1>5, <1>6, <1>7

\* For every number of runs, length of a trace and window: a report of fewer than twenty
\* samples that meets the acceptance criteria is one of classes that do not overlap.
THEOREM EvaluationAccepted == EvaluationSpec => []AcceptedMeansSeparated
<1>1. EvaluationIdle => EvInv /\ AcceptedInv
  BY EvInit, AcceptedInit
<1>2. EvInv /\ AcceptedInv /\ [EvaluationNext]_evaluationVars => EvInv' /\ AcceptedInv'
  BY EvStep, AcceptedStep DEF evaluationVars
<1>3. EvInv /\ AcceptedInv => AcceptedMeansSeparated
  BY AcceptedFollows
<1> QED BY <1>1, <1>2, <1>3, PTL DEF EvaluationSpec

-------------------------------------------------------------------------------
(* DefensiveLab: what is counted of the runs.                               *)

\* Counts of n runs, exact of them exact, of correct right bytes in all.
Counting(n, exact, correct, per) ==
  /\ n \in Nat /\ exact \in Nat /\ correct \in Nat /\ per \in [Secret -> Nat]
  /\ correct = SumOn(per, Secret)
  /\ \A byte \in Secret : exact <= per[byte] /\ per[byte] <= n
  /\ n * SecretLength - correct >= n - exact

\* What one run adds to the counts: the bytes it gets right.
Counted1(per, right) == [byte \in Secret |-> per[byte] + (IF byte \in right THEN 1 ELSE 0)]

LEMMA RunCounted ==
  ASSUME NEW n, NEW exact, NEW correct, NEW per, Counting(n, exact, correct, per),
         NEW right \in SUBSET Secret, NEW exactly \in {0, 1}, exactly = 1 <=> right = Secret
  PROVE  Counting(n + 1, exact + exactly, correct + Cardinality(right), Counted1(per, right))
<1> DEFINE after == Counted1(per, right)
<1>0. /\ n \in Nat /\ exact \in Nat /\ correct \in Nat /\ per \in [Secret -> Nat]
      /\ correct = SumOn(per, Secret)
      /\ \A byte \in Secret : exact <= per[byte] /\ per[byte] <= n
      /\ n * SecretLength - correct >= n - exact
      /\ after = [byte \in Secret |-> per[byte] + (IF byte \in right THEN 1 ELSE 0)]
  BY DEF Counting, Counted1
<1> HIDE DEF after
<1>1. IsFiniteSet(Secret) /\ Cardinality(Secret) = SecretLength /\ SecretLength \in Nat \ {0}
  BY SecretAssumption, FS_Interval DEF Secret
<1>2. /\ IsFiniteSet(right) /\ Cardinality(right) \in Nat /\ Cardinality(right) <= SecretLength
      /\ Cardinality(right) = SecretLength => right = Secret
  BY <1>1, FS_Subset, FS_CardinalityType
<1>3. after \in [Secret -> Nat]
  BY <1>0
<1>4. SumOn(after, Secret) = SumOn(per, Secret) + Cardinality(Secret \intersect right)
  <2>1. \A byte \in Secret : per[byte] \in Int
    BY <1>0
  <2>2. \A byte \in Secret : after[byte] = per[byte] + (IF byte \in right THEN 1 ELSE 0)
    BY <1>0
  <2> QED BY <1>1, <2>1, <2>2, SumCounted
<1>5. Secret \intersect right = right
  OBVIOUS
<1>6. \A byte \in Secret : exact + exactly <= after[byte] /\ after[byte] <= n + 1
  <2> SUFFICES ASSUME NEW byte \in Secret
               PROVE  exact + exactly <= after[byte] /\ after[byte] <= n + 1
    OBVIOUS
  <2>1. CASE byte \in right
    <3>1. after[byte] = per[byte] + 1 /\ per[byte] \in Nat
      BY <1>0, <2>1
    <3> QED BY <1>0, <3>1
  <2>2. CASE byte \notin right
    <3>1. after[byte] = per[byte] /\ per[byte] \in Nat
      BY <1>0, <2>2
    <3>2. exactly = 0
      BY <2>2
    <3> QED BY <1>0, <3>1, <3>2
  <2> QED BY <2>1, <2>2
<1>7. (n + 1) * SecretLength - (correct + Cardinality(right)) >= (n + 1) - (exact + exactly)
  <2>1. (n + 1) * SecretLength = n * SecretLength + SecretLength
    BY <1>0, <1>1
  <2>2. n * SecretLength \in Nat
    BY <1>0, <1>1, ProductNat
  <2>3. SecretLength - Cardinality(right) >= 1 - exactly
    BY <1>1, <1>2
  <2> QED BY <1>0, <1>1, <1>2, <2>1, <2>2, <2>3
<1>8. Counting(n + 1, exact + exactly, correct + Cardinality(right), after)
  <2>1. n + 1 \in Nat /\ exact + exactly \in Nat /\ correct + Cardinality(right) \in Nat
    BY <1>0, <1>2
  <2>2. correct + Cardinality(right) = SumOn(after, Secret)
    BY <1>0, <1>4, <1>5
  <2> QED BY <1>3, <1>6, <1>7, <2>1, <2>2, Zenon DEF Counting
<1> QED BY <1>8 DEF after

LabInv == Counting(lab_run, exact_matches, correct_bytes, per_byte_correct_runs)

LEMMA LabInit == LabIdle => LabInv
<1> SUFFICES ASSUME LabIdle PROVE LabInv
  OBVIOUS
<1>1. /\ lab_run = 0 /\ exact_matches = 0 /\ correct_bytes = 0
      /\ per_byte_correct_runs = [byte \in Secret |-> 0]
  BY DEF LabIdle
<1>2. IsFiniteSet(Secret) /\ Cardinality(Secret) \in Nat
  BY SecretAssumption, FS_Interval, FS_CardinalityType DEF Secret
<1>3. SumOn(per_byte_correct_runs, Secret) = 0
  <2>1. \A byte \in Secret :
          /\ per_byte_correct_runs[byte] \in Int
          /\ 0 <= per_byte_correct_runs[byte] /\ per_byte_correct_runs[byte] <= 0
    BY <1>1
  <2>2. /\ Cardinality(Secret) * 0 <= SumOn(per_byte_correct_runs, Secret)
        /\ SumOn(per_byte_correct_runs, Secret) <= Cardinality(Secret) * 0
    BY <1>2, <2>1, SumBounds
  <2>3. SumOn(per_byte_correct_runs, Secret) \in Int
    BY <1>2, <2>1, SumInt
  <2> QED BY <1>2, <2>2, <2>3
<1> QED BY <1>1, <1>3, SecretAssumption DEF LabInv, Counting

LEMMA LabCounts ==
  ASSUME LabInv, ReliabilityRun
  PROVE  LabInv'
<1>1. PICK right \in SUBSET Secret :
        /\ exact_matches' = exact_matches + (IF Exact(right) THEN 1 ELSE 0)
        /\ correct_bytes' = correct_bytes + Cardinality(right)
        /\ per_byte_correct_runs' = [byte \in Secret |->
             per_byte_correct_runs[byte] + (IF byte \in right THEN 1 ELSE 0)]
  BY DEF ReliabilityRun
<1> DEFINE exactly == IF Exact(right) THEN 1 ELSE 0
<1>2. exactly \in {0, 1} /\ (exactly = 1 <=> right = Secret)
  BY DEF Exact
<1>3. lab_run' = lab_run + 1
  BY DEF ReliabilityRun
<1> HIDE DEF exactly
<1>4. exact_matches' = exact_matches + exactly
  BY <1>1 DEF exactly
<1>5. per_byte_correct_runs' = Counted1(per_byte_correct_runs, right)
  BY <1>1 DEF Counted1
<1>6. Counting(lab_run + 1, exact_matches + exactly, correct_bytes + Cardinality(right),
               Counted1(per_byte_correct_runs, right))
  BY <1>1, <1>2, RunCounted DEF LabInv
<1> QED BY <1>1, <1>3, <1>4, <1>5, <1>6 DEF LabInv

LEMMA LabStutter ==
  ASSUME LabInv, UNCHANGED <<lab_run, recovery>>
  PROVE  LabInv'
BY DEF LabInv, recovery

LEMMA LabStep ==
  ASSUME LabInv, [LabNext]_labVars
  PROVE  LabInv'
<1>1. CASE ReliabilityRun
  BY <1>1, LabCounts
<1>2. CASE ~ReliabilityRun
  <2>1. UNCHANGED <<lab_run, recovery>>
    BY <1>2 DEF LabNext, RunDemo, StartLab, EndRuns, CountAlerts, ThrowLab, WriteLabReport,
                labVars, labState
  <2> QED BY <2>1, LabStutter
<1> QED BY <1>1, <1>2

LEMMA CountsFollow == LabInv => CountsAgree
<1> SUFFICES ASSUME LabInv PROVE CountsAgree
  OBVIOUS
<1>1. DOMAIN per_byte_correct_runs = Secret
  BY DEF LabInv, Counting
<1>2. FoldFunction(+, 0, per_byte_correct_runs) = SumOn(per_byte_correct_runs, Secret)
  BY <1>1 DEF SumOn, SumFunctionOnSet, FoldFunction
<1> QED BY <1>2 DEF LabInv, Counting, CountsAgree

\* However many runs, of a secret of whatever length, and whatever bytes they get right: the
\* bytes' counts add up to correct_bytes, a byte is right in every exact run, and each of
\* the other runs has a byte that is wrong.
THEOREM LabCountsAgree == LabSpec => []CountsAgree
<1>1. LabIdle => LabInv
  BY LabInit
<1>2. LabInv /\ [LabNext]_labVars => LabInv'
  BY LabStep
<1>3. LabInv => CountsAgree
  BY CountsFollow
<1> QED BY <1>1, <1>2, <1>3, PTL DEF LabSpec
===============================================================================
