--------------------------------- MODULE Timer ---------------------------------
(***************************************************************************)
(* Timer::calibrate_tsc_hz, Timer::measure_overhead_cycles and one timed   *)
(* batch, on a machine whose scheduler may move the thread to another CPU  *)
(* between any two instructions: main only warns when it cannot pin the    *)
(* thread.  Each CPU has a time stamp counter of its own.  The counters    *)
(* run at the same rate and may be apart, and RDTSCP reads a counter       *)
(* together with the number of its CPU.                                    *)
(*                                                                         *)
(* Time is counted in ticks, modulo the width of a counter; the rate that  *)
(* calibration should find is one tick of the counter per tick of the      *)
(* clock.  A rate is the pair of its dividend and its divisor.             *)
(***************************************************************************)
EXTENDS Metrics

CONSTANTS
  TimerCpus,        \* the CPUs the thread may run on while it is not pinned
  Ahead,            \* how far each CPU's counter is ahead of the clock
  CounterModulus,   \* 2^64
  CalibrationRounds, CalibrationInterval,  \* Config::TSC_CALIBRATION_ROUNDS and _MS
  OverheadSamples,  \* 2000
  MaxDelay,         \* the longest two neighbouring instructions are apart
  MaxBatch          \* the longest a timed batch takes

ASSUME TimerAssumption ==
  /\ Ahead \in [TimerCpus -> 0 .. CounterModulus - 1]
  /\ CalibrationRounds \in Nat \ {0} /\ CalibrationInterval \in Nat \ {0}
  /\ OverheadSamples \in Nat \ {0} /\ MaxDelay \in Nat /\ MaxBatch \in Nat
  /\ CounterModulus \in Nat
  /\ CounterModulus > CalibrationInterval + 3 * MaxDelay /\ CounterModulus > MaxBatch

VARIABLES
  now,                 \* CLOCK_MONOTONIC_RAW
  cpu, pinned,         \* where the thread is, and whether it has to stay there
  clock_works,         \* clock_gettime succeeds
  tpc,                 \* the next step of the thread
  n,                   \* rounds or samples done
  ns_start, tsc_start, aux_start, tsc_end, aux_end,  \* the stamps taken
  estimates, tsc_hz,   \* the rates of the rounds, and the one returned
  values, overhead,    \* the samples of the overhead, and the one returned
  net,                 \* the cycles reported of the batch
  began, moved,        \* when the last start stamp was taken, and whether the thread was
                       \* moved since
  spoiled              \* samples of the overhead the thread was moved in

stamps == <<ns_start, tsc_start, aux_start, tsc_end, aux_end>>
results == <<estimates, tsc_hz, values, overhead, net>>

\* The stamps go with the scope they were taken in.
NoStamps == /\ ns_start' = 0 /\ tsc_start' = 0 /\ aux_start' = 0 /\ tsc_end' = 0 /\ aux_end' = 0
observed == <<began, moved, spoiled>>
machine == <<now, cpu, pinned, clock_works>>
vars == <<machine, tpc, n, stamps, results, observed>>

Since(start, end) == (end - start) % CounterModulus
Tsc == (now + Ahead[cpu]) % CounterModulus
Passes(durations) ==
  /\ \E ticks \in durations : now' = (now + ticks) % CounterModulus
  /\ UNCHANGED <<cpu, pinned, clock_works>>
Delay == Passes(0 .. MaxDelay)

Init ==
  /\ now = 0 /\ cpu \in TimerCpus /\ pinned \in BOOLEAN /\ clock_works \in BOOLEAN
  /\ tpc = "round" /\ n = 0
  /\ ns_start = 0 /\ tsc_start = 0 /\ aux_start = 0 /\ tsc_end = 0 /\ aux_end = 0
  /\ estimates = <<>> /\ tsc_hz = <<0, 0>> /\ values = <<>> /\ overhead = 0 /\ net = 0
  /\ began = 0 /\ moved = FALSE /\ spoiled = 0

\* The scheduler.
Migrate ==
  /\ ~pinned /\ tpc \notin {"returned", "thrown"}
  /\ cpu' \in TimerCpus \ {cpu} /\ moved' = TRUE
  /\ UNCHANGED <<now, pinned, clock_works, tpc, n, stamps, results, began, spoiled>>

-------------------------------------------------------------------------------
(* calibrate_tsc_hz.                                                       *)

StartRound ==
  /\ tpc = "round" /\ n < CalibrationRounds
  /\ IF clock_works
       THEN ns_start' = now /\ Delay /\ tpc' = "tsc start"
       ELSE tpc' = "thrown" /\ UNCHANGED <<machine, ns_start>>
  /\ UNCHANGED <<n, tsc_start, aux_start, tsc_end, aux_end, results, observed>>

StartSleep ==
  /\ tpc = "tsc start"
  /\ tsc_start' = Tsc /\ aux_start' = cpu
  /\ Passes(CalibrationInterval .. CalibrationInterval + MaxDelay)
  /\ tpc' = "tsc end"
  /\ UNCHANGED <<n, ns_start, tsc_end, aux_end, results, observed>>

EndSleep ==
  /\ tpc = "tsc end"
  /\ tsc_end' = Tsc /\ aux_end' = cpu
  /\ Delay
  /\ tpc' = "ns end"
  /\ UNCHANGED <<n, ns_start, tsc_start, aux_start, results, observed>>

\* Mutant: the CPUs of the stamps are not compared.
EveryRoundKept ==
  /\ tpc = "ns end"
  /\ LET elapsed_ns == Since(ns_start, now)
     IN  estimates' = IF elapsed_ns = 0 THEN estimates
                      ELSE Append(estimates, <<Since(tsc_start, tsc_end), elapsed_ns>>)
  /\ n' = n + 1 /\ tpc' = "round" /\ NoStamps
  /\ UNCHANGED <<machine, tsc_hz, values, overhead, net, observed>>

\* A round whose stamps are of two CPUs is dropped.
EndRound ==
  /\ tpc = "ns end"
  /\ LET elapsed_ns == Since(ns_start, now)
     IN  estimates' = IF elapsed_ns = 0 \/ aux_start # aux_end THEN estimates
                      ELSE Append(estimates, <<Since(tsc_start, tsc_end), elapsed_ns>>)
  /\ n' = n + 1 /\ tpc' = "round" /\ NoStamps
  /\ UNCHANGED <<machine, tsc_hz, values, overhead, net, observed>>

Slower(a, b) == a[1] * b[2] < b[1] * a[2]

\* What sorting puts in place k of the rates; rates may be equal as fractions.
RankedRate(rates, k) ==
  LET upTo(v) == Cardinality({j \in DOMAIN rates : ~Slower(v, rates[j])})
      below(v) == Cardinality({j \in DOMAIN rates : Slower(rates[j], v)})
  IN  CHOOSE v \in Range(rates) : below(v) < k /\ k <= upTo(v)

\* The rate in the middle of the sorted ones, or an exception when there is none.
EndCalibration ==
  /\ tpc = "round" /\ n = CalibrationRounds
  /\ IF estimates = <<>>
       THEN tpc' = "thrown" /\ UNCHANGED tsc_hz
       ELSE tpc' = "sample" /\ tsc_hz' = RankedRate(estimates, Len(estimates) \div 2 + 1)
  /\ n' = 0 /\ estimates' = <<>>
  /\ UNCHANGED <<machine, stamps, values, overhead, net, observed>>

-------------------------------------------------------------------------------
(* measure_overhead_cycles, and a batch it is subtracted from.             *)

TakeStart(phase) ==
  /\ tsc_start' = Tsc /\ began' = now /\ moved' = FALSE
  /\ tpc' = phase
  /\ UNCHANGED <<n, ns_start, aux_start, tsc_end, aux_end, results, spoiled>>

StartSample == tpc = "sample" /\ n < OverheadSamples /\ TakeStart("sample end") /\ Delay

EndSample ==
  /\ tpc = "sample end"
  /\ values' = Append(values, Since(tsc_start, Tsc))
  /\ spoiled' = spoiled + (IF moved THEN 1 ELSE 0)
  /\ n' = n + 1 /\ tpc' = "sample"
  /\ UNCHANGED <<machine, stamps, estimates, tsc_hz, overhead, net, began, moved>>

\* Mutant: the samples are not sorted.
EndOverheadUnsorted ==
  /\ tpc = "sample" /\ n = OverheadSamples
  /\ overhead' = values[Len(values) \div 2 + 1]
  /\ tpc' = "batch" /\ values' = <<>>
  /\ UNCHANGED <<machine, n, stamps, estimates, tsc_hz, net, observed>>

EndOverhead ==
  /\ tpc = "sample" /\ n = OverheadSamples
  /\ overhead' = Ranked(values, Len(values) \div 2 + 1)
  /\ tpc' = "batch" /\ values' = <<>>
  /\ UNCHANGED <<machine, n, stamps, estimates, tsc_hz, net, observed>>

StartBatch == tpc = "batch" /\ TakeStart("batch end") /\ Passes(0 .. MaxBatch)

\* subtract_overhead
SubtractOverhead(elapsed) == IF elapsed > overhead THEN elapsed - overhead ELSE 0

EndBatch ==
  /\ tpc = "batch end"
  /\ net' = SubtractOverhead(Since(tsc_start, Tsc))
  /\ tpc' = "returned"
  /\ UNCHANGED <<machine, n, stamps, estimates, tsc_hz, values, overhead, observed>>

Over == tpc \in {"returned", "thrown"} /\ UNCHANGED vars

Next ==
  \/ Migrate
  \/ StartRound \/ StartSleep \/ EndSleep \/ EndRound \/ EndCalibration
  \/ StartSample \/ EndSample \/ EndOverhead
  \/ StartBatch \/ EndBatch
  \/ Over

Spec == Init /\ [][Next]_vars

-------------------------------------------------------------------------------
(* Properties.                                                             *)

\* Wherever the scheduler moves the thread, the rate that is returned is of one counter: it
\* is not above the true one and misses at most the two gaps between a clock and a counter
\* stamp.  A pinned thread always gets one, from all of its rounds.
CalibrationSound ==
  /\ tsc_hz # <<0, 0>> =>
       /\ tsc_hz[2] >= CalibrationInterval
       /\ tsc_hz[1] <= tsc_hz[2] /\ tsc_hz[2] - tsc_hz[1] <= 2 * MaxDelay
  /\ pinned /\ clock_works =>
       tpc # "thrown" /\ (tpc = "round" => Len(estimates) = n)

\* As long as the thread was moved in less than half of the samples of the overhead, a batch
\* it was not moved in is reported with what it took, less at most one gap between two
\* stamps: no sample of two counters decides, and the difference never falls below zero.
BatchSound ==
  tpc = "returned" /\ ~moved /\ 2 * spoiled < OverheadSamples =>
    LET took == Since(began, now)
    IN  net \in 0 .. took /\ took - net <= MaxDelay
===============================================================================
