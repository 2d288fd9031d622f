-------------------------------- MODULE Metrics --------------------------------
(***************************************************************************)
(* The statistics of the evaluation lab: outlier rejection by the median   *)
(* absolute deviation, the threshold classifier, the signal-to-noise ratio *)
(* and Welch's t-test, as operators on the samples of a class or of two.   *)
(*                                                                         *)
(* Samples are whole nanoseconds.  Fractions are avoided by multiplying    *)
(* out: a mean is a sum and a count, a median and a deviation are doubled, *)
(* and comparisons are cross-multiplied, so that all of them are exact.    *)
(***************************************************************************)
EXTENDS Integers, Sequences, FiniteSets, Functions

Sum(samples) == FoldFunction(+, 0, samples)
SumOfSquares(samples) == FoldFunction(+, 0, [k \in DOMAIN samples |-> samples[k] * samples[k]])
Distance(a, b) == IF a >= b THEN a - b ELSE b - a

\* The k-th smallest sample, what sorting puts in place k.
Ranked(samples, k) ==
  LET upTo(v) == Cardinality({j \in DOMAIN samples : samples[j] <= v})
      below(v) == Cardinality({j \in DOMAIN samples : samples[j] < v})
  IN  CHOOSE v \in Range(samples) : below(v) < k /\ k <= upTo(v)

\* median_of, doubled: the middle sample, or the sum of the two in the middle.
Median2(samples) ==
  LET middle == Len(samples) \div 2
  IN  IF samples = <<>> THEN 0
      ELSE IF Len(samples) % 2 = 0
        THEN Ranked(samples, middle) + Ranked(samples, middle + 1)
        ELSE 2 * Ranked(samples, middle + 1)

-------------------------------------------------------------------------------
(* remove_mad_outliers and robust_metrics.                                 *)

\* Every sample's distance from the median, doubled, and their median, doubled again.
Deviation2(samples) ==
  LET median == Median2(samples)
  IN  [k \in DOMAIN samples |-> Distance(2 * samples[k], median)]

\* Mutant: the mean of the deviations in place of their median.
MeanDeviation4(samples) ==
  IF samples = <<>> THEN 0 ELSE (2 * Sum(Deviation2(samples))) \div Len(samples)

Mad4(samples) == Median2(Deviation2(samples))

\* Fewer than five samples, or half of them equal, are left as they are.
Unfiltered(samples) == Len(samples) < 5 \/ Mad4(samples) = 0

\* Mutant: the threshold and the scale are forgotten, and the border is left out.
BelowMad(deviation, mad) == 2 * deviation < mad

\* Within 3.5 * 1.4826 median absolute deviations of the median.
WithinMad(deviation, mad) == 20000 * deviation <= 51891 * mad

RemoveMadOutliers(samples) ==
  IF Unfiltered(samples) THEN samples
  ELSE LET deviations == Deviation2(samples)
           mad == Mad4(samples)
           kept == {k \in DOMAIN samples : WithinMad(deviations[k], mad)}
       IN  [n \in 1 .. Cardinality(kept) |->
              samples[CHOOSE k \in kept : Cardinality({j \in kept : j <= k}) = n]]

KeptCount(samples) == Len(RemoveMadOutliers(samples))
RejectedCount(samples) == Len(samples) - KeptCount(samples)

-------------------------------------------------------------------------------
(* classification_error_rate, snr_linear and welch_tvla.                   *)

\* Half way between the means of f and r, the kept samples: a sample above it counts as
\* random, any other as fixed.
AboveThreshold(value, f, r) ==
  2 * value * Len(f) * Len(r) > Sum(f) * Len(r) + Sum(r) * Len(f)

\* Mutant: a sample on the threshold is never an error.
StrictRandomErrors(a, b) ==
  LET f == RemoveMadOutliers(a)
      r == RemoveMadOutliers(b)
  IN  {k \in DOMAIN b : 2 * b[k] * Len(f) * Len(r) < Sum(f) * Len(r) + Sum(r) * Len(f)}

\* The samples that lie on the other class's side.
FixedErrors(a, b) ==
  LET f == RemoveMadOutliers(a)
      r == RemoveMadOutliers(b)
  IN  {k \in DOMAIN a : AboveThreshold(a[k], f, r)}
RandomErrors(a, b) ==
  LET f == RemoveMadOutliers(a)
      r == RemoveMadOutliers(b)
  IN  {k \in DOMAIN b : ~AboveThreshold(b[k], f, r)}

\* The errors among all samples; when a class is empty everything is one.
ClassificationErrors(a, b) ==
  IF a = <<>> \/ b = <<>>
    THEN Len(a) + Len(b)
    ELSE Cardinality(FixedErrors(a, b)) + Cardinality(RandomErrors(a, b))

\* n^2 (n - 1) times the squared standard error of a mean of n samples.
Spread(samples) == Len(samples) * SumOfSquares(samples) - Sum(samples) * Sum(samples)

\* The squared difference of the means and their squared standard error, over the same
\* denominator.
WelchSignal(a, b) ==
  LET difference == Distance(Sum(a) * Len(b), Sum(b) * Len(a))
  IN  difference * difference * (Len(a) - 1) * (Len(b) - 1)

\* Mutant: both variances are divided by the count of the first class.
NoiseOfOneCount(a, b) ==
  Spread(a) * (Len(b) - 1) * Len(b) * Len(b) + Spread(b) * (Len(a) - 1) * Len(a) * Len(b)

WelchNoise(a, b) ==
  Spread(a) * (Len(b) - 1) * Len(b) * Len(b) + Spread(b) * (Len(a) - 1) * Len(a) * Len(a)

\* The ratio of snr_linear, squared, of the kept samples: the squared difference of the
\* means and the mean of the variances, over the same denominator.
SnrSignal(f, r) == 2 * WelchSignal(f, r)
SnrNoise(f, r) ==
  Len(f) * Len(r) *
    (Spread(f) * (Len(r) - 1) * Len(r) + Spread(r) * (Len(f) - 1) * Len(f))

\* snr_linear is 0 unless the kept samples of a class vary and the means differ.
HasSnr(a, b) ==
  LET f == RemoveMadOutliers(a)
      r == RemoveMadOutliers(b)
  IN  /\ Len(f) >= 2 /\ Len(r) >= 2
      /\ SnrNoise(f, r) > 0
      /\ SnrSignal(f, r) > 0

\* |t| >= 4.5, of classes that have an error to compare with.
ThresholdExceeded(a, b) ==
  /\ Len(a) >= 2 /\ Len(b) >= 2
  /\ WelchNoise(a, b) > 0
  /\ 4 * WelchSignal(a, b) >= 81 * WelchNoise(a, b)
===============================================================================
