------------------------------- MODULE Statistics ------------------------------
(***************************************************************************)
(* Statistics::summarize, the summary every benchmark reports: quantiles   *)
(* that are interpolated between the two nearest of the sorted samples.    *)
(* The samples are those the behaviours of Evaluation collect; its median  *)
(* is the other one of the program, and the two can be compared.  As       *)
(* there, fractions are multiplied out: a quantile is a hundredfold one.   *)
(***************************************************************************)
EXTENDS Evaluation

\* std::sort
Sorted(samples) == [k \in DOMAIN samples |-> Ranked(samples, k)]

\* Mutant: the weights are exchanged.
WeightsExchanged(low, high, weight) == low * weight + high * (100 - weight)

Interpolated(low, high, weight) == low * (100 - weight) + high * weight

\* The index below the position of a quantile, and what is left of the position.
Lower(sorted, percent) == 1 + (percent * (Len(sorted) - 1)) \div 100
Weight(sorted, percent) == (percent * (Len(sorted) - 1)) % 100

\* quantile, of q = percent / 100.
Quantile(sorted, percent) ==
  LET lower == Lower(sorted, percent)
      weight == Weight(sorted, percent)
  IN  IF sorted = <<>> THEN 0
      ELSE IF weight = 0 THEN 100 * sorted[lower]
      ELSE Interpolated(sorted[lower], sorted[lower + 1], weight)

Summary(samples) ==
  LET sorted == Sorted(samples)
      n == Len(samples)
  IN  [count |-> n, sum |-> Sum(samples),
       median |-> Quantile(sorted, 50), p95 |-> Quantile(sorted, 95), p99 |-> Quantile(sorted, 99),
       min |-> IF n = 0 THEN 0 ELSE sorted[1], max |-> IF n = 0 THEN 0 ELSE sorted[n],
       spread |-> IF n < 2 THEN 0 ELSE Spread(samples)]

-------------------------------------------------------------------------------
(* Properties.                                                             *)

\* tests/statistics_test.cpp asserts the summary of one list of samples.  Of every list, the
\* columns of a report are ordered as their names say, the mean is one of what lies
\* between, there is a deviation exactly when the samples are not all the same, and the
\* median is the one median_of computes for the evaluation lab without interpolation.
SummaryCoherent ==
  LET s == Summary(fixed)
  IN  /\ 100 * s.min <= s.median /\ s.median <= s.p95 /\ s.p95 <= s.p99 /\ s.p99 <= 100 * s.max
      /\ s.count * s.min <= s.sum /\ s.sum <= s.count * s.max
      /\ s.spread = 0 <=> s.min = s.max
      /\ 2 * s.median = 100 * Median2(fixed)
===============================================================================
