----------------------------- MODULE EvaluationLab -----------------------------
(***************************************************************************)
(* EvaluationLab::run: for each run a trace of timings is collected of the *)
(* fixed and of the random class, in the first run an incomplete capture   *)
(* is simulated and repaired, the traces are averaged in blocks, cut to    *)
(* the same length and appended to what the runs before have left; the     *)
(* verdicts are on all of that.                                            *)
(*                                                                         *)
(* Every timing keeps the run and the shot it comes from, so that what is  *)
(* compared with what can be told.  An average is represented by the sum   *)
(* of its block: all blocks have the same size, and no verdict depends on  *)
(* the scale.                                                              *)
(***************************************************************************)
EXTENDS ReportFile, Metrics

CONSTANTS
  Timings,      \* what a timing may be, in nanoseconds
  FaultLength   \* the timings the simulated fault costs, 8 in the code

ASSUME TraceAssumption == Timings \subseteq Nat /\ FaultLength \in Nat \ {0}

VARIABLES
  ev_phase,     \* "idle", "collect", "fault", "average", "report", "done" or "thrown"
  runs, trace_samples, averaging_window,  \* the parameters of the call
  run,          \* the loop's variable
  fixed, random,             \* the traces of the run
  fixed_all, random_all,     \* the blocks of all runs
  run_medians,               \* twice the median of each run's fixed blocks
  simulated_capture_faults, recovered_captures,
  repeatability_ok, leakage_detected,
  ev_written                 \* report_written

parameters == <<runs, trace_samples, averaging_window>>
traces == <<fixed, random>>
blocks == <<fixed_all, random_all, run_medians>>
captures == <<simulated_capture_faults, recovered_captures>>
verdicts == <<repeatability_ok, leakage_detected>>
evaluationState ==
  <<ev_phase, parameters, run, traces, blocks, captures, verdicts, ev_written>>
evaluationVars == <<report, evaluationState>>

EvaluationIdle ==
  /\ ev_phase = "idle" /\ runs = 0 /\ trace_samples = 0 /\ averaging_window = 0
  /\ run = 0 /\ fixed = <<>> /\ random = <<>>
  /\ fixed_all = <<>> /\ random_all = <<>> /\ run_medians = <<>>
  /\ simulated_capture_faults = 0 /\ recovered_captures = 0
  /\ repeatability_ok = FALSE /\ leakage_detected = FALSE /\ ev_written = FALSE

StartEvaluation(r, s, w, path) ==
  /\ ev_phase = "idle"
  /\ runs' = r /\ trace_samples' = s /\ averaging_window' = w
  /\ ev_phase' = IF r <= 0 \/ s <= 0 \/ w = 0 \/ path = "" THEN "done" ELSE "collect"
  /\ UNCHANGED <<report, run, traces, blocks, captures, verdicts, ev_written>>

\* collect_trace: count timings, the first of them shot number first.
Collected(count, first) ==
  { [k \in 1 .. count |-> [run |-> run, shot |-> first + k - 1, time |-> times[k]]] :
    times \in [1 .. count -> Timings] }

CollectTraces ==
  /\ ev_phase = "collect" /\ run < runs
  /\ fixed' \in Collected(trace_samples, 1)
  /\ random' \in Collected(trace_samples, 1)
  /\ ev_phase' = IF run = 0 /\ trace_samples > FaultLength THEN "fault" ELSE "average"
  /\ UNCHANGED <<report, parameters, run, blocks, captures, verdicts, ev_written>>

\* Mutant: what is captured again replaces the whole trace.
RecaptureOnly ==
  /\ ev_phase = "fault"
  /\ fixed' \in Collected(FaultLength, trace_samples + 1)
  /\ simulated_capture_faults' = simulated_capture_faults + 1
  /\ recovered_captures' =
       recovered_captures + (IF Len(fixed') = trace_samples THEN 1 ELSE 0)
  /\ ev_phase' = "average"
  /\ UNCHANGED <<report, parameters, run, random, blocks, verdicts, ev_written>>

\* The end of the fixed trace is lost and collected again.
RecoverCapture ==
  /\ ev_phase = "fault"
  /\ \E again \in Collected(FaultLength, trace_samples + 1) :
       fixed' = SubSeq(fixed, 1, Len(fixed) - FaultLength) \o again
  /\ simulated_capture_faults' = simulated_capture_faults + 1
  /\ recovered_captures' =
       recovered_captures + (IF Len(fixed') = trace_samples THEN 1 ELSE 0)
  /\ ev_phase' = "average"
  /\ UNCHANGED <<report, parameters, run, random, blocks, verdicts, ev_written>>

\* Mutant: the blocks overlap.
SlidingBlocks(samples, window) ==
  [n \in 1 .. Len(samples) \div window |-> SubSeq(samples, n, n + window - 1)]

\* average_blocks: whole blocks of the window's size, what is left over is dropped.
AverageBlocks(samples, window) ==
  [n \in 1 .. Len(samples) \div window |-> SubSeq(samples, (n - 1) * window + 1, n * window)]

\* align_samples: as much of the first as there is of both.
AlignSamples(first, second) ==
  SubSeq(first, 1, IF Len(first) <= Len(second) THEN Len(first) ELSE Len(second))

\* The block's sum stands for its average.
Value(block) == FoldFunction(+, 0, [k \in DOMAIN block |-> block[k].time])
Values(all) == [n \in DOMAIN all |-> Value(all[n])]

\* Mutant: a run without a whole block is tried again.
RetryEmptyRun ==
  /\ ev_phase = "average"
  /\ LET f == AverageBlocks(fixed, averaging_window)
     IN  IF f = <<>>
           THEN UNCHANGED <<blocks, run>>
           ELSE /\ fixed_all' = fixed_all \o f
                /\ random_all' = random_all \o AverageBlocks(random, averaging_window)
                /\ run_medians' = Append(run_medians, Median2(Values(f)))
                /\ run' = run + 1
  /\ ev_phase' = "collect"
  /\ UNCHANGED <<report, parameters, traces, captures, verdicts, ev_written>>

\* The rest of a run: a run without a whole block leaves nothing.
AppendBlocks ==
  /\ ev_phase = "average"
  /\ LET f == AverageBlocks(fixed, averaging_window)
         r == AverageBlocks(random, averaging_window)
         aligned_fixed == AlignSamples(f, r)
         aligned_random == SubSeq(r, 1, Len(aligned_fixed))
     IN  IF aligned_fixed = <<>>
           THEN UNCHANGED blocks
           ELSE /\ fixed_all' = fixed_all \o aligned_fixed
                /\ random_all' = random_all \o aligned_random
                /\ run_medians' =
                     Append(run_medians, Median2(Values(aligned_fixed)))
  /\ run' = run + 1 /\ ev_phase' = "collect"
  /\ UNCHANGED <<report, parameters, traces, captures, verdicts, ev_written>>

\* Mutant: the averaging is forgotten.
RequestedTimings == runs * trace_samples

RequestedPairs == (runs * trace_samples) \div averaging_window

\* repeatability_cv, at most 10%; it is 0 of less than two runs and of a mean of 0.
Repeatable(medians) ==
  \/ Len(medians) < 2
  \/ LET n == Len(medians)
         sum == Sum(medians)
     IN  sum = 0 \/ 100 * n * Spread(medians) <= (n - 1) * sum * sum

\* Mutant: the repeatability alone decides.
RepeatableOnly(f, r, medians) == Repeatable(medians)

\* ... and at most 5% of the samples classified wrongly; all of no samples are wrong.
Acceptable(f, r, medians) ==
  /\ Repeatable(medians)
  /\ f # <<>> /\ r # <<>>
  /\ 100 * ClassificationErrors(f, r) <= 5 * (Len(f) + Len(r))

\* A threshold is crossed by the samples as they are or by those without outliers.
Leakage(f, r) ==
  \/ ThresholdExceeded(f, r)
  \/ ThresholdExceeded(RemoveMadOutliers(f), RemoveMadOutliers(r))

Evaluate ==
  /\ ev_phase = "collect" /\ run = runs
  /\ repeatability_ok' = Acceptable(Values(fixed_all), Values(random_all), run_medians)
  /\ leakage_detected' = Leakage(Values(fixed_all), Values(random_all))
  /\ ev_phase' = "report"
  /\ UNCHANGED <<report, parameters, run, traces, blocks, captures, ev_written>>

WriteEvaluationReport(path) ==
  /\ ev_phase = "report"
  /\ ev_phase' = "done"
  /\ WriteReport(path, ev_written')
  /\ UNCHANGED <<parameters, run, traces, blocks, captures, verdicts>>

\* A vector cannot grow, or the clock cannot be read: the exception leaves the lab.
ThrowEvaluation ==
  /\ ev_phase \in {"collect", "fault", "average"}
  /\ ev_phase' = "thrown"
  /\ UNCHANGED <<report, parameters, run, traces, blocks, captures, verdicts, ev_written>>

EvaluationNext ==
  \/ \E r, s \in Int, w \in Nat, path \in STRING : StartEvaluation(r, s, w, path)
  \/ CollectTraces \/ RecoverCapture \/ AppendBlocks \/ Evaluate \/ ThrowEvaluation
  \/ \E path \in STRING : WriteEvaluationReport(path)

EvaluationSpec == EvaluationIdle /\ report = "none" /\ [][EvaluationNext]_evaluationVars

-------------------------------------------------------------------------------
(* Properties.                                                             *)

Finished == ev_phase = "report" \/ (ev_phase = "done" /\ run > 0)

\* README.md says of the alignment: "paired classes are truncated to a common sample count".
\* The n-th blocks of the two classes are from the same run, every block holds as many
\* timings as are averaged, all of one run, and no timing is in two blocks.
PairsAligned ==
  /\ Len(fixed_all) = Len(random_all)
  /\ \A n \in DOMAIN fixed_all :
       /\ Len(fixed_all[n]) = averaging_window /\ Len(random_all[n]) = averaging_window
       /\ \A k \in 1 .. averaging_window :
            /\ fixed_all[n][k].run = random_all[n][1].run
            /\ random_all[n][k].run = random_all[n][1].run
  /\ \A all \in {fixed_all, random_all} : \A n, m \in DOMAIN all :
       \A k \in DOMAIN all[n], l \in DOMAIN all[m] :
         all[n][k].run = all[m][l].run /\ all[n][k].shot = all[m][l].shot => n = m /\ k = l

\* alignment_loss_percent compares the blocks there are with those there would be if the
\* runs were one trace: what it reports as lost is less than a block of each run, and
\* nothing where the window divides the trace.
LossIsRounding ==
  Finished =>
    /\ Len(fixed_all) <= RequestedPairs
    /\ RequestedPairs - Len(fixed_all) < runs
    /\ trace_samples % averaging_window = 0 => Len(fixed_all) = RequestedPairs

\* README.md: "the built-in fault should recover to 100%".  There is one when the traces
\* are long enough, and it costs none of the blocks.
FaultRecovered ==
  Finished =>
    /\ simulated_capture_faults = (IF trace_samples > FaultLength THEN 1 ELSE 0)
    /\ recovered_captures = simulated_capture_faults
    /\ Len(fixed_all) = runs * (trace_samples \div averaging_window)

\* Of less than twenty samples, a report that meets the acceptance criteria is one of
\* classes that do not overlap in any run: without samples, or with a class on the other's
\* side, repeatability_ok is false.
AcceptedMeansSeparated ==
  Finished /\ repeatability_ok /\ Len(fixed_all) < 10 =>
    /\ fixed_all # <<>>
    /\ \A n, m \in DOMAIN fixed_all : Value(fixed_all[n]) < Value(random_all[m])
===============================================================================
