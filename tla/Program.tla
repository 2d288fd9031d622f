-------------------------------- MODULE Program --------------------------------
(***************************************************************************)
(* main: the command line is read, one mode is chosen, the mode runs with  *)
(* what the command line gave it, and its outcome becomes the exit code.   *)
(* The labs are those of OperationalLab, EvaluationLab and DefensiveLab;   *)
(* the benchmarks and the NUMA matrix, which are in module Benchmarks, are *)
(* a single step here.                                                     *)
(***************************************************************************)
EXTENDS CommandLine, OperationalLab, EvaluationLab, DefensiveLab

vars == <<commandVars, report, operationalState, evaluationState, labState>>

\* The exit code of a process whose exception nobody catches: abort().
Aborted == 134

Init ==
  /\ CommandInit
  /\ report = "none"
  /\ OperationalIdle /\ EvaluationIdle /\ LabIdle

ReadCommand ==
  CommandNext /\ UNCHANGED <<report, operationalState, evaluationState, labState>>

\* The mode that runs, and how it ends: its own state is left as it is.
Runs(option) == phase = "run" /\ mode = option
Ends(code) == Exit(code) /\ UNCHANGED <<report, operationalState, evaluationState, labState>>

RunOperational ==
  /\ Runs("--operational-lab")
  /\ \/ StartOperational(counts["--operational-runs"], files["--operational-report"])
     \/ CountEvent
     \/ ScaleCounters
     \/ WriteOperationalReport(files["--operational-report"])
  /\ UNCHANGED <<commandVars, evaluationState, labState>>

\* Mutant: the report is not asked about.
EndOperationalWell == Runs("--operational-lab") /\ op_phase = "done" /\ Ends(0)

EndOperational ==
  Runs("--operational-lab") /\ op_phase = "done" /\ Ends(IF op_written THEN 0 ELSE 1)

RunEvaluation ==
  /\ Runs("--evaluation-lab")
  /\ \/ StartEvaluation(counts["--evaluation-runs"], counts["--trace-samples"],
                        counts["--trace-average"], files["--evaluation-report"])
     \/ CollectTraces \/ RecoverCapture \/ AppendBlocks \/ Evaluate \/ ThrowEvaluation
     \/ WriteEvaluationReport(files["--evaluation-report"])
  /\ UNCHANGED <<commandVars, operationalState, labState>>

\* main calls the labs outside of its try block: what they throw ends the process.
EndEvaluation ==
  /\ Runs("--evaluation-lab")
  /\ \/ ev_phase = "done" /\ Ends(IF ev_written THEN 0 ELSE 1)
     \/ ev_phase = "thrown" /\ Ends(Aborted)

Phase5Report == "phase5_defensive_report.json"

RunPhase5 ==
  /\ Runs("--phase5-lab")
  /\ \/ StartLab(counts["--phase5-runs"], counts["--spectre-tries"], TRUE)
     \/ ReliabilityRun \/ EndRuns \/ CountAlerts \/ ThrowLab
     \/ WriteLabReport(Phase5Report)
  /\ UNCHANGED <<commandVars, operationalState, evaluationState>>

EndPhase5 ==
  /\ Runs("--phase5-lab")
  /\ \/ lab_phase = "done" /\ Ends(IF lab_written THEN 0 ELSE 1)
     \/ lab_phase = "thrown" /\ Ends(Aborted)

RunSpectreLab ==
  /\ Runs("--spectre-lab")
  /\ \/ StartLab(counts["--lab-runs"], counts["--spectre-tries"], FALSE)
     \/ ReliabilityRun \/ EndRuns \/ ThrowLab
  /\ UNCHANGED <<commandVars, operationalState, evaluationState>>

RunSpectre ==
  /\ Runs("--spectre")
  /\ RunDemo(counts["--spectre-tries"])
  /\ UNCHANGED <<commandVars, operationalState, evaluationState>>

\* Neither of the two has an outcome that main looks at.
EndSpectre ==
  /\ Runs("--spectre-lab") \/ Runs("--spectre")
  /\ \/ lab_phase = "done" /\ Ends(0)
     \/ lab_phase = "thrown" /\ Ends(Aborted)

\* detect, topology and benchmark measure and print, outside of the try block like the labs.
RunCapability == Runs("--cpu-capability") /\ \E code \in {0, Aborted} : Ends(code)

\* See Benchmarks for what happens in between.
RunBenchmarks ==
  \/ Runs("benchmarks") /\ \E code \in {0, 1} : Ends(code)
  \/ Runs("--numa-matrix") /\ \E code \in {0, Aborted} : Ends(code)

Over == phase = "over" /\ UNCHANGED vars

Next ==
  \/ ReadCommand
  \/ RunOperational \/ EndOperational
  \/ RunEvaluation \/ EndEvaluation
  \/ RunPhase5 \/ EndPhase5
  \/ RunSpectreLab \/ RunSpectre \/ EndSpectre
  \/ RunCapability \/ RunBenchmarks
  \/ Over

\* A single thread that is scheduled: it never stops between two steps.
Fairness == WF_vars(Next)

Spec == Init /\ [][Next]_vars
FairSpec == Spec /\ Fairness

-------------------------------------------------------------------------------
(* Properties.                                                             *)

\* The modes that leave a report behind.
Reporting == {"--operational-lab", "--evaluation-lab", "--phase5-lab"}

\* Every variable has its type; the int counters never leave the range of an int.
TypeOK ==
  /\ i \in Nat \ {0} /\ given \subseteq Flags /\ counts \in [Counts -> Ints]
  /\ sizes \in [Sizes -> Nat] /\ DOMAIN files = Files
  /\ \A option \in Files : files[option] = DefaultFiles[option] \/ files[option] \in Range(argv)
  /\ phase \in {"parse", "check", "dispatch", "run", "over"}
  /\ mode \in Modes \union {"none"} /\ exit \in {-1, 0, 1, 2, Aborted}
  /\ report \in {"none", "cut", "whole"}
  /\ op_phase \in {"idle", "count", "report", "done"} /\ event \in 1 .. Catalogue + 1
  /\ {op_runs, events_generated, detected_events, missed_events, recovery_attempts,
      recovered_events, benign_events, false_positive_events} \subseteq Ints
  /\ ev_phase \in {"idle", "collect", "fault", "average", "report", "done", "thrown"}
  /\ {runs, trace_samples, averaging_window} \subseteq Ints /\ run \in Nat
  /\ lab_phase \in {"idle", "runs", "events", "report", "done", "thrown"}
  /\ array1 \in {"zero", "secret"} /\ matched \in {"none", "YES", "NO"}
  /\ {op_written, ev_written, lab_written, phase5, repeatability_ok, leakage_detected} \subseteq BOOLEAN
  /\ lab_run \in Nat /\ exact_matches \in Nat /\ correct_bytes \in Nat
  /\ per_byte_correct_runs \in [Secret -> Nat]

\* Whatever was given, and whether it was checked in the loop or behind it, the mode gets
\* parameters that its component does not refuse: the measurers their samples, rounds,
\* sizes and a node or none, the labs positive counts.  A lab that comes back at once
\* (operational_lab.cpp:127, evaluation_lab.cpp:536) was called with an empty file name.
ModeArgumentsValid ==
  /\ mode # "none" =>
       /\ counts["--rounds"] > 0 /\ counts["--iterations"] > 0 /\ counts["--warmup"] >= 0
       /\ sizes["--bandwidth-mib"] > 0 /\ sizes["--buffer-mib"] >= 0
       /\ counts["--numa-node"] >= -1 /\ counts["--spectre-tries"] > 0
       /\ mode = "--numa-matrix" => counts["--numa-node"] = -1
  /\ mode = "benchmarks" /\ "--no-shared-memory" \notin given => counts["--shm-iterations"] > 0
  /\ mode = "--cpu-capability" => counts["--compute-seconds"] > 0
  /\ op_phase = "done" /\ ~Counted => op_runs > 0 /\ files["--operational-report"] = ""
  /\ ev_phase = "done" /\ ~Finished =>
       runs > 0 /\ trace_samples > 0 /\ averaging_window > 0 /\ files["--evaluation-report"] = ""
  /\ lab_phase = "done" => lab_run = lab_runs /\ (mode = "--spectre" => matched # "none")

\* What main returns is what happened: 2 before anything has run; 0 of a lab that reports
\* only when it has done all its runs and its report was begun; 1 of one only when the
\* report is not whole.
ExitTellsOutcome ==
  /\ exit = 2 =>
       mode = "none" /\ report = "none" /\ op_phase = "idle" /\ ev_phase = "idle" /\ lab_phase = "idle"
  /\ exit = 0 /\ mode \in Reporting =>
       /\ report # "none"
       /\ mode = "--operational-lab" => event > Catalogue /\ false_positive_events = op_runs
       /\ mode = "--evaluation-lab" => run = runs /\ run = counts["--evaluation-runs"]
       /\ mode = "--phase5-lab" => lab_run = counts["--phase5-runs"] /\ alerts.all > 0
  /\ exit = 1 /\ mode \in Reporting => report # "whole"

\* Every command line comes to an end, whatever its mode.
Terminates == <>(phase = "over")

\* src/README.md:483 says of the lab that it "exposes a small C++ API plus a JSON report", and
\* main.cpp:550-556 prints the report's path or FAILED: with exit code 0 the report is there.
ReportOnDisk == exit = 0 /\ mode \in Reporting => report = "whole"
===============================================================================
