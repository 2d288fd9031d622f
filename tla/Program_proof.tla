----------------------------- MODULE Program_proof -----------------------------
(* Proofs about main: that the mode that runs gets valid arguments and that *)
(* the exit code tells how it ended, for every set of command lines, every  *)
(* defaults and an int of any width; and that what is proved of the         *)
(* operational and of the evaluation lab holds in the program they are in.  *)
EXTENDS Program, Labs_proof

\* The empty file name.
NoName(path) == path = ""

-------------------------------------------------------------------------------
(* The command line.                                                        *)

\* What has been read is of its type, and what was checked at once has passed.
SettingsInv ==
  /\ counts \in [Counts -> Ints] /\ sizes \in [Sizes -> Int]
  /\ \A option \in PositiveCounts : counts[option] > 0
  /\ counts["--numa-node"] >= -1
  /\ sizes["--bandwidth-mib"] > 0 /\ sizes["--buffer-mib"] >= 0

CommandInv ==
  /\ argv \in Seq(STRING) /\ i \in Nat \ {0}
  /\ SettingsInv
  /\ phase \in {"parse", "check", "dispatch", "run", "over"}
  /\ phase \in {"parse", "check", "dispatch"} => mode = "none" /\ exit = -1
  /\ phase = "run" => mode # "none" /\ exit = -1
  /\ phase = "dispatch" \/ mode # "none" => ConfigurationValid
  /\ mode = "--numa-matrix" => "--numa-matrix" \in given

\* Whatever is asked for, one of the modes comes first.
LEMMA LeastOfSix ==
  ASSUME NEW P, NEW m \in P, P \subseteq 1 .. 6
  PROVE  \E k \in P : \A n \in P : k <= n
<1>1. CASE 1 \in P
  BY <1>1
<1>2. CASE 1 \notin P /\ 2 \in P
  BY <1>2
<1>3. CASE 1 \notin P /\ 2 \notin P /\ 3 \in P
  BY <1>3
<1>4. CASE 1 \notin P /\ 2 \notin P /\ 3 \notin P /\ 4 \in P
  BY <1>4
<1>5. CASE 1 \notin P /\ 2 \notin P /\ 3 \notin P /\ 4 \notin P
  <2>1. \A n \in P : n = 5 \/ n = 6
    BY <1>5
  <2>2. CASE 5 \in P
    BY <2>1, <2>2
  <2>3. CASE 5 \notin P
    BY <2>1, <2>3
  <2> QED BY <2>2, <2>3
<1> QED BY <1>1, <1>2, <1>3, <1>4, <1>5

LEMMA ModeSelected ==
  /\ SelectedMode \in Modes
  /\ SelectedMode = "--numa-matrix" => "--numa-matrix" \in given
<1>1. CASE "--numa-matrix" \in given
  BY <1>1 DEF SelectedMode, Modes
<1>2. CASE "--numa-matrix" \notin given /\ given \intersect Labs = {}
  BY <1>2 DEF SelectedMode, Modes
<1>3. CASE "--numa-matrix" \notin given /\ given \intersect Labs # {}
  <2> DEFINE P == {k \in DOMAIN Precedence : Precedence[k] \in given}
             Least(k) == k \in DOMAIN Precedence /\ Precedence[k] \in given
                         /\ \A n \in DOMAIN Precedence : Precedence[n] \in given => k <= n
  <2>1. DOMAIN Precedence = 1 .. 6
    BY DEF Precedence
  <2>2. PICK m \in DOMAIN Precedence : Precedence[m] \in given
    BY <1>3 DEF Labs
  <2>3. \E k \in P : \A n \in P : k <= n
    BY <2>1, <2>2, LeastOfSix
  <2>4. PICK k \in DOMAIN Precedence :
          Precedence[k] \in given /\ \A n \in DOMAIN Precedence : Precedence[n] \in given => k <= n
    BY <2>3
  <2>5. SelectedMode = Precedence[CHOOSE c \in DOMAIN Precedence :
           /\ Precedence[c] \in given
           /\ \A n \in DOMAIN Precedence : Precedence[n] \in given => c <= n]
    BY <1>3 DEF SelectedMode
  <2>6. SelectedMode \in Labs
    BY <2>4, <2>5 DEF Labs
  <2>7. Labs \subseteq Modes /\ "--numa-matrix" \notin Labs
    BY DEF Labs, Modes, Precedence
  <2> QED BY <2>6, <2>7
<1> QED BY <1>1, <1>2, <1>3

LEMMA CommandStart == CommandInit => CommandInv
<1> SUFFICES ASSUME CommandInit PROVE CommandInv
  OBVIOUS
<1>1. /\ argv \in CommandLines /\ i = 1 /\ counts = DefaultCounts /\ sizes = DefaultSizes
      /\ files = DefaultFiles /\ phase = "parse" /\ mode = "none" /\ exit = -1
  BY DEF CommandInit
<1>2. PositiveCounts \subseteq Counts \ {"--numa-node", "--warmup"}
  BY DEF PositiveCounts, Counts
<1>3. /\ DefaultSizes \in [Sizes -> Int] /\ DefaultSizes["--bandwidth-mib"] > 0
      /\ DefaultSizes["--buffer-mib"] >= 0
  BY DEF DefaultSizes, Sizes, Mebibyte
<1>4. SettingsInv
  BY <1>1, <1>2, <1>3, CommandLinesAssumption DEF SettingsInv
<1> QED BY <1>1, <1>4, CommandLinesAssumption DEF CommandInv

LEMMA CountRead ==
  ASSUME CommandInv, ParseCount
  PROVE  CommandInv'
<1> DEFINE option == argv[i]
           n == NumberOf[argv[i + 1]]
<1>1. /\ phase = "parse" /\ option \in Counts /\ ValueAllowed(option, i)
      /\ counts' = [counts EXCEPT ![option] = n] /\ i' = i + 2
      /\ UNCHANGED <<argv, given, sizes, files, phase, mode, exit>>
  BY DEF ParseCount, AtArgument
<1>2. n \in Ints /\ CountAllowed(option, n)
  BY <1>1, CommandLinesAssumption DEF ValueAllowed
<1> HIDE DEF n, option
<1>3. "--numa-node" \in Counts /\ "--numa-node" \notin PositiveCounts /\ PositiveCounts \subseteq Counts
  BY DEF Counts, PositiveCounts
<1>4. n \in Int
  BY <1>2, IntMaxAssumption DEF Ints
<1>5. SettingsInv'
  BY <1>1, <1>2, <1>3, <1>4 DEF CommandInv, SettingsInv, CountAllowed
<1> QED BY <1>1, <1>5 DEF CommandInv

LEMMA SizeRead ==
  ASSUME CommandInv, ParseSize
  PROVE  CommandInv'
<1> DEFINE option == argv[i]
           n == NumberOf[argv[i + 1]]
<1>1. /\ phase = "parse" /\ option \in Sizes /\ ValueAllowed(option, i)
      /\ sizes' = [sizes EXCEPT ![option] = n * Mebibyte] /\ i' = i + 2
      /\ UNCHANGED <<argv, given, counts, files, phase, mode, exit>>
  BY DEF ParseSize, AtArgument
<1>2. n \in Ints /\ n > 0
  BY <1>1, CommandLinesAssumption DEF ValueAllowed
<1> HIDE DEF n, option
<1>3. n \in Int
  BY <1>2, IntMaxAssumption DEF Ints
<1>4. n * Mebibyte \in Int /\ n * Mebibyte > 0
  BY <1>2, <1>3 DEF Mebibyte
<1> HIDE DEF Mebibyte
<1>5. SettingsInv'
  BY <1>1, <1>4 DEF CommandInv, SettingsInv, Sizes
<1> QED BY <1>1, <1>5 DEF CommandInv

LEMMA CommandStep ==
  ASSUME CommandInv, CommandNext
  PROVE  CommandInv'
<1>1. CASE ParseHelp \/ RefuseArgument \/ RefuseConfiguration \/ SkipNuma
  <2>1. /\ phase \in {"parse", "check", "dispatch"} /\ phase' = "over" /\ i' = i /\ mode' = mode
        /\ UNCHANGED <<argv, given, counts, sizes, files>>
    BY <1>1 DEF ParseHelp, RefuseArgument, RefuseConfiguration, SkipNuma, Exit, AtArgument, settings
  <2> QED BY <2>1 DEF CommandInv, SettingsInv
<1>2. CASE ParseFlag
  BY <1>2 DEF ParseFlag, AtArgument, CommandInv, SettingsInv
<1>3. CASE ParseCount
  BY <1>3, CountRead
<1>4. CASE ParseSize
  BY <1>4, SizeRead
<1>5. CASE ParseFile
  BY <1>5 DEF ParseFile, AtArgument, CommandInv, SettingsInv
<1>6. CASE EndOfArguments
  BY <1>6 DEF EndOfArguments, settings, CommandInv, SettingsInv
<1>7. CASE AcceptConfiguration
  BY <1>7 DEF AcceptConfiguration, settings, CommandInv, SettingsInv, ConfigurationValid
<1>8. CASE Dispatch
  <2>1. mode' # "none" /\ (mode' = "--numa-matrix" => "--numa-matrix" \in given)
    BY <1>8, ModeSelected DEF Dispatch, Modes, Labs, Precedence
  <2> QED BY <1>8, <2>1 DEF Dispatch, settings, CommandInv, SettingsInv, ConfigurationValid
<1> QED BY <1>1, <1>2, <1>3, <1>4, <1>5, <1>6, <1>7, <1>8 DEF CommandNext

-------------------------------------------------------------------------------
(* Of the lab that runs, what the command line gave it and how far it is.   *)

OpLink ==
  /\ op_phase # "idle" => mode = "--operational-lab" /\ op_runs = counts["--operational-runs"]
  /\ op_phase = "done" /\ event <= Catalogue => NoName(files["--operational-report"])

EvLink ==
  /\ ev_phase # "idle" =>
       /\ mode = "--evaluation-lab" /\ runs = counts["--evaluation-runs"]
       /\ trace_samples = counts["--trace-samples"] /\ averaging_window = counts["--trace-average"]
  /\ ev_phase = "done" /\ run = 0 => NoName(files["--evaluation-report"])

LabLink ==
  /\ lab_phase = "idle" => lab_run = 0 /\ lab_runs = 0
  /\ lab_phase # "idle" => mode \in {"--phase5-lab", "--spectre-lab", "--spectre"}
  /\ lab_phase \in {"events", "report", "done"} => lab_run = lab_runs
  /\ lab_phase = "done" /\ mode = "--spectre" => matched # "none"
  /\ lab_phase # "idle" /\ mode = "--phase5-lab" => phase5 /\ lab_runs = counts["--phase5-runs"]
  /\ lab_phase = "report" \/ (lab_phase = "done" /\ mode = "--phase5-lab") => alerts.all > 0

\* Only a lab that is over has a report, and only one that said so has a whole one.
ReportLink ==
  /\ report # "none" => mode # "none"
  /\ op_written \in BOOLEAN /\ ev_written \in BOOLEAN /\ lab_written \in BOOLEAN
  /\ op_written => op_phase = "done" /\ event > Catalogue /\ report # "none"
  /\ ev_written => ev_phase = "done" /\ run > 0 /\ report # "none"
  /\ lab_written => lab_phase = "done" /\ mode = "--phase5-lab" /\ report # "none"
  /\ report = "whole" => op_written \/ ev_written \/ lab_written

ProgInv == CommandInv /\ OpInv /\ EvInv /\ OpLink /\ EvLink /\ LabLink /\ ReportLink /\ ExitTellsOutcome

LEMMA ProgStart == Init => ProgInv
<1> SUFFICES ASSUME Init PROVE ProgInv
  OBVIOUS
<1>1. CommandInv /\ OpInv /\ EvInv
  BY CommandStart, OpInit, EvInit DEF Init
<1>2. /\ op_phase = "idle" /\ ev_phase = "idle" /\ lab_phase = "idle" /\ report = "none"
      /\ lab_run = 0 /\ lab_runs = 0
      /\ op_written = FALSE /\ ev_written = FALSE /\ lab_written = FALSE /\ exit = -1
  BY DEF Init, OperationalIdle, EvaluationIdle, LabIdle, CommandInit
<1>3. OpLink /\ EvLink /\ LabLink /\ ReportLink
  BY <1>2 DEF OpLink, EvLink, LabLink, ReportLink
<1>4. ExitTellsOutcome
  BY <1>2 DEF ExitTellsOutcome
<1> QED BY <1>1, <1>3, <1>4 DEF ProgInv

\* The command line is read before any lab has started.
LEMMA ReadStep ==
  ASSUME ProgInv, ReadCommand
  PROVE  ProgInv'
<1>1. phase \in {"parse", "check", "dispatch"}
  BY DEF ReadCommand, CommandNext, ParseHelp, ParseFlag, ParseCount, ParseSize, ParseFile,
         RefuseArgument, EndOfArguments, RefuseConfiguration, AcceptConfiguration, SkipNuma,
         Dispatch, AtArgument
<1>2. mode = "none" /\ exit = -1
  BY <1>1 DEF ProgInv, CommandInv
<1>3. /\ UNCHANGED <<report, operationalState, evaluationState, labState>>
      /\ UNCHANGED <<op_phase, op_written, ev_phase, ev_written, lab_phase, lab_written, lab_run, lab_runs>>
  BY DEF ReadCommand, operationalState, evaluationState, labState, call
<1>4. /\ op_phase = "idle" /\ ev_phase = "idle" /\ lab_phase = "idle" /\ report = "none"
      /\ lab_run = 0 /\ lab_runs = 0
      /\ op_written = FALSE /\ ev_written = FALSE /\ lab_written = FALSE
  BY <1>2 DEF ProgInv, OpLink, EvLink, LabLink, ReportLink
<1>5. OpLink' /\ EvLink' /\ LabLink' /\ ReportLink'
  BY <1>3, <1>4 DEF OpLink, EvLink, LabLink, ReportLink
<1>6. CommandInv' /\ OpInv' /\ EvInv'
  BY <1>3, CommandStep, OpStutter, EvStutter DEF ProgInv, ReadCommand
<1>7. mode' = "none" \/ exit' = -1
  <2>1. CASE ParseHelp \/ RefuseArgument \/ RefuseConfiguration \/ SkipNuma
    BY <1>2, <2>1 DEF ParseHelp, RefuseArgument, RefuseConfiguration, SkipNuma, Exit
  <2>2. CASE ParseFlag \/ ParseCount \/ ParseSize \/ ParseFile
    BY <1>2, <2>2 DEF ParseFlag, ParseCount, ParseSize, ParseFile
  <2>3. CASE EndOfArguments \/ AcceptConfiguration \/ Dispatch
    BY <1>2, <2>3 DEF EndOfArguments, AcceptConfiguration, Dispatch
  <2> QED BY <2>1, <2>2, <2>3 DEF ReadCommand, CommandNext
<1>8. ExitTellsOutcome'
  <2>1. CASE mode' = "none"
    BY <1>3, <1>4, <2>1 DEF ExitTellsOutcome, Reporting
  <2>2. CASE exit' = -1
    BY <2>2 DEF ExitTellsOutcome
  <2> QED BY <1>7, <2>1, <2>2
<1> QED BY <1>5, <1>6, <1>8 DEF ProgInv

\* A step of the lab that runs leaves the command line alone, and main has not returned.
LEMMA StillRunning ==
  ASSUME ProgInv, phase = "run", UNCHANGED commandVars
  PROVE  /\ CommandInv' /\ ExitTellsOutcome' /\ ConfigurationValid
         /\ counts \in [Counts -> Ints] /\ \A option \in PositiveCounts : counts[option] > 0
<1>1. CommandInv /\ exit = -1 /\ mode # "none"
  BY DEF ProgInv, CommandInv
<1>2. UNCHANGED <<argv, i, given, counts, sizes, files, phase, mode, exit>>
  BY DEF commandVars, settings
<1>3. CommandInv'
  BY <1>1, <1>2 DEF CommandInv, SettingsInv, ConfigurationValid
<1>4. ExitTellsOutcome'
  BY <1>1, <1>2 DEF ExitTellsOutcome
<1> QED BY <1>1, <1>3, <1>4 DEF CommandInv, SettingsInv

\* The outcomes of write_report: what it says is not what is on the disk, but a report it
\* says was written is at least there, and one it says was not is not whole.
LEMMA Outcomes ==
  ASSUME NEW path, NEW written, WriteReport(path, written)
  PROVE  \/ written = TRUE /\ (report' = "cut" \/ report' = "whole")
         \/ written = FALSE /\ (report' = report \/ report' = "cut")
  BY Zenon DEF WriteReport

LEMMA OperationalRuns ==
  ASSUME ProgInv, RunOperational
  PROVE  ProgInv'
<1>1. /\ phase = "run" /\ mode = "--operational-lab"
      /\ UNCHANGED commandVars /\ UNCHANGED evaluationState /\ UNCHANGED labState
  BY DEF RunOperational, Runs
<1>2. /\ UNCHANGED <<argv, i, given, counts, sizes, files, phase, mode, exit>>
      /\ UNCHANGED <<ev_phase, runs, trace_samples, averaging_window, run, ev_written>>
      /\ UNCHANGED <<lab_phase, phase5, lab_runs, lab_run, matched, alerts, lab_written>>
  BY <1>1 DEF commandVars, settings, evaluationState, parameters, labState, call
<1>3. /\ CommandInv' /\ ExitTellsOutcome'
      /\ counts["--operational-runs"] \in Ints /\ counts["--operational-runs"] > 0
  BY <1>1, StillRunning DEF Counts, PositiveCounts
<1>4. EvInv' /\ EvLink' /\ LabLink'
  BY <1>1, <1>2, EvStutter DEF ProgInv, EvLink, LabLink
<1>5. OpInv /\ OpLink /\ ReportLink
  BY DEF ProgInv
<1>6. ev_written = FALSE /\ lab_written = FALSE
  BY <1>1, <1>5 DEF ProgInv, ReportLink, EvLink
<1> DEFINE n == counts["--operational-runs"]
           path == files["--operational-report"]
<1>7. CASE StartOperational(n, path)
  <2>1. OpInv'
    BY <1>3, <1>5, <1>7, OpStart
  <2>2. /\ op_phase = "idle" /\ op_runs' = n /\ op_phase' \in {"done", "count"}
        /\ UNCHANGED <<report, event, op_written>>
    BY <1>7 DEF StartOperational
  <2>3. ~(n <= 0)
    BY <1>3, IntMaxAssumption DEF Ints
  <2>4. op_phase' = "done" => NoName(path)
    BY <1>7, <2>3, Zenon DEF StartOperational, NoName
  <2>5. OpLink' /\ ReportLink'
    BY <1>1, <1>2, <1>5, <2>2, <2>4 DEF OpLink, ReportLink
  <2> QED BY <1>3, <1>4, <2>1, <2>5 DEF ProgInv
<1>8. CASE CountEvent \/ ScaleCounters
  <2>1. OpInv'
    BY <1>5, <1>8, OpCount, OpScale
  <2>2. /\ op_phase = "count" /\ op_phase' \in {"count", "report"}
        /\ UNCHANGED <<report, op_runs, op_written>>
    BY <1>8 DEF CountEvent, ScaleCounters
  <2>3. OpLink' /\ ReportLink'
    BY <1>1, <1>2, <1>5, <2>2 DEF OpLink, ReportLink
  <2> QED BY <1>3, <1>4, <2>1, <2>3 DEF ProgInv
<1>9. CASE WriteOperationalReport(path)
  <2>1. OpInv'
    BY <1>5, <1>9, OpWrite
  <2>2. /\ op_phase = "report" /\ op_phase' = "done" /\ event > Catalogue
        /\ WriteReport(path, op_written') /\ UNCHANGED <<op_runs, event>>
    BY <1>5, <1>9 DEF WriteOperationalReport, OpInv, Catalogue
  <2>3. \/ op_written' = TRUE /\ (report' = "cut" \/ report' = "whole")
        \/ op_written' = FALSE /\ (report' = report \/ report' = "cut")
    BY <2>2, Outcomes
  <2>4. report # "whole"
    BY <1>5, <1>6, <2>2 DEF ReportLink
  <2>5. OpLink'
    BY <1>1, <1>2, <1>5, <2>2 DEF OpLink, OpInv, Catalogue
  <2>6. ReportLink'
    BY <1>1, <1>2, <1>5, <1>6, <2>2, <2>3, <2>4 DEF ReportLink
  <2> QED BY <1>3, <1>4, <2>1, <2>5, <2>6 DEF ProgInv
<1> QED BY <1>7, <1>8, <1>9 DEF RunOperational

LEMMA PositiveInt ==
  ASSUME NEW n \in Ints, n > 0
  PROVE  n \in Nat /\ n \in Int
  BY IntMaxAssumption DEF Ints

LEMMA EvaluationRuns ==
  ASSUME ProgInv, RunEvaluation
  PROVE  ProgInv'
<1>1. /\ phase = "run" /\ mode = "--evaluation-lab"
      /\ UNCHANGED commandVars /\ UNCHANGED operationalState /\ UNCHANGED labState
  BY DEF RunEvaluation, Runs
<1>2. /\ UNCHANGED <<argv, i, given, counts, sizes, files, phase, mode, exit>>
      /\ UNCHANGED <<op_phase, op_runs, event, op_written>>
      /\ UNCHANGED <<lab_phase, phase5, lab_runs, lab_run, matched, alerts, lab_written>>
  BY <1>1 DEF commandVars, settings, operationalState, labState, call
<1> DEFINE r == counts["--evaluation-runs"]
           s == counts["--trace-samples"]
           w == counts["--trace-average"]
           path == files["--evaluation-report"]
<1>3. /\ CommandInv' /\ ExitTellsOutcome'
      /\ r \in Int /\ s \in Int /\ w \in Nat /\ r > 0 /\ s > 0 /\ w > 0
  <2>1. r \in Ints /\ s \in Ints /\ w \in Ints /\ r > 0 /\ s > 0 /\ w > 0
    BY <1>1, StillRunning DEF Counts, PositiveCounts
  <2>2. r \in Int /\ s \in Int /\ w \in Nat
    BY <2>1, PositiveInt
  <2>3. CommandInv' /\ ExitTellsOutcome'
    BY <1>1, StillRunning
  <2> QED BY <2>1, <2>2, <2>3
<1>4. OpInv' /\ OpLink' /\ LabLink'
  BY <1>1, <1>2, OpStutter DEF ProgInv, OpLink, LabLink
<1>5. EvInv /\ EvLink /\ ReportLink
  BY DEF ProgInv
<1>6. op_written = FALSE /\ lab_written = FALSE
  BY <1>1, <1>5 DEF ProgInv, ReportLink, OpLink
<1>7. CASE StartEvaluation(r, s, w, path)
  <2>1. EvInv'
    BY <1>3, <1>5, <1>7, EvStart
  <2>2. /\ ev_phase = "idle" /\ runs' = r /\ trace_samples' = s /\ averaging_window' = w
        /\ ev_phase' \in {"done", "collect"} /\ UNCHANGED <<report, run, ev_written>>
    BY <1>7 DEF StartEvaluation
  <2>3. ~(r <= 0) /\ ~(s <= 0) /\ w # 0
    BY <1>3
  <2>4. ev_phase' = "done" => NoName(path)
    BY <1>7, <2>3, Zenon DEF StartEvaluation, NoName
  <2>5. EvLink' /\ ReportLink'
    BY <1>1, <1>2, <1>5, <2>2, <2>4 DEF EvLink, ReportLink
  <2> QED BY <1>3, <1>4, <2>1, <2>5 DEF ProgInv
<1>8. CASE CollectTraces \/ RecoverCapture \/ AppendBlocks \/ Evaluate \/ ThrowEvaluation
  <2>1. EvInv'
    BY <1>5, <1>8, EvStep DEF EvaluationNext
  <2>2. /\ ev_phase \in {"collect", "fault", "average"}
        /\ ev_phase' \in {"collect", "fault", "average", "report", "thrown"}
        /\ UNCHANGED <<report, runs, trace_samples, averaging_window, ev_written>>
    BY <1>8 DEF CollectTraces, RecoverCapture, AppendBlocks, Evaluate, ThrowEvaluation, parameters
  <2>3. EvLink' /\ ReportLink'
    BY <1>1, <1>2, <1>5, <2>2 DEF EvLink, ReportLink
  <2> QED BY <1>3, <1>4, <2>1, <2>3 DEF ProgInv
<1>9. CASE WriteEvaluationReport(path)
  <2>1. EvInv'
    BY <1>5, <1>9, EvEnd DEF WriteEvaluationReport, parameters, blocks, captures
  <2>2. /\ ev_phase = "report" /\ ev_phase' = "done" /\ WriteReport(path, ev_written')
        /\ UNCHANGED <<runs, trace_samples, averaging_window, run>>
    BY <1>9 DEF WriteEvaluationReport, parameters
  <2>3. run > 0
    BY <1>5, <2>2 DEF EvInv, EvTypes, Active
  <2>4. \/ ev_written' = TRUE /\ (report' = "cut" \/ report' = "whole")
        \/ ev_written' = FALSE /\ (report' = report \/ report' = "cut")
    BY <2>2, Outcomes
  <2>5. report # "whole"
    BY <1>5, <1>6, <2>2 DEF ReportLink
  <2>6. EvLink'
    BY <1>1, <1>2, <1>5, <2>2, <2>3 DEF EvLink
  <2>7. ReportLink'
    BY <1>1, <1>2, <1>5, <1>6, <2>2, <2>3, <2>4, <2>5 DEF ReportLink
  <2> QED BY <1>3, <1>4, <2>1, <2>6, <2>7 DEF ProgInv
<1> QED BY <1>7, <1>8, <1>9 DEF RunEvaluation

LEMMA FiveAreFinite ==
  ASSUME NEW a, NEW b, NEW c, NEW d, NEW e
  PROVE  IsFiniteSet({a, b, c, d, e})
<1>1. IsFiniteSet({a} \union {b})
  BY FS_Singleton, FS_AddElement
<1>2. IsFiniteSet({a} \union {b} \union {c})
  BY <1>1, FS_AddElement
<1>3. IsFiniteSet({a} \union {b} \union {c} \union {d})
  BY <1>2, FS_AddElement
<1>4. IsFiniteSet({a} \union {b} \union {c} \union {d} \union {e})
  BY <1>3, FS_AddElement
<1>5. {a, b, c, d, e} = {a} \union {b} \union {c} \union {d} \union {e}
  OBVIOUS
<1> QED BY <1>4, <1>5

\* There are alerts among the events of the phase 5 lab.
LEMMA AlertsRaised ==
  ASSUME CountAlerts
  PROVE  alerts'.all > 0
<1> DEFINE raised == {e \in LabEvents : e.alert}
           export == [name |-> "simulated_export", alert |-> TRUE, confirmed |-> TRUE]
<1>1. IsFiniteSet(LabEvents)
  BY FiveAreFinite DEF LabEvents
<1>2. export \in raised
  BY DEF LabEvents
<1>3. IsFiniteSet(raised)
  BY <1>1, FS_Subset
<1>4. Cardinality(raised) \in Nat /\ Cardinality(raised) # 0
  BY <1>2, <1>3, FS_CardinalityType, FS_EmptySet
<1>5. alerts'.all = Cardinality(raised)
  BY DEF CountAlerts
<1> QED BY <1>4, <1>5

\* The labs of SpectreV1 and the phase 5 lab: a step of one of them.
LabRuns ==
  \/ RunPhase5
  \/ RunSpectreLab
  \/ RunSpectre

LEMMA LabStarts ==
  ASSUME ProgInv, phase = "run", UNCHANGED <<mode, counts>>,
         \/ /\ mode = "--phase5-lab"
            /\ StartLab(counts["--phase5-runs"], counts["--spectre-tries"], TRUE)
         \/ /\ mode = "--spectre-lab"
            /\ StartLab(counts["--lab-runs"], counts["--spectre-tries"], FALSE)
  PROVE  LabLink'
<1>1. /\ counts["--phase5-runs"] > 0 /\ counts["--lab-runs"] > 0 /\ counts["--spectre-tries"] > 0
      /\ counts["--phase5-runs"] \in Int /\ counts["--lab-runs"] \in Int /\ counts["--spectre-tries"] \in Int
  BY IntMaxAssumption DEF ProgInv, CommandInv, SettingsInv, PositiveCounts, Counts, Ints
<1>2. CASE /\ mode = "--phase5-lab"
           /\ StartLab(counts["--phase5-runs"], counts["--spectre-tries"], TRUE)
  <2>1. lab_phase' = "runs" /\ phase5' = TRUE /\ lab_runs' = counts["--phase5-runs"]
    BY <1>1, <1>2 DEF StartLab
  <2> QED BY <1>2, <2>1 DEF LabLink
<1>3. CASE /\ mode = "--spectre-lab"
           /\ StartLab(counts["--lab-runs"], counts["--spectre-tries"], FALSE)
  <2>1. lab_phase' = "runs"
    BY <1>1, <1>3 DEF StartLab
  <2> QED BY <1>3, <2>1 DEF LabLink
<1> QED BY <1>2, <1>3

LEMMA LabRunning ==
  ASSUME ProgInv, phase = "run", UNCHANGED <<mode, counts>>,
         mode \in {"--phase5-lab", "--spectre-lab"},
         ReliabilityRun \/ EndRuns \/ CountAlerts \/ ThrowLab
  PROVE  LabLink'
<1>1. LabLink
  BY DEF ProgInv
<1>2. CASE ReliabilityRun
  BY <1>1, <1>2 DEF ReliabilityRun, LabLink, call
<1>3. CASE EndRuns
  BY <1>1, <1>3 DEF EndRuns, LabLink, call
<1>4. CASE CountAlerts
  BY <1>1, <1>4, AlertsRaised DEF CountAlerts, LabLink, call
<1>5. CASE ThrowLab
  BY <1>1, <1>5 DEF ThrowLab, LabLink, call
<1> QED BY <1>2, <1>3, <1>4, <1>5

LEMMA DemoRuns ==
  ASSUME ProgInv, phase = "run", UNCHANGED <<mode, counts>>,
         mode = "--spectre", RunDemo(counts["--spectre-tries"])
  PROVE  LabLink'
<1>1. counts["--spectre-tries"] > 0 /\ counts["--spectre-tries"] \in Int
  BY IntMaxAssumption DEF ProgInv, CommandInv, SettingsInv, PositiveCounts, Counts, Ints
<1>2. /\ lab_phase = "idle" /\ UNCHANGED <<lab_runs, lab_run>>
      /\ \/ lab_phase' = "done" /\ matched' \in {"YES", "NO"}
         \/ lab_phase' = "thrown"
  BY <1>1 DEF RunDemo
<1> QED BY <1>2 DEF ProgInv, LabLink

LEMMA LabSteps ==
  ASSUME ProgInv, LabRuns
  PROVE  ProgInv'
<1>1. /\ phase = "run" /\ mode \in {"--phase5-lab", "--spectre-lab", "--spectre"}
      /\ UNCHANGED commandVars /\ UNCHANGED operationalState /\ UNCHANGED evaluationState
  BY DEF LabRuns, RunPhase5, RunSpectreLab, RunSpectre, Runs
<1>2. /\ UNCHANGED <<argv, i, given, counts, sizes, files, phase, mode, exit>>
      /\ UNCHANGED <<op_phase, op_runs, event, op_written>>
      /\ UNCHANGED <<ev_phase, runs, trace_samples, averaging_window, run, ev_written>>
  BY <1>1 DEF commandVars, settings, operationalState, evaluationState, parameters
<1>3. /\ CommandInv' /\ ExitTellsOutcome' /\ OpInv' /\ EvInv' /\ OpLink' /\ EvLink'
  BY <1>1, <1>2, StillRunning, OpStutter, EvStutter DEF ProgInv, OpLink, EvLink
<1>4. LabLink /\ ReportLink
  BY DEF ProgInv
<1>5. op_written = FALSE /\ ev_written = FALSE
  BY <1>1, <1>4 DEF ProgInv, ReportLink, OpLink, EvLink
<1>6. CASE RunPhase5 /\ WriteLabReport(Phase5Report)
  <2>1. /\ mode = "--phase5-lab" /\ lab_phase = "report" /\ lab_phase' = "done"
        /\ WriteReport(Phase5Report, lab_written')
        /\ UNCHANGED <<phase5, lab_runs, lab_run, matched, alerts>>
    BY <1>6 DEF RunPhase5, Runs, WriteLabReport, call
  <2>2. \/ lab_written' = TRUE /\ (report' = "cut" \/ report' = "whole")
        \/ lab_written' = FALSE /\ (report' = report \/ report' = "cut")
    BY <2>1, Outcomes
  <2>3. report # "whole"
    BY <1>4, <1>5, <2>1 DEF ReportLink
  <2>4. LabLink'
    BY <1>2, <1>4, <2>1 DEF LabLink
  <2>5. ReportLink'
    BY <1>2, <1>4, <1>5, <2>1, <2>2, <2>3 DEF ReportLink
  <2> QED BY <1>3, <2>4, <2>5 DEF ProgInv
<1>7. CASE ~(RunPhase5 /\ WriteLabReport(Phase5Report))
  <2>1. LabLink'
    BY <1>1, <1>2, <1>7, LabStarts, LabRunning, DemoRuns
       DEF LabRuns, RunPhase5, RunSpectreLab, RunSpectre, Runs
  <2>2. UNCHANGED <<report, lab_written>> /\ lab_phase # "done"
    BY <1>7 DEF LabRuns, RunPhase5, RunSpectreLab, RunSpectre, StartLab, RunDemo, ReliabilityRun,
                EndRuns, CountAlerts, ThrowLab
  <2>3. ReportLink'
    BY <1>2, <1>4, <2>2 DEF ReportLink
  <2> QED BY <1>3, <2>1, <2>3 DEF ProgInv
<1> QED BY <1>6, <1>7

\* main returns: what the labs have left stays as it is.
LEMMA EndFrame ==
  ASSUME ProgInv, phase = "run", NEW code, Ends(code)
  PROVE  /\ CommandInv' /\ OpInv' /\ EvInv' /\ OpLink' /\ EvLink' /\ LabLink' /\ ReportLink'
         /\ exit' = code
         /\ UNCHANGED <<mode, counts, report, op_phase, op_runs, event, false_positive_events>>
         /\ UNCHANGED <<ev_phase, run, runs, lab_phase, lab_run, alerts>>
<1>1. /\ UNCHANGED <<argv, i, given, counts, sizes, files, mode>>
      /\ phase' = "over" /\ exit' = code
      /\ UNCHANGED operationalState /\ UNCHANGED evaluationState /\ UNCHANGED labState
      /\ UNCHANGED report
  BY DEF Ends, Exit, settings
<1>2. UNCHANGED <<op_phase, op_runs, event, op_written, false_positive_events>>
  BY <1>1 DEF operationalState, benign
<1>3. UNCHANGED <<ev_phase, runs, trace_samples, averaging_window, run, ev_written>>
  BY <1>1 DEF evaluationState, parameters
<1>4. UNCHANGED <<lab_phase, phase5, lab_runs, lab_run, matched, alerts, lab_written>>
  BY <1>1 DEF labState, call
<1>5. CommandInv'
  BY <1>1 DEF ProgInv, CommandInv, SettingsInv, ConfigurationValid
<1>6. OpInv' /\ EvInv'
  BY <1>1, OpStutter, EvStutter DEF ProgInv
<1>7. OpLink' /\ EvLink' /\ LabLink' /\ ReportLink'
  BY <1>1, <1>2, <1>3, <1>4 DEF ProgInv, OpLink, EvLink, LabLink, ReportLink
<1> QED BY <1>1, <1>2, <1>3, <1>4, <1>5, <1>6, <1>7

\* The codes of the labs that report.
LEMMA EndReporting ==
  ASSUME ProgInv, EndOperational \/ EndEvaluation \/ EndPhase5
  PROVE  ProgInv'
<1>1. OpInv /\ EvInv /\ OpLink /\ EvLink /\ LabLink /\ ReportLink
  BY DEF ProgInv
<1>2. CASE EndOperational
  <2>1. /\ phase = "run" /\ mode = "--operational-lab" /\ op_phase = "done"
        /\ Ends(IF op_written THEN 0 ELSE 1)
    BY <1>2 DEF EndOperational, Runs
  <2>2. op_written \in BOOLEAN /\ ev_written = FALSE /\ lab_written = FALSE
    BY <1>1, <2>1 DEF ReportLink, EvLink
  <2>3. CASE op_written = TRUE
    <3>1. Ends(0)
      BY <2>1, <2>3
    <3>2. event > Catalogue /\ report # "none" /\ false_positive_events = op_runs
      BY <1>1, <2>1, <2>3 DEF ReportLink, OpInv
    <3>3. ExitTellsOutcome'
      BY <2>1, <3>1, <3>2, EndFrame DEF ExitTellsOutcome
    <3> QED BY <2>1, <3>1, <3>3, EndFrame DEF ProgInv
  <2>4. CASE op_written = FALSE
    <3>1. Ends(1) /\ report # "whole"
      BY <1>1, <2>1, <2>2, <2>4 DEF ReportLink
    <3>2. ExitTellsOutcome'
      BY <2>1, <3>1, EndFrame DEF ExitTellsOutcome
    <3> QED BY <2>1, <3>1, <3>2, EndFrame DEF ProgInv
  <2> QED BY <2>2, <2>3, <2>4
<1>3. CASE EndEvaluation
  <2>1. phase = "run" /\ mode = "--evaluation-lab"
    BY <1>3 DEF EndEvaluation, Runs
  <2>2. op_written = FALSE /\ ev_written \in BOOLEAN /\ lab_written = FALSE
    BY <1>1, <2>1 DEF ReportLink, OpLink
  <2>3. CASE ev_phase = "done" /\ ev_written = TRUE /\ Ends(0)
    <3>1. run = runs /\ runs = counts["--evaluation-runs"] /\ report # "none"
      BY <1>1, <2>3 DEF ReportLink, EvInv, EvLink
    <3>2. ExitTellsOutcome'
      BY <2>1, <2>3, <3>1, EndFrame DEF ExitTellsOutcome
    <3> QED BY <2>1, <2>3, <3>2, EndFrame DEF ProgInv
  <2>4. CASE ev_written = FALSE /\ Ends(1)
    <3>1. report # "whole"
      BY <1>1, <2>2, <2>4 DEF ReportLink
    <3>2. ExitTellsOutcome'
      BY <2>1, <2>4, <3>1, EndFrame DEF ExitTellsOutcome
    <3> QED BY <2>1, <2>4, <3>2, EndFrame DEF ProgInv
  <2>5. CASE Ends(Aborted)
    <3>1. ExitTellsOutcome'
      BY <2>1, <2>5, EndFrame DEF ExitTellsOutcome, Aborted
    <3> QED BY <2>1, <2>5, <3>1, EndFrame DEF ProgInv
  <2> QED BY <1>3, <2>2, <2>3, <2>4, <2>5 DEF EndEvaluation
<1>4. CASE EndPhase5
  <2>1. phase = "run" /\ mode = "--phase5-lab"
    BY <1>4 DEF EndPhase5, Runs
  <2>2. op_written = FALSE /\ ev_written = FALSE /\ lab_written \in BOOLEAN
    BY <1>1, <2>1 DEF ReportLink, OpLink, EvLink
  <2>3. CASE lab_phase = "done" /\ lab_written = TRUE /\ Ends(0)
    <3>1. lab_run = counts["--phase5-runs"] /\ alerts.all > 0 /\ report # "none"
      BY <1>1, <2>1, <2>3 DEF ReportLink, LabLink
    <3>2. ExitTellsOutcome'
      BY <2>1, <2>3, <3>1, EndFrame DEF ExitTellsOutcome
    <3> QED BY <2>1, <2>3, <3>2, EndFrame DEF ProgInv
  <2>4. CASE lab_written = FALSE /\ Ends(1)
    <3>1. report # "whole"
      BY <1>1, <2>2, <2>4 DEF ReportLink
    <3>2. ExitTellsOutcome'
      BY <2>1, <2>4, <3>1, EndFrame DEF ExitTellsOutcome
    <3> QED BY <2>1, <2>4, <3>2, EndFrame DEF ProgInv
  <2>5. CASE Ends(Aborted)
    <3>1. ExitTellsOutcome'
      BY <2>1, <2>5, EndFrame DEF ExitTellsOutcome, Aborted
    <3> QED BY <2>1, <2>5, <3>1, EndFrame DEF ProgInv
  <2> QED BY <1>4, <2>2, <2>3, <2>4, <2>5 DEF EndPhase5
<1> QED BY <1>2, <1>3, <1>4

\* The other modes: their codes say nothing about a report.
LEMMA EndOther ==
  ASSUME ProgInv, EndSpectre \/ RunCapability \/ RunBenchmarks
  PROVE  ProgInv'
<1>1. PICK code \in {0, 1, Aborted} :
        /\ phase = "run" /\ Ends(code)
        /\ mode \in {"--spectre-lab", "--spectre", "--cpu-capability", "benchmarks", "--numa-matrix"}
  BY DEF EndSpectre, RunCapability, RunBenchmarks, Runs
<1>2. ExitTellsOutcome'
  BY <1>1, EndFrame DEF ExitTellsOutcome, Reporting, Aborted
<1> QED BY <1>1, <1>2, EndFrame DEF ProgInv

LEMMA ProgStutter ==
  ASSUME ProgInv, UNCHANGED vars
  PROVE  ProgInv'
<1>1. /\ UNCHANGED <<argv, i, given, counts, sizes, files, phase, mode, exit, report>>
      /\ UNCHANGED operationalState /\ UNCHANGED evaluationState /\ UNCHANGED labState
  BY DEF vars, commandVars, settings
<1>2. UNCHANGED <<op_phase, op_runs, event, op_written, false_positive_events>>
  BY <1>1 DEF operationalState, benign
<1>3. UNCHANGED <<ev_phase, runs, trace_samples, averaging_window, run, ev_written>>
  BY <1>1 DEF evaluationState, parameters
<1>4. UNCHANGED <<lab_phase, phase5, lab_runs, lab_run, matched, alerts, lab_written>>
  BY <1>1 DEF labState, call
<1>5. CommandInv' /\ OpInv' /\ EvInv'
  BY <1>1, OpStutter, EvStutter DEF ProgInv, CommandInv, SettingsInv, ConfigurationValid
<1>6. OpLink' /\ EvLink' /\ LabLink' /\ ReportLink' /\ ExitTellsOutcome'
  BY <1>1, <1>2, <1>3, <1>4
     DEF ProgInv, OpLink, EvLink, LabLink, ReportLink, ExitTellsOutcome
<1> QED BY <1>5, <1>6 DEF ProgInv

LEMMA ProgStep ==
  ASSUME ProgInv, [Next]_vars
  PROVE  ProgInv'
<1>1. CASE ReadCommand
  BY <1>1, ReadStep
<1>2. CASE RunOperational
  BY <1>2, OperationalRuns
<1>3. CASE RunEvaluation
  BY <1>3, EvaluationRuns
<1>4. CASE RunPhase5 \/ RunSpectreLab \/ RunSpectre
  BY <1>4, LabSteps DEF LabRuns
<1>5. CASE EndOperational \/ EndEvaluation \/ EndPhase5
  BY <1>5, EndReporting
<1>6. CASE EndSpectre \/ RunCapability \/ RunBenchmarks
  BY <1>6, EndOther
<1>7. CASE Over \/ UNCHANGED vars
  BY <1>7, ProgStutter DEF Over
<1> QED BY <1>1, <1>2, <1>3, <1>4, <1>5, <1>6, <1>7 DEF Next

\* Whatever the command line, its options and the lab agree, and the exit code with both.
THEOREM ProgramInvariant == Spec => []ProgInv
<1>1. Init => ProgInv
  BY ProgStart
<1>2. ProgInv /\ [Next]_vars => ProgInv'
  BY ProgStep
<1> QED BY <1>1, <1>2, PTL DEF Spec

-------------------------------------------------------------------------------
(* What the invariant says of the properties.                               *)

LEMMA ArgumentsFollow == ProgInv => ModeArgumentsValid
<1> SUFFICES ASSUME ProgInv PROVE ModeArgumentsValid
  OBVIOUS
<1>1. CommandInv /\ SettingsInv /\ OpInv /\ EvInv /\ OpLink /\ EvLink /\ LabLink
  BY DEF ProgInv, CommandInv
<1>2. mode # "none" => ConfigurationValid
  BY <1>1 DEF CommandInv
<1>3. ASSUME mode # "none"
      PROVE  /\ counts["--rounds"] > 0 /\ counts["--iterations"] > 0 /\ counts["--warmup"] >= 0
             /\ sizes["--bandwidth-mib"] > 0 /\ sizes["--buffer-mib"] >= 0
             /\ counts["--numa-node"] >= -1 /\ counts["--spectre-tries"] > 0
             /\ mode = "--numa-matrix" => counts["--numa-node"] = -1
  <2>1. counts["--numa-node"] \in Int
    BY <1>1, IntMaxAssumption DEF SettingsInv, Counts, Ints
  <2>2. mode = "--numa-matrix" => counts["--numa-node"] = -1
    BY <1>1, <1>2, <1>3, <2>1 DEF CommandInv, SettingsInv, ConfigurationValid
  <2> QED BY <1>1, <1>2, <1>3, <2>2 DEF SettingsInv, ConfigurationValid
<1>4. mode = "benchmarks" /\ "--no-shared-memory" \notin given => counts["--shm-iterations"] > 0
  BY <1>2 DEF ConfigurationValid
<1>5. mode = "--cpu-capability" => counts["--compute-seconds"] > 0
  BY <1>1 DEF SettingsInv, PositiveCounts
<1>6. op_phase = "done" /\ ~Counted => op_runs > 0 /\ files["--operational-report"] = ""
  <2> SUFFICES ASSUME op_phase = "done", ~Counted
               PROVE  op_runs > 0 /\ NoName(files["--operational-report"])
    BY Zenon DEF NoName
  <2>1. false_positive_events = 0
    BY DEF Counted
  <2>2. event \in 1 .. 10 /\ event <= Catalogue
    BY <1>1, <2>1 DEF OpInv, Catalogue
  <2>3. NoName(files["--operational-report"]) /\ op_runs = counts["--operational-runs"]
    BY <1>1, <2>2 DEF OpLink
  <2> QED BY <1>1, <2>3 DEF SettingsInv, PositiveCounts
<1>7. ev_phase = "done" /\ ~Finished =>
        runs > 0 /\ trace_samples > 0 /\ averaging_window > 0 /\ files["--evaluation-report"] = ""
  <2> SUFFICES ASSUME ev_phase = "done", ~Finished
               PROVE  /\ runs > 0 /\ trace_samples > 0 /\ averaging_window > 0
                      /\ NoName(files["--evaluation-report"])
    BY Zenon DEF NoName
  <2>1. run = 0
    BY <1>1 DEF Finished, EvInv, EvTypes
  <2>2. /\ NoName(files["--evaluation-report"]) /\ runs = counts["--evaluation-runs"]
        /\ trace_samples = counts["--trace-samples"] /\ averaging_window = counts["--trace-average"]
    BY <1>1, <2>1 DEF EvLink
  <2> QED BY <1>1, <2>2 DEF SettingsInv, PositiveCounts
<1>8. lab_phase = "done" => lab_run = lab_runs /\ (mode = "--spectre" => matched # "none")
  BY <1>1 DEF LabLink
<1> QED BY <1>3, <1>4, <1>5, <1>6, <1>7, <1>8, Zenon DEF ModeArgumentsValid

\* For every command line, whatever the defaults, and for an int of any width: the mode
\* that main chooses gets only what its component does not refuse, and a lab that comes
\* back at once does so for the lack of a file name.
THEOREM ArgumentsValid == Spec => []ModeArgumentsValid
  BY ProgramInvariant, ArgumentsFollow, PTL

\* For every command line the exit code is that of what happened: 2 before anything ran, 0
\* of a lab that reports only after all its runs and with a report, 1 only without a whole one.
THEOREM ExitCodes == Spec => []ExitTellsOutcome
<1>1. ProgInv => ExitTellsOutcome
  BY DEF ProgInv
<1> QED BY <1>1, ProgramInvariant, PTL

\* The operational lab in the program it is part of.
THEOREM ProgramRates == Spec => []RatesExact
<1>1. ProgInv => RatesExact
  BY RatesFollow DEF ProgInv
<1> QED BY <1>1, ProgramInvariant, PTL

\* The evaluation lab in the program it is part of: main starts it once, with what the
\* options say, and nothing else touches its traces.
THEOREM ProgramEvaluation == Spec => [](PairsAligned /\ LossIsRounding /\ FaultRecovered)
<1>1. ProgInv => PairsAligned /\ LossIsRounding /\ FaultRecovered
  BY AlignedFollows, LossFollows, FaultFollows DEF ProgInv
<1> QED BY <1>1, ProgramInvariant, PTL
-------------------------------------------------------------------------------
(* The options on a command line: where they are, and which is the last.    *)

PositionsOf(a) ==
  CHOOSE at \in SUBSET DOMAIN a : \A k \in DOMAIN a :
    k \in at <=> ~(k - 1 \in at /\ a[k - 1] \in Valued)

LEMMA PositionsAre == OptionPositions = PositionsOf(argv)
BY DEF OptionPositions, PositionsOf

\* One after the other it is decided of the arguments whether they are values.
LEMMA Alternating ==
  ASSUME NEW V, NEW length \in Nat
  PROVE  \E at \in SUBSET (1 .. length) :
           \A k \in 1 .. length : k \in at <=> ~(k - 1 \in at /\ k - 1 \in V)
<1> DEFINE Good(at, n) == \A k \in 1 .. n : k \in at <=> ~(k - 1 \in at /\ k - 1 \in V)
           Bad == {n \in Nat : ~\E at \in SUBSET (1 .. n) : Good(at, n)}
<1> SUFFICES ASSUME Bad # {} PROVE FALSE
  OBVIOUS
<1>1. PICK m \in Bad : \A n \in Bad : m <= n
  BY SmallestNat
<1>2. m # 0
  <2>1. {} \in SUBSET (1 .. 0) /\ Good({}, 0)
    OBVIOUS
  <2> QED BY <2>1
<1>3. m \in Nat \ {0} /\ m - 1 \in Nat /\ m - 1 \notin Bad
  <2>1. Bad \subseteq Nat
    OBVIOUS
  <2> HIDE DEF Bad
  <2> QED BY <1>1, <1>2, <2>1
<1>4. PICK at \in SUBSET (1 .. m - 1) : Good(at, m - 1)
  BY <1>3
<1>5. m \notin at /\ \A k \in 1 .. m : k = m \/ k \in 1 .. m - 1
  BY <1>3
<1>6. CASE m - 1 \in at /\ m - 1 \in V
  <2>1. at \in SUBSET (1 .. m) /\ Good(at, m)
    BY <1>3, <1>4, <1>5, <1>6
  <2> QED BY <1>1, <2>1
<1>7. CASE ~(m - 1 \in at /\ m - 1 \in V)
  <2> DEFINE more == at \union {m}
  <2>1. more \in SUBSET (1 .. m)
    BY <1>3
  <2>2. Good(more, m)
    <3> SUFFICES ASSUME NEW k \in 1 .. m
                 PROVE  k \in more <=> ~(k - 1 \in more /\ k - 1 \in V)
      OBVIOUS
    <3>1. k - 1 \in more <=> k - 1 \in at
      BY <1>3
    <3> QED BY <1>4, <1>5, <1>7, <3>1
  <2> QED BY <1>1, <2>1, <2>2
<1> QED BY <1>6, <1>7

LEMMA Positions ==
  ASSUME NEW a \in Seq(STRING)
  PROVE  /\ PositionsOf(a) \subseteq 1 .. Len(a)
         /\ \A k \in 1 .. Len(a) :
              k \in PositionsOf(a) <=> ~(k - 1 \in PositionsOf(a) /\ a[k - 1] \in Valued)
<1> DEFINE V == {k \in 1 .. Len(a) : a[k] \in Valued}
<1>1. Len(a) \in Nat /\ DOMAIN a = 1 .. Len(a)
  OBVIOUS
<1> HIDE DEF V
<1>2. PICK at \in SUBSET (1 .. Len(a)) :
        \A k \in 1 .. Len(a) : k \in at <=> ~(k - 1 \in at /\ k - 1 \in V)
  BY <1>1, Alternating
<1>3. at \in SUBSET DOMAIN a
      /\ \A k \in DOMAIN a : k \in at <=> ~(k - 1 \in at /\ a[k - 1] \in Valued)
  BY <1>1, <1>2 DEF V
<1>4. /\ PositionsOf(a) \in SUBSET DOMAIN a
      /\ \A k \in DOMAIN a :
           k \in PositionsOf(a) <=> ~(k - 1 \in PositionsOf(a) /\ a[k - 1] \in Valued)
  BY <1>3, Zenon DEF PositionsOf
<1> QED BY <1>1, <1>4

\* The positions before the n-th argument, and those of them with a certain option.
Done(a, n) == {k \in PositionsOf(a) : k < n}
Before(a, n, option) == {k \in Done(a, n) : a[k] = option}

\* The argument behind an option and its value.
Following(a, n) == IF a[n] \in Valued THEN n + 2 ELSE n + 1

LEMMA Advance ==
  ASSUME NEW a \in Seq(STRING), NEW n \in PositionsOf(a), a[n] \in Valued => n < Len(a)
  PROVE  /\ Following(a, n) \in 1 .. Len(a) + 1
         /\ Following(a, n) <= Len(a) => Following(a, n) \in PositionsOf(a)
         /\ Done(a, Following(a, n)) = Done(a, n) \union {n}
<1> DEFINE P == PositionsOf(a)
<1>1. /\ P \subseteq 1 .. Len(a) /\ Len(a) \in Nat /\ n \in 1 .. Len(a)
      /\ \A k \in 1 .. Len(a) : k \in P <=> ~(k - 1 \in P /\ a[k - 1] \in Valued)
  BY Positions
<1> HIDE DEF P
<1>2. n \in P
  BY DEF P
<1>3. CASE a[n] \in Valued
  <2>1. Following(a, n) = n + 2 /\ n + 1 \in 1 .. Len(a)
    BY <1>1, <1>3 DEF Following
  <2>2. n + 1 \notin P
    BY <1>1, <1>2, <1>3, <2>1
  <2>3. n + 2 <= Len(a) => n + 2 \in P
    <3>1. n + 2 - 1 = n + 1
      BY <1>1
    <3> QED BY <1>1, <2>2, <3>1
  <2>4. \A k \in P : k < n + 2 <=> k < n \/ k = n
    BY <1>1, <2>2
  <2> QED BY <1>1, <1>2, <2>1, <2>3, <2>4 DEF Done, P
<1>4. CASE a[n] \notin Valued
  <2>1. Following(a, n) = n + 1
    BY <1>4 DEF Following
  <2>2. n + 1 <= Len(a) => n + 1 \in P
    <3>1. n + 1 - 1 = n
      BY <1>1
    <3> QED BY <1>1, <1>4, <3>1
  <2>3. \A k \in P : k < n + 1 <=> k < n \/ k = n
    BY <1>1
  <2> QED BY <1>1, <1>2, <2>1, <2>2, <2>3 DEF Done, P
<1> QED BY <1>3, <1>4

LEMMA AdvanceBefore ==
  ASSUME NEW a \in Seq(STRING), NEW n \in PositionsOf(a), a[n] \in Valued => n < Len(a), NEW option
  PROVE  /\ option # a[n] => Before(a, Following(a, n), option) = Before(a, n, option)
         /\ option = a[n] => Before(a, Following(a, n), option) = Before(a, n, option) \union {n}
<1>1. Done(a, Following(a, n)) = Done(a, n) \union {n}
  BY Advance
<1> QED BY <1>1, Zenon DEF Before

\* What is worth something at the last of some positions, or has its default.
Settled(at, value, default, worth) ==
  \/ at = {} /\ value = default
  \/ \E k \in at : (\A n \in at : n <= k) /\ value = worth[k]

LEMMA SettledAgain ==
  ASSUME NEW at \in SUBSET Nat, NEW n \in Nat, \A k \in at : k < n, NEW default, NEW worth
  PROVE  Settled(at \union {n}, worth[n], default, worth)
BY DEF Settled

LEMMA SettledLast ==
  ASSUME NEW at \in SUBSET Nat, NEW value, NEW default, NEW worth, Settled(at, value, default, worth)
  PROVE  value = IF at = {} THEN default ELSE worth[CHOOSE k \in at : \A n \in at : n <= k]
<1>1. CASE at = {}
  BY <1>1 DEF Settled
<1>2. CASE at # {}
  <2>1. PICK k \in at : (\A n \in at : n <= k) /\ value = worth[k]
    BY <1>2 DEF Settled
  <2> DEFINE last == CHOOSE c \in at : \A n \in at : n <= c
  <2>2. last \in at /\ \A n \in at : n <= last
    BY <2>1
  <2> HIDE DEF last
  <2>3. last = k
    BY <2>1, <2>2
  <2>4. value = worth[last]
    BY <2>1, <2>3
  <2> QED BY <1>2, <2>4 DEF last
<1> QED BY <1>1, <1>2
\* Nothing is an option of two kinds.
LEMMA Kinds ==
  /\ Flags \intersect Valued = {} /\ "--help" \notin Flags \union Valued
  /\ Counts \intersect Sizes = {} /\ Counts \intersect Files = {} /\ Sizes \intersect Files = {}
  /\ Valued = Counts \union Sizes \union Files
  /\ PositiveCounts \subseteq Counts /\ "--numa-node" \in Counts /\ "--numa-node" \notin PositiveCounts
BY DEF Flags, Labs, Precedence, Valued, Counts, LooseCounts, PositiveCounts, Sizes, Files

\* The loop takes what the usage message asks for, and nothing else.
LEMMA FormIsAllowed ==
  ASSUME NEW k \in DOMAIN argv
  PROVE  /\ argv[k] \in Flags => WellFormed(k)
         /\ argv[k] \in Valued => (WellFormed(k) <=> ValueAllowed(argv[k], k))
         /\ argv[k] \notin Flags \union Valued => ~WellFormed(k)
<1> HIDE DEF Flags, Valued, Counts, Sizes, Files, PositiveCounts
<1>1. argv[k] \in Flags => WellFormed(k)
  BY DEF WellFormed
<1>2. argv[k] \notin Flags \union Valued => ~WellFormed(k)
  BY Kinds DEF WellFormed
<1>3. argv[k] \in Files => (WellFormed(k) <=> ValueAllowed(argv[k], k))
  BY Kinds DEF WellFormed, ValueAllowed
<1>4. argv[k] \in Counts => (WellFormed(k) <=> ValueAllowed(argv[k], k))
  BY Kinds DEF WellFormed, ValueAllowed, CountAllowed
<1>5. argv[k] \in Sizes => (WellFormed(k) <=> ValueAllowed(argv[k], k))
  BY Kinds DEF WellFormed, ValueAllowed
<1> QED BY <1>1, <1>2, <1>3, <1>4, <1>5, Kinds

CountWorth(a) == [k \in 1 .. Len(a) |-> NumberOf[a[k + 1]]]
SizeWorth(a) == [k \in 1 .. Len(a) |-> NumberOf[a[k + 1]] * Mebibyte]
FileWorth(a) == [k \in 1 .. Len(a) |-> a[k + 1]]

\* The options that were read are well formed, and the flags among them are those given.
PlacesInv ==
  /\ i \in 1 .. Len(argv) + 1 /\ (i <= Len(argv) => i \in PositionsOf(argv))
  /\ \A k \in Done(argv, i) : WellFormed(k)
  /\ given = {argv[k] : k \in Done(argv, i)} \intersect Flags

\* What main's locals hold is what was given last so far.
CountsInv ==
  \A option \in Counts :
    Settled(Before(argv, i, option), counts[option], DefaultCounts[option], CountWorth(argv))
SizesInv ==
  \A option \in Sizes :
    Settled(Before(argv, i, option), sizes[option], DefaultSizes[option], SizeWorth(argv))
FilesInv ==
  /\ DOMAIN files = Files
  /\ \A option \in Files :
       Settled(Before(argv, i, option), files[option], DefaultFiles[option], FileWorth(argv))

\* Everything is read before it is checked, and what is refused is at fault.
RefusalInv ==
  /\ phase \in {"check", "dispatch", "run"} => i = Len(argv) + 1
  /\ exit = 2 =>
       \/ i <= Len(argv) /\ argv[i] # "--help" /\ ~WellFormed(i)
       \/ i = Len(argv) + 1 /\ ~ConfigurationValid

ReadInv == PlacesInv /\ CountsInv /\ SizesInv /\ FilesInv /\ RefusalInv

LEMMA ReadStart == Init => ReadInv
<1> SUFFICES ASSUME Init PROVE ReadInv
  OBVIOUS
<1>1. /\ argv \in Seq(STRING) /\ i = 1 /\ given = {} /\ phase = "parse" /\ exit = -1
      /\ counts = DefaultCounts /\ sizes = DefaultSizes /\ files = DefaultFiles
  BY CommandLinesAssumption DEF Init, CommandInit
<1>2. Done(argv, i) = {}
  BY <1>1, Positions DEF Done
<1>3. \A option : Before(argv, i, option) = {}
  BY <1>2 DEF Before
<1>4. PlacesInv
  <2>1. 1 <= Len(argv) => 1 \in PositionsOf(argv)
    BY <1>1, Positions
  <2>2. i \in 1 .. Len(argv) + 1
    BY <1>1
  <2> QED BY <1>1, <1>2, <2>1, <2>2 DEF PlacesInv
<1>5. CountsInv /\ SizesInv /\ FilesInv
  <2>1. DOMAIN files = Files
    BY <1>1 DEF DefaultFiles
  <2> QED BY <1>1, <1>3, <2>1 DEF CountsInv, SizesInv, FilesInv, Settled
<1>6. RefusalInv
  BY <1>1 DEF RefusalInv
<1> QED BY <1>4, <1>5, <1>6 DEF ReadInv

\* An option is read: from the next argument on nothing else has changed.
LEMMA OptionRead ==
  ASSUME ReadInv, argv \in Seq(STRING), i <= Len(argv), WellFormed(i), argv' = argv,
         i' = Following(argv, i), given' = given \union ({argv[i]} \intersect Flags)
  PROVE  /\ PlacesInv' /\ i \in 1 .. Len(argv)
         /\ Before(argv, i, argv[i]) \in SUBSET Nat /\ \A k \in Before(argv, i, argv[i]) : k < i
         /\ \A option :
              /\ option # argv[i] => Before(argv, i', option) = Before(argv, i, option)
              /\ option = argv[i] => Before(argv, i', option) = Before(argv, i, option) \union {i}
<1>1. /\ i \in 1 .. Len(argv) + 1 /\ i \in PositionsOf(argv)
      /\ \A k \in Done(argv, i) : WellFormed(k)
      /\ given = {argv[k] : k \in Done(argv, i)} \intersect Flags
  BY DEF ReadInv, PlacesInv
<1>2. Len(argv) \in Nat /\ DOMAIN argv = 1 .. Len(argv) /\ i \in 1 .. Len(argv)
  BY <1>1
<1>3. argv[i] \in Valued => i < Len(argv)
  BY <1>2, FormIsAllowed DEF ValueAllowed
<1>4. /\ i' \in 1 .. Len(argv) + 1 /\ (i' <= Len(argv) => i' \in PositionsOf(argv))
      /\ Done(argv, i') = Done(argv, i) \union {i}
  BY <1>1, <1>3, Advance
<1>5. \A option :
        /\ option # argv[i] => Before(argv, i', option) = Before(argv, i, option)
        /\ option = argv[i] => Before(argv, i', option) = Before(argv, i, option) \union {i}
  BY <1>1, <1>3, AdvanceBefore
<1>6. PositionsOf(argv) \subseteq 1 .. Len(argv)
  BY Positions
<1>7. Before(argv, i, argv[i]) \in SUBSET Nat /\ \A k \in Before(argv, i, argv[i]) : k < i
  BY <1>2, <1>6 DEF Before, Done
<1>8. \A k \in Done(argv, i') : WellFormed(k)
  BY <1>1, <1>4
<1>9. given' = {argv[k] : k \in Done(argv, i')} \intersect Flags
  BY <1>1, <1>4
<1>10. PlacesInv'
  <2>1. \A k : WellFormed(k)' <=> WellFormed(k)
    BY DEF WellFormed
  <2> QED BY <1>4, <1>8, <1>9, <2>1 DEF PlacesInv
<1> QED BY <1>2, <1>5, <1>7, <1>10

LEMMA FlagGiven ==
  ASSUME CommandInv, ReadInv, ParseFlag
  PROVE  ReadInv'
<1>1. /\ phase = "parse" /\ i <= Len(argv) /\ argv[i] \in Flags /\ given' = given \union {argv[i]}
      /\ i' = i + 1 /\ UNCHANGED <<argv, counts, sizes, files, phase, mode, exit>>
  BY DEF ParseFlag, AtArgument
<1>2. argv \in Seq(STRING) /\ exit = -1 /\ i \in DOMAIN argv
  BY <1>1 DEF CommandInv, ReadInv, PlacesInv
<1>3. WellFormed(i) /\ i' = Following(argv, i) /\ given' = given \union ({argv[i]} \intersect Flags)
  BY <1>1, <1>2, FormIsAllowed, Kinds DEF Following
<1>4. PlacesInv' /\ \A option \in Valued : Before(argv, i', option) = Before(argv, i, option)
  BY <1>1, <1>2, <1>3, OptionRead, Kinds
<1>5. CountsInv' /\ SizesInv' /\ FilesInv'
  BY <1>1, <1>4, Kinds DEF ReadInv, CountsInv, SizesInv, FilesInv
<1>6. RefusalInv'
  BY <1>1, <1>2 DEF RefusalInv
<1> QED BY <1>4, <1>5, <1>6 DEF ReadInv
\* What an option and its value leave as it is, and where they are.
LEMMA ValueRead ==
  ASSUME CommandInv, ReadInv, AtArgument, argv[i] \in Valued, ValueAllowed(argv[i], i),
         i' = i + 2, UNCHANGED <<argv, given, phase, mode, exit>>
  PROVE  /\ PlacesInv' /\ RefusalInv' /\ i \in 1 .. Len(argv)
         /\ \A default, worth : Settled(Before(argv, i', argv[i]), worth[i], default, worth)
         /\ \A option : option # argv[i] => Before(argv, i', option) = Before(argv, i, option)
<1>1. phase = "parse" /\ i <= Len(argv)
  BY DEF AtArgument
<1>2. argv \in Seq(STRING) /\ exit = -1 /\ i \in DOMAIN argv
  BY <1>1 DEF CommandInv, ReadInv, PlacesInv
<1>3. WellFormed(i) /\ i' = Following(argv, i) /\ given' = given \union ({argv[i]} \intersect Flags)
  BY <1>1, <1>2, FormIsAllowed, Kinds DEF Following
<1>4. /\ PlacesInv' /\ i \in 1 .. Len(argv)
      /\ Before(argv, i, argv[i]) \in SUBSET Nat /\ \A k \in Before(argv, i, argv[i]) : k < i
      /\ \A option :
           /\ option # argv[i] => Before(argv, i', option) = Before(argv, i, option)
           /\ option = argv[i] => Before(argv, i', option) = Before(argv, i, option) \union {i}
  BY <1>1, <1>2, <1>3, OptionRead
<1>5. ASSUME NEW default, NEW worth
      PROVE  Settled(Before(argv, i', argv[i]), worth[i], default, worth)
  <2>1. Before(argv, i', argv[i]) = Before(argv, i, argv[i]) \union {i} /\ i \in Nat
    BY <1>4
  <2>2. Settled(Before(argv, i, argv[i]) \union {i}, worth[i], default, worth)
    BY <1>4, <2>1, SettledAgain
  <2> QED BY <2>1, <2>2
<1>6. RefusalInv'
  BY <1>1, <1>2 DEF RefusalInv
<1> QED BY <1>4, <1>5, <1>6

LEMMA CountGiven ==
  ASSUME CommandInv, ReadInv, ParseCount
  PROVE  ReadInv'
<1>1. /\ AtArgument /\ argv[i] \in Counts /\ ValueAllowed(argv[i], i) /\ i' = i + 2
      /\ counts' = [counts EXCEPT ![argv[i]] = NumberOf[argv[i + 1]]]
      /\ UNCHANGED <<argv, given, sizes, files, phase, mode, exit>>
  BY DEF ParseCount
<1>2. /\ PlacesInv' /\ RefusalInv' /\ i \in 1 .. Len(argv)
      /\ \A default, worth : Settled(Before(argv, i', argv[i]), worth[i], default, worth)
      /\ \A option : option # argv[i] => Before(argv, i', option) = Before(argv, i, option)
  BY <1>1, ValueRead, Kinds
<1>3. counts \in [Counts -> Ints]
  BY DEF CommandInv, SettingsInv
<1>4. CountsInv'
  <2> SUFFICES ASSUME NEW option \in Counts
               PROVE  Settled(Before(argv, i', option), counts'[option], DefaultCounts[option],
                              CountWorth(argv))
    BY <1>1 DEF CountsInv
  <2>1. CASE option = argv[i]
    <3>1. counts'[option] = CountWorth(argv)[i]
      BY <1>1, <1>2, <1>3, <2>1 DEF CountWorth
    <3> QED BY <1>2, <2>1, <3>1
  <2>2. CASE option # argv[i]
    <3>1. counts'[option] = counts[option]
      BY <1>1, <1>3, <2>2
    <3> QED BY <1>2, <2>2, <3>1 DEF ReadInv, CountsInv
  <2> QED BY <2>1, <2>2
<1>5. SizesInv' /\ FilesInv'
  BY <1>1, <1>2, Kinds DEF ReadInv, SizesInv, FilesInv
<1> QED BY <1>2, <1>4, <1>5 DEF ReadInv

LEMMA SizeGiven ==
  ASSUME CommandInv, ReadInv, ParseSize
  PROVE  ReadInv'
<1>1. /\ AtArgument /\ argv[i] \in Sizes /\ ValueAllowed(argv[i], i) /\ i' = i + 2
      /\ sizes' = [sizes EXCEPT ![argv[i]] = NumberOf[argv[i + 1]] * Mebibyte]
      /\ UNCHANGED <<argv, given, counts, files, phase, mode, exit>>
  BY DEF ParseSize
<1>2. /\ PlacesInv' /\ RefusalInv' /\ i \in 1 .. Len(argv)
      /\ \A default, worth : Settled(Before(argv, i', argv[i]), worth[i], default, worth)
      /\ \A option : option # argv[i] => Before(argv, i', option) = Before(argv, i, option)
  BY <1>1, ValueRead, Kinds
<1>3. sizes \in [Sizes -> Int]
  BY DEF CommandInv, SettingsInv
<1>4. SizesInv'
  <2> SUFFICES ASSUME NEW option \in Sizes
               PROVE  Settled(Before(argv, i', option), sizes'[option], DefaultSizes[option],
                              SizeWorth(argv))
    BY <1>1 DEF SizesInv
  <2>1. CASE option = argv[i]
    <3>1. sizes'[option] = SizeWorth(argv)[i]
      BY <1>1, <1>2, <1>3, <2>1 DEF SizeWorth
    <3> QED BY <1>2, <2>1, <3>1
  <2>2. CASE option # argv[i]
    <3>1. sizes'[option] = sizes[option]
      BY <1>1, <1>3, <2>2
    <3> QED BY <1>2, <2>2, <3>1 DEF ReadInv, SizesInv
  <2> QED BY <2>1, <2>2
<1>5. CountsInv' /\ FilesInv'
  BY <1>1, <1>2, Kinds DEF ReadInv, CountsInv, FilesInv
<1> QED BY <1>2, <1>4, <1>5 DEF ReadInv

LEMMA FileGiven ==
  ASSUME CommandInv, ReadInv, ParseFile
  PROVE  ReadInv'
<1>1. /\ AtArgument /\ argv[i] \in Files /\ ValueAllowed(argv[i], i) /\ i' = i + 2
      /\ files' = [files EXCEPT ![argv[i]] = argv[i + 1]]
      /\ UNCHANGED <<argv, given, counts, sizes, phase, mode, exit>>
  BY DEF ParseFile
<1>2. /\ PlacesInv' /\ RefusalInv' /\ i \in 1 .. Len(argv)
      /\ \A default, worth : Settled(Before(argv, i', argv[i]), worth[i], default, worth)
      /\ \A option : option # argv[i] => Before(argv, i', option) = Before(argv, i, option)
  BY <1>1, ValueRead, Kinds
<1>3. DOMAIN files = Files
  BY DEF ReadInv, FilesInv
<1>4. FilesInv'
  <2>1. DOMAIN files' = Files
    BY <1>1, <1>3
  <2> SUFFICES ASSUME NEW option \in Files
               PROVE  Settled(Before(argv, i', option), files'[option], DefaultFiles[option],
                              FileWorth(argv))
    BY <1>1, <2>1 DEF FilesInv
  <2>2. CASE option = argv[i]
    <3>1. files'[option] = FileWorth(argv)[i]
      BY <1>1, <1>2, <1>3, <2>2 DEF FileWorth
    <3> QED BY <1>2, <2>2, <3>1
  <2>3. CASE option # argv[i]
    <3>1. files'[option] = files[option]
      BY <1>1, <1>3, <2>3
    <3> QED BY <1>2, <2>3, <3>1 DEF ReadInv, FilesInv
  <2> QED BY <2>2, <2>3
<1>5. CountsInv' /\ SizesInv'
  BY <1>1, <1>2, Kinds DEF ReadInv, CountsInv, SizesInv
<1> QED BY <1>2, <1>4, <1>5 DEF ReadInv

\* Behind the loop nothing that was read changes.
LEMMA ReadFrame ==
  ASSUME ReadInv, UNCHANGED <<argv, i, given, counts, sizes, files>>
  PROVE  /\ PlacesInv' /\ CountsInv' /\ SizesInv' /\ FilesInv'
         /\ ConfigurationValid' <=> ConfigurationValid
         /\ \A k : WellFormed(k)' <=> WellFormed(k)
<1>1. \A k : WellFormed(k)' <=> WellFormed(k)
  BY DEF WellFormed
<1>2. ConfigurationValid' <=> ConfigurationValid
  BY DEF ConfigurationValid
<1>3. PlacesInv'
  BY <1>1 DEF ReadInv, PlacesInv
<1>4. CountsInv' /\ SizesInv' /\ FilesInv'
  BY DEF ReadInv, CountsInv, SizesInv, FilesInv
<1> QED BY <1>1, <1>2, <1>3, <1>4

LEMMA ReadingKept ==
  ASSUME CommandInv, ReadInv, CommandNext
  PROVE  ReadInv'
<1>1. CASE ParseFlag \/ ParseCount \/ ParseSize \/ ParseFile
  BY <1>1, FlagGiven, CountGiven, SizeGiven, FileGiven
<1> SUFFICES ASSUME ~(ParseFlag \/ ParseCount \/ ParseSize \/ ParseFile) PROVE ReadInv'
  BY <1>1
<1>2. UNCHANGED <<argv, i, given, counts, sizes, files>>
  BY DEF CommandNext, ParseHelp, RefuseArgument, EndOfArguments, RefuseConfiguration,
         AcceptConfiguration, SkipNuma, Dispatch, Exit, settings
<1>3. /\ PlacesInv' /\ CountsInv' /\ SizesInv' /\ FilesInv'
      /\ ConfigurationValid' <=> ConfigurationValid
      /\ \A k : WellFormed(k)' <=> WellFormed(k)
  BY <1>2, ReadFrame
<1>4. /\ i \in 1 .. Len(argv) + 1 /\ RefusalInv /\ argv \in Seq(STRING)
      /\ phase \in {"parse", "check", "dispatch"} => exit = -1
  BY DEF ReadInv, PlacesInv, CommandInv
<1>5. CASE ParseHelp \/ SkipNuma
  <2>1. phase' = "over" /\ exit' = 0
    BY <1>5 DEF ParseHelp, SkipNuma, Exit
  <2> QED BY <1>3, <2>1 DEF ReadInv, RefusalInv
<1>6. CASE RefuseArgument
  <2>1. /\ phase' = "over" /\ i <= Len(argv) /\ argv[i] # "--help" /\ argv[i] \notin Flags
        /\ argv[i] \in Valued => ~ValueAllowed(argv[i], i)
    BY <1>6 DEF RefuseArgument, AtArgument, Exit
  <2>2. i \in DOMAIN argv
    BY <1>4, <2>1
  <2>3. ~WellFormed(i)
    BY <2>1, <2>2, FormIsAllowed
  <2>4. RefusalInv'
    BY <1>2, <1>3, <2>1, <2>3 DEF RefusalInv
  <2> QED BY <1>3, <2>4 DEF ReadInv
<1>7. CASE RefuseConfiguration
  <2>1. phase = "check" /\ phase' = "over" /\ ~ConfigurationValid
    BY <1>7 DEF RefuseConfiguration, Exit
  <2>2. RefusalInv'
    BY <1>2, <1>3, <1>4, <2>1 DEF RefusalInv
  <2> QED BY <1>3, <2>2 DEF ReadInv
<1>8. CASE EndOfArguments \/ AcceptConfiguration \/ Dispatch
  <2>1. exit' = -1 /\ phase' \in {"check", "dispatch", "run"}
    BY <1>4, <1>8 DEF EndOfArguments, AcceptConfiguration, Dispatch
  <2>2. i = Len(argv) + 1
    <3>1. CASE EndOfArguments
      BY <1>4, <3>1 DEF EndOfArguments
    <3>2. CASE AcceptConfiguration \/ Dispatch
      BY <1>4, <3>2 DEF AcceptConfiguration, Dispatch, RefusalInv
    <3> QED BY <1>8, <3>1, <3>2
  <2>3. RefusalInv'
    BY <1>2, <2>1, <2>2 DEF RefusalInv
  <2> QED BY <1>3, <2>3 DEF ReadInv
<1> QED BY <1>5, <1>6, <1>7, <1>8 DEF CommandNext

LEMMA ReadingStep ==
  ASSUME ProgInv, ReadInv, [Next]_vars
  PROVE  ReadInv'
<1>1. CASE ReadCommand
  BY <1>1, ReadingKept DEF ReadCommand, ProgInv
<1>2. CASE ~ReadCommand
  <2>1. /\ UNCHANGED <<argv, i, given, counts, sizes, files>>
        /\ \/ UNCHANGED <<phase, exit>>
           \/ phase' = "over" /\ exit' # 2
    <3>1. CASE UNCHANGED commandVars
      BY <3>1 DEF commandVars, settings
    <3>2. ASSUME NEW code \in {0, 1, Aborted}, Ends(code)
          PROVE  /\ UNCHANGED <<argv, i, given, counts, sizes, files>>
                 /\ phase' = "over" /\ exit' # 2
      BY <3>2 DEF Ends, Exit, settings, Aborted
    <3>3. UNCHANGED commandVars \/ \E code \in {0, 1, Aborted} : Ends(code)
      BY <1>2 DEF Next, RunOperational, EndOperational, RunEvaluation, EndEvaluation, RunPhase5,
                  EndPhase5, RunSpectreLab, RunSpectre, EndSpectre, RunCapability, RunBenchmarks,
                  Over, vars
    <3> QED BY <3>1, <3>2, <3>3
  <2>2. /\ PlacesInv' /\ CountsInv' /\ SizesInv' /\ FilesInv'
        /\ ConfigurationValid' <=> ConfigurationValid
        /\ \A k : WellFormed(k)' <=> WellFormed(k)
    BY <2>1, ReadFrame
  <2>3. RefusalInv'
    BY <2>1, <2>2 DEF ReadInv, RefusalInv
  <2> QED BY <2>2, <2>3 DEF ReadInv
<1> QED BY <1>1, <1>2

\* Whatever the command line, what was read of it is what stands there.
THEOREM ReadInvariant == Spec => []ReadInv
<1>1. Init => ReadInv
  BY ReadStart
<1>2. ProgInv /\ ReadInv /\ [Next]_vars => ReadInv'
  BY ReadingStep
<1> QED BY <1>1, <1>2, ProgramInvariant, PTL DEF Spec
\* When everything is read, the last of all values of an option is the one it has.
LEMMA AllRead ==
  ASSUME CommandInv, ReadInv, i = Len(argv) + 1
  PROVE  /\ \A k \in OptionPositions : k \in DOMAIN argv /\ WellFormed(k)
         /\ given = {argv[k] : k \in OptionPositions} \intersect Flags
         /\ \A option \in Counts : counts[option] = LastCount(option)
         /\ \A option \in Sizes : sizes[option] = LastSize(option)
         /\ \A option \in Files : files[option] = LastFile(option)
<1>1. argv \in Seq(STRING)
  BY DEF CommandInv
<1>2. /\ PositionsOf(argv) \subseteq 1 .. Len(argv) /\ Len(argv) \in Nat
      /\ DOMAIN argv = 1 .. Len(argv)
  BY <1>1, Positions
<1>3. Done(argv, i) = PositionsOf(argv) /\ PositionsOf(argv) = OptionPositions
  BY <1>2, PositionsAre DEF Done
<1>4. \A k \in OptionPositions : k \in DOMAIN argv /\ WellFormed(k)
  BY <1>2, <1>3 DEF ReadInv, PlacesInv
<1>5. given = {argv[k] : k \in OptionPositions} \intersect Flags
  BY <1>3 DEF ReadInv, PlacesInv
<1> DEFINE last(option) == CHOOSE k \in GivenAt(option) : \A n \in GivenAt(option) : n <= k
<1>6. ASSUME NEW option
      PROVE  Before(argv, i, option) = GivenAt(option) /\ GivenAt(option) \in SUBSET Nat
  BY <1>2, <1>3 DEF Before, GivenAt
<1>7. ASSUME NEW option, NEW value, NEW default, NEW worth,
             Settled(Before(argv, i, option), value, default, worth)
      PROVE  /\ value = IF GivenAt(option) = {} THEN default ELSE worth[last(option)]
             /\ GivenAt(option) # {} => last(option) \in 1 .. Len(argv)
  <2>1. Settled(GivenAt(option), value, default, worth) /\ GivenAt(option) \in SUBSET Nat
    BY <1>6, <1>7
  <2>2. value = IF GivenAt(option) = {} THEN default ELSE worth[last(option)]
    BY <2>1, SettledLast
  <2>3. ASSUME GivenAt(option) # {} PROVE last(option) \in 1 .. Len(argv)
    <3>1. PICK k \in GivenAt(option) : \A n \in GivenAt(option) : n <= k
      BY <2>1, <2>3 DEF Settled
    <3>2. last(option) \in GivenAt(option)
      BY <3>1
    <3> QED BY <1>2, <1>3, <3>2 DEF GivenAt
  <2> QED BY <2>2, <2>3
<1>8. \A option : LastValue(option) = argv[last(option) + 1]
  BY DEF LastValue
<1> HIDE DEF last
<1>9. ASSUME NEW option \in Counts PROVE counts[option] = LastCount(option)
  <2>1. Settled(Before(argv, i, option), counts[option], DefaultCounts[option], CountWorth(argv))
    BY <1>9 DEF ReadInv, CountsInv
  <2>2. /\ counts[option] =
             IF GivenAt(option) = {} THEN DefaultCounts[option] ELSE CountWorth(argv)[last(option)]
        /\ GivenAt(option) # {} => last(option) \in 1 .. Len(argv)
    BY <1>7, <2>1
  <2> QED BY <1>8, <2>2 DEF LastCount, CountWorth
<1>10. ASSUME NEW option \in Sizes PROVE sizes[option] = LastSize(option)
  <2>1. Settled(Before(argv, i, option), sizes[option], DefaultSizes[option], SizeWorth(argv))
    BY <1>10 DEF ReadInv, SizesInv
  <2>2. /\ sizes[option] =
             IF GivenAt(option) = {} THEN DefaultSizes[option] ELSE SizeWorth(argv)[last(option)]
        /\ GivenAt(option) # {} => last(option) \in 1 .. Len(argv)
    BY <1>7, <2>1
  <2> QED BY <1>8, <2>2 DEF LastSize, SizeWorth
<1>11. ASSUME NEW option \in Files PROVE files[option] = LastFile(option)
  <2>1. Settled(Before(argv, i, option), files[option], DefaultFiles[option], FileWorth(argv))
    BY <1>11 DEF ReadInv, FilesInv
  <2>2. /\ files[option] =
             IF GivenAt(option) = {} THEN DefaultFiles[option] ELSE FileWorth(argv)[last(option)]
        /\ GivenAt(option) # {} => last(option) \in 1 .. Len(argv)
    BY <1>7, <2>1
  <2> QED BY <1>8, <2>2 DEF LastFile, FileWorth
<1> QED BY <1>4, <1>5, <1>9, <1>10, <1>11

LEMMA WrittenFollows == CommandInv /\ ReadInv => ReadAsWritten
<1> SUFFICES ASSUME CommandInv, ReadInv, phase = "dispatch"
             PROVE  ReadAsWritten
  BY DEF ReadAsWritten
<1>1. i = Len(argv) + 1
  BY DEF ReadInv, RefusalInv
<1> QED BY <1>1, AllRead DEF ReadAsWritten

\* What main finds wrong with the options together.
Contradictory ==
  \/ LastCount("--numa-node") >= 0 /\ \E k \in OptionPositions : argv[k] = "--numa-matrix"
  \/ LastCount("--rounds") <= 0 \/ LastCount("--iterations") <= 0 \/ LastCount("--warmup") < 0
  \/ /\ LastCount("--shm-iterations") <= 0
     /\ \A k \in OptionPositions : argv[k] # "--no-shared-memory"

\* The further checks behind the loop never decide.
LEMMA ChecksDecide ==
  ASSUME CommandInv, ReadInv, i = Len(argv) + 1
  PROVE  ConfigurationValid <=> ~Contradictory
<1>1. /\ given = {argv[k] : k \in OptionPositions} \intersect Flags
      /\ \A option \in Counts : counts[option] = LastCount(option)
  BY AllRead
<1>2. "--numa-matrix" \in Flags /\ "--no-shared-memory" \in Flags
  BY DEF Flags
<1>3. /\ "--numa-matrix" \in given <=> \E k \in OptionPositions : argv[k] = "--numa-matrix"
      /\ "--no-shared-memory" \notin given <=>
           \A k \in OptionPositions : argv[k] # "--no-shared-memory"
  BY <1>1, <1>2
<1>4. \A option \in PositiveCounts : counts[option] > 0
  BY DEF CommandInv, SettingsInv
<1>5. /\ counts["--spectre-tries"] > 0 /\ counts["--lab-runs"] > 0 /\ counts["--phase5-runs"] > 0
      /\ counts["--compute-seconds"] > 0 /\ counts["--evaluation-runs"] > 0
      /\ counts["--trace-samples"] > 0 /\ counts["--trace-average"] > 0
      /\ counts["--operational-runs"] > 0
  BY <1>4 DEF PositiveCounts
<1>6. \A option \in {"--numa-node", "--rounds", "--iterations", "--warmup", "--shm-iterations"} :
        counts[option] = LastCount(option) /\ counts[option] \in Int
  BY <1>1, IntMaxAssumption DEF CommandInv, SettingsInv, Counts, LooseCounts, Ints
<1>7. /\ counts["--numa-node"] = LastCount("--numa-node") /\ counts["--numa-node"] \in Int
      /\ counts["--rounds"] = LastCount("--rounds") /\ counts["--rounds"] \in Int
      /\ counts["--iterations"] = LastCount("--iterations") /\ counts["--iterations"] \in Int
      /\ counts["--warmup"] = LastCount("--warmup") /\ counts["--warmup"] \in Int
      /\ counts["--shm-iterations"] = LastCount("--shm-iterations")
      /\ counts["--shm-iterations"] \in Int
  BY <1>6
<1> QED BY <1>3, <1>5, <1>7 DEF ConfigurationValid, Contradictory

LEMMA CauseFollows == CommandInv /\ ReadInv => RefusedForCause
<1> SUFFICES ASSUME CommandInv, ReadInv PROVE RefusedForCause
  OBVIOUS
<1> DEFINE flawed == {k \in OptionPositions : ~WellFormed(k) /\ argv[k] # "--help"}
           helped == {k \in OptionPositions : argv[k] = "--help"}
           cause == \/ \E k \in flawed : \A h \in helped : k < h
                    \/ flawed \union helped = {} /\ Contradictory
<1>1. \A k \in DOMAIN argv : WellFormed(k) => argv[k] # "--help"
  BY FormIsAllowed, Kinds
<1>2. /\ i \in 1 .. Len(argv) + 1 /\ (i <= Len(argv) => i \in OptionPositions)
      /\ \A k \in Done(argv, i) : WellFormed(k)
      /\ OptionPositions \subseteq 1 .. Len(argv) /\ Done(argv, i) = {k \in OptionPositions : k < i}
      /\ DOMAIN argv = 1 .. Len(argv) /\ Len(argv) \in Nat
  BY PositionsAre, Positions DEF CommandInv, ReadInv, PlacesInv, Done
<1>3. ASSUME i = Len(argv) + 1 PROVE flawed \union helped = {} /\ (Contradictory <=> ~ConfigurationValid)
  BY <1>1, <1>3, AllRead, ChecksDecide
<1>4. ASSUME exit = 2 PROVE cause
  <2>1. CASE i <= Len(argv) /\ argv[i] # "--help" /\ ~WellFormed(i)
    <3>1. i \in flawed
      BY <1>2, <2>1
    <3>2. ASSUME NEW h \in helped PROVE i < h
      <4>1. h \in 1 .. Len(argv) /\ h \in OptionPositions /\ argv[h] = "--help"
        BY <1>2
      <4>2. ~(h < i)
        BY <1>1, <1>2, <4>1
      <4>3. h # i
        BY <2>1, <4>1
      <4> QED BY <1>2, <4>1, <4>2, <4>3
    <3> QED BY <3>1, <3>2
  <2>2. CASE i = Len(argv) + 1 /\ ~ConfigurationValid
    BY <1>3, <2>2
  <2> QED BY <1>4, <2>1, <2>2 DEF ReadInv, RefusalInv
<1>5. ASSUME phase = "dispatch" PROVE ~cause
  <2>1. i = Len(argv) + 1 /\ ConfigurationValid
    BY <1>5 DEF ReadInv, RefusalInv, CommandInv
  <2> QED BY <1>3, <2>1
<1> QED BY <1>4, <1>5 DEF RefusedForCause, Contradictory

\* For every set of command lines: where main goes on, every argument was an option or the
\* value of the one before, and every option has the last value it was given.
THEOREM CommandLineReadAsWritten == Spec => []ReadAsWritten
<1>1. ProgInv /\ ReadInv => ReadAsWritten
  BY WrittenFollows DEF ProgInv
<1> QED BY <1>1, ProgramInvariant, ReadInvariant, PTL

\* For every set of command lines: main returns 2 only for an item that is not well formed
\* and has no --help before it, or for options that contradict each other, and it never goes
\* on with such a command line; the other checks behind the loop never decide.
THEOREM CommandLineRefusedForCause == Spec => []RefusedForCause
<1>1. ProgInv /\ ReadInv => RefusedForCause
  BY CauseFollows DEF ProgInv
<1> QED BY <1>1, ProgramInvariant, ReadInvariant, PTL

-------------------------------------------------------------------------------
(* The other labs in the program they are part of.                          *)

LEMMA CountsKept ==
  ASSUME LabInv, [Next]_vars
  PROVE  LabInv'
<1>1. CASE ReliabilityRun
  BY <1>1, LabCounts
<1>2. CASE ~ReliabilityRun
  <2>1. UNCHANGED <<lab_run, recovery>>
    <3>1. CASE UNCHANGED labState
      BY <3>1 DEF labState
    <3>2. CASE RunPhase5 \/ RunSpectreLab \/ RunSpectre
      BY <1>2, <3>2 DEF RunPhase5, RunSpectreLab, RunSpectre, StartLab, EndRuns, CountAlerts,
                        ThrowLab, WriteLabReport, RunDemo
    <3> QED BY <3>1, <3>2 DEF Next, ReadCommand, RunOperational, EndOperational, RunEvaluation,
              EndEvaluation, EndPhase5, EndSpectre, RunCapability, RunBenchmarks, Ends, Over, vars
  <2> QED BY <2>1, LabStutter
<1> QED BY <1>1, <1>2

\* The counts of the reliability lab agree whichever of the two modes runs it.
THEOREM ProgramCounts == Spec => []CountsAgree
<1>1. Init => LabInv
  BY LabInit DEF Init
<1>2. LabInv /\ [Next]_vars => LabInv'
  BY CountsKept
<1>3. LabInv => CountsAgree
  BY CountsFollow
<1> QED BY <1>1, <1>2, <1>3, PTL DEF Spec

LEMMA VerdictKept ==
  ASSUME AcceptedInv, [Next]_vars
  PROVE  AcceptedInv'
<1>1. CASE UNCHANGED evaluationState
  BY <1>1, AcceptedStep
<1>2. CASE AppendBlocks \/ Evaluate \/ CollectTraces \/ RecoverCapture \/ ThrowEvaluation
  BY <1>2, AcceptedStep DEF EvaluationNext
<1>3. ASSUME NEW r, NEW s, NEW w, NEW path,
             StartEvaluation(r, s, w, path) \/ WriteEvaluationReport(path)
      PROVE  AcceptedInv'
  <2>1. /\ UNCHANGED <<blocks, repeatability_ok>>
        /\ ev_phase \in {"report", "done"} => ev_phase' \in {"report", "done"}
    BY <1>3 DEF StartEvaluation, WriteEvaluationReport, verdicts
  <2> QED BY <2>1, AcceptedStays
<1>4. CASE RunEvaluation
  BY <1>2, <1>3, <1>4 DEF RunEvaluation
<1>5. CASE ~RunEvaluation
  BY <1>1, <1>5 DEF Next, ReadCommand, RunOperational, EndOperational, EndEvaluation, RunPhase5,
       EndPhase5, RunSpectreLab, RunSpectre, EndSpectre, RunCapability, RunBenchmarks, Ends, Over, vars
<1> QED BY <1>4, <1>5

\* A report of few samples that main leaves behind as acceptable is one of classes that do
\* not overlap, whatever the options.
THEOREM ProgramAccepted == Spec => []AcceptedMeansSeparated
<1>1. Init => AcceptedInv
  BY AcceptedInit DEF Init
<1>2. AcceptedInv /\ [Next]_vars => AcceptedInv'
  BY VerdictKept
<1>3. ProgInv /\ AcceptedInv => AcceptedMeansSeparated
  BY AcceptedFollows DEF ProgInv
<1> QED BY <1>1, <1>2, <1>3, ProgramInvariant, PTL DEF Spec
-------------------------------------------------------------------------------
(* Types.  What the invariants above do not say of a variable, part by part. *)

CommandTypes == mode \in Modes \union {"none"} /\ exit \in {-1, 0, 1, 2, Aborted}
ReportTypes == report \in {"none", "cut", "whole"} /\ events_generated \in Ints
EvaluationTypes ==
  /\ runs \in Ints /\ trace_samples \in Ints /\ averaging_window \in Ints
  /\ repeatability_ok \in BOOLEAN /\ leakage_detected \in BOOLEAN
LabTypes ==
  /\ lab_phase \in {"idle", "runs", "events", "report", "done", "thrown"}
  /\ array1 \in {"zero", "secret"} /\ matched \in {"none", "YES", "NO"} /\ phase5 \in BOOLEAN

RestInv == CommandTypes /\ ReportTypes /\ EvaluationTypes /\ LabTypes

LEMMA RestStart == Init => RestInv
<1> SUFFICES ASSUME Init PROVE RestInv
  OBVIOUS
<1>1. 0 \in Ints
  BY IntMaxAssumption DEF Ints
<1>2. CommandTypes /\ ReportTypes
  BY <1>1 DEF Init, CommandInit, OperationalIdle, CommandTypes, ReportTypes
<1>3. EvaluationTypes /\ LabTypes
  BY <1>1 DEF Init, EvaluationIdle, LabIdle, EvaluationTypes, LabTypes
<1> QED BY <1>2, <1>3 DEF RestInv

LEMMA CommandTyped ==
  ASSUME CommandTypes, [Next]_vars
  PROVE  CommandTypes'
<1>1. CASE UNCHANGED <<mode, exit>>
  BY <1>1 DEF CommandTypes
<1>2. ASSUME NEW code \in {0, 1, 2, Aborted}, Exit(code)
      PROVE  CommandTypes'
  BY <1>2 DEF Exit, CommandTypes
<1>3. CASE Dispatch
  BY <1>3, ModeSelected DEF Dispatch, CommandTypes
<1>4. CASE ReadCommand
  <2>1. Dispatch \/ UNCHANGED <<mode, exit>> \/ \E code \in {0, 2} : Exit(code)
    BY <1>4 DEF ReadCommand, CommandNext, ParseHelp, ParseFlag, ParseCount, ParseSize, ParseFile,
       RefuseArgument, EndOfArguments, RefuseConfiguration, AcceptConfiguration, SkipNuma
  <2> QED BY <1>1, <1>2, <1>3, <2>1
<1>5. CASE ~ReadCommand
  <2>1. UNCHANGED <<mode, exit>> \/ \E code \in {0, 1, Aborted} : Exit(code)
    BY <1>5 DEF Next, RunOperational, EndOperational, RunEvaluation, EndEvaluation, RunPhase5,
                EndPhase5, RunSpectreLab, RunSpectre, EndSpectre, RunCapability, RunBenchmarks,
                Over, vars, commandVars, Ends
  <2> QED BY <1>1, <1>2, <2>1
<1> QED BY <1>4, <1>5

LEMMA ReportTyped ==
  ASSUME ReportTypes, ProgInv, [Next]_vars
  PROVE  ReportTypes'
<1>1. CASE UNCHANGED <<report, events_generated>>
  BY <1>1 DEF ReportTypes
<1>2. CASE RunOperational
  <2> DEFINE n == counts["--operational-runs"]
             path == files["--operational-report"]
  <2>1. n \in Ints
    BY DEF ProgInv, CommandInv, SettingsInv, PositiveCounts, Counts
  <2>2. n \in Int
    BY <2>1, IntMaxAssumption DEF Ints
  <2> HIDE DEF n, path
  <2>3. CASE StartOperational(n, path)
    <3>1. Wrap(Catalogue * n) \in Ints
      BY <2>2, WrapInts DEF Catalogue
    <3> QED BY <2>3, <3>1, Zenon DEF ReportTypes, StartOperational
  <2>4. CASE CountEvent \/ ScaleCounters
    BY <1>1, <2>4 DEF CountEvent, ScaleCounters
  <2>5. CASE WriteOperationalReport(path)
    <3>1. WriteReport(path, op_written') /\ UNCHANGED events_generated
      BY <2>5 DEF WriteOperationalReport
    <3> QED BY <3>1, Outcomes DEF ReportTypes
  <2> QED BY <1>2, <2>3, <2>4, <2>5 DEF RunOperational, n, path
<1>3. CASE RunEvaluation \/ RunPhase5
  <2>1. UNCHANGED events_generated
    BY <1>3 DEF RunEvaluation, RunPhase5, operationalState
  <2>2. UNCHANGED report \/ \E path, written : WriteReport(path, written)
    BY <1>3 DEF RunEvaluation, StartEvaluation, CollectTraces, RecoverCapture, AppendBlocks, Evaluate,
                ThrowEvaluation, WriteEvaluationReport, RunPhase5, StartLab, ReliabilityRun, EndRuns,
                CountAlerts, ThrowLab, WriteLabReport
  <2> QED BY <2>1, <2>2, Outcomes DEF ReportTypes
<1>4. CASE ~(RunOperational \/ RunEvaluation \/ RunPhase5)
  <2>1. UNCHANGED <<report, events_generated>>
    BY <1>4 DEF Next, ReadCommand, EndOperational, EndEvaluation, EndPhase5, RunSpectreLab,
                RunSpectre, EndSpectre, RunCapability, RunBenchmarks, Over, vars, Ends,
                operationalState, StartLab, ReliabilityRun, EndRuns, ThrowLab, RunDemo
  <2> QED BY <1>1, <2>1
<1> QED BY <1>2, <1>3, <1>4

LEMMA EvaluationTyped ==
  ASSUME EvaluationTypes, ProgInv, [Next]_vars
  PROVE  EvaluationTypes'
<1>1. CASE UNCHANGED <<runs, trace_samples, averaging_window, repeatability_ok, leakage_detected>>
  BY <1>1 DEF EvaluationTypes
<1>2. CASE RunEvaluation
  <2> DEFINE r == counts["--evaluation-runs"]
             s == counts["--trace-samples"]
             w == counts["--trace-average"]
             path == files["--evaluation-report"]
  <2>1. r \in Ints /\ s \in Ints /\ w \in Ints
    BY DEF ProgInv, CommandInv, SettingsInv, PositiveCounts, Counts
  <2> HIDE DEF r, s, w, path
  <2>2. CASE StartEvaluation(r, s, w, path)
    BY <2>1, <2>2 DEF StartEvaluation, verdicts, EvaluationTypes
  <2>3. CASE Evaluate
    <3>1. /\ repeatability_ok' = Acceptable(Values(fixed_all), Values(random_all), run_medians)
          /\ leakage_detected' = Leakage(Values(fixed_all), Values(random_all))
          /\ UNCHANGED parameters
      BY <2>3 DEF Evaluate
    <3>2. /\ Acceptable(Values(fixed_all), Values(random_all), run_medians) \in BOOLEAN
          /\ Leakage(Values(fixed_all), Values(random_all)) \in BOOLEAN
      BY Zenon DEF Acceptable, Leakage
    <3> QED BY <3>1, <3>2 DEF EvaluationTypes, parameters
  <2>4. CASE CollectTraces \/ RecoverCapture \/ AppendBlocks \/ ThrowEvaluation
    BY <1>1, <2>4 DEF CollectTraces, RecoverCapture, AppendBlocks, ThrowEvaluation, parameters, verdicts
  <2>5. CASE WriteEvaluationReport(path)
    BY <1>1, <2>5 DEF WriteEvaluationReport, parameters, verdicts
  <2> QED BY <1>2, <2>2, <2>3, <2>4, <2>5 DEF RunEvaluation, r, s, w, path
<1>3. CASE ~RunEvaluation
  <2>1. UNCHANGED <<runs, trace_samples, averaging_window, repeatability_ok, leakage_detected>>
    BY <1>3 DEF Next, ReadCommand, RunOperational, EndOperational, EndEvaluation, RunPhase5,
                EndPhase5, RunSpectreLab, RunSpectre, EndSpectre, RunCapability, RunBenchmarks, Over,
                vars, Ends, evaluationState, parameters, verdicts
  <2> QED BY <1>1, <2>1
<1> QED BY <1>2, <1>3

LEMMA LabTyped ==
  ASSUME LabTypes, [Next]_vars
  PROVE  LabTypes'
<1>1. CASE UNCHANGED labState
  BY <1>1 DEF labState, call, LabTypes
<1>2. ASSUME NEW n, NEW tries, NEW with_report \in BOOLEAN, StartLab(n, tries, with_report)
      PROVE  LabTypes'
  <2>1. phase5' = with_report /\ lab_phase' \in {"done", "runs"} /\ UNCHANGED <<array1, matched>>
    BY <1>2, Zenon DEF StartLab
  <2> QED BY <2>1 DEF LabTypes
<1>3. ASSUME NEW tries, RunDemo(tries)
      PROVE  LabTypes'
  <2>1. /\ lab_phase' \in {"done", "thrown"} /\ UNCHANGED phase5
        /\ array1' \in {array1, "secret"} /\ matched' \in {matched, "YES", "NO"}
    BY <1>3, Zenon DEF RunDemo
  <2> QED BY <2>1 DEF LabTypes
<1>4. CASE ReliabilityRun \/ CountAlerts \/ ThrowLab
  <2>1. UNCHANGED <<array1, matched, phase5>> /\ lab_phase' \in {"runs", "report", "thrown"}
    BY <1>4 DEF ReliabilityRun, CountAlerts, ThrowLab, call
  <2> QED BY <2>1 DEF LabTypes
<1>5. CASE EndRuns
  <2>1. UNCHANGED <<array1, matched, phase5>> /\ lab_phase' \in {"events", "done"}
    BY <1>5, Zenon DEF EndRuns, call
  <2> QED BY <2>1 DEF LabTypes
<1>6. ASSUME NEW path, WriteLabReport(path)
      PROVE  LabTypes'
  BY <1>6 DEF WriteLabReport, call, LabTypes
<1>7. CASE RunPhase5 \/ RunSpectreLab \/ RunSpectre
  BY <1>2, <1>3, <1>4, <1>5, <1>6, <1>7 DEF RunPhase5, RunSpectreLab, RunSpectre
<1>8. CASE ~(RunPhase5 \/ RunSpectreLab \/ RunSpectre)
  BY <1>1, <1>8 DEF Next, ReadCommand, RunOperational, EndOperational, RunEvaluation, EndEvaluation,
       EndPhase5, EndSpectre, RunCapability, RunBenchmarks, Over, vars, Ends
<1> QED BY <1>7, <1>8

\* Ints of the operational lab: the catalogue is counted one by one, the rest is wrapped.
LEMMA CountersFit ==
  ASSUME OpInv
  PROVE  {op_runs, detected_events, missed_events, recovery_attempts, recovered_events,
          benign_events, false_positive_events} \subseteq Ints
<1>1. \A n \in 0 .. 9 : n \in Ints
  BY IntMaxAssumption, CatalogueAssumption DEF Ints, Catalogue
<1>2. op_runs \in Ints /\ op_runs \in Int
  BY IntMaxAssumption DEF OpInv, Ints
<1>3. Wrap(Catalogue * op_runs) \in Ints /\ Wrap(op_runs * 20) \in Ints /\ Wrap(0) \in Ints
  BY <1>2, WrapInts DEF Catalogue
<1>4. event - 1 \in 0 .. 9
  BY DEF OpInv, Catalogue
<1>5. CASE op_phase \in {"idle", "count"} \/ (op_phase = "done" /\ event <= Catalogue)
  <2>1. benign_events = 0 /\ false_positive_events = 0
    BY <1>5 DEF OpInv, benign
  <2>2. LabCounters(0, 0, 0, 0) \/ LabCounters(event - 1, 0, event - 1, event - 1)
    BY <1>5 DEF OpInv
  <2> QED BY <1>1, <1>2, <1>4, <2>1, <2>2 DEF LabCounters
<1>6. CASE op_phase = "report" \/ (op_phase = "done" /\ event > Catalogue)
  BY <1>2, <1>3, <1>6 DEF OpInv, LabCounters
<1>7. op_phase = "done" => event <= Catalogue \/ event > Catalogue
  BY DEF OpInv, Catalogue
<1> QED BY <1>5, <1>6, <1>7 DEF OpInv

LEMMA FilesNamed ==
  ASSUME CommandInv, ReadInv, NEW option \in Files
  PROVE  files[option] = DefaultFiles[option] \/ files[option] \in Range(argv)
<1>1. /\ PositionsOf(argv) \subseteq 1 .. Len(argv) /\ Len(argv) \in Nat
      /\ DOMAIN argv = 1 .. Len(argv)
  BY Positions DEF CommandInv
<1>2. CASE files[option] # DefaultFiles[option]
  <2>1. PICK k \in Before(argv, i, option) : files[option] = FileWorth(argv)[k]
    BY <1>2 DEF ReadInv, FilesInv, Settled
  <2>2. k \in 1 .. Len(argv) /\ k \in Done(argv, i) /\ argv[k] = option
    BY <1>1 DEF Before, Done
  <2>3. WellFormed(k) /\ argv[k] \in Valued
    BY <2>2, Kinds DEF ReadInv, PlacesInv
  <2>4. k < Len(argv)
    BY <1>1, <2>2, <2>3, FormIsAllowed DEF ValueAllowed
  <2>5. files[option] = argv[k + 1] /\ k + 1 \in DOMAIN argv
    BY <1>1, <2>1, <2>2, <2>4 DEF FileWorth
  <2> QED BY <2>5 DEF Range
<1> QED BY <1>2

LEMMA TypesFollow == ProgInv /\ ReadInv /\ LabInv /\ RestInv => TypeOK
<1> SUFFICES ASSUME ProgInv, ReadInv, LabInv, RestInv PROVE TypeOK
  OBVIOUS
<1>1. /\ i \in Nat \ {0} /\ given \subseteq Flags /\ counts \in [Counts -> Ints]
      /\ phase \in {"parse", "check", "dispatch", "run", "over"}
  BY DEF ProgInv, CommandInv, SettingsInv, ReadInv, PlacesInv
<1>2. sizes \in [Sizes -> Nat]
  <2>1. sizes \in [Sizes -> Int] /\ sizes["--bandwidth-mib"] > 0 /\ sizes["--buffer-mib"] >= 0
    BY DEF ProgInv, CommandInv, SettingsInv
  <2>2. \A option \in Sizes : sizes[option] \in Nat
    BY <2>1 DEF Sizes
  <2> QED BY <2>1, <2>2
<1>3. /\ DOMAIN files = Files
      /\ \A option \in Files : files[option] = DefaultFiles[option] \/ files[option] \in Range(argv)
  BY FilesNamed DEF ProgInv, ReadInv, FilesInv
<1>4. /\ mode \in Modes \union {"none"} /\ exit \in {-1, 0, 1, 2, Aborted}
      /\ report \in {"none", "cut", "whole"}
  BY DEF RestInv, CommandTypes, ReportTypes
<1>5. /\ op_phase \in {"idle", "count", "report", "done"} /\ event \in 1 .. Catalogue + 1
      /\ {op_runs, events_generated, detected_events, missed_events, recovery_attempts,
          recovered_events, benign_events, false_positive_events} \subseteq Ints
  <2>1. OpInv /\ events_generated \in Ints
    BY DEF ProgInv, RestInv, ReportTypes
  <2> QED BY <2>1, CountersFit DEF OpInv
<1>6. /\ ev_phase \in {"idle", "collect", "fault", "average", "report", "done", "thrown"}
      /\ {runs, trace_samples, averaging_window} \subseteq Ints /\ run \in Nat
  BY DEF ProgInv, EvInv, EvTypes, RestInv, EvaluationTypes
<1>7. /\ lab_phase \in {"idle", "runs", "events", "report", "done", "thrown"}
      /\ array1 \in {"zero", "secret"} /\ matched \in {"none", "YES", "NO"}
  BY DEF RestInv, LabTypes
<1>8. {op_written, ev_written, lab_written, phase5, repeatability_ok, leakage_detected} \subseteq BOOLEAN
  BY DEF ProgInv, ReportLink, RestInv, EvaluationTypes, LabTypes
<1>9. /\ lab_run \in Nat /\ exact_matches \in Nat /\ correct_bytes \in Nat
      /\ per_byte_correct_runs \in [Secret -> Nat]
  BY DEF LabInv, Counting
<1> QED BY <1>1, <1>2, <1>3, <1>4, <1>5, <1>6, <1>7, <1>8, <1>9 DEF TypeOK

\* For every set of command lines and an int of any width that holds the catalogue: the
\* variables have their types, a file is the default one or an argument, and no counter of
\* ints leaves them.
THEOREM ProgramTypes == Spec => []TypeOK
<1>1. Init => LabInv /\ RestInv
  BY LabInit, RestStart DEF Init
<1>2. ProgInv /\ LabInv /\ RestInv /\ [Next]_vars => LabInv' /\ RestInv'
  BY CountsKept, CommandTyped, ReportTyped, EvaluationTyped, LabTyped DEF RestInv
<1>3. ProgInv /\ ReadInv /\ LabInv /\ RestInv => TypeOK
  BY TypesFollow
<1> QED BY <1>1, <1>2, <1>3, ProgramInvariant, ReadInvariant, PTL DEF Spec

-------------------------------------------------------------------------------
(* Every step leaves less to do.                                            *)

\* What is left to do, in three numbers: where main is, where the labs are, and what their
\* loops and the one over the arguments still have before them.
StageLeft ==
  CASE phase = "parse" -> 4 [] phase = "check" -> 3 [] phase = "dispatch" -> 2
    [] phase = "run" -> 1 [] phase = "over" -> 0
OperationalLeft ==
  CASE op_phase = "idle" -> 3 [] op_phase = "count" -> 2 [] op_phase = "report" -> 1
    [] op_phase = "done" -> 0
EvaluationLeft ==
  CASE ev_phase = "idle" -> 3 [] ev_phase \in {"collect", "fault", "average"} -> 2
    [] ev_phase = "report" -> 1 [] ev_phase \in {"done", "thrown"} -> 0
LabLeft ==
  CASE lab_phase = "idle" -> 4 [] lab_phase = "runs" -> 3 [] lab_phase = "events" -> 2
    [] lab_phase = "report" -> 1 [] lab_phase \in {"done", "thrown"} -> 0
LabsLeft == OperationalLeft + EvaluationLeft + LabLeft

EvaluationTurns ==
  3 * (runs - run) - (CASE ev_phase = "fault" -> 1 [] ev_phase = "average" -> 2 [] OTHER -> 0)
TurnsLeft ==
  (Len(argv) + 1 - i) + (Catalogue + 1 - event) + (lab_runs - lab_run) + EvaluationTurns

\* Nothing is repeated: every step of main, of its loop over the arguments and of the labs'
\* loops, whatever fails in it, leaves less to do than there was, and never less than nothing.
Nearer ==
  /\ TurnsLeft' >= 0
  /\ \/ StageLeft' < StageLeft
     \/ StageLeft' = StageLeft /\ LabsLeft' < LabsLeft
     \/ StageLeft' = StageLeft /\ LabsLeft' = LabsLeft /\ TurnsLeft' < TurnsLeft
StepsRunOut == [][Nearer]_vars

\* The loop of the reliability lab does not run past its end, and that of the evaluation has
\* no end before it starts.
LabLoop == lab_runs \in Int /\ lab_run <= lab_runs
EvaluationLoop == ev_phase = "idle" => runs = 0
LoopInv == LabLoop /\ EvaluationLoop

\* What the invariants say of the measures: they are numbers, and no loop is past its end.
Measured ==
  /\ StageLeft \in Nat /\ OperationalLeft \in Nat /\ EvaluationLeft \in Nat /\ LabLeft \in Nat
  /\ Len(argv) + 1 - i \in Nat /\ Catalogue + 1 - event \in Nat /\ lab_runs - lab_run \in Nat
  /\ EvaluationTurns \in Nat

LEMMA LoopKept ==
  ASSUME ProgInv, LabInv, LoopInv, [Next]_vars
  PROVE  LoopInv'
<1>1. ASSUME UNCHANGED <<lab_runs, lab_run>> PROVE LabLoop'
  BY <1>1 DEF LoopInv, LabLoop
<1>2. ASSUME NEW n \in Ints, NEW tries, NEW with_report, n > 0, StartLab(n, tries, with_report)
      PROVE  LabLoop'
  <2>1. lab_run = 0 /\ lab_run' = 0 /\ lab_runs' = n
    BY <1>2 DEF StartLab, ProgInv, LabLink
  <2> QED BY <1>2, <2>1, IntMaxAssumption DEF Ints, LabLoop
<1>3. ASSUME ReliabilityRun PROVE LabLoop'
  <2>1. lab_run \in Nat
    BY DEF LabInv, Counting
  <2> QED BY <1>3, <2>1 DEF ReliabilityRun, call, LoopInv, LabLoop
<1>4. ASSUME EndRuns \/ CountAlerts \/ ThrowLab PROVE LabLoop'
  <2>1. UNCHANGED <<lab_runs, lab_run>>
    BY <1>4 DEF EndRuns, CountAlerts, ThrowLab, call
  <2> QED BY <1>1, <2>1
<1>5. ASSUME NEW path, WriteLabReport(path)
      PROVE  LabLoop'
  BY <1>1, <1>5 DEF WriteLabReport, call
<1>6. ASSUME NEW tries, RunDemo(tries)
      PROVE  LabLoop'
  BY <1>1, <1>6 DEF RunDemo
<1>7. /\ counts["--phase5-runs"] \in Ints /\ counts["--phase5-runs"] > 0
      /\ counts["--lab-runs"] \in Ints /\ counts["--lab-runs"] > 0
  BY DEF ProgInv, CommandInv, SettingsInv, PositiveCounts, Counts
<1>8. CASE RunPhase5 \/ RunSpectreLab \/ RunSpectre
  <2>1. LabLoop'
    BY <1>2, <1>3, <1>4, <1>5, <1>6, <1>7, <1>8 DEF RunPhase5, RunSpectreLab, RunSpectre
  <2>2. UNCHANGED evaluationState
    BY <1>8 DEF RunPhase5, RunSpectreLab, RunSpectre
  <2> QED BY <2>1, <2>2 DEF LoopInv, EvaluationLoop, evaluationState, parameters
<1>9. CASE ~(RunPhase5 \/ RunSpectreLab \/ RunSpectre)
  <2>1. UNCHANGED labState
    BY <1>9 DEF Next, ReadCommand, RunOperational, EndOperational, RunEvaluation, EndEvaluation,
         EndPhase5, EndSpectre, RunCapability, RunBenchmarks, Over, vars, Ends
  <2>2. UNCHANGED evaluationState \/ ev_phase' # "idle"
    BY <1>9 DEF Next, ReadCommand, RunOperational, EndOperational, RunEvaluation, EndEvaluation,
       EndPhase5, EndSpectre, RunCapability, RunBenchmarks, Over, vars, Ends, StartEvaluation,
       CollectTraces, RecoverCapture, AppendBlocks, Evaluate, ThrowEvaluation, WriteEvaluationReport
  <2>3. EvaluationLoop'
    BY <2>2 DEF LoopInv, EvaluationLoop, evaluationState, parameters
  <2>4. LabLoop'
    BY <1>1, <2>1 DEF labState, call
  <2> QED BY <2>3, <2>4 DEF LoopInv
<1> QED BY <1>8, <1>9

LEMMA MeasuresFollow ==
  ASSUME ProgInv, ReadInv, LabInv, LoopInv, RestInv
  PROVE  Measured
<1>1. StageLeft \in Nat
  BY Zenon DEF ProgInv, CommandInv, StageLeft
<1>2. OperationalLeft \in Nat
  BY DEF ProgInv, OpInv, OperationalLeft
<1>3. EvaluationLeft \in Nat
  BY DEF ProgInv, EvInv, EvTypes, EvaluationLeft
<1>4. LabLeft \in Nat
  BY DEF RestInv, LabTypes, LabLeft
<1>5. Len(argv) + 1 - i \in Nat
  <2>1. Len(argv) \in Nat /\ i \in 1 .. Len(argv) + 1
    BY DEF ProgInv, CommandInv, ReadInv, PlacesInv
  <2> QED BY <2>1
<1>6. Catalogue + 1 - event \in Nat
  BY DEF ProgInv, OpInv, Catalogue
<1>7. lab_runs - lab_run \in Nat
  BY DEF LabInv, Counting, LoopInv, LabLoop
<1>8. EvaluationTurns \in Nat
  <2>1. run \in Nat /\ runs \in Int /\ EvInv
    BY IntMaxAssumption DEF ProgInv, EvInv, EvTypes, RestInv, EvaluationTypes, Ints
  <2>2. run <= runs
    <3>1. CASE Active
      BY <2>1, <3>1 DEF EvInv
    <3>2. CASE ~Active
      <4>1. run = 0 /\ ev_phase \in {"idle", "done"}
        BY <2>1, <3>2 DEF EvInv, EvTypes, Active
      <4>2. counts["--evaluation-runs"] \in Int /\ counts["--evaluation-runs"] > 0
        BY IntMaxAssumption DEF ProgInv, CommandInv, SettingsInv, PositiveCounts, Counts, Ints
      <4>3. ev_phase = "done" => runs = counts["--evaluation-runs"]
        BY DEF ProgInv, EvLink
      <4> QED BY <2>1, <4>1, <4>2, <4>3 DEF LoopInv, EvaluationLoop
    <3> QED BY <3>1, <3>2
  <2>3. ev_phase \in {"fault", "average"} => run < runs
    BY <2>1 DEF EvInv, TracesInv
  <2> QED BY <2>1, <2>2, <2>3 DEF EvaluationTurns
<1> QED BY <1>1, <1>2, <1>3, <1>4, <1>5, <1>6, <1>7, <1>8 DEF Measured

\* The phases of the labs add up.
LEMMA LabsAddUp ==
  ASSUME NEW a \in Nat, NEW b \in Nat, NEW c \in Nat, NEW d \in Nat, d < a
  PROVE  d + b + c < a + b + c /\ b + d + c < b + a + c /\ b + c + d < b + c + a
OBVIOUS

LEMMA TurnsNotNegative ==
  ASSUME Measured'
  PROVE  TurnsLeft' >= 0
BY DEF Measured, TurnsLeft

\* With no less in the rest, a step is nearer the end by one of the measures of Nearer.
LEMMA NearerByStage ==
  ASSUME Measured', StageLeft' < StageLeft
  PROVE  Nearer
BY TurnsNotNegative DEF Nearer

LEMMA NearerByArgument ==
  ASSUME Measured, Measured', UNCHANGED <<argv, phase>>, i' > i, i \in Nat, i' \in Nat,
         Len(argv) \in Nat, UNCHANGED operationalState, UNCHANGED evaluationState, UNCHANGED labState
  PROVE  Nearer
<1>1. /\ StageLeft' = StageLeft /\ OperationalLeft' = OperationalLeft /\ LabLeft' = LabLeft
      /\ EvaluationLeft' = EvaluationLeft
      /\ EvaluationTurns' = EvaluationTurns /\ event' = event
      /\ lab_run' = lab_run /\ lab_runs' = lab_runs
  BY DEF operationalState, evaluationState, parameters, labState, call, StageLeft, OperationalLeft,
         EvaluationLeft, LabLeft, EvaluationTurns
<1>2. TurnsLeft' >= 0 /\ TurnsLeft' < TurnsLeft
  <2>1. TurnsLeft' >= 0
    BY TurnsNotNegative
  <2>2. /\ Catalogue + 1 - event \in Nat /\ lab_runs - lab_run \in Nat /\ EvaluationTurns \in Nat
        /\ Len(argv) \in Nat /\ argv' = argv
    BY DEF Measured
  <2>3. TurnsLeft' < TurnsLeft
    BY <1>1, <2>2 DEF TurnsLeft
  <2> QED BY <2>1, <2>3
<1>3. LabsLeft' = LabsLeft
  BY <1>1 DEF LabsLeft
<1> QED BY <1>1, <1>2, <1>3 DEF Nearer

LEMMA NearerByOperational ==
  ASSUME Measured, Measured', UNCHANGED commandVars, UNCHANGED evaluationState, UNCHANGED labState,
         \/ OperationalLeft' < OperationalLeft
         \/ /\ op_phase' = op_phase /\ event' = event + 1
            /\ event \in Int
  PROVE  Nearer
<1>1. /\ StageLeft' = StageLeft /\ LabLeft' = LabLeft /\ EvaluationLeft' = EvaluationLeft
      /\ EvaluationTurns' = EvaluationTurns
      /\ lab_run' = lab_run /\ lab_runs' = lab_runs /\ argv' = argv /\ i' = i
  BY DEF commandVars, evaluationState, parameters, labState, call, StageLeft,
         EvaluationLeft, LabLeft, EvaluationTurns
<1>2. TurnsLeft' >= 0
  BY TurnsNotNegative
<1>3. CASE OperationalLeft' < OperationalLeft
  <2>1. LabsLeft' < LabsLeft
    <3>1. /\ OperationalLeft \in Nat /\ EvaluationLeft \in Nat /\ LabLeft \in Nat
          /\ OperationalLeft' \in Nat
      BY DEF Measured
    <3> QED BY <1>1, <1>3, <3>1, LabsAddUp DEF LabsLeft
  <2> QED BY <1>1, <1>2, <2>1 DEF Nearer
<1>4. CASE op_phase' = op_phase /\ event' = event + 1 /\ event \in Int
  <2>1. OperationalLeft' = OperationalLeft
    BY <1>4 DEF OperationalLeft
  <2>2. TurnsLeft' < TurnsLeft
    BY <1>1, <1>4 DEF Measured, TurnsLeft, Catalogue
  <2>3. LabsLeft' = LabsLeft
    BY <1>1, <2>1 DEF LabsLeft
  <2> QED BY <1>1, <1>2, <2>2, <2>3 DEF Nearer
<1> QED BY <1>3, <1>4

LEMMA NearerByEvaluation ==
  ASSUME Measured, Measured', UNCHANGED commandVars, UNCHANGED operationalState, UNCHANGED labState,
         \/ EvaluationLeft' < EvaluationLeft
         \/ EvaluationLeft' = EvaluationLeft /\ EvaluationTurns' < EvaluationTurns
  PROVE  Nearer
<1>1. /\ StageLeft' = StageLeft /\ LabLeft' = LabLeft /\ OperationalLeft' = OperationalLeft
      /\ event' = event
      /\ lab_run' = lab_run /\ lab_runs' = lab_runs /\ argv' = argv /\ i' = i
  BY DEF commandVars, operationalState, labState, call, StageLeft, OperationalLeft, LabLeft
<1>2. TurnsLeft' >= 0
  BY TurnsNotNegative
<1>3. CASE EvaluationLeft' < EvaluationLeft
  <2>1. LabsLeft' < LabsLeft
    <3>1. /\ OperationalLeft \in Nat /\ EvaluationLeft \in Nat /\ LabLeft \in Nat
          /\ EvaluationLeft' \in Nat
      BY DEF Measured
    <3> QED BY <1>1, <1>3, <3>1, LabsAddUp DEF LabsLeft
  <2> QED BY <1>1, <1>2, <2>1 DEF Nearer
<1>4. CASE EvaluationLeft' = EvaluationLeft /\ EvaluationTurns' < EvaluationTurns
  <2>1. TurnsLeft' < TurnsLeft
    BY <1>1, <1>4 DEF Measured, TurnsLeft
  <2>2. LabsLeft' = LabsLeft
    BY <1>1, <1>4 DEF LabsLeft
  <2> QED BY <1>1, <1>2, <2>1, <2>2 DEF Nearer
<1> QED BY <1>3, <1>4

LEMMA NearerByLab ==
  ASSUME Measured, Measured', UNCHANGED commandVars, UNCHANGED operationalState,
         UNCHANGED evaluationState,
         \/ LabLeft' < LabLeft
         \/ /\ lab_phase' = lab_phase /\ UNCHANGED lab_runs /\ lab_run' = lab_run + 1
            /\ lab_run \in Int /\ lab_runs \in Int
  PROVE  Nearer
<1>1. /\ StageLeft' = StageLeft /\ OperationalLeft' = OperationalLeft
      /\ EvaluationLeft' = EvaluationLeft /\ EvaluationTurns' = EvaluationTurns
      /\ event' = event /\ argv' = argv /\ i' = i
  BY DEF commandVars, operationalState, evaluationState, parameters, StageLeft, OperationalLeft,
         EvaluationLeft, EvaluationTurns
<1>2. TurnsLeft' >= 0
  BY TurnsNotNegative
<1>3. CASE LabLeft' < LabLeft
  <2>1. LabsLeft' < LabsLeft
    <3>1. /\ OperationalLeft \in Nat /\ EvaluationLeft \in Nat /\ LabLeft \in Nat
          /\ LabLeft' \in Nat
      BY DEF Measured
    <3> QED BY <1>1, <1>3, <3>1, LabsAddUp DEF LabsLeft
  <2> QED BY <1>1, <1>2, <2>1 DEF Nearer
<1>4. CASE /\ lab_phase' = lab_phase /\ UNCHANGED lab_runs /\ lab_run' = lab_run + 1
           /\ lab_run \in Int /\ lab_runs \in Int
  <2>1. LabLeft' = LabLeft
    BY <1>4 DEF LabLeft
  <2>2. TurnsLeft' < TurnsLeft
    BY <1>1, <1>4 DEF Measured, TurnsLeft
  <2>3. LabsLeft' = LabsLeft
    BY <1>1, <2>1 DEF LabsLeft
  <2> QED BY <1>1, <1>2, <2>2, <2>3 DEF Nearer
<1> QED BY <1>3, <1>4

\* Reading the command line: the next argument, or the next stage.
LEMMA ReadNearer ==
  ASSUME ProgInv, Measured, Measured', ReadCommand
  PROVE  Nearer
<1>1. /\ UNCHANGED operationalState /\ UNCHANGED evaluationState /\ UNCHANGED labState
      /\ i \in Nat /\ Len(argv) \in Nat
  BY DEF ReadCommand, ProgInv, CommandInv
<1>2. CASE ParseFlag \/ ParseCount \/ ParseSize \/ ParseFile
  <2>1. UNCHANGED <<argv, phase>> /\ (i' = i + 1 \/ i' = i + 2)
    BY <1>2 DEF ParseFlag, ParseCount, ParseSize, ParseFile
  <2>2. i' > i /\ i' \in Nat
    BY <1>1, <2>1
  <2> QED BY <1>1, <2>1, <2>2, NearerByArgument
<1>3. CASE ParseHelp \/ RefuseArgument \/ RefuseConfiguration \/ SkipNuma
  <2>1. phase \in {"parse", "check", "dispatch"} /\ phase' = "over"
    BY <1>3 DEF ParseHelp, RefuseArgument, RefuseConfiguration, SkipNuma, Exit, AtArgument
  <2> QED BY <2>1, NearerByStage DEF StageLeft
<1>4. CASE EndOfArguments \/ AcceptConfiguration \/ Dispatch
  <2>1. \/ phase = "parse" /\ phase' = "check"
        \/ phase = "check" /\ phase' = "dispatch"
        \/ phase = "dispatch" /\ phase' = "run"
    BY <1>4 DEF EndOfArguments, AcceptConfiguration, Dispatch
  <2> QED BY <2>1, NearerByStage DEF StageLeft
<1> QED BY <1>2, <1>3, <1>4 DEF ReadCommand, CommandNext

LEMMA OperationalNearer ==
  ASSUME ProgInv, Measured, Measured', RunOperational
  PROVE  Nearer
<1>1. UNCHANGED commandVars /\ UNCHANGED evaluationState /\ UNCHANGED labState
  BY DEF RunOperational
<1>2. CASE CountEvent
  <2>1. op_phase' = op_phase /\ event' = event + 1 /\ event \in Int
    BY <1>2 DEF CountEvent, ProgInv, OpInv
  <2> QED BY <1>1, <2>1, NearerByOperational
<1>3. CASE ~CountEvent
  <2>1. \/ op_phase = "idle" /\ op_phase' \in {"count", "done"}
        \/ op_phase = "count" /\ op_phase' = "report"
        \/ op_phase = "report" /\ op_phase' = "done"
    BY <1>3, Zenon DEF RunOperational, StartOperational, ScaleCounters, WriteOperationalReport
  <2>2. OperationalLeft' < OperationalLeft
    BY <2>1 DEF OperationalLeft
  <2> QED BY <1>1, <2>2, NearerByOperational
<1> QED BY <1>2, <1>3

\* A run of the evaluation has up to three steps, the last of them ends it.
LEMMA EvaluationNearer ==
  ASSUME ProgInv, RestInv, Measured, Measured', RunEvaluation
  PROVE  Nearer
<1>1. UNCHANGED commandVars /\ UNCHANGED operationalState /\ UNCHANGED labState
  BY DEF RunEvaluation
<1>2. run \in Int /\ runs \in Int
  BY IntMaxAssumption DEF ProgInv, EvInv, EvTypes, RestInv, EvaluationTypes, Ints
<1>3. CASE CollectTraces \/ RecoverCapture \/ AppendBlocks
  <2>1. /\ UNCHANGED runs
        /\ \/ ev_phase = "collect" /\ ev_phase' = "fault" /\ run' = run
           \/ ev_phase = "collect" /\ ev_phase' = "average" /\ run' = run
           \/ ev_phase = "fault" /\ ev_phase' = "average" /\ run' = run
           \/ ev_phase = "average" /\ ev_phase' = "collect" /\ run' = run + 1
    BY <1>3, Zenon DEF CollectTraces, RecoverCapture, AppendBlocks, parameters
  <2>2. EvaluationTurns' < EvaluationTurns
    BY <1>2, <2>1 DEF EvaluationTurns
  <2>3. EvaluationLeft' = EvaluationLeft
    BY <2>1 DEF EvaluationLeft
  <2> QED BY <1>1, <2>2, <2>3, NearerByEvaluation
<1>4. CASE ~(CollectTraces \/ RecoverCapture \/ AppendBlocks)
  <2>1. \/ ev_phase = "idle" /\ ev_phase' \in {"collect", "done"}
        \/ ev_phase = "collect" /\ ev_phase' = "report"
        \/ ev_phase \in {"collect", "fault", "average"} /\ ev_phase' = "thrown"
        \/ ev_phase = "report" /\ ev_phase' = "done"
    BY <1>4, Zenon DEF RunEvaluation, StartEvaluation, Evaluate, ThrowEvaluation, WriteEvaluationReport
  <2>2. EvaluationLeft' < EvaluationLeft
    BY <2>1 DEF EvaluationLeft
  <2> QED BY <1>1, <2>2, NearerByEvaluation
<1> QED BY <1>3, <1>4

LEMMA LabNearer ==
  ASSUME LabInv, LoopInv, Measured, Measured', LabRuns
  PROVE  Nearer
<1>1. UNCHANGED commandVars /\ UNCHANGED operationalState /\ UNCHANGED evaluationState
  BY DEF LabRuns, RunPhase5, RunSpectreLab, RunSpectre
<1>2. CASE ReliabilityRun
  <2>1. /\ lab_phase' = lab_phase /\ UNCHANGED lab_runs /\ lab_run' = lab_run + 1
        /\ lab_run \in Int /\ lab_runs \in Int
    BY <1>2 DEF ReliabilityRun, call, LabInv, Counting, LoopInv, LabLoop
  <2> QED BY <1>1, <2>1, NearerByLab
<1>3. CASE ~ReliabilityRun
  <2>1. \/ lab_phase = "idle" /\ lab_phase' \in {"runs", "done", "thrown"}
        \/ lab_phase = "runs" /\ lab_phase' \in {"events", "done", "thrown"}
        \/ lab_phase = "events" /\ lab_phase' \in {"report", "thrown"}
        \/ lab_phase = "report" /\ lab_phase' = "done"
    BY <1>3, Zenon DEF LabRuns, RunPhase5, RunSpectreLab, RunSpectre, StartLab, RunDemo, EndRuns,
       CountAlerts, ThrowLab, WriteLabReport
  <2>2. LabLeft' < LabLeft
    BY <2>1 DEF LabLeft
  <2> QED BY <1>1, <2>2, NearerByLab
<1> QED BY <1>2, <1>3

LEMMA EveryStepNearer ==
  ASSUME ProgInv, LabInv, LoopInv, RestInv, Measured, Measured', [Next]_vars
  PROVE  [Nearer]_vars
<1>1. CASE ReadCommand
  BY <1>1, ReadNearer
<1>2. CASE RunOperational
  BY <1>2, OperationalNearer
<1>3. CASE RunEvaluation
  BY <1>3, EvaluationNearer
<1>4. CASE RunPhase5 \/ RunSpectreLab \/ RunSpectre
  BY <1>4, LabNearer DEF LabRuns
<1>5. CASE \/ EndOperational \/ EndEvaluation \/ EndPhase5
           \/ EndSpectre \/ RunCapability \/ RunBenchmarks
  <2>1. phase = "run" /\ phase' = "over"
    BY <1>5 DEF EndOperational, EndEvaluation, EndPhase5, EndSpectre, RunCapability, RunBenchmarks,
                Runs, Ends, Exit
  <2> QED BY <2>1, NearerByStage DEF StageLeft
<1>6. CASE Over \/ UNCHANGED vars
  BY <1>6 DEF Over
<1> QED BY <1>1, <1>2, <1>3, <1>4, <1>5, <1>6 DEF Next

\* Whatever the command line and the outcome of what can fail: every step of main, of its
\* loop over the arguments and of the loops of the labs it calls leaves less to do, and what
\* is left to do is never less than nothing.  There is no behaviour that goes on for ever.
THEOREM StepsDecrease == Spec => StepsRunOut
<1>1. Init => LabInv /\ RestInv /\ LoopInv
  BY LabInit, RestStart DEF Init, LabIdle, EvaluationIdle, LoopInv, LabLoop, EvaluationLoop
<1>2. ProgInv /\ LabInv /\ RestInv /\ LoopInv /\ [Next]_vars => LabInv' /\ RestInv' /\ LoopInv'
  BY CountsKept, CommandTyped, ReportTyped, EvaluationTyped, LabTyped, LoopKept DEF RestInv
<1>3. ProgInv /\ ReadInv /\ LabInv /\ LoopInv /\ RestInv => Measured
  BY MeasuresFollow
<1>4. ProgInv /\ LabInv /\ LoopInv /\ RestInv /\ Measured /\ Measured' /\ [Next]_vars => [Nearer]_vars
  BY EveryStepNearer
<1> QED BY <1>1, <1>2, <1>3, <1>4, ProgramInvariant, ReadInvariant, PTL DEF Spec, StepsRunOut
===============================================================================
