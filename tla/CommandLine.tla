------------------------------ MODULE CommandLine ------------------------------
(***************************************************************************)
(* The command line of main: the loop that reads the options, the checks   *)
(* on what was read, and the choice of the one mode that runs.             *)
(*                                                                         *)
(* Arguments are strings.  NumberOf knows those that parse_int reads; an   *)
(* option keeps the name it has on the command line, so that the locals of *)
(* main are the functions counts, sizes and files on option names and the  *)
(* set given of the flags that were met.                                   *)
(***************************************************************************)
EXTENDS MachineInt, Sequences, FiniteSets

CONSTANTS
  CommandLines,   \* the command lines of the behaviours, without argv[0]
  NumberOf,       \* the value of every argument that is an int and nothing else
  DefaultCounts   \* the initial values of main's int locals, by option

\* The counts that are only checked when all options are read.
LooseCounts == {"--rounds", "--iterations", "--warmup", "--shm-iterations"}

\* The counts that are refused at once unless they are positive.
PositiveCounts ==
  { "--lab-runs", "--phase5-runs", "--compute-seconds", "--evaluation-runs", "--trace-samples",
    "--trace-average", "--operational-runs", "--spectre-tries" }

Counts == LooseCounts \union PositiveCounts \union {"--numa-node"}
Sizes == {"--buffer-mib", "--bandwidth-mib"}
Files == {"--csv", "--evaluation-report", "--operational-report"}
Valued == Counts \union Sizes \union Files

\* The modes other than the benchmarks, the first that is asked for runs.
Precedence ==
  << "--operational-lab", "--evaluation-lab", "--cpu-capability", "--phase5-lab",
     "--spectre-lab", "--spectre" >>
Labs == {Precedence[k] : k \in DOMAIN Precedence}
Modes == Labs \union {"--numa-matrix", "benchmarks"}
Flags == Labs \union {"--quiet", "--verbose", "--no-bandwidth", "--no-shared-memory", "--numa-matrix"}

Mebibyte == 1024 * 1024
DefaultFiles == [option \in Files |->
  IF option = "--csv" THEN ""
  ELSE IF option = "--evaluation-report" THEN "evaluation_lab_report.json"
  ELSE "operational_lab_report.json"]
DefaultSizes == [option \in Sizes |-> IF option = "--buffer-mib" THEN 0 ELSE 64 * Mebibyte]

ASSUME CommandLinesAssumption ==
  /\ \A line \in CommandLines : line \in Seq(STRING)
  /\ NumberOf \in [DOMAIN NumberOf -> Ints]
  /\ DefaultCounts \in [Counts -> Ints]
  /\ DefaultCounts["--numa-node"] = -1 /\ DefaultCounts["--warmup"] >= 0
  /\ \A option \in Counts \ {"--numa-node", "--warmup"} : DefaultCounts[option] > 0

VARIABLES
  argv, i,                      \* the arguments and the index of the next to be read
  given, counts, sizes, files,  \* main's locals
  phase,                        \* "parse", "check", "dispatch", "run" or "over"
  mode,                         \* the mode that runs, "none" if none does
  exit                          \* what main returned, -1 as long as it has not

settings == <<given, counts, sizes, files>>
commandVars == <<argv, i, settings, phase, mode, exit>>

CommandInit ==
  /\ argv \in CommandLines /\ i = 1
  /\ given = {} /\ counts = DefaultCounts /\ sizes = DefaultSizes /\ files = DefaultFiles
  /\ phase = "parse" /\ mode = "none" /\ exit = -1

Exit(code) ==
  /\ phase' = "over" /\ exit' = code
  /\ UNCHANGED <<argv, i, settings, mode>>

-------------------------------------------------------------------------------
(* The loop over the arguments.                                            *)

AtArgument == phase = "parse" /\ i <= Len(argv)

\* Mutant: no count may be zero.
OnlyPositive(option, n) == option \notin {"--warmup"} => n > 0

\* The counts that are checked as soon as they are read.
CountAllowed(option, n) ==
  /\ option \in PositiveCounts => n > 0
  /\ option = "--numa-node" => n >= 0

\* consume_int and consume_size_mib, and the checks behind them: is there a value, and is
\* it one for the option?
ValueAllowed(option, at) ==
  /\ at < Len(argv)
  /\ option \in Counts \union Sizes => argv[at + 1] \in DOMAIN NumberOf
  /\ option \in Counts => CountAllowed(option, NumberOf[argv[at + 1]])
  /\ option \in Sizes => NumberOf[argv[at + 1]] > 0

\* Whatever comes next, nothing behind --help is looked at.
ParseHelp == AtArgument /\ argv[i] = "--help" /\ Exit(0)

ParseFlag ==
  /\ AtArgument /\ argv[i] \in Flags
  /\ given' = given \union {argv[i]} /\ i' = i + 1
  /\ UNCHANGED <<argv, counts, sizes, files, phase, mode, exit>>

ParseCount ==
  /\ AtArgument /\ argv[i] \in Counts /\ ValueAllowed(argv[i], i)
  /\ counts' = [counts EXCEPT ![argv[i]] = NumberOf[argv[i + 1]]] /\ i' = i + 2
  /\ UNCHANGED <<argv, given, sizes, files, phase, mode, exit>>

ParseSize ==
  /\ AtArgument /\ argv[i] \in Sizes /\ ValueAllowed(argv[i], i)
  /\ sizes' = [sizes EXCEPT ![argv[i]] = NumberOf[argv[i + 1]] * Mebibyte] /\ i' = i + 2
  /\ UNCHANGED <<argv, given, counts, files, phase, mode, exit>>

\* Mutant: a value that is an option itself is not skipped.
RereadFileName ==
  /\ AtArgument /\ argv[i] \in Files /\ ValueAllowed(argv[i], i)
  /\ files' = [files EXCEPT ![argv[i]] = argv[i + 1]]
  /\ i' = IF argv[i + 1] \in Flags THEN i + 1 ELSE i + 2
  /\ UNCHANGED <<argv, given, counts, sizes, phase, mode, exit>>

\* A file name is whatever comes next, another option included.
ParseFile ==
  /\ AtArgument /\ argv[i] \in Files /\ ValueAllowed(argv[i], i)
  /\ files' = [files EXCEPT ![argv[i]] = argv[i + 1]] /\ i' = i + 2
  /\ UNCHANGED <<argv, given, counts, sizes, phase, mode, exit>>

\* An option nobody knows, or one whose value is missing or of no use.
RefuseArgument ==
  /\ AtArgument /\ argv[i] \notin Flags \union {"--help"}
  /\ argv[i] \in Valued => ~ValueAllowed(argv[i], i)
  /\ Exit(2)

EndOfArguments ==
  /\ phase = "parse" /\ i > Len(argv)
  /\ phase' = "check"
  /\ UNCHANGED <<argv, i, settings, mode, exit>>

-------------------------------------------------------------------------------
(* The checks behind the loop, and the choice of the mode.                 *)

\* Mutant: what may be zero for one benchmark may be zero for all.
ConfigurationWithoutRounds ==
  /\ ~(counts["--numa-node"] >= 0 /\ "--numa-matrix" \in given)
  /\ counts["--warmup"] >= 0
  /\ "--no-shared-memory" \notin given => counts["--shm-iterations"] > 0

\* The counts of the labs are positive ever since they were read.
ConfigurationValid ==
  /\ ~(counts["--numa-node"] >= 0 /\ "--numa-matrix" \in given)
  /\ counts["--rounds"] > 0 /\ counts["--iterations"] > 0 /\ counts["--warmup"] >= 0
  /\ "--no-shared-memory" \notin given => counts["--shm-iterations"] > 0
  /\ counts["--spectre-tries"] > 0
  /\ "--spectre-lab" \in given => counts["--lab-runs"] > 0
  /\ "--phase5-lab" \in given => counts["--phase5-runs"] > 0
  /\ "--cpu-capability" \in given => counts["--compute-seconds"] > 0
  /\ "--evaluation-lab" \in given =>
       \A option \in {"--evaluation-runs", "--trace-samples", "--trace-average"} : counts[option] > 0
  /\ "--operational-lab" \in given => counts["--operational-runs"] > 0

RefuseConfiguration == phase = "check" /\ ~ConfigurationValid /\ Exit(2)

AcceptConfiguration ==
  /\ phase = "check" /\ ConfigurationValid
  /\ phase' = "dispatch"
  /\ UNCHANGED <<argv, i, settings, mode, exit>>

NumaAsked == "--numa-matrix" \in given \/ counts["--numa-node"] >= 0

\* The first of the modes that were asked for.
SelectedMode ==
  IF "--numa-matrix" \in given THEN "--numa-matrix"
  ELSE IF given \intersect Labs = {} THEN "benchmarks"
  ELSE Precedence[CHOOSE k \in DOMAIN Precedence :
         /\ Precedence[k] \in given
         /\ \A n \in DOMAIN Precedence : Precedence[n] \in given => k <= n]

\* NumaSupport::available() is asked at most once: where it says no, what was asked for is
\* skipped, and that counts as success.
SkipNuma == phase = "dispatch" /\ NumaAsked /\ Exit(0)

\* With NUMA support, --numa-node has no effect on a lab.
Dispatch ==
  /\ phase = "dispatch"
  /\ phase' = "run" /\ mode' = SelectedMode
  /\ UNCHANGED <<argv, i, settings, exit>>

CommandNext ==
  \/ ParseHelp \/ ParseFlag \/ ParseCount \/ ParseSize \/ ParseFile \/ RefuseArgument
  \/ EndOfArguments \/ RefuseConfiguration \/ AcceptConfiguration \/ SkipNuma \/ Dispatch

-------------------------------------------------------------------------------
(* Properties.                                                             *)

\* The positions at which an option is expected: those that are not the value of the
\* option before.
OptionPositions ==
  CHOOSE at \in SUBSET DOMAIN argv : \A k \in DOMAIN argv :
    k \in at <=> ~(k - 1 \in at /\ argv[k - 1] \in Valued)

\* What the usage message asks of an option and its value.
WellFormed(k) ==
  \/ argv[k] \in Flags
  \/ argv[k] \in Files /\ k < Len(argv)
  \/ /\ argv[k] \in Counts \union Sizes
     /\ k < Len(argv) /\ argv[k + 1] \in DOMAIN NumberOf
     /\ argv[k] \in PositiveCounts \union Sizes => NumberOf[argv[k + 1]] > 0
     /\ argv[k] = "--numa-node" => NumberOf[argv[k + 1]] >= 0

\* The value an option was given last, and what it is worth, or what it is without a value.
GivenAt(option) == {k \in OptionPositions : argv[k] = option}
LastValue(option) == argv[(CHOOSE k \in GivenAt(option) : \A n \in GivenAt(option) : n <= k) + 1]
LastCount(option) ==
  IF GivenAt(option) = {} THEN DefaultCounts[option] ELSE NumberOf[LastValue(option)]
LastSize(option) ==
  IF GivenAt(option) = {} THEN DefaultSizes[option] ELSE NumberOf[LastValue(option)] * Mebibyte
LastFile(option) == IF GivenAt(option) = {} THEN DefaultFiles[option] ELSE LastValue(option)

\* Of command lines that main accepts (its loop, main.cpp:308-435): every argument is an
\* option or the value of the one before, the last value of an option counts, and no
\* argument is lost or used twice.
ReadAsWritten ==
  phase = "dispatch" =>
    /\ \A k \in OptionPositions : WellFormed(k)
    /\ given = {argv[k] : k \in OptionPositions} \intersect Flags
    /\ \A option \in Counts : counts[option] = LastCount(option)
    /\ \A option \in Sizes : sizes[option] = LastSize(option)
    /\ \A option \in Files : files[option] = LastFile(option)

\* main returns 2 exactly of the command lines with an item that is not well formed, and
\* no --help before it, and of those that ask for two NUMA modes or for a benchmark
\* without samples; the further checks of main.cpp:443-455 never decide.
RefusedForCause ==
  LET flawed == {k \in OptionPositions : ~WellFormed(k) /\ argv[k] # "--help"}
      helped == {k \in OptionPositions : argv[k] = "--help"}
      contradictory ==
        \/ LastCount("--numa-node") >= 0 /\ \E k \in OptionPositions : argv[k] = "--numa-matrix"
        \/ LastCount("--rounds") <= 0 \/ LastCount("--iterations") <= 0 \/ LastCount("--warmup") < 0
        \/ /\ LastCount("--shm-iterations") <= 0
           /\ \A k \in OptionPositions : argv[k] # "--no-shared-memory"
      cause == \/ \E k \in flawed : \A h \in helped : k < h
               \/ flawed \union helped = {} /\ contradictory
  IN  /\ exit = 2 => cause
      /\ phase = "dispatch" => ~cause
===============================================================================
