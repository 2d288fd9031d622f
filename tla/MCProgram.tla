------------------------------- MODULE MCProgram -------------------------------
(* An instance of Program for TLC: ints of eight bits, 0, 2 and -1 for the *)
(* numbers, "x" for what is none.                                          *)
EXTENDS Program, SequencesExt

SmallNumbers ==
  [text \in {"-1", "0", "1", "2", "3", "5", "6", "7", "64"} |->
     CASE text = "-1" -> -1 [] text = "0" -> 0 [] text = "1" -> 1 [] text = "2" -> 2
       [] text = "3" -> 3 [] text = "5" -> 5 [] text = "6" -> 6 [] text = "7" -> 7
       [] text = "64" -> 64]

SmallDefaults == [option \in Counts |-> IF option = "--numa-node" THEN -1 ELSE 2]

\* All command lines of up to three of these arguments.
Arguments ==
  { "--help", "--quiet", "--rounds", "--warmup", "--shm-iterations", "--no-shared-memory",
    "--numa-node", "--numa-matrix", "--buffer-mib", "--lab-runs", "--csv", "--spectre",
    "0", "2", "-1", "x" }
ShortLines == SeqOf(Arguments, 3)

\* Two options of which the second may undo or contradict the first.
Items ==
  { <<"--rounds", "0">>, <<"--rounds", "2">>, <<"--iterations", "0">>, <<"--numa-node", "0">>,
    <<"--numa-node", "1">>, <<"--csv", "--quiet">>, <<"--csv", "a">>, <<"--bandwidth-mib", "1">>,
    <<"--bandwidth-mib", "3">>, <<"--spectre-tries", "0">>, <<"--operational-report", "--help">>,
    <<"--numa-matrix">>, <<"--spectre-lab">>, <<"--cpu-capability">>, <<"--phase5-lab">>,
    <<"--operational-lab">>, <<"--unknown">> }
PairLines == {first \o second : first, second \in Items}

OperationalLines ==
  {<<"--operational-lab", "--operational-runs", n>> : n \in {"0", "1", "6", "7", "64"}}
  \union {<<"--operational-lab", "--operational-report", "">>}

\* Runs, samples and window: with and without a fault, a window that leaves timings over,
\* and one no block of which is full.
EvaluationLines ==
  { <<"--evaluation-lab", "--evaluation-runs", line[1], "--trace-samples", line[2],
      "--trace-average", line[3]>> :
      line \in {<<"2", "3", "2">>, <<"1", "5", "2">>, <<"2", "2", "1">>, <<"3", "1", "1">>,
                <<"2", "1", "2">>} }
  \union {<<"--evaluation-lab", "--evaluation-report", "">>}

AllLines == ShortLines \union PairLines \union OperationalLines \union EvaluationLines

TwoTimings == {10, 20}

ReportLines == {<<"--operational-lab">>, <<"--phase5-lab">>}
SpectreLines == {<<"--spectre">>, <<"--spectre-lab">>}
===============================================================================
