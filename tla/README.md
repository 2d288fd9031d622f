# A verification of MemoryLatencyAnalyzer

TLA+ specifications of the program under `src/MemoryLatencyAnalyzer_linux`, the TLC runs
that model-check them, and TLAPS proofs of what matters most. `PROJECT.json` maps every
definition to the lines it was translated from, and lists the runs, the mutants that show
that each property can fail, the hazards of the code, the findings and the theorems.
Paths such as `main.cpp:690` are below `src/MemoryLatencyAnalyzer_linux/src`.

## The system

One command-line program measures memory latency and bandwidth, the round trip between
two processes, and contains several labs that evaluate and report. It is single-threaded
except for one forked process.

| component | state | operations | interacts with | what makes it correct |
|---|---|---|---|---|
| SharedMemoryMeasurer | four flags in a shared segment; the descriptor, mapping and name; samples; the result | `measure_cross_process`, `consumer_loop`, `wait_for_value`, `wait_or_kill` | the kernel (fork, kill, waitpid, shm), main | one round trip at a time; always returns; leaves nothing behind; reports what it measured |
| LatencyMeasurer | one buffer of linked cache-line nodes, the shuffled order, loop counters | construct, destroy, `measure_hit`, `measure_forced_miss`, `measure_store`, `measure_strides` | main, the NUMA matrix; Timer | each timed load goes to the line it is meant for, in the cache state it is meant for; every sample is there |
| BandwidthMeasurer | two allocations for the time of a call | `measure`, `allocate_buffer`, `release_buffer` | NumaSupport, main | buffers are released the way they came, whatever fails |
| main: pipeline | options, the CPUs, the results | latency, bandwidth, shared memory, report | all of the above, Reporter | a failure costs what it should and no more; exit codes tell the truth |
| main: NUMA matrix | the row, the cell, two matrices | pin, latency, bandwidth for each pair of nodes | PlatformUtils, NumaSupport, both measurers | rows and cells are what their labels say |
| NumaSupport, CpuInfo, PlatformUtils | none: sysfs, libnuma, affinity | nodes, node of a CPU, allocation, distinct CPU, pinning | main | the CPUs and the memory chosen are those asked for |
| main: command line and modes | the options read so far, the mode, the exit code | the parse loop, the checks behind it, the choice of a mode, each mode and its return | every component | what is accepted is what was written and what the mode can use; the exit code tells the outcome |
| Evaluation statistics | none | MAD rejection, SNR, classifier, Welch's t | EvaluationLab | what the numbers mean of the samples |
| EvaluationLab::run | traces of two classes, counts of faults | capture, recovery, averaging, alignment, verdict, report | Evaluation statistics, main, a report file | what is compared can be compared; nothing is lost but what rounding loses |
| OperationalLab | counters over a fixed catalogue, as ints | run, write_report | main, a report file | counts and rates agree, for large arguments too |
| DefensiveLab, SpectreV1 | the array that is read, counts of bytes and runs, alerts | run_demo, run_reliability_lab, the phase 5 run, write_report | main, a report file | the counts are of the same runs; what is read is what it is compared with |
| Statistics | none | summarize, quantile | measurers | the columns of a report are ordered as their names say |
| Timer | the stamps, the estimates, the overhead | calibration, measure_overhead_cycles, start, stop, subtract | measurers, the scheduler | a rate is of one counter; a net time is not negative and not more than was taken |
| Reporter | files | write_csv, append_history, printing | main | what is reported as written is written |
| CpuCapability | none: CPUID and one timed loop | detection, printing | main | hardware behaviour, not determined by the source |

What is hard: the handshake of two processes with timeouts, kills and crashes on either
side; one buffer relinked by four benchmarks, of which one leaves the cache cold on
purpose; exceptions that pass over manually released memory; one thread whose affinity is
moved about, or moved by the scheduler between two time stamps; statistics at their corners
(no variance, half of the samples equal); ints that wrap around; arguments that are checked
in one of two places or only by the component they are for; reports whose last bytes are
written after the program has looked.
`PROJECT.json` has each at its line under "hazards".

## The modules

| module | what it is | lines |
|---|---|---|
| `RoundTrips` | the abstract promise of `measure_cross_process`: round trips one at a time, reported as they were made | |
| `SharedMemory` | both processes of `shared_memory_measurer.cpp`; refines `RoundTrips` | all of the file |
| `SharedMemory_proof` | the inductive invariant, safety, the refinement and the waits, proved | |
| `LatencyMeasurer` | `latency_measurer.cpp`, down to single loads, stores and flushes | all of the file |
| `LatencyMeasurer_proof` | its invariants, proved | |
| `Benchmarks` | the pipeline and the NUMA matrix of `main.cpp`, composed of what `bandwidth_measurer.cpp`, the constructor of LatencyMeasurer, `numa_support.cpp`, `cpu_info.cpp`, `platform_utils.cpp` and `reporter.cpp` do for them | see the map |
| `Benchmarks_proof` | its invariants, proved | |
| `Metrics` | the statistics of `evaluation_lab.cpp`, as operators | 23-60, 89-134, 348-497 |
| `Metrics_proof` | lemmas about them: sums, ranks, medians, the filter, the verdicts | |
| `Evaluation` | the samples of two classes, and what the statistics must say of them | see the map |
| `Statistics` | `statistics.cpp`, on the samples of `Evaluation` | all of the file |
| `Statistics_proof` | the properties of `Evaluation` and of `Statistics`, proved | |
| `MachineInt` | ints of a limited width | |
| `ReportFile` | how the `write_report` functions of the labs can end | see the map |
| `CommandLine` | the parse loop, the checks and the choice of a mode in `main.cpp` | 270-459 and the dispatch |
| `OperationalLab` | `operational_lab.cpp` | 22-189 |
| `EvaluationLab` | `EvaluationLab::run` and what it calls, composed with `Metrics` | 62-88, 136-347, 528-714 |
| `DefensiveLab` | `defensive_lab.cpp` and the part of `spectre_v1.cpp` above the probing | see the map |
| `Program` | main: composes the command line and the labs, up to the exit code | see the map |
| `Labs_proof` | the invariants of the three labs, proved | |
| `Program_proof` | those of main, and that its steps run out, proved | |
| `Timer` | `timer.cpp`, with a scheduler | all of the file |
| `Timer_proof` | its invariants, proved | |
| `MC*` | instances for TLC | |

`Program` extends `CommandLine`, `OperationalLab`, `EvaluationLab` and `DefensiveLab`; the
three labs share `ReportFile`, since one process writes one report. `EvaluationLab` extends
`Metrics` for its verdicts, and `Timer` for the ranks its medians are made of. `Benchmarks` and
`LatencyMeasurer` describe what `Program` takes as one step (`RunBenchmarks`), and each other's
part is a step in them: calls of the measurers in `Benchmarks` return because
`LatencyMeasurer!Returns` and `SharedMemory!CallEnds` say so.

### SharedMemory

`ppc` is the place `measure_cross_process` has reached, `cpc` the place of
`consumer_loop`. Each load and store of one of the flags `request`, `response`,
`consumer_ready` and `stop` is an action, as are the system calls, with their failures:
`OpenSegment`, `Truncate`, `MapView` and `Fork` each have a disjunct for failing, and
`held` is what the producer then still has of the descriptor, the mapping and the name.
`wait_for_value` is `Poll...` (a look at the flag) and `ProducerGivesUp` or
`ConsumerTimeout` (its deadline). Time is not modelled: a deadline may pass after any
look at the flag when the behaviour may have timeouts, and always may when the peer is
gone. A wait has always looked once before it gives up (`pSpun`, `cSpun`), as in the code.
`wait_or_kill` is `ReapPoll`, `KillConsumer` and `ReapKilled`; the kernel's side of it
(`ExitPlace`, zombies, SIGCHLD ignored by a parent shell, delivery of the signal) is
external. `faults` is chosen per behaviour: failing system calls, a clock that cannot be read,
`bad_alloc`, failed pinning, timeouts, and either process killed at any point.

Exceptions leave the call without any of its clean-up (`Throw`; the places "thrown" and
"thrownAwaiting", the latter with a request outstanding): where the name is made
(`NamingThrows`), where a wait that has spun reads the clock (`WaitThrows`, in the producer, and
`ConsumerThrows`), where the measuring loop writes its message (in `WaitThrows`: it is the one
message that is longer than a `std::string` holds without allocating and that is written before
the shutdown), where the samples are reserved (`ReserveSamples`) and where they are summarized,
after everything was released (`SummarizeThrows`). main reports the exception and ends; a child
that throws runs the same handler in its own copy of the process, which ends it.

Memory order: every flag is stored with release and loaded with acquire, and each is
written by both sides only in turn, so the interleaving of single loads and stores is
what a reader of the flags can see, except that a store may become visible late. A
variant with store buffers is planned.

Not modelled: EINTR in waitpid and reuse of a PID (the code ignores both); a failed
`kill` of a child that is there; the statistics of the samples; an allocation failure while
the message of a call that returns an error is written, when everything has been released.

### LatencyMeasurer

A node is its index; `next` is the link of each, `flushed` the lines flushed and not
touched since, `flushing` those whose flush was issued before the fence. `Begin...` are
the calls with their relinking; `StartBatch`, `FlushLine`, `FlushFence`, `Load`, `Store`
and `EndBatch` are the loops of all four, with the loop counters `warm`, `round` and `i`
of the benchmark that is running. A shuffle is any order of the nodes. The times are not
modelled: a sample is counted. Arguments that are invalid throw (`RejectArgs`), and a
constructor without memory leaves no measurer. The refusal of `measure_forced_miss` when the
buffer has fewer than 64 nodes (`latency_measurer.cpp:213`) is left out, since no buffer is
below the minimum of 32 MiB.

Hardware prefetching, eviction by other data and the sizes of the caches are outside of
the source and of the model: `flushed` says what the program has done, not what the
processor made of it.

### Benchmarks

`pc` is the stage of main. An allocation is a record of the buffer, the size and the
method it will be released by; a buffer knows the function that must release it, so
`Released` does nothing for the wrong function or size. `heap` is what exists, and
`stranded` what an exception passed over. `affinity` is the CPUs the thread may run on,
and each cell of the matrix remembers from which it was measured (`from`) where the code
only has a label. `Throw` and `BandwidthThrows` are the two ways exceptions are caught.

`main.cpp:164` declares `latency_ns` const and `main.cpp:197` assigns to it, which no
compiler accepts; the model takes it as not const, as the line below it is.

The two exceptions that strand buffers (`latency_measurer.cpp:66`, where the constructor
measures the timer after it has the buffer, and `bandwidth_measurer.cpp:155-160`) are in
the model as the code has them, in every cell and with every method: `stranded` gathers what
they leave. `BuffersAccounted` therefore says "but for what was stranded", and `MaxStranded`
bounds how many buffers may be there before another exception strands more: with 3, one or two
in three or two stages of a behaviour.

Options are records out of `OptionSets`, and `numa_node` any of `NodeArgs`, which need not be a
node of the machine, as main does not look (`main.cpp:345-349`). `BoundTo` is libnuma's side of
it and external: memory on a node that exists is bound to it, memory asked for on one that does
not exist is mapped, bound nowhere (-1) and returned. A buffer has the node it is bound to, and
a cell of the matrix those of the buffers it was measured with, where the code only has the
label of the column. `given` is the affinity the process was started with, which the program
cannot ask for any more once it has pinned itself. An exception outside of main's `try` - the
vectors and the nodes of the matrix, read before its first row - aborts the process, with exit
code 134.

### Metrics and Evaluation

`Metrics` has operators only, in exact arithmetic: means are compared cross-multiplied,
medians and deviations doubled. 3.5 * 1.4826 = 5.1891 becomes 51891 / 10000, and 4.5 squared
81 / 4. The tolerance 1e-12 of the code is 0 in whole nanoseconds. The behaviours of
`Evaluation` append one sample at a time to either class, so that the invariants are checked
of every pair of classes up to the bounds.

### Statistics

The operators of `statistics.cpp` in exact arithmetic: a quantile is multiplied by 100, so
that the interpolation weights are whole. `Spread` is the variance multiplied out.

### CommandLine

The locals of main are functions on option names: `counts` (the ints), `sizes` (bytes) and
`files`; `given` is the set of flags met. The parse actions each stand for one turn of the
loop and differ in what they do with the next argument: `ParseFlag`, `ParseCount`
(`consume_int`), `ParseSize` (`consume_size_mib`), `ParseFile`, `ParseHelp` and
`RefuseArgument`, which is every way the loop ends in `return 2`. `ConfigurationValid` is
the block of checks behind the loop, and `SelectedMode` the order of the `if`s after it.
`NumberOf` says which arguments `parse_int` reads, and as what: the conversion itself is
the library's.

### OperationalLab

One `CountEvent` for each event of the catalogue, in which `Detectable` and `Recoverable`
are what the table in the source says of it, then `ScaleCounters`, which multiplies all of
them by the number of runs. The products are those of ints: a signed overflow is undefined
in C++, and the model takes what the compiled multiplication leaves, a product modulo the
width (`Wrap`). The nine events themselves are counted without wrapping
(`CatalogueAssumption`), since an int has at least 16 bits. An allocation failure in the
vectors of a few elements is left out.

### EvaluationLab

A timing is a record of the run and the shot it comes from and its value, so that the
properties can say what is compared with what. `CollectTraces` collects both classes of a
run; `RecoverCapture` is the simulated fault of the first run, which cuts the fixed trace and
collects the lost end again; `AppendBlocks` is the rest of the loop's body: averaging in
blocks, alignment to the shorter class, the append, the median of the run. `Evaluate` is
everything behind the loop that ends in a verdict. `ThrowEvaluation` is a vector that cannot
grow or a clock that cannot be read: main calls the labs outside of its `try`, so that the
process is aborted.

### DefensiveLab

`RunDemo`, `StartLab` with `ReliabilityRun` for each run, and for the phase 5 lab
`CountAlerts` and `WriteLabReport`. Which bytes a run reads correctly is left open - any set -
because the source does not determine what the processor gives away; training, flushing,
probing and scoring are not modelled. What the program makes of the bytes is. The threshold is
calibrated from vectors that may not fit into memory, in the demo and in the lab alike; both are
outside of main's `try`.

### Program

`phase` is where main is, `mode` what it runs. `RunOperational`, `RunEvaluation`,
`RunPhase5`, `RunSpectreLab` and `RunSpectre` are the steps of the lab with the arguments
that main passes; the `End...` actions are main's `return` behind each of them. `exit` is -1
until main returned, and 134 after `abort()`, which `RunCapability` and, for the matrix,
`RunBenchmarks` may end in too.

### Timer

A machine with a counter per CPU, all of the same rate and apart by any constant, and a
scheduler that moves the thread at any time unless it is pinned. `now` is the clock. Each
stamp is an action, and between two of them pass 0 to `MaxDelay` ticks, or the time of the
sleep or of the batch. `began`, `moved` and `spoiled` only observe. Left out: the invalid
arguments that no caller passes.

## The runs

| run | module | checks | states |
|---|---|---|---|
| `shm` | MCSharedMemory | `TypeOK`, `Handshake`, `ReleasedOnReturn`, `ResultCoherent`, `ImplementsRoundTrips`, `CallEnds`, `ConsumerEnds`, `CallSucceeds` | 17 thousand |
| `latency` | MCLatencyMeasurer | `TypeOK`, `ExactlyTheNodesAhead`, `NothingStaysFlushed`, `LinksAsIntended`, `AllSamples`, `Returns` | 408 thousand |
| `bench` | MCBenchmarks | `TypeOK`, `BuffersAccounted`, `ConsumerElsewhere`, `RowsFromTheirNode`, `NothingButNuma`, `AllMeasured`, `Returns` | 871 thousand |
| `bench_csv` | MCBenchmarks | `ResultsWritten`, violated | |
| `bench_node` | MCBenchmarks | `RequestedNodeUsed`, violated | |
| `eval` | MCEvaluation | `SummaryCoherent`, `HalfKept`, `ExcursionRejected`, `ZeroErrorSeparates`, `ClassesSymmetric` | 115 thousand |
| `eval_excursion` | MCEvaluation | `ExcursionsDoNotDominate`, violated | |
| `eval_test` | MCEvaluation | `ConstantClassesDetected`, violated | |
| `program` | MCProgram | `TypeOK`, `ReadAsWritten`, `RefusedForCause`, `ModeArgumentsValid`, `ExitTellsOutcome`, `RatesExact`, `PairsAligned`, `LossIsRounding`, `FaultRecovered`, `AcceptedMeansSeparated`, `CountsAgree`, `Terminates` | 58 thousand |
| `program_report` | MCProgram | `ReportOnDisk`, violated | |
| `program_target` | MCProgram | `TargetInPlace`, violated | |
| `timer` | MCTimer | `CalibrationSound`, `BatchSound` | 848 thousand |

What the passing runs show:

- `shm`: through every failure, exception, timeout, kill and crash there is one round trip at a time,
  every call returns, releases what it holds and reports what it measured, both as
  invariants and as an implementation of `RoundTrips`.
- `latency`: every timed access goes to the line and finds the cache state it is meant for,
  whichever benchmark used the buffer before, and no sample is missing.
- `bench`: every buffer is released the way it was allocated unless an exception stranded it,
  in however many cells and methods that happens; the consumer gets a CPU of its own where
  there is one; each row of the matrix is measured from its node or warned about, each column
  with memory that is on its node; with nothing failing no cell, method or test is left out,
  although pinning takes away the CPUs that the later ones need; and main returns.
- `eval`: what the reported statistics mean of any two classes within the bounds.
  `ClassesSymmetric` compares t and the signal-to-noise ratio by their numerators and
  denominators, whose quotient is the square of either.
- `program`: the options main acts on are those on the command line, what it refuses it
  refuses for a reason the usage message gives, and the mode that runs gets arguments its
  component accepts (a check in the loop, a check behind it and the component's own check
  are in three files); what the labs report, and what main makes of it. `RatesExact` has
  its precondition because 20 * runs may wrap around.
- `timer`: wherever the scheduler moves the thread, a calibration that returns is of one
  counter, and a batch that was not interrupted is reported with what it took.

Bounds, and why they are enough:

- SharedMemory: iterations and warmup from -1 to 2, so that invalid arguments, no warm-up,
  a first and a second round trip of each kind and a partial result all happen. The state
  does not remember round trips beyond their count, and the proofs are for every count.
- LatencyMeasurer: buffers of 4 and 5 lines, batches of 3, 2 store slots, two calls in one
  behaviour. A batch is longer than one load and shorter than the ring, consecutive
  batches overlap, starts wrap around, and each benchmark runs after each other one. The
  proofs are for every size.
- Benchmarks: two sibling CPUs on node 0, one CPU on node 1, memory only on node 2; any
  affinity. It has a row of two CPUs, a row of one, a column without a row, a sibling the
  consumer should avoid, and processes with one CPU; `--numa-node` may be one of the three
  nodes, or 3, which there is not. Everything may fail in a behaviour, or nothing. 5 bytes are
  rounded up to large pages of 4. The matrix has six cells, so that up to three strandings in
  different cells happen; the proofs are for any number.
- Evaluation: up to six samples, from 10, 12, 20 and 99: the filter starts at five, with
  an odd and an even median. The second class has up to two.
- Program: ints of eight bits (`IntMax` = 127), so that 20 * 7 no longer fits and 20 * 6
  does; a fault of 2 timings (8 in the code), a secret of 2 bytes (40), defaults of 2. The
  command lines are all those of up to three out of sixteen arguments, which has every order
  of an option, a value and a third argument; all pairs out of seventeen options with their
  values, in which the second repeats or contradicts the first; and lines for each lab with
  windows that divide the trace, that leave timings over and that are longer than it, with
  and without a fault, and without a file name. The proofs are for every line.
- Timer: 3 rounds of calibration, sleeps of 3 ticks, 4 samples of the overhead (2000 in the
  code), delays of 0 or 1 and batches of up to 3, counters of 16 values that are 7 apart, more
  than any measured time in both directions, and that wrap around. 3 rounds may leave 0, 1, 2
  or 3 estimates; of 4 samples one may be spoiled, and two are too many.

In a passing run deadlock is checked: the terminal states have a step of their own that
changes nothing (`Terminated`, `Gone`, `Exited`, `Collected`, `Over`).

Fairness:

- SharedMemory: the producer takes steps (`WF(ProducerStep)`), since its waits read a
  clock, and a signal sent is delivered. Nothing is assumed of the consumer in `FairSpec`.
  `ConsumerEnds` and `CallSucceeds` assume that the consumer is scheduled, as part of the
  property: weak fairness of its steps and strong fairness of `ConsumerTimeout`, because
  the consumer reads the clock between any two looks at the flag. `CallEnds` needs it only
  where timeouts are excluded.
- LatencyMeasurer: a benchmark that was called runs; nobody has to call one.
- Program: one thread that the system schedules, and no step waits for anybody: weak
  fairness of `Next`. It is the labs' loops that make `Terminates` worth checking.
- Timer: none; its properties are invariants.
- Benchmarks: one thread that runs. That the calls in it return is `CallEnds` and
  `LatencyMeasurer!Returns`.

## Findings

1. `bench_csv`: `write_csv` does not look at the stream after writing; a full disk yields
   exit code 0 and "Results written to" without the results.
2. `bench_node`: `--numa-node N` is accepted for a node the machine does not have, and memory
   that is bound nowhere is then measured and reported under that node's number, against
   "Allocate benchmark buffers on NUMA node N" (`src/README.md:232`).
3. `eval_test`: classes without variance have t = 0 and SNR = 0, so the assertions of
   `tests/evaluation_test.cpp:39-40,46` fail, and constant, separate classes are reported
   as no leakage.
4. `eval_excursion`: with a median absolute deviation of 0 no outlier is rejected, against
   `src/README.md:456`: of 10, 10, 10, 10, 20 all are kept, and the mean is 12.
5. `program_report`: the labs' `write_report` looks at the stream before its buffer is
   written (`evaluation_lab.cpp:305`, and the same in the other two labs), so that the exit
   code is 0 and the report cut off, against `src/README.md:483` and `main.cpp:550-556`.
6. `program_target`: only the demo copies the secret into the array that is read
   (`spectre_v1.cpp:354-357`); `--spectre-lab` and `--phase5-lab` read zeros and compare them
   with the secret, against "It repeats the same in-process synthetic target"
   (`src/README.md:431`).

## What is proved

All proofs are checked by TLAPS (SMT, Zenon and LS4) for every value of the constants
that the named assumptions allow.

**SharedMemory_proof.** `Invariance`: `Spec => []Inv` with
`Inv == TypeOK /\ Placed /\ ResultCoherent`. `Handshake` alone is not inductive: that a
late answer is harmless follows from where the producer has gone, and what may be in the
flags from whether it has forked. An exception may leave a request behind, and where it came
from (`Thrown`) tells whether it does. `Placed` adds, for each place, what is held, whether
there is a consumer, which messages are possible and which counts. From `Inv` follow
`TypeCorrect`, `HandshakeSafe`, `NothingLeftBehind` and `ResultsCoherent`. `Refinement`
maps each step to a step of `RoundTrips` or a stutter, with `sent` = taken + 1 while a
request is outstanding and `served` = taken + response.

The safety halves of its three liveness properties are proved too. `UnharmedCallsSucceed`: a
call with valid arguments that returns when nothing failed reports every round trip;
`Unharmed` adds to `Inv` that then the consumer runs until `stop` is stored, and that no wait
ends but by what it waits for. `StepsDecrease`: a step of the producer leaves less to do - the
call is at a later stage, its loop has one round trip less left, or the round trip is
further - or is a look that found nothing, and nobody else's step takes that back.
`ConsumerStepsDecrease`: a consumer whose producer is gone makes at most the round trip whose
request was left in the segment, and then only looks. What is left of `CallEnds` and
`ConsumerEnds` is that a wait does not look in vain for ever, which is its deadline.

Assumed: arguments are integers, faults are among the kinds.

**LatencyMeasurer_proof.** `GeometryInvariant`: `Spec => []Geometry`. Geometry has the
shape of the ring for the benchmark that is running (`OnTheRing`, `Rings`), the flushes
made so far (`FlushesMade`) and where a chase is on its ring; the forced-miss properties
need that a position is not visited twice within a batch, which is lemma `WrapsApart`
(positions less than a turn apart are different nodes) with the buffer at least as long as
a batch (`BufferHoldsBatch`). From it follow `TypeCorrect`, `ForcedMissesMiss`,
`HotLinesAreHot` and `LinksFollowed`. `SamplesComplete` is a second induction, over the
loop counters (`LoopsAgree`). Assumed: the minimum buffer holds a batch and the store
slots, which 32 MiB of 64-byte lines do.

**Benchmarks_proof.** `BenchmarksInvariant`: `Spec => []Inv`, for every machine, every size of
the buffers, every set of faults, any `--numa-node` and any number of strandings
(`MaxStranded` is any natural). `BuffersAccounted` is not inductive: that a buffer is given
back the way it came follows from what the allocations hold in each stage (`LatencyHolds`,
`PairHolds`), and that a new buffer is none of the stranded ones from `StrandedBehind`: in the
matrix those are of an earlier row, or of a column of this row that `cols` has lost
(`Stages`); in the pipeline of another method, because `methods` has lost theirs (`MethodsLeft`).
`Affinity` has where the thread may run, which `RowsFromTheirNode` needs, and
`ConsumerElsewhere` in case the pinning failed. From `Inv` follow `BenchmarksTypes`,
`BuffersAccountedFor`, `ConsumerApart`, `MatrixLabels` and `NumaOnly`. `NumaOnly` needs, for a
cell's number, that both measurers have their buffers from the column the matrix is at
(`LatencyHolds`, `PairHolds`), and that a column is a node of the machine; with
`--numa-node` of an absent node nothing of the kind holds, which is run `bench_node`.

`NothingLeftOut` is a second induction: without faults the CPUs main works with are those it
was started with, although it has pinned itself since (`AllowedKept`), every cell of the matrix
is measured or still to come (`MatrixKept`), and the methods that are done and those that are
not make up all of them (`PipelineKept`). That a non-empty set of CPUs or nodes has
a least element is lemma `LeastOf`, from the well-foundedness of < on the naturals. Assumed:
CPUs and nodes are naturals, sizes are positive, faults are among the kinds.

**Labs_proof.** The three labs, each for any arguments.

- `OperationalRates`: `OperationalSpec => []RatesExact`. The invariant `OpInv` has the counters as
  functions of the event: all that were gone through are detected and recovered, and what is
  reported are the wrapped products. `WrapIdentity` says that a product that fits is not
  changed. Assumed: INT_MAX is above the number of events.
- `EvaluationPairs`, `EvaluationLoss` and `EvaluationFault`, for every number of runs, length of a
  trace, window and timings. `EvInv` has, of the runs that are over, that each left as many
  whole blocks as fit into its traces and that no timing is in two of them (`BlocksInv`, with
  `BlocksOf`), and of the run that is on, that its traces are complete and of shots that differ
  (`TracesInv`): the recaptured end has later shots than what it replaces, which needs that a
  fault happens in a fresh trace. The loss is lemma `RoundingLoss`: runs * (samples / window)
  falls short of (runs * samples) / window by less than runs. Assumed: timings are naturals,
  and the fault costs at least one.
- `EvaluationAccepted`: a report that accepts the separation, of fewer than 20 averages, is of
  two classes that do not overlap. `AcceptedInv` adds to `EvInv` what the verdict was computed
  from; that no error means classes apart is `ErrorsSeparate` of `Metrics_proof`.
- `LabCountsAgree`: `LabSpec => []CountsAgree`, for every secret and any set of bytes read
  correctly in each run. `LabInv` has, while the runs are counted, that the totals are those of
  the runs gone through (`Counting`).

**Metrics_proof.** What a fold over a function and a place in a sorted sequence are is proved
without an induction theorem: a set for which the claim fails has a smallest one among its
finite subsets (`SmallestNat`, `MinimalSubset`), and removing an element from that leads to a
contradiction. `IterationExists` and `IterationUnique` say so of the recursion that a fold is
defined by; from them follow `SumUnfold`, `SumRemove` and `SumBounds`. `RankExists`: of n
samples there is one of each rank from 1 to n, so that the CHOOSE of `Ranked` has something to
choose; `MedianIs` puts the median between the samples of both halves. Then what the properties
are about: `FilterKeepsHalf` (half of the deviations are at most their median, so that
rejection leaves half of the samples), `ErrorsSeparate` (a classifier between two means that
makes no error has all of one class on one side), and `SignalSymmetric`, `NoiseSymmetric` and
`VerdictsSymmetric` (what t and the signal-to-noise ratio are made of does not change when the
classes do).

**Statistics_proof.** Of any two classes, of any number of samples of any size, what `eval`
checks up to its bounds: `FilterKeeps`, `ExcursionsFall`, `ErrorsTell`, `ClassesExchange` and
`SummaryOfEverySample` (`HalfKept`, `ExcursionRejected`, `ZeroErrorSeparates`,
`ClassesSymmetric` and `SummaryCoherent`). The behaviours only collect, so that the invariant
is `ClassesInv`, the types of the classes, and the work is in the lemmas: `MedianOfOthers` (an
excursion does not move the median away from the others), `MediansAgree` (the quantile of one
half is the median of the evaluation, though one interpolates and the other does not) and
`SpreadOf` (a variance is not negative, and zero only when all samples are the same).
`QuantilesOrdered`: of all sorted samples, a lower quantile is not above a higher one, and all
are between the minimum and the maximum.

**Timer_proof.** `CalibrationAlwaysSound` and `BatchAlwaysSound`, for counters of any width,
apart by any number of ticks, and for any number of rounds and samples. `TimerInv` is the types
and `StampsInv` (each stamp is the time it was taken at, moved by what the counter of its CPU
is ahead, modulo the width), `RatesInv` (the estimates are of one counter, and there is one of
each round where the thread is pinned), `OverheadInv` (no more of the samples taken are long
than were spoiled) and `BatchInv`. `CalibrationSound` is not inductive because the median of
the estimates is a ratio in the middle of ratios: `RatiosTransitive` and `RankedRateIs` are
`RankExists` again, for pairs compared cross-multiplied. `BatchSound` speaks of overheads of
which fewer than half of the samples were spoiled: the median is then a short one
(`MiddleShort`). Assumed: what is measured is shorter than a turn of the counter.

**Program_proof.** For every set of command lines, all positive defaults and an int of any
width.

- `ProgramInvariant`: `Spec => []ProgInv`. `CommandInv` has what the parse loop has checked at
  once (`SettingsInv`) and that a mode has passed the checks behind it; `OpLink`, `EvLink` and
  `LabLink` tie the state of a lab to the mode and the options it was started with, and
  `ReportLink` what a lab says of its report to what is on the disk. `ArgumentsValid` is
  `ModeArgumentsValid`, and `ExitCodes` is `ExitTellsOutcome`.
- What the labs' proofs show of a call holds in the program, because only the mode that runs
  takes steps: `ProgramRates`, `ProgramEvaluation`, `ProgramAccepted`, `ProgramCounts`.
- `ReadInvariant`: main has read, up to the argument it is at, what a reading of the whole line
  says: which arguments are options and which are values (`Positions`; that there is such
  a reading at all is a least-counterexample argument, `Alternating`), and each option has the
  last value given so far (`SettledLast`). From it follow `CommandLineReadAsWritten` and
  `CommandLineRefusedForCause`.
- `ProgramTypes`: `TypeOK`, with `RestInv` for what no other invariant speaks of.
- `StepsDecrease`: every step of main, of its loop over the arguments and of the labs' loops
  leaves less to do, whatever fails in it. `Nearer` compares the stage of main, then the stages
  of the labs, then the turns their loops have left, all of which are naturals. A behaviour
  that does not stop would have to descend for ever.

`StepsDecrease` of **Benchmarks_proof** says the same of the pipeline and the matrix - no row,
no cell of a row and no method is done twice, since a cell that starts takes a column away and
a row that starts takes a node away - and that of **LatencyMeasurer_proof** of the four
benchmarks, with the strides left, the batches left and the steps of a batch. What these three
theorems leave of `Terminates` and the two `Returns` is that a step can be taken at all until
the end, which TLC checks as the absence of deadlock.

**Only model-checked.** Liveness and anything with fairness, which is out of the prover's
reach: `CallEnds`, `ConsumerEnds` and `CallSucceeds` of SharedMemory, whose waits end by deadlines
that only fairness makes pass; `Returns` of LatencyMeasurer and of Benchmarks and
`Terminates` of Program. Of each the theorems above are the half that can be proved. Every
invariant a passing run checks is a theorem.

## What is not modelled, and the plan

In this order, in further stages:

1. A variant of `SharedMemory` with store buffers (x86-TSO).
2. The cpulist parser and `distance` of `numa_support.cpp`, and the rest of `cpu_info.cpp`.

Left out for good: printing, JSON and CSV layout; CPUID decoding and the arithmetic loop of
`cpu_capability.cpp`, which have no state; what the processor does in `spectre_v1.cpp`
(training, probing, scoring); the build files.
