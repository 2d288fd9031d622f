------------------------------- MODULE Benchmarks ------------------------------
(***************************************************************************)
(* The benchmarks of main: the pipeline (latency, bandwidth, shared memory,*)
(* report) and the NUMA matrix, which runs latency and bandwidth once for  *)
(* every pair of an initiator node and a memory node.  The module follows  *)
(* the buffers that LatencyMeasurer and BandwidthMeasurer allocate and     *)
(* release, the CPU the thread is pinned to, the exceptions that each      *)
(* stage may throw and who catches them, and the results that are left.    *)
(*                                                                         *)
(* The measuring itself is in LatencyMeasurer and SharedMemory.            *)
(***************************************************************************)
EXTENDS Integers, Sequences, FiniteSets

CONSTANTS
  Cpus,           \* CPUs of the machine
  Nodes,          \* its NUMA nodes, those without a CPU included
  NodeOf,         \* the node of each CPU, -1 for a CPU of no node
  NodeArgs,       \* the values of --numa-node, those of no node of the machine included
  CoreOf,         \* the (package, core) pair of each CPU, as sysfs tells it
  BandwidthSize,  \* --bandwidth-mib, in bytes
  LatencySize,    \* the size of the latency buffer, in bytes
  LargePageSize,  \* Config::LARGE_PAGE_SIZE
  OptionSets,     \* the options main may be given, as records
  FaultSets,      \* what may fail: one of these sets of faults in a behaviour
  MaxStranded     \* bound: with so many buffers stranded, no exception strands more

FaultKinds ==
  { "affinity",    \* sched_getaffinity fails
    "pin",         \* the thread cannot be pinned
    "timer",       \* the clock cannot be read, or the TSC not be calibrated by it
    "allocation",  \* mmap, malloc or numa_alloc_onnode fails
    "memory",      \* a vector cannot grow: std::bad_alloc
    "open",        \* a file cannot be opened
    "disk" }       \* a file that is open cannot be written to

ASSUME MachineAssumption ==
  /\ Cpus \subseteq Nat /\ Nodes \subseteq Nat /\ NodeArgs \subseteq Nat
  /\ NodeOf \in [Cpus -> Nodes \union {-1}]
  /\ DOMAIN CoreOf = Cpus

ASSUME SizesAssumption ==
  /\ BandwidthSize \in Nat \ {0} /\ LatencySize \in Nat \ {0}
  /\ LargePageSize \in Nat \ {0}
  /\ MaxStranded \in Nat

ASSUME OptionsAssumption ==
  OptionSets \subseteq [numa_matrix : BOOLEAN, run_bandwidth : BOOLEAN,
                       run_shared_memory : BOOLEAN, csv_file : BOOLEAN]

ASSUME BenchmarkFaultsAssumption == FaultSets \subseteq SUBSET FaultKinds

VARIABLES
  faults,                          \* what may fail
  numa_matrix, numa_node, run_bandwidth, run_shared_memory, csv_file,  \* the options
  numa_available,                  \* libnuma is there and works
  given,                           \* the CPUs the process was started with
  affinity,                        \* the CPUs the thread may run on
  pc, exit,                        \* where main is, and what it returned (-1: nothing yet)
  allowed, rows, row, cols, col,   \* the CPUs and nodes it goes through
  methods,                         \* the bandwidth methods still to do
  heap,                            \* the buffers that exist
  latency, src, dst,               \* the allocations main holds
  stranded,                        \* buffers whose holder was unwound without releasing them
  measured, latency_ns, bandwidth_gibs, unpinned, \* the pipeline's and the matrix's results
  bandwidth_results,
  consumer_cpu, shared_memory,     \* the CPU and the outcome of the shared-memory test
  csv, history                     \* the two files

options == <<faults, numa_matrix, numa_node, run_bandwidth, run_shared_memory,
             csv_file, numa_available, given>>
places == <<allowed, rows, row, cols, col>>
buffers == <<heap, latency, src, dst, stranded>>
matrix == <<latency_ns, bandwidth_gibs, unpinned>>
shm == <<consumer_cpu, shared_memory>>
files == <<csv, history>>
vars == <<options, affinity, pc, exit, places, methods, buffers, measured, matrix,
          bandwidth_results, shm, files>>

Least(S) == CHOOSE x \in S : \A y \in S : x <= y

-------------------------------------------------------------------------------
(* Allocations.  An Allocation has the buffer it points to, or no buffer,  *)
(* the size it is to be released with and the method that says how.  A     *)
(* buffer has the benchmark it was allocated for (owner, row and col) and   *)
(* the node its memory is bound to, -1 for wherever the kernel likes.       *)

NoBuffer == [owner |-> "none"]
Nothing == [ptr |-> NoBuffer, size |-> 0, method |-> "none"]

\* The function that gives back what a method has allocated.
Releaser(method) ==
  IF method = "numa-node" THEN "numa_free" ELSE IF method = "malloc" THEN "free" ELSE "munmap"

\* Mutant: node 0 is taken for no node.
NodeZeroIgnored(method, node) == IF node > 0 THEN "numa-node" ELSE method

\* allocate_buffer: the method a NUMA node overrules, the size large pages round up.
AllocationMethod(method, node) == IF node >= 0 THEN "numa-node" ELSE method
AllocationSize(requested, method) ==
  IF method = "LargePage"
    THEN ((requested + LargePageSize - 1) \div LargePageSize) * LargePageSize
    ELSE requested

\* The memory node the running benchmark asks for, -1 for none.
MemoryNode == IF numa_matrix THEN col ELSE numa_node

\* Where the memory is: numa_alloc_onnode binds it to a node that there is; asked for one
\* that there is not, it has mapped the memory already and leaves it unbound.
BoundTo(method) == IF method = "numa-node" /\ MemoryNode \in Nodes THEN MemoryNode ELSE -1

\* What the system hands out for a request: it remembers how to take it back.
BufferFor(owner, size, method) ==
  [owner |-> owner, row |-> row, col |-> col, node |-> BoundTo(method), size |-> size,
   method |-> method, releaser |-> Releaser(method)]

\* release_buffer: the buffer is gone if it is given back the way it came.
Released(h, allocation) ==
  IF /\ allocation.ptr # NoBuffer
     /\ Releaser(allocation.method) = allocation.ptr.releaser
     /\ allocation.size = allocation.ptr.size
    THEN h \ {allocation.ptr}
    ELSE h

\* Mutant: the fallback is the first CPU, the primary one.
ChooseFirstCpu(primary, cpus) ==
  LET elsewhere == {cpu \in cpus \ {primary} : CoreOf[cpu] # CoreOf[primary]}
  IN  IF elsewhere # {} THEN Least(elsewhere) ELSE Least(cpus)

\* choose_distinct_cpu: the first CPU of another core, or the second of those allowed.
ChooseDistinctCpu(primary, cpus) ==
  LET elsewhere == {cpu \in cpus \ {primary} : CoreOf[cpu] # CoreOf[primary]}
      rest == cpus \ {Least(cpus)}
  IN  IF rest = {} THEN primary
      ELSE IF elsewhere # {} THEN Least(elsewhere)
      ELSE Least(rest)

\* The initiator nodes, and the CPU each is represented by.
CpusOn(node, cpus) == {cpu \in cpus : NodeOf[cpu] = node}
Initiators(cpus) == {node \in Nodes : CpusOn(node, cpus) # {}}

Init ==
  /\ faults \in FaultSets
  /\ \E chosen \in OptionSets :
       /\ numa_matrix = chosen.numa_matrix
       /\ run_bandwidth = chosen.run_bandwidth
       /\ run_shared_memory = chosen.run_shared_memory
       /\ csv_file = chosen.csv_file
  /\ numa_node \in NodeArgs \union {-1}
  /\ numa_available \in BOOLEAN
  /\ given \in (SUBSET Cpus) \ {{}} /\ affinity = given
  /\ pc = "start" /\ exit = -1
  /\ allowed = {} /\ rows = {} /\ cols = {}
  /\ row = -1 /\ col = -1
  /\ methods = <<>>
  /\ heap = {} /\ stranded = {}
  /\ latency = Nothing /\ src = Nothing /\ dst = Nothing
  /\ measured = FALSE
  /\ latency_ns = {} /\ bandwidth_gibs = {} /\ unpinned = {}
  /\ bandwidth_results = <<>>
  /\ consumer_cpu = -1 /\ shared_memory = "none"
  /\ csv = "none" /\ history = "none"

-------------------------------------------------------------------------------
(* How a stage ends.                                                       *)

\* The exit code of a process that an exception nobody catches aborts: 128 + SIGABRT.
Aborted == 134

\* main returns: the latency buffer, if there is one, goes with its scope.
Return(code) ==
  /\ pc' = "exit"
  /\ exit' = code
  /\ heap' = Released(heap, latency)
  /\ latency' = Nothing

\* An exception outside of BandwidthMeasurer ends the cell of the matrix, or the pipeline.
Throw ==
  IF numa_matrix
    THEN /\ pc' = "cell"
         /\ heap' = Released(heap, latency)
         /\ latency' = Nothing
         /\ UNCHANGED exit
    ELSE Return(1)

\* Mutant: the method that failed is tried again.
FailedMethodAgain(h) ==
  /\ src' = Nothing /\ dst' = Nothing
  /\ UNCHANGED methods
  /\ IF numa_matrix
       THEN pc' = "cell" /\ heap' = Released(h, latency) /\ latency' = Nothing
       ELSE pc' = "bandwidth" /\ heap' = h /\ UNCHANGED latency

\* An exception of BandwidthMeasurer with h left on the heap: it costs the pipeline
\* one method, the matrix the rest of the cell.
BandwidthThrows(h) ==
  /\ src' = Nothing /\ dst' = Nothing
  /\ methods' = Tail(methods)
  /\ IF numa_matrix
       THEN pc' = "cell" /\ heap' = Released(h, latency) /\ latency' = Nothing
       ELSE pc' = "bandwidth" /\ heap' = h /\ UNCHANGED latency

-------------------------------------------------------------------------------
(* Options, CPUs and nodes.                                                *)

\* A NUMA benchmark without NUMA is skipped, and says so.
Dispatch ==
  /\ pc = "start"
  /\ CASE numa_matrix /\ numa_node >= 0 -> Return(2)
       [] (numa_matrix \/ numa_node >= 0) /\ ~numa_available -> Return(0)
       [] OTHER -> pc' = "cpus" /\ UNCHANGED <<exit, heap, latency>>
  /\ UNCHANGED <<options, affinity, places, methods, src, dst, stranded, measured, matrix,
                 bandwidth_results, shm, files>>

\* Mutant: the CPUs are read when the thread is pinned.
CpusOfPinned ==
  /\ pc = "cpus"
  /\ affinity' = {Least(affinity)}
  /\ allowed' \in {affinity'} \union (IF "affinity" \in faults THEN {{}} ELSE {})
  /\ rows' = IF numa_matrix THEN Initiators(allowed') ELSE {}
  /\ \/ numa_matrix /\ rows' # {} /\ pc' = "row" /\ UNCHANGED <<exit, heap, latency>>
     \/ numa_matrix /\ rows' = {} /\ Return(0)
     \/ ~numa_matrix /\ allowed' = {} /\ Return(1)
     \/ ~numa_matrix /\ allowed' # {} /\ pc' = "pin" /\ UNCHANGED <<exit, heap, latency>>
     \/ "memory" \in faults /\ Return(IF numa_matrix THEN Aborted ELSE 1)
  /\ UNCHANGED <<options, row, cols, col, methods, src, dst, stranded, measured,
                 matrix, bandwidth_results, shm, files>>

\* The pipeline does this within its try block, the matrix in none.
ReadCpus ==
  /\ pc = "cpus"
  /\ allowed' \in {affinity} \union (IF "affinity" \in faults THEN {{}} ELSE {})
  /\ rows' = IF numa_matrix THEN Initiators(allowed') ELSE {}
  /\ \/ numa_matrix /\ rows' # {} /\ pc' = "row" /\ UNCHANGED <<exit, heap, latency>>
     \/ numa_matrix /\ rows' = {} /\ Return(0)
     \/ ~numa_matrix /\ allowed' = {} /\ Return(1)
     \/ ~numa_matrix /\ allowed' # {} /\ pc' = "pin" /\ UNCHANGED <<exit, heap, latency>>
     \/ "memory" \in faults /\ Return(IF numa_matrix THEN Aborted ELSE 1)
  /\ UNCHANGED <<options, affinity, row, cols, col, methods, src, dst, stranded, measured,
                 matrix, bandwidth_results, shm, files>>

Pin(cpu) ==
  \/ affinity' = {cpu}
  \/ "pin" \in faults /\ UNCHANGED affinity

\* The pipeline runs on its primary CPU, with a TSC it could calibrate.
PinPrimary ==
  /\ pc = "pin"
  /\ Pin(Least(allowed))
  /\ pc' = "calibrate"
  /\ UNCHANGED <<options, exit, places, methods, buffers, measured, matrix,
                 bandwidth_results, shm, files>>

Calibrate ==
  /\ pc = "calibrate"
  /\ \/ pc' = "construct" /\ UNCHANGED <<exit, heap, latency>>
     \/ {"timer", "memory"} \intersect faults # {} /\ Throw
  /\ UNCHANGED <<options, affinity, places, methods, src, dst, stranded, measured, matrix,
                 bandwidth_results, shm, files>>

\* Mutant: every row is run on the first CPU allowed.
RowOnFirstCpu ==
  /\ pc = "row"
  /\ IF rows = {}
       THEN Return(0) /\ UNCHANGED <<affinity, rows, row, cols, unpinned>>
       ELSE /\ row' = Least(rows)
            /\ rows' = rows \ {row'}
            /\ cols' = Nodes
            /\ Pin(Least(allowed))
            /\ unpinned' = IF affinity' = {Least(allowed)}
                             THEN unpinned ELSE unpinned \union {row'}
            /\ pc' = "cell"
            /\ UNCHANGED <<exit, heap, latency>>
  /\ UNCHANGED <<options, allowed, col, methods, src, dst, stranded, measured,
                 latency_ns, bandwidth_gibs, bandwidth_results, shm, files>>

\* A row of the matrix: the thread moves to a CPU of the initiator node, or stays.
StartRow ==
  /\ pc = "row"
  /\ IF rows = {}
       THEN Return(0) /\ UNCHANGED <<affinity, rows, row, cols, unpinned>>
       ELSE /\ row' = Least(rows)
            /\ rows' = rows \ {row'}
            /\ cols' = Nodes
            /\ Pin(Least(CpusOn(row', allowed)))
            /\ unpinned' = IF affinity' = {Least(CpusOn(row', allowed))}
                             THEN unpinned ELSE unpinned \union {row'}
            /\ pc' = "cell"
            /\ UNCHANGED <<exit, heap, latency>>
  /\ UNCHANGED <<options, allowed, col, methods, src, dst, stranded, measured,
                 latency_ns, bandwidth_gibs, bandwidth_results, shm, files>>

StartCell ==
  /\ pc = "cell"
  /\ IF cols = {}
       THEN pc' = "row" /\ UNCHANGED <<cols, col>>
       ELSE /\ col' = Least(cols)
            /\ cols' = cols \ {col'}
            /\ pc' = "construct"
  /\ UNCHANGED <<options, affinity, exit, allowed, rows, row, methods, buffers, measured,
                 matrix, bandwidth_results, shm, files>>

-------------------------------------------------------------------------------
(* Latency.                                                                *)

MayStrand(kinds) == kinds \intersect faults # {} /\ Cardinality(stranded) < MaxStranded

\* The constructor.  Once it has its buffer it can still run out of memory, while it
\* measures the timer; no destructor will release the buffer then.
ConstructLatency ==
  /\ pc = "construct"
  /\ LET method == AllocationMethod("mmap", MemoryNode)
         buffer == BufferFor("latency", LatencySize, method)
     IN  \/ /\ latency' = [ptr |-> buffer, size |-> LatencySize, method |-> method]
            /\ heap' = heap \union {buffer}
            /\ pc' = "latency"
            /\ UNCHANGED <<exit, stranded>>
         \/ "allocation" \in faults /\ Throw /\ UNCHANGED stranded
         \/ /\ MayStrand({"memory"})
            /\ stranded' = stranded \union {buffer}
            /\ heap' = heap \union {buffer}
            /\ latency' = Nothing
            /\ IF numa_matrix THEN pc' = "cell" /\ UNCHANGED exit
               ELSE pc' = "exit" /\ exit' = 1
  /\ UNCHANGED <<options, affinity, places, methods, src, dst, measured, matrix,
                 bandwidth_results, shm, files>>

Methods == IF MemoryNode >= 0 THEN <<"numa">> ELSE <<"mmap", "malloc", "LargePage">>

\* All latency benchmarks of the pipeline, or the forced miss of one cell, which
\* calibrates the TSC to know its value.
MeasureLatency ==
  /\ pc = "latency"
  /\ \/ /\ IF numa_matrix
             THEN latency_ns' = latency_ns \union
                    {[row |-> row, col |-> col, from |-> affinity, memory |-> {latency.ptr.node}]}
                  /\ UNCHANGED measured
             ELSE measured' = TRUE /\ UNCHANGED latency_ns
        /\ methods' = IF numa_matrix \/ run_bandwidth THEN Methods ELSE <<>>
        /\ pc' = "bandwidth"
        /\ UNCHANGED <<exit, heap, latency>>
     \/ /\ "memory" \in faults \/ ("timer" \in faults /\ numa_matrix)
        /\ Throw
        /\ UNCHANGED <<latency_ns, measured, methods>>
  /\ UNCHANGED <<options, affinity, places, src, dst, stranded, bandwidth_gibs, unpinned,
                 bandwidth_results, shm, files>>

-------------------------------------------------------------------------------
(* Bandwidth: two buffers for every method.                                *)

\* The next method, or what comes after the last one.
NextMethod ==
  /\ pc = "bandwidth"
  /\ CASE methods # <<>> -> pc' = "src" /\ UNCHANGED <<heap, latency>>
       [] methods = <<>> /\ numa_matrix ->
            pc' = "cell" /\ heap' = Released(heap, latency) /\ latency' = Nothing
       [] OTHER -> pc' = "shm" /\ UNCHANGED <<heap, latency>>
  /\ UNCHANGED <<options, affinity, exit, places, methods, src, dst, stranded, measured,
                 matrix, bandwidth_results, shm, files>>

\* allocate_buffer for src or dst: a pointer, or no pointer and all the rest.
Allocated(owner, allocation) ==
  LET method == AllocationMethod(Head(methods), MemoryNode)
      size == AllocationSize(BandwidthSize, method)
      buffer == BufferFor(owner, size, method)
  IN  \/ /\ allocation = [ptr |-> buffer, size |-> size, method |-> method]
         /\ heap' = heap \union {buffer}
      \/ /\ "allocation" \in faults
         /\ allocation = [ptr |-> NoBuffer, size |-> size, method |-> method]
         /\ UNCHANGED heap

AllocateSrc ==
  /\ pc = "src"
  /\ Allocated("src", src')
  /\ pc' = "dst"
  /\ UNCHANGED <<options, affinity, exit, places, methods, latency, dst, stranded, measured,
                 matrix, bandwidth_results, shm, files>>

AllocateDst ==
  /\ pc = "dst"
  /\ Allocated("dst", dst')
  /\ pc' = "check"
  /\ UNCHANGED <<options, affinity, exit, places, methods, latency, src, stranded, measured,
                 matrix, bandwidth_results, shm, files>>

\* Mutant: the buffer that there is is not released.
OtherBufferKept ==
  /\ pc = "check"
  /\ IF src.ptr = NoBuffer \/ dst.ptr = NoBuffer
       THEN BandwidthThrows(heap)
       ELSE pc' = "transfer" /\ UNCHANGED <<heap, latency, src, dst, methods>>
  /\ UNCHANGED <<options, affinity, exit, places, stranded, measured, matrix,
                 bandwidth_results, shm, files>>

\* Mutant: the method fails only when both buffers are missing.
BothMissing ==
  /\ pc = "check"
  /\ IF src.ptr = NoBuffer /\ dst.ptr = NoBuffer
       THEN BandwidthThrows(Released(Released(heap, src), dst))
       ELSE pc' = "transfer" /\ UNCHANGED <<heap, latency, src, dst, methods>>
  /\ UNCHANGED <<options, affinity, exit, places, stranded, measured, matrix,
                 bandwidth_results, shm, files>>

\* One missing buffer fails the method, and both are released.
CheckBuffers ==
  /\ pc = "check"
  /\ IF src.ptr = NoBuffer \/ dst.ptr = NoBuffer
       THEN BandwidthThrows(Released(Released(heap, src), dst))
       ELSE pc' = "transfer" /\ UNCHANGED <<heap, latency, src, dst, methods>>
  /\ UNCHANGED <<options, affinity, exit, places, stranded, measured, matrix,
                 bandwidth_results, shm, files>>

\* The repeats are measured and the buffers released.
Transfer ==
  /\ pc = "transfer"
  /\ IF numa_matrix
       THEN bandwidth_gibs' = bandwidth_gibs \union
              {[row |-> row, col |-> col, memory |-> {src.ptr.node, dst.ptr.node}]}
            /\ UNCHANGED bandwidth_results
       ELSE bandwidth_results' = Append(bandwidth_results, src.method)
            /\ UNCHANGED bandwidth_gibs
  /\ heap' = Released(Released(heap, src), dst)
  /\ src' = Nothing /\ dst' = Nothing
  /\ methods' = Tail(methods)
  /\ pc' = "bandwidth"
  /\ UNCHANGED <<options, affinity, exit, places, latency, stranded, measured,
                 latency_ns, unpinned, shm, files>>

\* No room for the rates, or no clock: the exception passes over both buffers.
StrandBuffers ==
  /\ pc = "transfer"
  /\ MayStrand({"memory", "timer"})
  /\ stranded' = stranded \union {src.ptr, dst.ptr}
  /\ BandwidthThrows(heap)
  /\ UNCHANGED <<options, affinity, exit, places, measured, matrix, bandwidth_results, shm, files>>

-------------------------------------------------------------------------------
(* Shared memory and the report.                                           *)

\* SharedMemory has what the call does; here it succeeds, fails or throws.
SharedMemoryTest ==
  /\ pc = "shm"
  /\ \/ /\ ~run_shared_memory
        /\ pc' = "csv" /\ UNCHANGED <<exit, heap, latency, shm>>
     \/ /\ run_shared_memory
        /\ allowed = {Least(allowed)}
        /\ shared_memory' = "one CPU"
        /\ pc' = "csv" /\ UNCHANGED <<exit, heap, latency, consumer_cpu>>
     \/ /\ run_shared_memory
        /\ allowed # {Least(allowed)}
        /\ consumer_cpu' = ChooseDistinctCpu(Least(allowed), allowed)
        /\ \/ /\ shared_memory' \in {"success", "failure"}
              /\ pc' = "csv" /\ UNCHANGED <<exit, heap, latency>>
           \/ /\ {"memory", "timer"} \intersect faults # {}
              /\ Throw
              /\ UNCHANGED shared_memory
  /\ UNCHANGED <<options, affinity, places, methods, src, dst, stranded, measured, matrix,
                 bandwidth_results, files>>

\* write_csv looks at the file when it has opened it, and not again.
WriteCsv ==
  /\ pc = "csv"
  /\ CASE ~csv_file -> Return(0) /\ UNCHANGED csv
       [] OTHER ->
            \/ "open" \in faults /\ Return(1) /\ UNCHANGED csv
            \/ /\ csv' \in {"complete"} \union (IF "disk" \in faults THEN {"cut"} ELSE {})
               /\ pc' = "history"
               /\ UNCHANGED <<exit, heap, latency>>
  /\ UNCHANGED <<options, affinity, places, methods, src, dst, stranded, measured, matrix,
                 bandwidth_results, shm, history>>

\* What becomes of the history is not looked at.
AppendHistory ==
  /\ pc = "history"
  /\ \/ history' = "complete"
     \/ "open" \in faults /\ UNCHANGED history
     \/ "disk" \in faults /\ history' = "cut"
  /\ Return(0)
  /\ UNCHANGED <<options, affinity, places, methods, src, dst, stranded, measured, matrix,
                 bandwidth_results, shm, csv>>

Exited == pc = "exit" /\ UNCHANGED vars

Step ==
  \/ Dispatch \/ ReadCpus \/ PinPrimary \/ Calibrate \/ StartRow \/ StartCell
  \/ ConstructLatency \/ MeasureLatency
  \/ NextMethod \/ AllocateSrc \/ AllocateDst \/ CheckBuffers \/ Transfer \/ StrandBuffers
  \/ SharedMemoryTest \/ WriteCsv \/ AppendHistory

Next == Step \/ Exited

Spec == Init /\ [][Next]_vars

\* One thread that runs: every call it makes comes back (SharedMemory!CallEnds).
FairSpec == Spec /\ WF_vars(Step)

-------------------------------------------------------------------------------
(* Properties.                                                             *)

Places ==
  {"start", "cpus", "pin", "calibrate", "row", "cell", "construct", "latency", "bandwidth",
   "src", "dst", "check", "transfer", "shm", "csv", "history", "exit"}
AllocationMethods == {"mmap", "malloc", "LargePage", "numa-node"}
Buffer ==
  [owner : {"latency", "src", "dst"}, row : Int, col : Int, node : Int, size : Nat,
   method : AllocationMethods, releaser : {"munmap", "free", "numa_free"}]
Allocation == [ptr : Buffer \union {NoBuffer}, size : Nat, method : AllocationMethods \union {"none"}]

\* Every variable has its type.
TypeOK ==
  /\ <<numa_matrix, run_bandwidth, run_shared_memory, csv_file, numa_available, measured>>
       \in BOOLEAN \X BOOLEAN \X BOOLEAN \X BOOLEAN \X BOOLEAN \X BOOLEAN
  /\ faults \subseteq FaultKinds
  /\ numa_node \in NodeArgs \union {-1} /\ pc \in Places /\ exit \in {-1, 0, 1, 2, Aborted}
  /\ given \subseteq Cpus /\ affinity \subseteq Cpus /\ allowed \subseteq Cpus /\ consumer_cpu \in Cpus \union {-1}
  /\ rows \subseteq Nodes /\ cols \subseteq Nodes /\ unpinned \subseteq Nodes
  /\ row \in Nodes \union {-1} /\ col \in Nodes \union {-1}
  /\ heap \subseteq Buffer /\ stranded \subseteq Buffer
  /\ latency \in Allocation /\ src \in Allocation /\ dst \in Allocation

Held == {latency.ptr, src.ptr, dst.ptr} \ {NoBuffer}

\* No buffer is lost, given back twice or given back to the wrong allocator: whatever
\* fails, those that exist are those some allocation holds, plus those an exception
\* stranded.  A benchmark never shares the memory with the buffers of the one before,
\* and when main returns it has released them all.
BuffersAccounted ==
  /\ heap = Held \union stranded
  /\ Held \intersect stranded = {}
  /\ pc = "exit" => Held = {}
  /\ pc \in {"row", "cell", "shm", "csv"} => src = Nothing /\ dst = Nothing

\* src/README.md: "The consumer is placed on a different physical core when the process's
\* allowed CPUs and Linux topology make that possible."  It is on a CPU the process may
\* use, and never on the one the producer is pinned to.
ConsumerElsewhere ==
  consumer_cpu # -1 =>
    /\ consumer_cpu \in allowed
    /\ affinity # {consumer_cpu}
    /\ (\E cpu \in allowed : CoreOf[cpu] # CoreOf[Least(allowed)]) =>
         CoreOf[consumer_cpu] # CoreOf[Least(allowed)]

\* A value in the matrix was measured from a CPU of the node its row is labelled with, or
\* main has warned about the row; and a bandwidth stands only where a latency does.
RowsFromTheirNode ==
  /\ \A cell \in latency_ns : cell.from \subseteq CpusOn(cell.row, allowed) \/ cell.row \in unpinned
  /\ \A cell \in bandwidth_gibs : \E c \in latency_ns : c.row = cell.row /\ c.col = cell.col

\* A number in the matrix is of memory on the node its column is labelled with, the latency
\* of one buffer and the bandwidth of two; a node of the machine that was asked for is where
\* the memory of every buffer in use is; and with a node no result is of another allocator,
\* without one no result is of the node's.
NothingButNuma ==
  /\ \A cell \in latency_ns \union bandwidth_gibs : cell.memory = {cell.col}
  /\ \A buffer \in Held : MemoryNode \in Nodes => buffer.node = MemoryNode
  /\ \A k \in DOMAIN bandwidth_results : (numa_node >= 0) <=> bandwidth_results[k] = "numa-node"

\* src/README.md of --numa-node N: "Allocate benchmark buffers on NUMA node N".  Whatever N
\* was accepted, the buffers in use are on that node.
RequestedNodeUsed == \A buffer \in Held : MemoryNode >= 0 => buffer.node = MemoryNode

\* main returns.
Returns == <>(pc = "exit")

\* With nothing failing, everything that was asked for is measured, on the CPUs the process
\* was started with, although the pinning narrows them: every method of the pipeline in its
\* order, the shared memory where there is a second CPU, and in the matrix "every initiator
\* node that has at least one CPU allowed to the process against every discovered NUMA memory
\* node".
AllMeasured ==
  faults = {} /\ pc = "exit" /\ ~(numa_matrix /\ numa_node >= 0) =>
    /\ exit = 0
    /\ numa_matrix /\ numa_available =>
         \A n \in Initiators(given), m \in Nodes :
           /\ \E cell \in latency_ns : cell.row = n /\ cell.col = m
           /\ \E cell \in bandwidth_gibs : cell.row = n /\ cell.col = m
    /\ ~numa_matrix /\ (numa_node = -1 \/ numa_available) =>
         /\ measured
         /\ run_bandwidth =>
              bandwidth_results = IF numa_node = -1 THEN Methods ELSE <<"numa-node">>
         /\ run_shared_memory =>
              shared_memory \in IF given = {Least(given)} THEN {"one CPU"} ELSE {"success", "failure"}
         /\ csv_file => csv = "complete" /\ history = "complete"

\* src/README.md of --csv: "Write latency, bandwidth, and shared-memory results".  A
\* program that was asked to and returns 0 has written them.
ResultsWritten == exit = 0 /\ measured /\ csv_file => csv = "complete"
===============================================================================
