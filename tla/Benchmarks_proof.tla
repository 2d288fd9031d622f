---------------------------- MODULE Benchmarks_proof ---------------------------
(* Proofs about the pipeline and the NUMA matrix of main: for every machine *)
(* and every size of the buffers, whatever fails, no buffer is lost or      *)
(* given back the wrong way, the consumer gets a CPU of its own, and what   *)
(* is in the matrix was measured where its labels say.                      *)
EXTENDS Benchmarks, TLAPS, WellFoundedInduction

\* The stages in which the latency buffer exists, in the pipeline or in a cell.
Cell == {"latency", "bandwidth", "src", "dst", "check", "transfer"}
Reporting == {"shm", "csv", "history"}
Unread == {"start", "cpus"}
Over == {"start", "cpus", "exit"}

-------------------------------------------------------------------------------
(* The inductive invariant, in parts.                                       *)

\* What main goes through: CPUs in the pipeline, nodes with a CPU in the matrix.
Stages ==
  /\ numa_matrix /\ numa_node >= 0 => pc \in {"start", "exit"}
  /\ pc \in {"pin", "calibrate"} \union Reporting => ~numa_matrix
  /\ pc \in {"row", "cell"} => numa_matrix
  /\ ~numa_matrix /\ pc \notin Over => allowed # {}
  /\ numa_matrix /\ pc \notin Over => rows \subseteq Initiators(allowed)
  /\ numa_matrix /\ pc \in {"cell", "construct"} \union Cell =>
       row \in Initiators(allowed) /\ row \notin rows
  /\ numa_matrix /\ pc \in {"construct"} \union Cell => col \in Nodes /\ col \notin cols

\* The methods that are still to do: those of the memory node, or the rest of the three.
MethodsLeft ==
  /\ methods \in {<<>>, <<"numa">>, <<"mmap", "malloc", "LargePage">>, <<"malloc", "LargePage">>,
                  <<"LargePage">>}
  /\ methods # <<>> => (MemoryNode >= 0 <=> methods = <<"numa">>)
  /\ pc \in {"src", "dst", "check", "transfer"} => methods # <<>>
  /\ pc \notin {"bandwidth", "src", "dst", "check", "transfer", "exit"} => methods = <<>>

\* An allocation that has a buffer of the running benchmark, and one that has none.
Filled(owner, size, method) ==
  [ptr |-> BufferFor(owner, size, method), size |-> size, method |-> method]
Missing(size, method) == [ptr |-> NoBuffer, size |-> size, method |-> method]

\* What the method that is next allocates.
NextMethodOf == AllocationMethod(Head(methods), MemoryNode)
NextSize == AllocationSize(BandwidthSize, NextMethodOf)
HeldOrMissing(owner, allocation) ==
  allocation \in {Filled(owner, NextSize, NextMethodOf), Missing(NextSize, NextMethodOf)}

LatencyHolds ==
  latency = IF pc \in Cell \union Reporting
              THEN Filled("latency", LatencySize, AllocationMethod("mmap", MemoryNode))
              ELSE Nothing

PairHolds ==
  /\ pc \in {"dst", "check", "transfer"} => HeldOrMissing("src", src)
  /\ pc \in {"check", "transfer"} => HeldOrMissing("dst", dst)
  /\ pc = "transfer" => src.ptr # NoBuffer /\ dst.ptr # NoBuffer
  /\ pc \notin {"dst", "check", "transfer"} => src = Nothing
  /\ pc \notin {"check", "transfer"} => dst = Nothing

\* No buffer that is still to be allocated is like one that is stranded: in the matrix they
\* are of another cell, in the pipeline of another method.
StrandedBehind ==
  /\ pc \in Unread => stranded = {}
  /\ \A b \in stranded :
       /\ numa_matrix =>
            /\ b.row \notin rows /\ (b.row = row => b.col \notin cols)
            /\ pc \in {"construct"} \union Cell => ~(b.row = row /\ b.col = col)
       /\ ~numa_matrix =>
            /\ pc \in {"bandwidth", "src", "dst", "check", "transfer", "exit"} \union Reporting
            /\ pc # "exit" =>
                 b.owner # "latency"
                 /\ \A k \in DOMAIN methods : AllocationMethod(methods[k], MemoryNode) # b.method

HeapHolds == heap = Held \union stranded

\* Where the thread is allowed to run.
Affinity ==
  /\ affinity # {}
  /\ pc \in Unread => affinity = given
  /\ ~numa_matrix /\ pc = "pin" => affinity = allowed
  /\ ~numa_matrix /\ pc \notin Over \union {"pin"} =>
       affinity = allowed \/ affinity = {Least(allowed)}
  /\ numa_matrix /\ pc \in {"cell", "construct"} \union Cell =>
       row \in unpinned \/ affinity = {Least(CpusOn(row, allowed))}

ConsumerPlaced ==
  /\ consumer_cpu # -1 => ~numa_matrix /\ pc \in {"csv", "history", "exit"}
  /\ ConsumerElsewhere

CellsMeasured ==
  /\ pc \in Unread => latency_ns = {} /\ bandwidth_gibs = {}
  /\ RowsFromTheirNode
  /\ \A cell \in latency_ns \union bandwidth_gibs : cell.memory = {cell.col}
  /\ numa_matrix /\ pc \in Cell \ {"latency"} => \E c \in latency_ns : c.row = row /\ c.col = col

ResultsOfMethod ==
  /\ bandwidth_results \in Seq(AllocationMethods)
  /\ \A k \in DOMAIN bandwidth_results : (numa_node >= 0) <=> bandwidth_results[k] = "numa-node"

Inv ==
  /\ TypeOK /\ Stages /\ MethodsLeft /\ LatencyHolds /\ PairHolds /\ StrandedBehind /\ HeapHolds
  /\ Affinity /\ ConsumerPlaced /\ CellsMeasured /\ ResultsOfMethod

-------------------------------------------------------------------------------
(* Least elements, rounding up and allocations.                             *)

LEMMA LeastOf ==
  ASSUME NEW S, S \subseteq Nat, S # {}
  PROVE  Least(S) \in S /\ \A y \in S : Least(S) <= y
<1> DEFINE Below == {pair \in Nat \X Nat : pair[1] < pair[2]}
<1>1. IsWellFoundedOn(Below, Nat)
  BY NatLessThanWellFounded DEF OpToRel
<1>2. PICK x \in S : \A y \in S : <<y, x>> \notin Below
  <2> HIDE DEF Below
  <2> QED BY <1>1, WFMin
<1>3. ASSUME NEW y \in S PROVE x <= y
  <2>1. x \in Nat /\ y \in Nat /\ <<y, x>> \notin Below
    BY <1>2
  <2>2. ~(y < x)
    BY <2>1
  <2> QED BY <2>1, <2>2
<1> QED BY <1>3 DEF Least

LEMMA NoBufferApart == NoBuffer \notin Buffer
  BY DEF NoBuffer, Buffer

LEMMA RoundedUp ==
  ASSUME NEW method
  PROVE  AllocationSize(BandwidthSize, method) \in Nat
<1>1. ASSUME NEW a \in Nat, NEW b \in Nat \ {0} PROVE a \div b \in Nat
  OBVIOUS
<1>2. BandwidthSize + LargePageSize - 1 \in Nat /\ LargePageSize \in Nat \ {0}
  BY SizesAssumption
<1>3. (BandwidthSize + LargePageSize - 1) \div LargePageSize \in Nat
  BY <1>1, <1>2
<1>4. ASSUME NEW q \in Nat PROVE q * LargePageSize \in Nat
  BY SizesAssumption
<1> QED BY <1>3, <1>4, SizesAssumption DEF AllocationSize

\* What the system hands out is a buffer of the running benchmark, released the way of its
\* method.
LEMMA BufferFacts ==
  ASSUME NEW owner, NEW size, NEW method
  PROVE  LET b == BufferFor(owner, size, method)
         IN  /\ b # NoBuffer
             /\ b.owner = owner /\ b.row = row /\ b.col = col /\ b.node = BoundTo(method)
             /\ b.size = size
             /\ b.method = method /\ b.releaser = Releaser(method)
  BY DEF BufferFor, BoundTo, NoBuffer

LEMMA BufferType ==
  ASSUME NEW owner \in {"latency", "src", "dst"}, NEW size \in Nat, NEW method \in AllocationMethods,
         row \in Int, col \in Int
  PROVE  /\ BufferFor(owner, size, method) \in Buffer
         /\ Filled(owner, size, method) \in Allocation
<1>1. BoundTo(method) \in Int
  <2>1. CASE method = "numa-node" /\ MemoryNode \in Nodes
    <3>1. BoundTo(method) = MemoryNode
      BY <2>1 DEF BoundTo
    <3> QED BY <2>1, <3>1, MachineAssumption
  <2>2. CASE ~(method = "numa-node" /\ MemoryNode \in Nodes)
    BY <2>2 DEF BoundTo
  <2> QED BY <2>1, <2>2
<1>2. Releaser(method) \in {"munmap", "free", "numa_free"}
  BY DEF Releaser
<1>3. BufferFor(owner, size, method) \in Buffer
  BY <1>1, <1>2 DEF BufferFor, Buffer
<1> QED BY <1>3 DEF Filled, Allocation

\* An allocation that is empty or knows how to release its buffer.
WellHeld(a) == a.ptr = NoBuffer \/ (Releaser(a.method) = a.ptr.releaser /\ a.size = a.ptr.size)

LEMMA Release ==
  ASSUME NEW h, NEW a, WellHeld(a), NoBuffer \notin h
  PROVE  Released(h, a) = h \ {a.ptr}
  BY DEF Released, WellHeld

LEMMA NodesAreInts ==
  ASSUME TypeOK
  PROVE  row \in Int /\ col \in Int /\ MemoryNode \in Int /\ numa_matrix \in BOOLEAN
  BY MachineAssumption DEF TypeOK, MemoryNode

LEMMA NextMethodType ==
  ASSUME TypeOK, MethodsLeft, methods # <<>>
  PROVE  /\ NextMethodOf \in AllocationMethods /\ NextSize \in Nat
         /\ MemoryNode >= 0 <=> NextMethodOf = "numa-node"
<1>1. MemoryNode \in Int
  BY NodesAreInts
<1>2. CASE MemoryNode >= 0
  BY <1>2, RoundedUp DEF NextMethodOf, NextSize, AllocationMethod, AllocationMethods
<1>3. CASE ~(MemoryNode >= 0)
  <2>1. methods \in {<<"mmap", "malloc", "LargePage">>, <<"malloc", "LargePage">>, <<"LargePage">>}
    BY <1>3 DEF MethodsLeft
  <2>2. Head(methods) \in {"mmap", "malloc", "LargePage"}
    BY <2>1
  <2> QED BY <1>3, <2>2, RoundedUp DEF NextMethodOf, NextSize, AllocationMethod, AllocationMethods
<1> QED BY <1>2, <1>3

LEMMA LatencyMethodType ==
  ASSUME TypeOK
  PROVE  /\ AllocationMethod("mmap", MemoryNode) \in AllocationMethods
         /\ MemoryNode >= 0 => AllocationMethod("mmap", MemoryNode) = "numa-node"
  BY DEF AllocationMethod, AllocationMethods

\* Every allocation main holds can be released, and its buffer is its own.
LEMMA HeldFacts ==
  ASSUME Inv
  PROVE  /\ WellHeld(latency) /\ WellHeld(src) /\ WellHeld(dst)
         /\ NoBuffer \notin heap /\ NoBuffer \notin stranded
         /\ latency.ptr # NoBuffer => latency.ptr.owner = "latency"
         /\ src.ptr # NoBuffer => src.ptr.owner = "src"
         /\ dst.ptr # NoBuffer => dst.ptr.owner = "dst"
<1>1. NoBuffer \notin heap /\ NoBuffer \notin stranded
  BY NoBufferApart DEF Inv, TypeOK
<1>2. Nothing.ptr = NoBuffer
  BY DEF Nothing
<1>3. ASSUME NEW owner, NEW size, NEW method
      PROVE  /\ WellHeld(Filled(owner, size, method)) /\ Filled(owner, size, method).ptr.owner = owner
             /\ Missing(size, method).ptr = NoBuffer
  BY BufferFacts DEF WellHeld, Filled, Missing
<1>4. ASSUME NEW owner, NEW a, HeldOrMissing(owner, a)
      PROVE  WellHeld(a) /\ (a.ptr # NoBuffer => a.ptr.owner = owner)
  BY <1>3, <1>4 DEF HeldOrMissing, WellHeld
<1>5. WellHeld(latency) /\ (latency.ptr # NoBuffer => latency.ptr.owner = "latency")
  BY <1>2, <1>3 DEF Inv, LatencyHolds, WellHeld
<1>6. WellHeld(src) /\ (src.ptr # NoBuffer => src.ptr.owner = "src")
  BY <1>2, <1>4 DEF Inv, PairHolds, WellHeld
<1>7. WellHeld(dst) /\ (dst.ptr # NoBuffer => dst.ptr.owner = "dst")
  BY <1>2, <1>4 DEF Inv, PairHolds, WellHeld
<1> QED BY <1>1, <1>5, <1>6, <1>7

\* A buffer that is allocated now, for a method that was still to be done, is not stranded.
LEMMA Fresh ==
  ASSUME Inv, NEW owner, NEW size, NEW method, pc \in {"construct"} \union Cell \union Reporting,
         \/ owner = "latency"
         \/ pc \notin Reporting /\ methods # <<>> /\ method = NextMethodOf
  PROVE  BufferFor(owner, size, method) \notin stranded
<1> SUFFICES ASSUME NEW b \in stranded, b = BufferFor(owner, size, method)
             PROVE  FALSE
  OBVIOUS
<1>1. b.owner = owner /\ b.row = row /\ b.col = col /\ b.method = method
  BY BufferFacts
<1>2. CASE numa_matrix
  <2>1. pc \in {"construct"} \union Cell
    BY <1>2 DEF Inv, Stages
  <2> QED BY <1>1, <1>2, <2>1 DEF Inv, StrandedBehind
<1>3. CASE ~numa_matrix
  <2>1. /\ b.owner # "latency"
        /\ \A k \in DOMAIN methods : AllocationMethod(methods[k], MemoryNode) # b.method
    BY <1>3 DEF Inv, StrandedBehind, Cell, Reporting
  <2>2. methods # <<>> => 1 \in DOMAIN methods /\ methods[1] = Head(methods)
    BY DEF Inv, MethodsLeft
  <2> QED BY <1>1, <2>1, <2>2 DEF NextMethodOf
<1> QED BY <1>2, <1>3

LEMMA HeldApart ==
  ASSUME Inv
  PROVE  Held \intersect stranded = {}
<1>1. latency.ptr \notin stranded
  <2>1. CASE pc \in Cell \union Reporting
    BY <2>1, Fresh DEF Inv, LatencyHolds, Filled
  <2>2. CASE pc \notin Cell \union Reporting
    BY <2>2, HeldFacts DEF Inv, LatencyHolds, Nothing
  <2> QED BY <2>1, <2>2
<1>2. ASSUME pc \in {"dst", "check", "transfer"}, NEW owner, NEW a, HeldOrMissing(owner, a)
      PROVE  a.ptr \notin stranded
  <2>1. methods # <<>> /\ pc \in Cell /\ pc \notin Reporting
    BY <1>2 DEF Inv, MethodsLeft, Cell, Reporting
  <2>2. BufferFor(owner, NextSize, NextMethodOf) \notin stranded /\ NoBuffer \notin stranded
    BY <2>1, Fresh, HeldFacts
  <2> QED BY <1>2, <2>2 DEF HeldOrMissing, Filled, Missing
<1>3. Nothing.ptr \notin stranded
  BY HeldFacts DEF Nothing
<1>4. src.ptr \notin stranded
  BY <1>2, <1>3 DEF Inv, PairHolds
<1>5. dst.ptr \notin stranded
  BY <1>2, <1>3 DEF Inv, PairHolds
<1> QED BY <1>1, <1>4, <1>5 DEF Held

-------------------------------------------------------------------------------
(* How a stage ends.                                                        *)

\* The latency buffer goes with its scope: what is left is stranded.
LEMMA LatencyGone ==
  ASSUME Inv, src = Nothing, dst = Nothing, UNCHANGED <<src, dst, stranded>>,
         heap' = Released(heap, latency), latency' = Nothing
  PROVE  HeapHolds' /\ heap' \subseteq Buffer /\ latency' \in Allocation
<1>1. heap' = heap \ {latency.ptr}
  BY HeldFacts, Release
<1>2. Nothing.ptr = NoBuffer /\ Nothing \in Allocation
  BY DEF Nothing, Allocation
<1>3. heap = ({latency.ptr} \ {NoBuffer}) \union stranded
  BY <1>2 DEF Inv, HeapHolds, Held
<1>4. latency.ptr \notin stranded
  BY HeldApart, HeldFacts DEF Held
<1>5. heap' = stranded /\ Held' = {}
  BY <1>1, <1>2, <1>3, <1>4, HeldFacts DEF Held
<1> QED BY <1>2, <1>5 DEF Inv, TypeOK, HeapHolds

\* main returns from a stage without bandwidth buffers.
LEMMA Returning ==
  ASSUME Inv, src = Nothing, dst = Nothing, UNCHANGED <<src, dst, stranded, numa_matrix>>,
         NEW code, Return(code),
         UNCHANGED <<rows, row, cols>> \/ stranded = {}
  PROVE  /\ pc' = "exit" /\ exit' = code
         /\ heap' \subseteq Buffer /\ latency' \in Allocation
         /\ LatencyHolds' /\ PairHolds' /\ StrandedBehind' /\ HeapHolds'
<1>1. /\ pc' = "exit" /\ exit' = code /\ heap' = Released(heap, latency) /\ latency' = Nothing
  BY DEF Return
<1>2. HeapHolds' /\ heap' \subseteq Buffer /\ latency' \in Allocation
  BY <1>1, LatencyGone
<1>3. LatencyHolds' /\ PairHolds'
  BY <1>1 DEF LatencyHolds, PairHolds, Cell, Reporting
<1>4. StrandedBehind'
  BY <1>1 DEF Inv, StrandedBehind, Cell, Reporting, Unread
<1> QED BY <1>1, <1>2, <1>3, <1>4

\* ... or an exception ends the cell.
LEMMA CellEnded ==
  ASSUME Inv, src = Nothing, dst = Nothing, UNCHANGED <<src, dst, stranded, numa_matrix>>,
         numa_matrix, pc' = "cell", heap' = Released(heap, latency), latency' = Nothing,
         UNCHANGED <<rows, row, cols>>
  PROVE  /\ heap' \subseteq Buffer /\ latency' \in Allocation
         /\ LatencyHolds' /\ PairHolds' /\ StrandedBehind' /\ HeapHolds'
<1>1. HeapHolds' /\ heap' \subseteq Buffer /\ latency' \in Allocation
  BY LatencyGone
<1>2. LatencyHolds' /\ PairHolds'
  BY DEF LatencyHolds, PairHolds, Cell, Reporting
<1>3. StrandedBehind'
  BY DEF Inv, StrandedBehind, Cell, Reporting, Unread
<1> QED BY <1>1, <1>2, <1>3

\* A stage without buffers is followed by another.
LEMMA NoBuffers ==
  ASSUME Inv, UNCHANGED <<heap, latency, src, dst, stranded, numa_matrix>>,
         pc \notin Cell \union Reporting, pc' \notin Cell \union Reporting
  PROVE  LatencyHolds' /\ PairHolds' /\ HeapHolds' /\ heap' \subseteq Buffer /\ latency' \in Allocation
<1>1. latency = Nothing /\ src = Nothing /\ dst = Nothing
  BY DEF Inv, LatencyHolds, PairHolds, Cell, Reporting
<1> QED BY <1>1 DEF Inv, TypeOK, LatencyHolds, PairHolds, HeapHolds, Held, Cell, Reporting

-------------------------------------------------------------------------------
(* The actions.                                                             *)

LEMMA DispatchInv ==
  ASSUME Inv, Dispatch
  PROVE  Inv'
<1>1. /\ pc = "start" /\ UNCHANGED <<options, affinity, places, methods, src, dst, stranded, measured,
                                     matrix, bandwidth_results, shm, files>>
      /\ \/ Return(0)
         \/ Return(2)
         \/ ~(numa_matrix /\ numa_node >= 0) /\ pc' = "cpus" /\ UNCHANGED <<exit, heap, latency>>
  BY DEF Dispatch
<1>2. /\ UNCHANGED <<faults, numa_matrix, numa_node, run_bandwidth, run_shared_memory, csv_file,
                     numa_available, given>>
      /\ UNCHANGED <<allowed, rows, row, cols, col, latency_ns, bandwidth_gibs, unpinned, consumer_cpu>>
  BY <1>1 DEF options, places, matrix, shm
<1>3. src = Nothing /\ dst = Nothing /\ stranded = {} /\ methods = <<>>
  BY <1>1 DEF Inv, PairHolds, StrandedBehind, Unread, MethodsLeft
<1>4. /\ pc' \in {"cpus", "exit"} /\ exit' \in {-1, 0, 1, 2, Aborted}
      /\ heap' \subseteq Buffer /\ latency' \in Allocation
      /\ LatencyHolds' /\ PairHolds' /\ HeapHolds'
      /\ pc' = "cpus" => ~(numa_matrix /\ numa_node >= 0)
  <2>1. CASE Return(0)
    BY <1>1, <1>2, <1>3, <2>1, Returning
  <2>2. CASE Return(2)
    BY <1>1, <1>2, <1>3, <2>2, Returning
  <2>3. CASE pc' = "cpus" /\ UNCHANGED <<exit, heap, latency>>
    <3>1. exit' \in {-1, 0, 1, 2, Aborted}
      BY <2>3 DEF Inv, TypeOK
    <3> QED BY <1>1, <1>2, <2>3, <3>1, NoBuffers DEF Cell, Reporting, Return
  <2> QED BY <1>1, <2>1, <2>2, <2>3
<1>5. TypeOK'
  BY <1>1, <1>2, <1>4 DEF Inv, TypeOK, Places
<1>6. Stages'
  BY <1>1, <1>2, <1>4 DEF Inv, Stages, Cell, Reporting, Over
<1>7. MethodsLeft'
  BY <1>1, <1>2, <1>3, <1>4 DEF Inv, MethodsLeft, MemoryNode
<1>8. StrandedBehind'
  BY <1>1, <1>3 DEF StrandedBehind
<1>9. Affinity' /\ ConsumerPlaced' /\ ConsumerElsewhere'
  BY <1>1, <1>2, <1>4 DEF Inv, Affinity, Unread, ConsumerPlaced, ConsumerElsewhere, Over, Cell
<1>10. CellsMeasured' /\ ResultsOfMethod'
  BY <1>1, <1>2, <1>4 DEF Inv, CellsMeasured, RowsFromTheirNode, CpusOn, ResultsOfMethod, Unread, Cell
<1> QED BY <1>4, <1>5, <1>6, <1>7, <1>8, <1>9, <1>10 DEF Inv

LEMMA ReadCpusInv ==
  ASSUME Inv, ReadCpus
  PROVE  Inv'
<1>1. /\ pc = "cpus" /\ allowed' \in {affinity, {}}
      /\ rows' = IF numa_matrix THEN Initiators(allowed') ELSE {}
      /\ UNCHANGED <<options, affinity, row, cols, col, methods, src, dst, stranded, measured,
                     matrix, bandwidth_results, shm, files>>
      /\ \/ Return(0)
         \/ Return(1)
         \/ Return(Aborted)
         \/ numa_matrix /\ pc' = "row" /\ UNCHANGED <<exit, heap, latency>>
         \/ ~numa_matrix /\ allowed' # {} /\ pc' = "pin" /\ UNCHANGED <<exit, heap, latency>>
  BY DEF ReadCpus
<1>2. /\ UNCHANGED <<faults, numa_matrix, numa_node, run_bandwidth, run_shared_memory, csv_file,
                     numa_available, given>>
      /\ UNCHANGED <<latency_ns, bandwidth_gibs, unpinned, consumer_cpu>>
  BY <1>1 DEF options, matrix, shm
<1>3. /\ src = Nothing /\ dst = Nothing /\ stranded = {} /\ methods = <<>> /\ consumer_cpu = -1
      /\ latency_ns = {} /\ bandwidth_gibs = {} /\ ~(numa_matrix /\ numa_node >= 0)
  BY <1>1 DEF Inv, PairHolds, StrandedBehind, Unread, MethodsLeft, ConsumerPlaced, CellsMeasured, Stages
<1>4. /\ pc' \in {"row", "pin", "exit"} /\ exit' \in {-1, 0, 1, 2, Aborted}
      /\ heap' \subseteq Buffer /\ latency' \in Allocation
      /\ LatencyHolds' /\ PairHolds' /\ HeapHolds'
      /\ pc' = "row" => numa_matrix
      /\ pc' = "pin" => ~numa_matrix /\ allowed' # {}
  <2>1. CASE Return(0)
    BY <1>1, <1>2, <1>3, <2>1, Returning
  <2>2. CASE Return(1) \/ Return(Aborted)
    BY <1>1, <1>2, <1>3, <2>2, Returning
  <2>3. CASE /\ \/ numa_matrix /\ pc' = "row"
                \/ ~numa_matrix /\ allowed' # {} /\ pc' = "pin"
             /\ UNCHANGED <<exit, heap, latency>>
    <3>1. exit' \in {-1, 0, 1, 2, Aborted}
      BY <2>3 DEF Inv, TypeOK
    <3> QED BY <1>1, <1>2, <2>3, <3>1, NoBuffers DEF Cell, Reporting
  <2> QED BY <1>1, <2>1, <2>2, <2>3
<1>5. TypeOK'
  <2>1. allowed' \subseteq Cpus /\ rows' \subseteq Nodes
    BY <1>1 DEF Inv, TypeOK, Initiators
  <2> QED BY <1>1, <1>2, <1>4, <2>1 DEF Inv, TypeOK, Places
<1>6. Stages'
  BY <1>1, <1>2, <1>3, <1>4 DEF Stages, Cell, Reporting, Over
<1>7. MethodsLeft'
  BY <1>1, <1>2, <1>3, <1>4 DEF Inv, MethodsLeft, MemoryNode
<1>8. StrandedBehind'
  BY <1>1, <1>3 DEF StrandedBehind
<1>9. Affinity' /\ ConsumerPlaced'
  BY <1>1, <1>2, <1>3, <1>4 DEF Inv, Affinity, Unread, ConsumerPlaced, ConsumerElsewhere, Over, Cell
<1>10. CellsMeasured' /\ ResultsOfMethod'
  BY <1>1, <1>2, <1>3, <1>4 DEF Inv, CellsMeasured, RowsFromTheirNode, ResultsOfMethod, Unread, Cell
<1> QED BY <1>4, <1>5, <1>6, <1>7, <1>8, <1>9, <1>10 DEF Inv

LEMMA PinPrimaryInv ==
  ASSUME Inv, PinPrimary
  PROVE  Inv'
<1>1. /\ pc = "pin" /\ pc' = "calibrate" /\ affinity' \in {{Least(allowed)}, affinity}
      /\ UNCHANGED <<options, exit, places, methods, buffers, measured, matrix,
                     bandwidth_results, shm, files>>
  BY DEF PinPrimary, Pin
<1>2. /\ UNCHANGED <<faults, numa_matrix, numa_node, run_bandwidth, run_shared_memory, csv_file,
                     numa_available, given>>
      /\ UNCHANGED <<allowed, rows, row, cols, col, latency_ns, bandwidth_gibs, unpinned, consumer_cpu>>
      /\ UNCHANGED <<heap, latency, src, dst, stranded>>
  BY <1>1 DEF options, places, matrix, shm, buffers
<1>3. ~numa_matrix /\ allowed # {} /\ affinity = allowed /\ consumer_cpu = -1 /\ methods = <<>>
  BY <1>1 DEF Inv, Stages, Affinity, Unread, ConsumerPlaced, MethodsLeft, Over
<1>4. Least(allowed) \in Cpus
  BY <1>3, LeastOf, MachineAssumption DEF Inv, TypeOK
<1>5. LatencyHolds' /\ PairHolds' /\ HeapHolds'
  BY <1>1, <1>2, NoBuffers DEF Cell, Reporting
<1>6. TypeOK'
  BY <1>1, <1>2, <1>4 DEF Inv, TypeOK, Places
<1>7. Stages' /\ MethodsLeft'
  BY <1>1, <1>2, <1>3 DEF Inv, Stages, MethodsLeft, MemoryNode, Cell, Reporting, Over
<1>8. StrandedBehind'
  BY <1>1, <1>2, <1>3 DEF Inv, StrandedBehind, Unread, Cell, Reporting
<1>9. Affinity' /\ ConsumerPlaced'
  BY <1>1, <1>2, <1>3 DEF Inv, Affinity, Unread, ConsumerPlaced, ConsumerElsewhere, Over, Cell
<1>10. CellsMeasured' /\ ResultsOfMethod'
  BY <1>1, <1>2 DEF Inv, CellsMeasured, RowsFromTheirNode, CpusOn, ResultsOfMethod, Unread, Cell
<1> QED BY <1>5, <1>6, <1>7, <1>8, <1>9, <1>10 DEF Inv

LEMMA CalibrateInv ==
  ASSUME Inv, Calibrate
  PROVE  Inv'
<1>1. /\ pc = "calibrate"
      /\ UNCHANGED <<options, affinity, places, methods, src, dst, stranded, measured, matrix,
                     bandwidth_results, shm, files>>
      /\ \/ pc' = "construct" /\ UNCHANGED <<exit, heap, latency>>
         \/ Throw
  BY DEF Calibrate
<1>2. /\ UNCHANGED <<faults, numa_matrix, numa_node, run_bandwidth, run_shared_memory, csv_file,
                     numa_available, given>>
      /\ UNCHANGED <<allowed, rows, row, cols, col, latency_ns, bandwidth_gibs, unpinned, consumer_cpu>>
  BY <1>1 DEF options, places, matrix, shm
<1>3. ~numa_matrix /\ consumer_cpu = -1 /\ methods = <<>> /\ src = Nothing /\ dst = Nothing /\ stranded = {}
  BY <1>1 DEF Inv, Stages, ConsumerPlaced, MethodsLeft, PairHolds, StrandedBehind, Reporting
<1>4. /\ pc' \in {"construct", "exit"} /\ exit' \in {-1, 0, 1, 2, Aborted}
      /\ heap' \subseteq Buffer /\ latency' \in Allocation
      /\ LatencyHolds' /\ PairHolds' /\ HeapHolds'
  <2>1. CASE Throw
    <3>1. Return(1)
      BY <1>3, <2>1 DEF Throw
    <3> QED BY <1>1, <1>2, <1>3, <3>1, Returning
  <2>2. CASE pc' = "construct" /\ UNCHANGED <<exit, heap, latency>>
    <3>1. exit' \in {-1, 0, 1, 2, Aborted}
      BY <2>2 DEF Inv, TypeOK
    <3> QED BY <1>1, <1>2, <2>2, <3>1, NoBuffers DEF Cell, Reporting
  <2> QED BY <1>1, <2>1, <2>2
<1>5. TypeOK'
  BY <1>1, <1>2, <1>4 DEF Inv, TypeOK, Places
<1>6. Stages' /\ MethodsLeft'
  BY <1>1, <1>2, <1>3, <1>4 DEF Inv, Stages, MethodsLeft, MemoryNode, Cell, Reporting, Over
<1>7. StrandedBehind'
  BY <1>1, <1>3 DEF StrandedBehind
<1>8. Affinity' /\ ConsumerPlaced'
  BY <1>1, <1>2, <1>3, <1>4 DEF Inv, Affinity, Unread, ConsumerPlaced, ConsumerElsewhere, Over, Cell
<1>9. CellsMeasured' /\ ResultsOfMethod'
  BY <1>1, <1>2, <1>3, <1>4 DEF Inv, CellsMeasured, RowsFromTheirNode, CpusOn, ResultsOfMethod, Unread, Cell
<1> QED BY <1>4, <1>5, <1>6, <1>7, <1>8, <1>9 DEF Inv

LEMMA StartRowInv ==
  ASSUME Inv, StartRow
  PROVE  Inv'
<1>1. /\ pc = "row"
      /\ UNCHANGED <<options, allowed, col, methods, src, dst, stranded, measured,
                     latency_ns, bandwidth_gibs, bandwidth_results, shm, files>>
  BY DEF StartRow
<1>2. /\ UNCHANGED <<faults, numa_matrix, numa_node, run_bandwidth, run_shared_memory, csv_file,
                     numa_available, given>>
      /\ UNCHANGED <<consumer_cpu>>
  BY <1>1 DEF options, shm
<1>3. /\ numa_matrix /\ consumer_cpu = -1 /\ methods = <<>> /\ src = Nothing /\ dst = Nothing
      /\ rows \subseteq Initiators(allowed) /\ rows \subseteq Nodes
  BY <1>1 DEF Inv, TypeOK, Stages, ConsumerPlaced, MethodsLeft, PairHolds, Over
<1>4. CASE rows = {}
  <2>1. Return(0) /\ UNCHANGED <<affinity, rows, row, cols, unpinned>>
    BY <1>4 DEF StartRow
  <2>2. /\ pc' = "exit" /\ exit' = 0 /\ heap' \subseteq Buffer /\ latency' \in Allocation
        /\ LatencyHolds' /\ PairHolds' /\ StrandedBehind' /\ HeapHolds'
    BY <1>1, <1>2, <1>3, <2>1, Returning
  <2>3. TypeOK'
    BY <1>1, <1>2, <2>1, <2>2 DEF Inv, TypeOK, Places
  <2>4. Stages' /\ MethodsLeft'
    BY <1>1, <1>2, <1>3, <2>1, <2>2 DEF Inv, Stages, MethodsLeft, MemoryNode, Cell, Reporting, Over
  <2>5. Affinity' /\ ConsumerPlaced'
    BY <1>1, <1>2, <1>3, <2>1, <2>2 DEF Inv, Affinity, Unread, ConsumerPlaced, ConsumerElsewhere, Over, Cell
  <2>6. CellsMeasured' /\ ResultsOfMethod'
    BY <1>1, <1>2, <2>1, <2>2 DEF Inv, CellsMeasured, RowsFromTheirNode, CpusOn, ResultsOfMethod, Unread, Cell
  <2> QED BY <2>2, <2>3, <2>4, <2>5, <2>6 DEF Inv
<1>5. CASE rows # {}
  <2>1. /\ row' = Least(rows) /\ rows' = rows \ {row'} /\ cols' = Nodes /\ pc' = "cell"
        /\ affinity' \in {affinity, {Least(CpusOn(row', allowed))}}
        /\ unpinned' = IF affinity' = {Least(CpusOn(row', allowed))}
                         THEN unpinned ELSE unpinned \union {row'}
        /\ UNCHANGED <<exit, heap, latency>>
    BY <1>5 DEF StartRow, Pin
  <2>2. row' \in rows /\ row' \notin rows'
    BY <1>3, <1>5, <2>1, LeastOf, MachineAssumption
  <2>3. /\ row' \in Initiators(allowed) /\ row' \in Nodes
        /\ Least(CpusOn(row', allowed)) \in Cpus
    <3>1. row' \in Initiators(allowed) /\ row' \in Nodes
      BY <1>3, <2>2
    <3>2. CpusOn(row', allowed) # {} /\ CpusOn(row', allowed) \subseteq Cpus /\ Cpus \subseteq Nat
      BY <3>1, MachineAssumption DEF Inv, TypeOK, Initiators, CpusOn
    <3>3. Least(CpusOn(row', allowed)) \in CpusOn(row', allowed)
      BY <3>2, LeastOf
    <3> QED BY <3>1, <3>2, <3>3
  <2>4. LatencyHolds' /\ PairHolds' /\ HeapHolds' /\ heap' \subseteq Buffer /\ latency' \in Allocation
    BY <1>1, <1>2, <2>1, NoBuffers DEF Cell, Reporting
  <2>5. TypeOK'
    <3>1. affinity' \subseteq Cpus /\ unpinned' \subseteq Nodes /\ rows' \subseteq Nodes
      BY <1>3, <2>1, <2>3 DEF Inv, TypeOK
    <3> QED BY <1>1, <1>2, <2>1, <2>3, <2>4, <3>1 DEF Inv, TypeOK, Places
  <2>6. Stages' /\ MethodsLeft'
    <3>1. rows' \subseteq Initiators(allowed)' /\ row' \in Initiators(allowed)'
      BY <1>1, <1>3, <2>1, <2>3 DEF Initiators, CpusOn
    <3> QED BY <1>1, <1>2, <1>3, <2>1, <2>2, <3>1 DEF Inv, Stages, MethodsLeft, Cell, Reporting, Over
  <2>7. StrandedBehind'
    <3>1. ASSUME NEW b \in stranded
          PROVE  b.row \notin rows' /\ b.row # row'
      BY <1>3, <2>1, <2>2, <3>1 DEF Inv, StrandedBehind
    <3> QED BY <1>1, <1>2, <1>3, <2>1, <3>1 DEF StrandedBehind, Unread, Cell
  <2>8. Affinity' /\ ConsumerPlaced'
    <3>1. Least(CpusOn(row, allowed))' = Least(CpusOn(row', allowed))
      BY <1>1 DEF CpusOn, Least
    <3>2. affinity' # {} /\ (row' \in unpinned' \/ affinity' = {Least(CpusOn(row', allowed))})
      BY <2>1 DEF Inv, Affinity, Unread
    <3>3. Affinity'
      BY <1>2, <1>3, <2>1, <3>1, <3>2 DEF Affinity, Unread
    <3> QED BY <1>2, <1>3, <3>3 DEF ConsumerPlaced, ConsumerElsewhere
  <2>9. CellsMeasured' /\ ResultsOfMethod'
    <3>1. unpinned \subseteq unpinned' /\ CpusOn(row, allowed)' = CpusOn(row', allowed)
      BY <1>1, <2>1 DEF CpusOn
    <3>2. RowsFromTheirNode'
      BY <1>1, <3>1 DEF Inv, CellsMeasured, RowsFromTheirNode, CpusOn
    <3> QED BY <1>1, <1>2, <2>1, <3>2 DEF Inv, CellsMeasured, ResultsOfMethod, Unread, Cell
  <2> QED BY <2>4, <2>5, <2>6, <2>7, <2>8, <2>9 DEF Inv
<1> QED BY <1>4, <1>5

LEMMA StartCellInv ==
  ASSUME Inv, StartCell
  PROVE  Inv'
<1>1. /\ pc = "cell"
      /\ UNCHANGED <<options, affinity, exit, allowed, rows, row, methods, buffers, measured,
                     matrix, bandwidth_results, shm, files>>
      /\ \/ cols = {} /\ pc' = "row" /\ UNCHANGED <<cols, col>>
         \/ cols # {} /\ col' = Least(cols) /\ cols' = cols \ {col'} /\ pc' = "construct"
  BY DEF StartCell
<1>2. /\ UNCHANGED <<faults, numa_matrix, numa_node, run_bandwidth, run_shared_memory, csv_file,
                     numa_available, given>>
      /\ UNCHANGED <<latency_ns, bandwidth_gibs, unpinned, consumer_cpu>>
      /\ UNCHANGED <<heap, latency, src, dst, stranded>>
  BY <1>1 DEF options, matrix, shm, buffers
<1>3. /\ numa_matrix /\ consumer_cpu = -1 /\ methods = <<>> /\ cols \subseteq Nodes
      /\ rows \subseteq Initiators(allowed) /\ row \in Initiators(allowed) /\ row \notin rows
      /\ ~(numa_matrix /\ numa_node >= 0)
  BY <1>1 DEF Inv, TypeOK, Stages, ConsumerPlaced, MethodsLeft, Over
<1>4. /\ cols' \subseteq cols /\ pc' \in {"row", "construct"}
      /\ pc' = "construct" => col' \in cols /\ col' \notin cols'
  <2>1. CASE cols # {} /\ col' = Least(cols) /\ cols' = cols \ {col'} /\ pc' = "construct"
    <3>1. Least(cols) \in cols
      BY <1>3, <2>1, LeastOf, MachineAssumption
    <3> QED BY <2>1, <3>1
  <2> QED BY <1>1, <2>1
<1>5. LatencyHolds' /\ PairHolds' /\ HeapHolds' /\ heap' \subseteq Buffer /\ latency' \in Allocation
  BY <1>1, <1>2, <1>4, NoBuffers DEF Cell, Reporting
<1>6. TypeOK'
  <2>1. col' \in Nodes \union {-1} /\ cols' \subseteq Nodes
    BY <1>1, <1>3, <1>4 DEF Inv, TypeOK
  <2> QED BY <1>1, <1>2, <1>4, <2>1 DEF Inv, TypeOK, Places
<1>7. Stages' /\ MethodsLeft'
  <2>1. rows' \subseteq Initiators(allowed)' /\ row' \in Initiators(allowed)'
    BY <1>1, <1>3 DEF Initiators, CpusOn
  <2> QED BY <1>1, <1>2, <1>3, <1>4, <2>1 DEF Inv, Stages, MethodsLeft, Cell, Reporting, Over
<1>8. StrandedBehind'
  <2>1. ASSUME NEW b \in stranded
        PROVE  /\ b.row \notin rows' /\ (b.row = row' => b.col \notin cols')
               /\ pc' = "construct" => ~(b.row = row' /\ b.col = col')
    BY <1>1, <1>3, <1>4, <2>1 DEF Inv, StrandedBehind
  <2> QED BY <1>2, <1>3, <1>4, <2>1 DEF StrandedBehind, Unread, Cell
<1>9. Affinity' /\ ConsumerPlaced'
  <2>1. Least(CpusOn(row, allowed))' = Least(CpusOn(row, allowed))
    BY <1>1
  <2>2. row \in unpinned \/ affinity = {Least(CpusOn(row, allowed))}
    BY <1>1, <1>3 DEF Inv, Affinity, Unread
  <2>3. Affinity'
    BY <1>1, <1>2, <1>3, <1>4, <2>1, <2>2 DEF Inv, Affinity, Unread
  <2> QED BY <1>2, <1>3, <2>3 DEF ConsumerPlaced, ConsumerElsewhere
<1>10. CellsMeasured' /\ ResultsOfMethod'
  BY <1>1, <1>2, <1>4 DEF Inv, CellsMeasured, RowsFromTheirNode, CpusOn, ResultsOfMethod, Unread, Cell
<1> QED BY <1>5, <1>6, <1>7, <1>8, <1>9, <1>10 DEF Inv

\* Nothing moves while a cell or a benchmark of the pipeline is under way.
LEMMA SameCell ==
  ASSUME Inv, pc \in {"construct"} \union Cell, pc' \in {"cell", "shm", "exit"} \union Cell,
         UNCHANGED <<numa_matrix, numa_node, affinity, allowed, rows, row, cols, col, unpinned,
                     consumer_cpu>>,
         pc' = "cell" => numa_matrix, pc' = "shm" => ~numa_matrix
  PROVE  Stages' /\ Affinity' /\ ConsumerPlaced' /\ consumer_cpu = -1
<1>1. consumer_cpu = -1
  BY DEF Inv, ConsumerPlaced, Cell
<1>2. Initiators(allowed)' = Initiators(allowed) /\ Least(CpusOn(row, allowed))' = Least(CpusOn(row, allowed))
  BY DEF Initiators, CpusOn
<1>3. Stages'
  BY <1>2 DEF Inv, Stages, Cell, Reporting, Over
<1>4. Affinity'
  BY <1>2 DEF Inv, Affinity, Unread, Cell, Over
<1>5. ConsumerPlaced'
  BY <1>1 DEF ConsumerPlaced, ConsumerElsewhere
<1> QED BY <1>1, <1>3, <1>4, <1>5

LEMMA ConstructLatencyInv ==
  ASSUME Inv, ConstructLatency
  PROVE  Inv'
<1> DEFINE method == AllocationMethod("mmap", MemoryNode)
           buffer == BufferFor("latency", LatencySize, method)
<1>1. /\ pc = "construct"
      /\ UNCHANGED <<options, affinity, places, methods, src, dst, measured, matrix,
                     bandwidth_results, shm, files>>
      /\ \/ /\ latency' = Filled("latency", LatencySize, method) /\ heap' = heap \union {buffer}
            /\ pc' = "latency" /\ UNCHANGED <<exit, stranded>>
         \/ Throw /\ UNCHANGED stranded
         \/ /\ stranded' = stranded \union {buffer}
            /\ heap' = heap \union {buffer} /\ latency' = Nothing
            /\ \/ numa_matrix /\ pc' = "cell" /\ UNCHANGED exit
               \/ ~numa_matrix /\ pc' = "exit" /\ exit' = 1
  BY DEF ConstructLatency, Filled
<1>2. /\ UNCHANGED <<faults, numa_matrix, numa_node, run_bandwidth, run_shared_memory, csv_file,
                     numa_available, given>>
      /\ UNCHANGED <<allowed, rows, row, cols, col, latency_ns, bandwidth_gibs, unpinned, consumer_cpu>>
  BY <1>1 DEF options, places, matrix, shm
<1>3. /\ latency = Nothing /\ src = Nothing /\ dst = Nothing /\ methods = <<>>
      /\ Held = {} /\ heap = stranded
  <2>1. latency = Nothing /\ src = Nothing /\ dst = Nothing /\ methods = <<>>
    BY <1>1 DEF Inv, LatencyHolds, PairHolds, MethodsLeft, Cell, Reporting
  <2> QED BY <2>1 DEF Inv, HeapHolds, Held, Nothing
<1>4. /\ method \in AllocationMethods /\ LatencySize \in Nat
      /\ buffer \in Buffer /\ Filled("latency", LatencySize, method) \in Allocation
      /\ Nothing \in Allocation /\ buffer # NoBuffer /\ MemoryNode' = MemoryNode
      /\ Filled("latency", LatencySize, method).ptr = buffer /\ Nothing.ptr = NoBuffer
      /\ Filled("latency", LatencySize, method)' = Filled("latency", LatencySize, method)
  <2>1. method \in AllocationMethods /\ LatencySize \in Nat /\ row \in Int /\ col \in Int
    BY LatencyMethodType, NodesAreInts, SizesAssumption DEF Inv
  <2>2. MemoryNode' = MemoryNode
    BY <1>2 DEF MemoryNode
  <2>3. Filled("latency", LatencySize, method)' = Filled("latency", LatencySize, method)
    BY <1>2, <2>2 DEF Filled, BufferFor, BoundTo
  <2> QED BY <2>1, <2>2, <2>3, BufferType, BufferFacts DEF Filled, Nothing, Allocation
<1> HIDE DEF method, buffer
<1>5. /\ pc' \in {"latency", "cell", "exit"} /\ (pc' = "cell" => numa_matrix)
      /\ exit' \in {-1, 0, 1, 2, Aborted} /\ heap' \subseteq Buffer /\ stranded' \subseteq Buffer
      /\ latency' \in Allocation
      /\ LatencyHolds' /\ PairHolds' /\ StrandedBehind' /\ HeapHolds'
  <2>1. CASE /\ latency' = Filled("latency", LatencySize, method) /\ heap' = heap \union {buffer}
             /\ pc' = "latency" /\ UNCHANGED <<exit, stranded>>
    <3>1. LatencyHolds' /\ PairHolds'
      BY <1>1, <1>3, <1>4, <2>1 DEF LatencyHolds, PairHolds, Cell, method
    <3>2. HeapHolds'
      BY <1>1, <1>3, <1>4, <2>1 DEF HeapHolds, Held
    <3>3. StrandedBehind'
      BY <1>1, <1>2, <2>1 DEF Inv, StrandedBehind, Unread, Cell, Reporting
    <3> QED BY <1>4, <2>1, <3>1, <3>2, <3>3 DEF Inv, TypeOK
  <2>2. CASE Throw /\ UNCHANGED stranded
    <3>1. CASE numa_matrix
      BY <1>1, <1>2, <1>3, <2>2, <3>1, CellEnded DEF Throw, Inv, TypeOK
    <3>2. CASE ~numa_matrix
      <4>1. Return(1)
        BY <2>2, <3>2 DEF Throw
      <4> QED BY <1>1, <1>2, <1>3, <2>2, <4>1, Returning DEF Inv, TypeOK
    <3> QED BY <3>1, <3>2
  <2>3. CASE /\ stranded' = stranded \union {buffer}
             /\ heap' = heap \union {buffer} /\ latency' = Nothing
             /\ \/ numa_matrix /\ pc' = "cell" /\ UNCHANGED exit
                \/ ~numa_matrix /\ pc' = "exit" /\ exit' = 1
    <3>1. LatencyHolds' /\ PairHolds'
      BY <1>1, <1>3, <2>3 DEF LatencyHolds, PairHolds, Cell, Reporting
    <3>2. HeapHolds'
      BY <1>1, <1>3, <1>4, <2>3 DEF HeapHolds, Held
    <3>3. buffer.row = row /\ buffer.col = col
      BY BufferFacts DEF buffer
    <3>4. numa_matrix => row \notin rows /\ col \notin cols
      BY <1>1 DEF Inv, Stages
    <3>5. StrandedBehind'
      BY <1>1, <1>2, <2>3, <3>3, <3>4 DEF Inv, StrandedBehind, Unread, Cell, Reporting
    <3> QED BY <1>3, <1>4, <2>3, <3>1, <3>2, <3>5 DEF Inv, TypeOK
  <2> QED BY <1>1, <2>1, <2>2, <2>3
<1>6. TypeOK'
  BY <1>1, <1>2, <1>5 DEF Inv, TypeOK, Places
<1>7. MethodsLeft'
  BY <1>1, <1>3, <1>5 DEF MethodsLeft
<1>8. Stages' /\ Affinity' /\ ConsumerPlaced'
  BY <1>1, <1>2, <1>5, SameCell DEF Cell
<1>9. CellsMeasured' /\ ResultsOfMethod'
  BY <1>1, <1>2, <1>5 DEF Inv, CellsMeasured, RowsFromTheirNode, CpusOn, ResultsOfMethod, Unread, Cell
<1> QED BY <1>5, <1>6, <1>7, <1>8, <1>9 DEF Inv

\* The buffers of a cell of the matrix are on the node of its column.
LEMMA InColumn ==
  ASSUME Inv, numa_matrix, pc \in Cell
  PROVE  /\ latency.ptr.node = col
         /\ pc = "transfer" => src.ptr.node = col /\ dst.ptr.node = col
<1>1. col \in Nodes /\ MemoryNode = col /\ MemoryNode >= 0
  <2>1. col \in Nodes /\ MemoryNode = col
    BY DEF Inv, Stages, MemoryNode
  <2> QED BY <2>1, MachineAssumption
<1>2. ASSUME NEW owner, NEW size
      PROVE  Filled(owner, size, "numa-node").ptr.node = col
  BY <1>1, BufferFacts DEF Filled, BoundTo
<1>3. latency.ptr.node = col
  BY <1>1, <1>2, LatencyMethodType DEF Inv, LatencyHolds
<1>4. CASE pc = "transfer"
  <2>1. NextMethodOf = "numa-node"
    BY <1>1, <1>4, NextMethodType DEF Inv, MethodsLeft
  <2>2. src = Filled("src", NextSize, NextMethodOf) /\ dst = Filled("dst", NextSize, NextMethodOf)
    BY <1>4 DEF Inv, PairHolds, HeldOrMissing, Missing
  <2> QED BY <1>2, <1>3, <2>1, <2>2
<1> QED BY <1>3, <1>4

\* What a cell of the matrix shows as its latency.
NewCell == [row |-> row, col |-> col, from |-> affinity, memory |-> {latency.ptr.node}]

LEMMA MeasureLatencyInv ==
  ASSUME Inv, MeasureLatency
  PROVE  Inv'
<1>1. /\ pc = "latency"
      /\ UNCHANGED <<options, affinity, places, src, dst, stranded, bandwidth_gibs, unpinned,
                     bandwidth_results, shm, files>>
      /\ \/ /\ IF numa_matrix
                 THEN latency_ns' = latency_ns \union {NewCell} /\ UNCHANGED measured
                 ELSE measured' = TRUE /\ UNCHANGED latency_ns
            /\ methods' \in {Methods, <<>>} /\ pc' = "bandwidth" /\ UNCHANGED <<exit, heap, latency>>
         \/ Throw /\ UNCHANGED <<latency_ns, measured, methods>>
  BY DEF MeasureLatency, NewCell
<1>2. /\ UNCHANGED <<faults, numa_matrix, numa_node, run_bandwidth, run_shared_memory, csv_file,
                     numa_available, given>>
      /\ UNCHANGED <<allowed, rows, row, cols, col, consumer_cpu>>
  BY <1>1 DEF options, places, shm
<1>3. /\ src = Nothing /\ dst = Nothing /\ methods = <<>> /\ (~numa_matrix => stranded = {})
      /\ numa_matrix \in BOOLEAN
  BY <1>1 DEF Inv, TypeOK, LatencyHolds, PairHolds, MethodsLeft, StrandedBehind, Cell, Reporting
<1>4. MemoryNode' = MemoryNode
  BY <1>2 DEF MemoryNode
<1>5. CASE /\ IF numa_matrix
                THEN latency_ns' = latency_ns \union {NewCell} /\ UNCHANGED measured
                ELSE measured' = TRUE /\ UNCHANGED latency_ns
           /\ methods' \in {Methods, <<>>} /\ pc' = "bandwidth" /\ UNCHANGED <<exit, heap, latency>>
  <2>1. LatencyHolds' /\ PairHolds' /\ HeapHolds'
    BY <1>1, <1>2, <1>3, <1>4, <1>5
       DEF Inv, LatencyHolds, PairHolds, HeapHolds, Held, Cell, Filled, BufferFor, BoundTo
  <2>2. StrandedBehind'
    BY <1>1, <1>2, <1>3, <1>5 DEF Inv, StrandedBehind, Unread, Cell
  <2>3. TypeOK'
    <3>1. measured' \in BOOLEAN
      BY <1>5 DEF Inv, TypeOK
    <3> QED BY <1>1, <1>2, <1>5, <3>1 DEF Inv, TypeOK, Places
  <2>4. MethodsLeft'
    BY <1>1, <1>4, <1>5, NodesAreInts DEF Inv, MethodsLeft, Methods
  <2>5. Stages' /\ Affinity' /\ ConsumerPlaced'
    BY <1>1, <1>2, <1>5, SameCell DEF Cell
  <2>6. CellsMeasured'
    <3>1. CASE ~numa_matrix
      BY <1>1, <1>2, <1>5, <3>1 DEF Inv, CellsMeasured, RowsFromTheirNode, CpusOn, Unread
    <3>2. CASE numa_matrix
      <4>1. /\ row \in Initiators(allowed)
            /\ row \in unpinned \/ affinity = {Least(CpusOn(row, allowed))}
        BY <1>1, <3>2 DEF Inv, Stages, Affinity, Cell
      <4>2. CpusOn(row, allowed) # {} /\ CpusOn(row, allowed) \subseteq Nat
        BY <4>1, MachineAssumption DEF Inv, TypeOK, Initiators, CpusOn
      <4>3. NewCell.from \subseteq CpusOn(NewCell.row, allowed) \/ NewCell.row \in unpinned
        BY <4>1, <4>2, LeastOf DEF NewCell
      <4>4. NewCell.row = row /\ NewCell.col = col /\ latency_ns' = latency_ns \union {NewCell}
        BY <1>5, <3>2 DEF NewCell
      <4>5. RowsFromTheirNode'
        BY <1>1, <1>2, <4>3, <4>4 DEF Inv, CellsMeasured, RowsFromTheirNode, CpusOn
      <4>6. NewCell.memory = {NewCell.col}
        BY <1>1, <3>2, InColumn DEF NewCell, Cell
      <4>7. \A cell \in latency_ns' \union bandwidth_gibs : cell.memory = {cell.col}
        BY <4>4, <4>6 DEF Inv, CellsMeasured
      <4> QED BY <1>1, <1>2, <1>5, <4>4, <4>5, <4>7 DEF CellsMeasured, Unread
    <3> QED BY <3>1, <3>2
  <2>7. ResultsOfMethod'
    BY <1>1, <1>2 DEF Inv, ResultsOfMethod
  <2> QED BY <2>1, <2>2, <2>3, <2>4, <2>5, <2>6, <2>7 DEF Inv
<1>6. CASE Throw /\ UNCHANGED <<latency_ns, measured, methods>>
  <2>1. /\ pc' \in {"cell", "exit"} /\ (pc' = "cell" => numa_matrix) /\ exit' \in {-1, 0, 1, 2, Aborted}
        /\ heap' \subseteq Buffer /\ latency' \in Allocation
        /\ LatencyHolds' /\ PairHolds' /\ StrandedBehind' /\ HeapHolds'
    <3>1. CASE numa_matrix
      BY <1>1, <1>2, <1>3, <1>6, <3>1, CellEnded DEF Throw, Inv, TypeOK
    <3>2. CASE ~numa_matrix
      <4>1. Return(1)
        BY <1>6, <3>2 DEF Throw
      <4> QED BY <1>1, <1>2, <1>3, <1>6, <4>1, Returning
    <3> QED BY <3>1, <3>2
  <2>2. TypeOK'
    BY <1>1, <1>2, <1>6, <2>1 DEF Inv, TypeOK, Places
  <2>3. MethodsLeft'
    BY <1>3, <1>6, <2>1 DEF MethodsLeft
  <2>4. Stages' /\ Affinity' /\ ConsumerPlaced'
    BY <1>1, <1>2, <2>1, SameCell DEF Cell
  <2>5. CellsMeasured' /\ ResultsOfMethod'
    BY <1>1, <1>2, <1>6, <2>1 DEF Inv, CellsMeasured, RowsFromTheirNode, CpusOn, ResultsOfMethod, Unread, Cell
  <2> QED BY <2>1, <2>2, <2>3, <2>4, <2>5 DEF Inv
<1> QED BY <1>1, <1>5, <1>6

LEMMA NextMethodInv ==
  ASSUME Inv, NextMethod
  PROVE  Inv'
<1>1. /\ pc = "bandwidth"
      /\ UNCHANGED <<options, affinity, exit, places, methods, src, dst, stranded, measured,
                     matrix, bandwidth_results, shm, files>>
      /\ \/ methods # <<>> /\ pc' = "src" /\ UNCHANGED <<heap, latency>>
         \/ /\ methods = <<>> /\ numa_matrix /\ pc' = "cell"
            /\ heap' = Released(heap, latency) /\ latency' = Nothing
         \/ methods = <<>> /\ ~numa_matrix /\ pc' = "shm" /\ UNCHANGED <<heap, latency>>
  BY DEF NextMethod
<1>2. /\ UNCHANGED <<faults, numa_matrix, numa_node, run_bandwidth, run_shared_memory, csv_file,
                     numa_available, given>>
      /\ UNCHANGED <<allowed, rows, row, cols, col, latency_ns, bandwidth_gibs, unpinned, consumer_cpu>>
  BY <1>1 DEF options, places, matrix, shm
<1>3. src = Nothing /\ dst = Nothing /\ MemoryNode' = MemoryNode
  BY <1>1, <1>2 DEF Inv, PairHolds, MemoryNode
<1>4. /\ heap' \subseteq Buffer /\ latency' \in Allocation
      /\ LatencyHolds' /\ PairHolds' /\ StrandedBehind' /\ HeapHolds'
  <2>1. CASE UNCHANGED <<heap, latency>> /\ pc' \in {"src", "shm"} /\ (pc' = "shm" => ~numa_matrix)
    <3>1. LatencyHolds' /\ PairHolds' /\ HeapHolds'
      BY <1>1, <1>2, <1>3, <2>1
         DEF Inv, LatencyHolds, PairHolds, HeapHolds, Held, Cell, Reporting, Filled, BufferFor, BoundTo
    <3>2. StrandedBehind'
      BY <1>1, <1>2, <1>3, <2>1 DEF Inv, StrandedBehind, Unread, Cell, Reporting
    <3> QED BY <2>1, <3>1, <3>2 DEF Inv, TypeOK
  <2>2. CASE numa_matrix /\ pc' = "cell" /\ heap' = Released(heap, latency) /\ latency' = Nothing
    BY <1>1, <1>2, <1>3, <2>2, CellEnded
  <2> QED BY <1>1, <2>1, <2>2
<1>5. TypeOK'
  BY <1>1, <1>2, <1>4 DEF Inv, TypeOK, Places
<1>6. MethodsLeft'
  BY <1>1, <1>3 DEF Inv, MethodsLeft
<1>7. Stages' /\ Affinity' /\ ConsumerPlaced'
  BY <1>1, <1>2, SameCell DEF Cell
<1>8. CellsMeasured' /\ ResultsOfMethod'
  BY <1>1, <1>2 DEF Inv, CellsMeasured, RowsFromTheirNode, CpusOn, ResultsOfMethod, Unread, Cell
<1> QED BY <1>4, <1>5, <1>6, <1>7, <1>8 DEF Inv

\* What allocate_buffer leaves: an allocation of the method that is next, and its buffer.
LEMMA AllocatedFacts ==
  ASSUME Inv, methods # <<>>, NEW owner \in {"src", "dst"}, NEW a, Allocated(owner, a)
  PROVE  /\ HeldOrMissing(owner, a) /\ a \in Allocation
         /\ heap' = heap \union ({a.ptr} \ {NoBuffer}) /\ heap' \subseteq Buffer
<1>1. \/ a = Filled(owner, NextSize, NextMethodOf)
         /\ heap' = heap \union {BufferFor(owner, NextSize, NextMethodOf)}
      \/ a = Missing(NextSize, NextMethodOf) /\ UNCHANGED heap
  BY DEF Allocated, Filled, Missing, NextSize, NextMethodOf
<1>2. /\ NextMethodOf \in AllocationMethods /\ NextSize \in Nat /\ row \in Int /\ col \in Int
      /\ heap \subseteq Buffer
  BY NextMethodType, NodesAreInts DEF Inv, TypeOK
<1>3. /\ BufferFor(owner, NextSize, NextMethodOf) \in Buffer
      /\ BufferFor(owner, NextSize, NextMethodOf) # NoBuffer
      /\ Filled(owner, NextSize, NextMethodOf) \in Allocation
      /\ Filled(owner, NextSize, NextMethodOf).ptr = BufferFor(owner, NextSize, NextMethodOf)
  BY <1>2, BufferType, BufferFacts DEF Filled
<1>4. Missing(NextSize, NextMethodOf) \in Allocation /\ Missing(NextSize, NextMethodOf).ptr = NoBuffer
  BY <1>2 DEF Missing, Allocation
<1> QED BY <1>1, <1>2, <1>3, <1>4 DEF HeldOrMissing

\* What an allocation is does not change while its benchmark runs.
LEMMA SameAllocation ==
  ASSUME UNCHANGED <<methods, numa_matrix, numa_node, row, col>>, NEW owner, NEW a
  PROVE  (HeldOrMissing(owner, a) <=> HeldOrMissing(owner, a)')
<1>1. MemoryNode' = MemoryNode
  BY DEF MemoryNode
<1>2. NextMethodOf' = NextMethodOf /\ NextSize' = NextSize
  BY <1>1 DEF NextMethodOf, NextSize
<1> QED BY <1>1, <1>2 DEF HeldOrMissing, Filled, Missing, BufferFor, BoundTo

LEMMA AllocateSrcInv ==
  ASSUME Inv, AllocateSrc
  PROVE  Inv'
<1>1. /\ pc = "src" /\ pc' = "dst" /\ Allocated("src", src')
      /\ UNCHANGED <<options, affinity, exit, places, methods, latency, dst, stranded, measured,
                     matrix, bandwidth_results, shm, files>>
  BY DEF AllocateSrc
<1>2. /\ UNCHANGED <<faults, numa_matrix, numa_node, run_bandwidth, run_shared_memory, csv_file,
                     numa_available, given>>
      /\ UNCHANGED <<allowed, rows, row, cols, col, latency_ns, bandwidth_gibs, unpinned, consumer_cpu>>
  BY <1>1 DEF options, places, matrix, shm
<1>3. src = Nothing /\ dst = Nothing /\ methods # <<>> /\ MemoryNode' = MemoryNode
  BY <1>1, <1>2 DEF Inv, PairHolds, MethodsLeft, MemoryNode
<1>4. /\ HeldOrMissing("src", src') /\ src' \in Allocation
      /\ heap' = heap \union ({src'.ptr} \ {NoBuffer}) /\ heap' \subseteq Buffer
  BY <1>1, <1>3, AllocatedFacts
<1>5. LatencyHolds'
  BY <1>1, <1>2, <1>3 DEF Inv, LatencyHolds, Cell, Filled, BufferFor, BoundTo
<1>6. PairHolds'
  <2>1. HeldOrMissing("src", src)'
    BY <1>1, <1>2, <1>4, SameAllocation
  <2> QED BY <1>1, <1>3, <2>1 DEF PairHolds
<1>7. HeapHolds'
  BY <1>1, <1>3, <1>4 DEF Inv, HeapHolds, Held, Nothing
<1>8. StrandedBehind'
  BY <1>1, <1>2, <1>3 DEF Inv, StrandedBehind, Unread, Cell, Reporting
<1>9. TypeOK'
  BY <1>1, <1>2, <1>4 DEF Inv, TypeOK, Places
<1>10. MethodsLeft'
  BY <1>1, <1>3 DEF Inv, MethodsLeft
<1>11. Stages' /\ Affinity' /\ ConsumerPlaced'
  BY <1>1, <1>2, SameCell DEF Cell
<1>12. CellsMeasured' /\ ResultsOfMethod'
  BY <1>1, <1>2 DEF Inv, CellsMeasured, RowsFromTheirNode, CpusOn, ResultsOfMethod, Unread, Cell
<1> QED BY <1>5, <1>6, <1>7, <1>8, <1>9, <1>10, <1>11, <1>12 DEF Inv

LEMMA AllocateDstInv ==
  ASSUME Inv, AllocateDst
  PROVE  Inv'
<1>1. /\ pc = "dst" /\ pc' = "check" /\ Allocated("dst", dst')
      /\ UNCHANGED <<options, affinity, exit, places, methods, latency, src, stranded, measured,
                     matrix, bandwidth_results, shm, files>>
  BY DEF AllocateDst
<1>2. /\ UNCHANGED <<faults, numa_matrix, numa_node, run_bandwidth, run_shared_memory, csv_file,
                     numa_available, given>>
      /\ UNCHANGED <<allowed, rows, row, cols, col, latency_ns, bandwidth_gibs, unpinned, consumer_cpu>>
  BY <1>1 DEF options, places, matrix, shm
<1>3. HeldOrMissing("src", src) /\ dst = Nothing /\ methods # <<>> /\ MemoryNode' = MemoryNode
  BY <1>1, <1>2 DEF Inv, PairHolds, MethodsLeft, MemoryNode
<1>4. /\ HeldOrMissing("dst", dst') /\ dst' \in Allocation
      /\ heap' = heap \union ({dst'.ptr} \ {NoBuffer}) /\ heap' \subseteq Buffer
  BY <1>1, <1>3, AllocatedFacts
<1>5. LatencyHolds'
  BY <1>1, <1>2, <1>3 DEF Inv, LatencyHolds, Cell, Filled, BufferFor, BoundTo
<1>6. PairHolds'
  <2>1. HeldOrMissing("src", src') /\ HeldOrMissing("dst", dst')
    BY <1>1, <1>3, <1>4
  <2>2. HeldOrMissing("src", src)' /\ HeldOrMissing("dst", dst)'
    BY <1>1, <1>2, <2>1, SameAllocation
  <2> QED BY <1>1, <2>2 DEF PairHolds
<1>7. HeapHolds'
  BY <1>1, <1>3, <1>4 DEF Inv, HeapHolds, Held, Nothing
<1>8. StrandedBehind'
  BY <1>1, <1>2, <1>3 DEF Inv, StrandedBehind, Unread, Cell, Reporting
<1>9. TypeOK'
  BY <1>1, <1>2, <1>4 DEF Inv, TypeOK, Places
<1>10. MethodsLeft'
  BY <1>1, <1>3 DEF Inv, MethodsLeft
<1>11. Stages' /\ Affinity' /\ ConsumerPlaced'
  BY <1>1, <1>2, SameCell DEF Cell
<1>12. CellsMeasured' /\ ResultsOfMethod'
  BY <1>1, <1>2 DEF Inv, CellsMeasured, RowsFromTheirNode, CpusOn, ResultsOfMethod, Unread, Cell
<1> QED BY <1>5, <1>6, <1>7, <1>8, <1>9, <1>10, <1>11, <1>12 DEF Inv

\* What a method leaves on the heap.
LeftOver(behind) == ({latency.ptr} \ {NoBuffer}) \union behind

\* Both buffers of a method are given back: the latency buffer is left, and what is stranded.
LEMMA PairReleased ==
  ASSUME Inv
  PROVE  Released(Released(heap, src), dst) = LeftOver(stranded)
<1>1. Released(heap, src) = heap \ {src.ptr}
  BY HeldFacts, Release
<1>2. Released(heap \ {src.ptr}, dst) = (heap \ {src.ptr}) \ {dst.ptr}
  BY HeldFacts, Release
<1>3. heap = Held \union stranded /\ Held \intersect stranded = {} /\ NoBuffer \notin stranded
  BY HeldApart, HeldFacts DEF Inv, HeapHolds
<1>4. /\ latency.ptr # NoBuffer => latency.ptr # src.ptr /\ latency.ptr # dst.ptr
      /\ src.ptr \notin stranded /\ dst.ptr \notin stranded
  <2>1. ASSUME NEW a, NEW b, a # NoBuffer, a.owner = "latency", b # NoBuffer => b.owner # "latency"
        PROVE  a # b
    BY <2>1
  <2> QED BY <1>3, <2>1, HeldFacts DEF Held
<1> QED BY <1>1, <1>2, <1>3, <1>4 DEF Held, LeftOver

\* A method that is left behind takes its allocation method with it.
LEMMA MethodDone ==
  ASSUME Inv, methods # <<>>, methods' = Tail(methods), MemoryNode' = MemoryNode
  PROVE  /\ methods' \in {<<>>, <<"malloc", "LargePage">>, <<"LargePage">>}
         /\ methods' # <<>> => ~(MemoryNode >= 0)
         /\ MemoryNode >= 0 => methods' = <<>>
         /\ \A k \in DOMAIN methods' :
              /\ AllocationMethod(methods'[k], MemoryNode) # NextMethodOf
              /\ \E j \in DOMAIN methods : methods[j] = methods'[k]
<1>1. MemoryNode >= 0 <=> methods = <<"numa">>
  BY DEF Inv, MethodsLeft
<1>2. CASE methods = <<"numa">>
  BY <1>1, <1>2
<1>3. CASE methods = <<"mmap", "malloc", "LargePage">>
  <2>1. ~(MemoryNode >= 0) /\ NextMethodOf = "mmap"
    BY <1>1, <1>3 DEF NextMethodOf, AllocationMethod
  <2>2. methods' = <<"malloc", "LargePage">>
    BY <1>3
  <2>3. DOMAIN methods' = 1 .. 2
    BY <1>3
  <2>4. /\ 2 \in DOMAIN methods /\ methods[2] = "malloc"
        /\ 3 \in DOMAIN methods /\ methods[3] = "LargePage"
    BY <1>3
  <2>5. methods'[1] = "malloc" /\ methods'[2] = "LargePage"
    BY <1>3
  <2>6. ASSUME NEW m PROVE AllocationMethod(m, MemoryNode) = m
    BY <2>1 DEF AllocationMethod
  <2>7. ASSUME NEW k \in DOMAIN methods'
        PROVE  /\ AllocationMethod(methods'[k], MemoryNode) # NextMethodOf
               /\ \E l \in DOMAIN methods : methods[l] = methods'[k]
    <3>1. k = 1 \/ k = 2
      BY <2>3
    <3> QED BY <2>1, <2>4, <2>5, <2>6, <3>1
  <2> QED BY <2>1, <2>2, <2>7
<1>4. CASE methods = <<"malloc", "LargePage">>
  <2>1. /\ ~(MemoryNode >= 0) /\ methods' = <<"LargePage">> /\ NextMethodOf = "malloc"
        /\ methods[2] = "LargePage" /\ DOMAIN methods = 1 .. 2
        /\ DOMAIN methods' = 1 .. 1
    BY <1>1, <1>4 DEF NextMethodOf, AllocationMethod
  <2>2. ASSUME NEW k \in DOMAIN methods'
        PROVE  methods'[k] # "malloc" /\ \E j \in DOMAIN methods : methods[j] = methods'[k]
    <3>1. k = 1
      BY <2>1
    <3> QED BY <2>1, <3>1
  <2>3. ASSUME NEW m PROVE AllocationMethod(m, MemoryNode) = m
    BY <2>1 DEF AllocationMethod
  <2> QED BY <2>1, <2>2, <2>3
<1>5. CASE methods = <<"LargePage">>
  BY <1>1, <1>5
<1> QED BY <1>2, <1>3, <1>4, <1>5 DEF Inv, MethodsLeft

\* The method is over: the buffers it does not release are stranded.
LEMMA MethodOver ==
  ASSUME Inv, pc \in {"check", "transfer"}, src' = Nothing, dst' = Nothing, methods' = Tail(methods),
         UNCHANGED <<numa_matrix, numa_node, rows, row, cols, col>>,
         stranded' \subseteq Buffer, latency.ptr \notin stranded',
         \A b \in stranded' :
           \/ b \in stranded
           \/ pc' = "cell" /\ b.row = row /\ b.col = col
           \/ ~numa_matrix /\ b.owner # "latency" /\ b.method = NextMethodOf,
         \/ numa_matrix /\ pc' = "cell" /\ heap' = Released(LeftOver(stranded'), latency) /\ latency' = Nothing
         \/ pc' = "bandwidth" /\ heap' = LeftOver(stranded') /\ UNCHANGED latency
  PROVE  /\ heap' \subseteq Buffer /\ latency' \in Allocation /\ MethodsLeft'
         /\ LatencyHolds' /\ PairHolds' /\ StrandedBehind' /\ HeapHolds'
<1>1. MemoryNode' = MemoryNode /\ methods # <<>> /\ Nothing.ptr = NoBuffer /\ Nothing \in Allocation
  BY DEF MemoryNode, Inv, MethodsLeft, Nothing, Allocation
<1>2. numa_matrix => MemoryNode >= 0 /\ row \notin rows /\ col \notin cols
  <2>1. numa_matrix => col \in Nodes /\ row \notin rows /\ col \notin cols
    BY DEF Inv, Stages, Cell
  <2>2. numa_matrix => MemoryNode = col
    BY DEF MemoryNode
  <2>3. ASSUME NEW n \in Nodes PROVE n >= 0
    BY MachineAssumption
  <2> QED BY <2>1, <2>2, <2>3
<1>3. /\ methods' \in {<<>>, <<"malloc", "LargePage">>, <<"LargePage">>}
      /\ methods' # <<>> => ~(MemoryNode >= 0)
      /\ MemoryNode >= 0 => methods' = <<>>
      /\ \A k \in DOMAIN methods' :
           /\ AllocationMethod(methods'[k], MemoryNode) # NextMethodOf
           /\ \E j \in DOMAIN methods : methods[j] = methods'[k]
  BY <1>1, MethodDone
<1>4. MethodsLeft'
  <2>1. methods' # <<>> => (MemoryNode >= 0 <=> methods' = <<"numa">>)
    BY <1>3
  <2>2. pc' = "cell" => methods' = <<>>
    BY <1>2, <1>3
  <2> QED BY <1>1, <1>3, <2>1, <2>2 DEF MethodsLeft
<1>5. /\ heap' \subseteq Buffer /\ latency' \in Allocation /\ HeapHolds' /\ LatencyHolds'
  <2>1. CASE numa_matrix /\ pc' = "cell" /\ heap' = Released(LeftOver(stranded'), latency) /\ latency' = Nothing
    <3>1. NoBuffer \notin LeftOver(stranded')
      BY NoBufferApart DEF LeftOver
    <3>2. Released(LeftOver(stranded'), latency) = LeftOver(stranded') \ {latency.ptr}
      BY <3>1, HeldFacts, Release
    <3>3. heap' = stranded' /\ Held' = {}
      BY <1>1, <2>1, <3>2 DEF Held, LeftOver
    <3> QED BY <1>1, <2>1, <3>3 DEF HeapHolds, LatencyHolds, Cell, Reporting
  <2>2. CASE pc' = "bandwidth" /\ heap' = LeftOver(stranded') /\ UNCHANGED latency
    <3>1. Held' = {latency.ptr} \ {NoBuffer}
      BY <1>1, <2>2 DEF Held
    <3>2. latency.ptr \in Buffer \union {NoBuffer}
      BY DEF Inv, TypeOK, Allocation
    <3>3. LatencyHolds'
      BY <1>1, <2>2 DEF Inv, LatencyHolds, Cell, Filled, BufferFor, BoundTo
    <3> QED BY <2>2, <3>1, <3>2, <3>3 DEF HeapHolds, Inv, TypeOK, LeftOver
  <2> QED BY <2>1, <2>2
<1>6. PairHolds'
  BY DEF PairHolds
<1>7. StrandedBehind'
  <2>1. ASSUME NEW b \in stranded', numa_matrix
        PROVE  /\ b.row \notin rows /\ (b.row = row => b.col \notin cols)
               /\ pc' = "bandwidth" => ~(b.row = row /\ b.col = col)
    BY <1>2, <2>1 DEF Inv, StrandedBehind, Cell
  <2>2. ASSUME NEW b \in stranded', ~numa_matrix
        PROVE  /\ pc' = "bandwidth" /\ b.owner # "latency"
               /\ \A k \in DOMAIN methods' : AllocationMethod(methods'[k], MemoryNode) # b.method
    <3>1. CASE b \in stranded
      BY <1>3, <2>2, <3>1 DEF Inv, StrandedBehind
    <3>2. CASE b.owner # "latency" /\ b.method = NextMethodOf
      BY <1>3, <2>2, <3>2
    <3>3. pc' = "bandwidth"
      BY <2>2
    <3> QED BY <2>2, <3>1, <3>2, <3>3
  <2>3. pc' \in {"cell", "bandwidth"}
    OBVIOUS
  <2> QED BY <1>1, <2>1, <2>2, <2>3 DEF StrandedBehind, Unread, Cell
<1> QED BY <1>4, <1>5, <1>6, <1>7

LEMMA CheckBuffersInv ==
  ASSUME Inv, CheckBuffers
  PROVE  Inv'
<1>1. /\ pc = "check"
      /\ UNCHANGED <<options, affinity, exit, places, stranded, measured, matrix,
                     bandwidth_results, shm, files>>
      /\ \/ BandwidthThrows(Released(Released(heap, src), dst))
         \/ /\ src.ptr # NoBuffer /\ dst.ptr # NoBuffer
            /\ pc' = "transfer" /\ UNCHANGED <<heap, latency, src, dst, methods>>
  BY DEF CheckBuffers
<1>2. /\ UNCHANGED <<faults, numa_matrix, numa_node, run_bandwidth, run_shared_memory, csv_file,
                     numa_available, given>>
      /\ UNCHANGED <<allowed, rows, row, cols, col, latency_ns, bandwidth_gibs, unpinned, consumer_cpu>>
  BY <1>1 DEF options, places, matrix, shm
<1>3. MemoryNode' = MemoryNode
  BY <1>2 DEF MemoryNode
<1>4. /\ pc' \in {"transfer", "cell", "bandwidth"} /\ (pc' = "cell" => numa_matrix)
      /\ heap' \subseteq Buffer /\ latency' \in Allocation /\ src' \in Allocation /\ dst' \in Allocation
      /\ MethodsLeft' /\ LatencyHolds' /\ PairHolds' /\ StrandedBehind' /\ HeapHolds'
  <2>1. CASE BandwidthThrows(Released(Released(heap, src), dst))
    <3>1. /\ Released(Released(heap, src), dst) = LeftOver(stranded')
          /\ latency.ptr \notin stranded'
      BY <1>1, PairReleased, HeldApart, HeldFacts DEF Held
    <3>2. /\ src' = Nothing /\ dst' = Nothing /\ methods' = Tail(methods)
          /\ \/ /\ numa_matrix /\ pc' = "cell"
                /\ heap' = Released(LeftOver(stranded'), latency) /\ latency' = Nothing
             \/ pc' = "bandwidth" /\ heap' = LeftOver(stranded') /\ UNCHANGED latency
      BY <2>1, <3>1 DEF BandwidthThrows
    <3>3. stranded' \subseteq Buffer /\ Nothing \in Allocation
      BY <1>1 DEF Inv, TypeOK, Nothing, Allocation
    <3> QED BY <1>1, <1>2, <3>1, <3>2, <3>3, MethodOver
  <2>2. CASE /\ src.ptr # NoBuffer /\ dst.ptr # NoBuffer
             /\ pc' = "transfer" /\ UNCHANGED <<heap, latency, src, dst, methods>>
    <3>1. HeldOrMissing("src", src) /\ HeldOrMissing("dst", dst)
      BY <1>1 DEF Inv, PairHolds
    <3>2. HeldOrMissing("src", src') /\ HeldOrMissing("dst", dst')
      BY <2>2, <3>1
    <3>3. HeldOrMissing("src", src)' /\ HeldOrMissing("dst", dst)'
      BY <1>2, <2>2, <3>2, SameAllocation
    <3>4. PairHolds'
      BY <2>2, <3>3 DEF PairHolds
    <3>5. LatencyHolds' /\ HeapHolds'
      BY <1>1, <1>2, <1>3, <2>2 DEF Inv, LatencyHolds, HeapHolds, Held, Cell, Filled, BufferFor, BoundTo
    <3>6. StrandedBehind' /\ MethodsLeft'
      BY <1>1, <1>2, <1>3, <2>2 DEF Inv, StrandedBehind, MethodsLeft, Unread, Cell
    <3> QED BY <2>2, <3>4, <3>5, <3>6 DEF Inv, TypeOK
  <2> QED BY <1>1, <2>1, <2>2
<1>5. TypeOK'
  BY <1>1, <1>2, <1>4 DEF Inv, TypeOK, Places
<1>6. Stages' /\ Affinity' /\ ConsumerPlaced'
  BY <1>1, <1>2, <1>4, SameCell DEF Cell
<1>7. CellsMeasured' /\ ResultsOfMethod'
  BY <1>1, <1>2, <1>4 DEF Inv, CellsMeasured, RowsFromTheirNode, CpusOn, ResultsOfMethod, Unread, Cell
<1> QED BY <1>4, <1>5, <1>6, <1>7 DEF Inv

\* ... and as its bandwidth.
NewBandwidth == [row |-> row, col |-> col, memory |-> {src.ptr.node, dst.ptr.node}]

LEMMA TransferInv ==
  ASSUME Inv, Transfer
  PROVE  Inv'
<1>1. /\ pc = "transfer" /\ pc' = "bandwidth"
      /\ heap' = Released(Released(heap, src), dst)
      /\ src' = Nothing /\ dst' = Nothing /\ methods' = Tail(methods)
      /\ UNCHANGED <<options, affinity, exit, places, latency, stranded, measured,
                     latency_ns, unpinned, shm, files>>
      /\ IF numa_matrix
           THEN bandwidth_gibs' = bandwidth_gibs \union {NewBandwidth} /\ UNCHANGED bandwidth_results
           ELSE bandwidth_results' = Append(bandwidth_results, src.method)
                /\ UNCHANGED bandwidth_gibs
  BY DEF Transfer, NewBandwidth
<1>2. /\ UNCHANGED <<faults, numa_matrix, numa_node, run_bandwidth, run_shared_memory, csv_file,
                     numa_available, given>>
      /\ UNCHANGED <<allowed, rows, row, cols, col, consumer_cpu>>
  BY <1>1 DEF options, places, shm
<1>3. /\ Nothing \in Allocation /\ stranded' \subseteq Buffer /\ methods # <<>>
      /\ MemoryNode >= 0 <=> NextMethodOf = "numa-node"
      /\ NextMethodOf \in AllocationMethods
  BY <1>1, NextMethodType DEF Inv, TypeOK, MethodsLeft, Nothing, Allocation
<1>4. /\ heap' \subseteq Buffer /\ latency' \in Allocation
      /\ MethodsLeft' /\ LatencyHolds' /\ PairHolds' /\ StrandedBehind' /\ HeapHolds'
  <2>1. /\ heap' = LeftOver(stranded') /\ latency.ptr \notin stranded'
    BY <1>1, PairReleased, HeldApart, HeldFacts DEF Held
  <2> QED BY <1>1, <1>2, <1>3, <2>1, MethodOver
<1>5. TypeOK'
  BY <1>1, <1>2, <1>3, <1>4 DEF Inv, TypeOK, Places
<1>6. Stages' /\ Affinity' /\ ConsumerPlaced'
  BY <1>1, <1>2, SameCell DEF Cell
<1>7. CellsMeasured'
  <2>1. CASE ~numa_matrix
    BY <1>1, <1>2, <2>1 DEF Inv, CellsMeasured, RowsFromTheirNode, CpusOn, Unread
  <2>2. CASE numa_matrix
    <3>1. PICK c \in latency_ns : c.row = row /\ c.col = col
      BY <1>1, <2>2 DEF Inv, CellsMeasured, Cell
    <3>2. /\ bandwidth_gibs' = bandwidth_gibs \union {NewBandwidth}
          /\ NewBandwidth.row = row /\ NewBandwidth.col = col /\ NewBandwidth.memory = {col}
      BY <1>1, <2>2, InColumn DEF NewBandwidth, Cell
    <3>3. RowsFromTheirNode'
      BY <1>1, <1>2, <3>1, <3>2 DEF Inv, CellsMeasured, RowsFromTheirNode, CpusOn
    <3>4. \A cell \in latency_ns \union bandwidth_gibs' : cell.memory = {cell.col}
      BY <3>2 DEF Inv, CellsMeasured
    <3> QED BY <1>1, <1>2, <3>1, <3>3, <3>4 DEF CellsMeasured, Unread
  <2> QED BY <2>1, <2>2
<1>8. ResultsOfMethod'
  <2>1. CASE numa_matrix
    BY <1>1, <1>2, <2>1 DEF Inv, ResultsOfMethod
  <2>2. CASE ~numa_matrix
    <3>1. src.method = NextMethodOf /\ MemoryNode = numa_node
      BY <1>1, <2>2 DEF Inv, PairHolds, HeldOrMissing, Filled, Missing, MemoryNode
    <3>2. bandwidth_results' = Append(bandwidth_results, NextMethodOf)
      BY <1>1, <2>2, <3>1
    <3> QED BY <1>2, <1>3, <3>1, <3>2 DEF Inv, ResultsOfMethod
  <2> QED BY <2>1, <2>2
<1> QED BY <1>4, <1>5, <1>6, <1>7, <1>8 DEF Inv

LEMMA StrandBuffersInv ==
  ASSUME Inv, StrandBuffers
  PROVE  Inv'
<1>1. /\ pc = "transfer" /\ stranded' = stranded \union {src.ptr, dst.ptr}
      /\ BandwidthThrows(heap)
      /\ UNCHANGED <<options, affinity, exit, places, measured, matrix, bandwidth_results, shm, files>>
  BY DEF StrandBuffers
<1>2. /\ UNCHANGED <<faults, numa_matrix, numa_node, run_bandwidth, run_shared_memory, csv_file,
                     numa_available, given>>
      /\ UNCHANGED <<allowed, rows, row, cols, col, latency_ns, bandwidth_gibs, unpinned, consumer_cpu>>
  BY <1>1 DEF options, places, matrix, shm
<1>3. /\ src' = Nothing /\ dst' = Nothing /\ methods' = Tail(methods) /\ Nothing \in Allocation
      /\ \/ numa_matrix /\ pc' = "cell" /\ heap' = Released(heap, latency) /\ latency' = Nothing
         \/ ~numa_matrix /\ pc' = "bandwidth" /\ heap' = heap /\ UNCHANGED latency
  BY <1>1 DEF BandwidthThrows, Nothing, Allocation
<1>4. /\ src.ptr \in Buffer /\ dst.ptr \in Buffer
      /\ src.ptr # NoBuffer /\ dst.ptr # NoBuffer
  BY <1>1 DEF Inv, TypeOK, PairHolds, Allocation
<1>5. /\ src.ptr.owner = "src" /\ src.ptr.row = row /\ src.ptr.col = col
      /\ src.ptr.method = NextMethodOf
      /\ dst.ptr.owner = "dst" /\ dst.ptr.row = row /\ dst.ptr.col = col
      /\ dst.ptr.method = NextMethodOf
  <2>1. ASSUME NEW owner, NEW a, HeldOrMissing(owner, a), a.ptr # NoBuffer
        PROVE  /\ a.ptr.owner = owner /\ a.ptr.row = row /\ a.ptr.col = col
               /\ a.ptr.method = NextMethodOf
    BY <2>1, BufferFacts DEF HeldOrMissing, Filled, Missing
  <2> QED BY <1>1, <1>4, <2>1 DEF Inv, PairHolds
<1>6. latency.ptr # src.ptr /\ latency.ptr # dst.ptr /\ latency.ptr \notin stranded
  BY <1>4, <1>5, HeldFacts, HeldApart DEF Held
<1>7. /\ heap' \subseteq Buffer /\ latency' \in Allocation
      /\ MethodsLeft' /\ LatencyHolds' /\ PairHolds' /\ StrandedBehind' /\ HeapHolds'
  <2>1. heap = LeftOver(stranded')
    BY <1>1, <1>4 DEF Inv, HeapHolds, Held, LeftOver
  <2>2. \A b \in stranded' :
          \/ b \in stranded
          \/ pc' = "cell" /\ b.row = row /\ b.col = col
          \/ ~numa_matrix /\ b.owner # "latency" /\ b.method = NextMethodOf
    BY <1>1, <1>3, <1>5
  <2>3. stranded' \subseteq Buffer /\ latency.ptr \notin stranded'
    BY <1>1, <1>4, <1>6 DEF Inv, TypeOK
  <2> QED BY <1>1, <1>2, <1>3, <2>1, <2>2, <2>3, MethodOver
<1>8. TypeOK'
  <2>1. stranded' \subseteq Buffer /\ pc' \in Places
    BY <1>1, <1>3, <1>4 DEF Inv, TypeOK, Places
  <2> QED BY <1>1, <1>2, <1>3, <1>7, <2>1 DEF Inv, TypeOK
<1>9. Stages' /\ Affinity' /\ ConsumerPlaced'
  BY <1>1, <1>2, <1>3, SameCell DEF Cell
<1>10. CellsMeasured' /\ ResultsOfMethod'
  BY <1>1, <1>2, <1>3 DEF Inv, CellsMeasured, RowsFromTheirNode, CpusOn, ResultsOfMethod, Unread, Cell
<1> QED BY <1>7, <1>8, <1>9, <1>10 DEF Inv

\* The consumer's CPU is allowed, it is not the producer's, and its core is another if there is one.
LEMMA ConsumerChosen ==
  ASSUME NEW S, S \subseteq Cpus, S # {}, S # {Least(S)},
         NEW consumer, consumer = ChooseDistinctCpu(Least(S), S)
  PROVE  /\ consumer \in S /\ consumer # Least(S)
         /\ (\E cpu \in S : CoreOf[cpu] # CoreOf[Least(S)]) => CoreOf[consumer] # CoreOf[Least(S)]
<1> DEFINE primary == Least(S)
           elsewhere == {cpu \in S \ {primary} : CoreOf[cpu] # CoreOf[primary]}
           rest == S \ {primary}
<1>1. S \subseteq Nat /\ primary \in S
  BY LeastOf, MachineAssumption
<1>2. rest # {} /\ rest \subseteq Nat /\ elsewhere \subseteq Nat
  BY <1>1
<1>3. consumer = IF elsewhere # {} THEN Least(elsewhere) ELSE Least(rest)
  BY <1>2 DEF ChooseDistinctCpu
<1>4. CASE elsewhere # {}
  <2> HIDE DEF elsewhere
  <2>1. consumer \in elsewhere
    BY <1>2, <1>3, <1>4, LeastOf
  <2> QED BY <2>1 DEF elsewhere
<1>5. CASE elsewhere = {}
  <2>1. consumer \in rest
    <3> HIDE DEF elsewhere, rest
    <3> QED BY <1>2, <1>3, <1>5, LeastOf
  <2>2. ~\E cpu \in S : CoreOf[cpu] # CoreOf[primary]
    BY <1>5
  <2> QED BY <2>1, <2>2
<1> QED BY <1>4, <1>5

LEMMA SharedMemoryTestInv ==
  ASSUME Inv, SharedMemoryTest
  PROVE  Inv'
<1>1. /\ pc = "shm"
      /\ UNCHANGED <<options, affinity, places, methods, src, dst, stranded, measured, matrix,
                     bandwidth_results, files>>
      /\ \/ UNCHANGED consumer_cpu
         \/ allowed # {Least(allowed)} /\ consumer_cpu' = ChooseDistinctCpu(Least(allowed), allowed)
      /\ \/ pc' = "csv" /\ UNCHANGED <<exit, heap, latency>>
         \/ Throw
  BY DEF SharedMemoryTest, shm
<1>2. /\ UNCHANGED <<faults, numa_matrix, numa_node, run_bandwidth, run_shared_memory, csv_file,
                     numa_available, given>>
      /\ UNCHANGED <<allowed, rows, row, cols, col, latency_ns, bandwidth_gibs, unpinned>>
  BY <1>1 DEF options, places, matrix
<1>3. /\ ~numa_matrix /\ allowed # {} /\ allowed \subseteq Cpus /\ consumer_cpu = -1 /\ methods = <<>>
      /\ affinity = allowed \/ affinity = {Least(allowed)}
      /\ src = Nothing /\ dst = Nothing
  BY <1>1 DEF Inv, TypeOK, Stages, Affinity, Unread, ConsumerPlaced, MethodsLeft, PairHolds, Reporting, Over
<1>4. /\ pc' \in {"csv", "exit"} /\ exit' \in {-1, 0, 1, 2, Aborted}
      /\ heap' \subseteq Buffer /\ latency' \in Allocation
      /\ LatencyHolds' /\ PairHolds' /\ StrandedBehind' /\ HeapHolds'
  <2>1. CASE pc' = "csv" /\ UNCHANGED <<exit, heap, latency>>
    <3>1. MemoryNode' = MemoryNode
      BY <1>2 DEF MemoryNode
    <3>2. LatencyHolds' /\ PairHolds' /\ HeapHolds'
      BY <1>1, <1>2, <1>3, <2>1, <3>1
         DEF Inv, LatencyHolds, PairHolds, HeapHolds, Held, Cell, Reporting, Filled, BufferFor, BoundTo
    <3>3. StrandedBehind'
      BY <1>1, <1>2, <1>3, <2>1, <3>1 DEF Inv, StrandedBehind, Unread, Cell, Reporting
    <3> QED BY <2>1, <3>2, <3>3 DEF Inv, TypeOK
  <2>2. CASE Throw
    <3>1. Return(1)
      BY <1>3, <2>2 DEF Throw
    <3> QED BY <1>1, <1>2, <1>3, <3>1, Returning
  <2> QED BY <1>1, <2>1, <2>2
<1>5. /\ consumer_cpu' \in Cpus \union {-1}
      /\ ConsumerPlaced'
  <2>1. CASE UNCHANGED consumer_cpu
    BY <1>2, <1>3, <2>1 DEF ConsumerPlaced, ConsumerElsewhere, Inv, TypeOK
  <2>2. CASE allowed # {Least(allowed)} /\ consumer_cpu' = ChooseDistinctCpu(Least(allowed), allowed)
    <3>1. /\ consumer_cpu' \in allowed /\ consumer_cpu' # Least(allowed)
          /\ (\E cpu \in allowed : CoreOf[cpu] # CoreOf[Least(allowed)]) =>
               CoreOf[consumer_cpu'] # CoreOf[Least(allowed)]
      BY <1>3, <2>2, ConsumerChosen
    <3>2. Least(allowed) \in allowed
      BY <1>3, LeastOf, MachineAssumption
    <3>3. affinity # {consumer_cpu'}
      <4>1. Least(allowed) \in affinity
        BY <1>3, <3>2
      <4> QED BY <3>1, <4>1
    <3>4. Least(allowed)' = Least(allowed) /\ affinity' = affinity
      BY <1>1, <1>2
    <3>5. ConsumerElsewhere'
      BY <1>2, <3>1, <3>3, <3>4 DEF ConsumerElsewhere
    <3> QED BY <1>2, <1>3, <1>4, <3>1, <3>5 DEF ConsumerPlaced
  <2> QED BY <1>1, <2>1, <2>2
<1>6. TypeOK'
  BY <1>1, <1>2, <1>4, <1>5 DEF Inv, TypeOK, Places
<1>7. Stages' /\ MethodsLeft'
  BY <1>1, <1>2, <1>3, <1>4 DEF Inv, Stages, MethodsLeft, Cell, Reporting, Over
<1>8. Affinity'
  BY <1>1, <1>2, <1>3, <1>4 DEF Inv, Affinity, Unread, Over, Cell
<1>9. CellsMeasured' /\ ResultsOfMethod'
  BY <1>1, <1>2, <1>3, <1>4 DEF Inv, CellsMeasured, RowsFromTheirNode, CpusOn, ResultsOfMethod, Unread, Cell
<1> QED BY <1>4, <1>5, <1>6, <1>7, <1>8, <1>9 DEF Inv

\* The two files: nothing that is measured changes, and main goes on or returns.
LEMMA ReportingInv ==
  ASSUME Inv, pc \in {"csv", "history"},
         UNCHANGED <<options, affinity, places, methods, src, dst, stranded, measured, matrix,
                     bandwidth_results, shm>>,
         \/ pc' = "history" /\ UNCHANGED <<exit, heap, latency>>
         \/ Return(0)
         \/ Return(1)
  PROVE  Inv'
<1>1. /\ UNCHANGED <<faults, numa_matrix, numa_node, run_bandwidth, run_shared_memory, csv_file,
                     numa_available, given>>
      /\ UNCHANGED <<allowed, rows, row, cols, col, latency_ns, bandwidth_gibs, unpinned, consumer_cpu>>
  BY DEF options, places, matrix, shm
<1>2. /\ ~numa_matrix /\ allowed # {} /\ methods = <<>> /\ src = Nothing /\ dst = Nothing
  BY DEF Inv, Stages, MethodsLeft, PairHolds, Reporting, Over
<1>3. /\ pc' \in {"history", "exit"} /\ exit' \in {-1, 0, 1, 2, Aborted}
      /\ heap' \subseteq Buffer /\ latency' \in Allocation
      /\ LatencyHolds' /\ PairHolds' /\ StrandedBehind' /\ HeapHolds'
  <2>1. CASE pc' = "history" /\ UNCHANGED <<exit, heap, latency>>
    <3>1. MemoryNode' = MemoryNode
      BY <1>1 DEF MemoryNode
    <3>2. LatencyHolds' /\ PairHolds' /\ HeapHolds'
      BY <1>1, <1>2, <2>1, <3>1
         DEF Inv, LatencyHolds, PairHolds, HeapHolds, Held, Cell, Reporting, Filled, BufferFor, BoundTo
    <3>3. StrandedBehind'
      BY <1>1, <1>2, <2>1, <3>1 DEF Inv, StrandedBehind, Unread, Cell, Reporting
    <3> QED BY <2>1, <3>2, <3>3 DEF Inv, TypeOK
  <2>2. CASE Return(0)
    BY <1>1, <1>2, <2>2, Returning
  <2>3. CASE Return(1)
    BY <1>1, <1>2, <2>3, Returning
  <2> QED BY <2>1, <2>2, <2>3
<1>4. TypeOK'
  BY <1>1, <1>3 DEF Inv, TypeOK, Places
<1>5. Stages' /\ MethodsLeft'
  BY <1>1, <1>2, <1>3 DEF Inv, Stages, MethodsLeft, Cell, Reporting, Over
<1>6. Affinity' /\ ConsumerPlaced'
  BY <1>1, <1>2, <1>3 DEF Inv, Affinity, Unread, ConsumerPlaced, ConsumerElsewhere, Reporting, Over, Cell
<1>7. CellsMeasured' /\ ResultsOfMethod'
  BY <1>1, <1>2, <1>3 DEF Inv, CellsMeasured, RowsFromTheirNode, CpusOn, ResultsOfMethod, Unread, Cell
<1> QED BY <1>3, <1>4, <1>5, <1>6, <1>7 DEF Inv

LEMMA FilesInv ==
  ASSUME Inv, WriteCsv \/ AppendHistory
  PROVE  Inv'
<1>1. CASE WriteCsv
  <2>1. /\ pc = "csv"
        /\ UNCHANGED <<options, affinity, places, methods, src, dst, stranded, measured, matrix,
                       bandwidth_results, shm>>
        /\ \/ pc' = "history" /\ UNCHANGED <<exit, heap, latency>>
           \/ Return(0)
           \/ Return(1)
    BY <1>1 DEF WriteCsv
  <2> QED BY <2>1, ReportingInv
<1>2. CASE AppendHistory
  <2>1. /\ pc = "history" /\ Return(0)
        /\ UNCHANGED <<options, affinity, places, methods, src, dst, stranded, measured, matrix,
                       bandwidth_results, shm>>
    BY <1>2 DEF AppendHistory
  <2> QED BY <2>1, ReportingInv
<1> QED BY <1>1, <1>2

-------------------------------------------------------------------------------
(* The theorems.                                                            *)

LEMMA InitInv ==
  ASSUME Init
  PROVE  Inv
<1>1. Nothing \in Allocation /\ Nothing.ptr = NoBuffer
  BY DEF Nothing, Allocation
<1>2. TypeOK
  <2>1. <<numa_matrix, run_bandwidth, run_shared_memory, csv_file>> \in BOOLEAN \X BOOLEAN \X BOOLEAN \X BOOLEAN
    BY OptionsAssumption DEF Init
  <2>2. faults \subseteq FaultKinds /\ given \subseteq Cpus /\ affinity \subseteq Cpus
    BY BenchmarkFaultsAssumption DEF Init
  <2> QED BY <1>1, <2>1, <2>2 DEF Init, TypeOK, Places
<1>3. Stages /\ MethodsLeft
  BY DEF Init, Stages, MethodsLeft, Over, Cell, Reporting
<1>4. LatencyHolds /\ PairHolds /\ HeapHolds /\ StrandedBehind
  BY <1>1 DEF Init, LatencyHolds, PairHolds, HeapHolds, Held, StrandedBehind, Cell, Reporting
<1>5. Affinity /\ ConsumerPlaced
  <2>1. affinity # {} /\ affinity = given /\ pc = "start" /\ consumer_cpu = -1
    BY DEF Init
  <2> QED BY <2>1 DEF Affinity, Unread, ConsumerPlaced, ConsumerElsewhere, Over, Cell
<1>6. CellsMeasured /\ ResultsOfMethod
  BY DEF Init, CellsMeasured, RowsFromTheirNode, ResultsOfMethod, Cell
<1> QED BY <1>2, <1>3, <1>4, <1>5, <1>6 DEF Inv

LEMMA StutterInv ==
  ASSUME Inv, UNCHANGED vars
  PROVE  Inv'
<1>1. /\ UNCHANGED <<faults, numa_matrix, numa_node, run_bandwidth, run_shared_memory, csv_file,
                     numa_available, given>>
      /\ UNCHANGED <<allowed, rows, row, cols, col, latency_ns, bandwidth_gibs, unpinned, consumer_cpu>>
      /\ UNCHANGED <<heap, latency, src, dst, stranded, affinity, pc, exit, methods, measured,
                     bandwidth_results>>
  BY DEF vars, options, places, matrix, shm, buffers
<1>2. MemoryNode' = MemoryNode /\ Held' = Held
  BY <1>1 DEF MemoryNode, Held
<1>3. TypeOK' /\ Stages' /\ MethodsLeft'
  BY <1>1, <1>2 DEF Inv, TypeOK, Stages, MethodsLeft, Initiators, CpusOn
<1>4. LatencyHolds' /\ HeapHolds' /\ StrandedBehind'
  BY <1>1, <1>2 DEF Inv, LatencyHolds, HeapHolds, StrandedBehind, Filled, BufferFor, BoundTo
<1>5. PairHolds'
  <2>1. HeldOrMissing("src", src) <=> HeldOrMissing("src", src)'
    BY <1>1, <1>2 DEF HeldOrMissing, Filled, Missing, BufferFor, BoundTo, NextSize, NextMethodOf
  <2>2. HeldOrMissing("dst", dst) <=> HeldOrMissing("dst", dst)'
    BY <1>1, <1>2 DEF HeldOrMissing, Filled, Missing, BufferFor, BoundTo, NextSize, NextMethodOf
  <2> QED BY <1>1, <2>1, <2>2 DEF Inv, PairHolds
<1>6. Affinity' /\ ConsumerPlaced' /\ CellsMeasured' /\ ResultsOfMethod'
  BY <1>1 DEF Inv, Affinity, ConsumerPlaced, ConsumerElsewhere, CellsMeasured, RowsFromTheirNode,
              CpusOn, ResultsOfMethod
<1> QED BY <1>3, <1>4, <1>5, <1>6 DEF Inv

LEMMA NextInv ==
  ASSUME Inv, [Next]_vars
  PROVE  Inv'
<1>1. CASE Dispatch
  BY <1>1, DispatchInv
<1>2. CASE ReadCpus
  BY <1>2, ReadCpusInv
<1>3. CASE PinPrimary
  BY <1>3, PinPrimaryInv
<1>4. CASE Calibrate
  BY <1>4, CalibrateInv
<1>5. CASE StartRow
  BY <1>5, StartRowInv
<1>6. CASE StartCell
  BY <1>6, StartCellInv
<1>7. CASE ConstructLatency
  BY <1>7, ConstructLatencyInv
<1>8. CASE MeasureLatency
  BY <1>8, MeasureLatencyInv
<1>9. CASE NextMethod
  BY <1>9, NextMethodInv
<1>10. CASE AllocateSrc
  BY <1>10, AllocateSrcInv
<1>11. CASE AllocateDst
  BY <1>11, AllocateDstInv
<1>12. CASE CheckBuffers
  BY <1>12, CheckBuffersInv
<1>13. CASE Transfer
  BY <1>13, TransferInv
<1>14. CASE StrandBuffers
  BY <1>14, StrandBuffersInv
<1>15. CASE SharedMemoryTest
  BY <1>15, SharedMemoryTestInv
<1>16. CASE WriteCsv \/ AppendHistory
  BY <1>16, FilesInv
<1>17. CASE UNCHANGED vars
  BY <1>17, StutterInv
<1> QED BY <1>1, <1>2, <1>3, <1>4, <1>5, <1>6, <1>7, <1>8, <1>9, <1>10, <1>11, <1>12, <1>13,
           <1>14, <1>15, <1>16, <1>17 DEF Next, Step, Exited

\* For every machine, every size of the buffers and every set of faults, the variables keep
\* their types and the parts of Inv hold in every state of the benchmarks.
THEOREM BenchmarksInvariant == Spec => []Inv
<1>1. Init => Inv
  BY InitInv
<1>2. Inv /\ [Next]_vars => Inv'
  BY NextInv
<1> QED BY <1>1, <1>2, PTL DEF Spec

\* Every variable of the benchmarks keeps its type, the buffers on the heap and the
\* allocations that point to them included.
THEOREM BenchmarksTypes == Spec => []TypeOK
<1>1. Inv => TypeOK
  BY DEF Inv
<1> QED BY <1>1, BenchmarksInvariant, PTL

\* No buffer is lost, given back twice or given back to the wrong allocator, whatever fails,
\* whoever catches it and however often: those that exist are those main holds and those the
\* exceptions of BandwidthMeasurer and of LatencyMeasurer's constructor stranded, in any number
\* of cells and methods, and main returns with none in hand.
THEOREM BuffersAccountedFor == Spec => []BuffersAccounted
<1>1. Inv => BuffersAccounted
  <2> SUFFICES ASSUME Inv
               PROVE  BuffersAccounted
    OBVIOUS
  <2>1. heap = Held \union stranded /\ Held \intersect stranded = {}
    BY HeldApart DEF Inv, HeapHolds
  <2>2. pc = "exit" => Held = {}
    BY DEF Inv, LatencyHolds, PairHolds, Held, Nothing, Cell, Reporting
  <2>3. pc \in {"row", "cell", "shm", "csv"} => src = Nothing /\ dst = Nothing
    BY DEF Inv, PairHolds
  <2> QED BY <2>1, <2>2, <2>3 DEF BuffersAccounted
<1> QED BY <1>1, BenchmarksInvariant, PTL

\* choose_distinct_cpu gives the consumer a CPU the process may use, never the one the
\* producer is pinned to, and one of another core where the topology has one, even when the
\* producer could not be pinned.
THEOREM ConsumerApart == Spec => []ConsumerElsewhere
<1>1. Inv => ConsumerElsewhere
  BY DEF Inv, ConsumerPlaced
<1> QED BY <1>1, BenchmarksInvariant, PTL

\* What the matrix shows in a row was measured from a CPU of that row's node, or main has
\* warned that the thread could not be pinned there; a cell has no bandwidth without a latency.
THEOREM MatrixLabels == Spec => []RowsFromTheirNode
<1>1. Inv => RowsFromTheirNode
  BY DEF Inv, CellsMeasured
<1> QED BY <1>1, BenchmarksInvariant, PTL

\* For every machine and every value of --numa-node, those of absent nodes included, whatever
\* fails: a number in the matrix is of memory on its column's node, a node of the machine that
\* was asked for is where every buffer in use is, and the bandwidths that are reported are of
\* the node's allocator exactly if a node was asked for.
THEOREM NumaOnly == Spec => []NothingButNuma
<1>1. Inv => NothingButNuma
  <2> SUFFICES ASSUME Inv
               PROVE  NothingButNuma
    OBVIOUS
  <2>1. ASSUME NEW owner, NEW size, MemoryNode \in Nodes
        PROVE  Filled(owner, size, "numa-node").ptr.node = MemoryNode
    BY <2>1, BufferFacts DEF Filled, BoundTo
  <2>2. MemoryNode \in Nodes => MemoryNode >= 0
    BY MachineAssumption
  <2>3. latency.ptr # NoBuffer /\ MemoryNode \in Nodes => latency.ptr.node = MemoryNode
    BY <2>1, <2>2, LatencyMethodType DEF Inv, LatencyHolds, Nothing
  <2>4. ASSUME NEW owner, NEW a, a = Nothing \/ (methods # <<>> /\ HeldOrMissing(owner, a)),
               a.ptr # NoBuffer, MemoryNode \in Nodes
        PROVE  a.ptr.node = MemoryNode
    <3>1. methods # <<>> /\ a = Filled(owner, NextSize, NextMethodOf)
      BY <2>4 DEF HeldOrMissing, Missing, Nothing
    <3>2. NextMethodOf = "numa-node"
      BY <2>2, <2>4, <3>1, NextMethodType DEF Inv
    <3> QED BY <2>1, <2>4, <3>1, <3>2
  <2>5. src = Nothing \/ (methods # <<>> /\ HeldOrMissing("src", src))
    BY DEF Inv, PairHolds, MethodsLeft
  <2>6. dst = Nothing \/ (methods # <<>> /\ HeldOrMissing("dst", dst))
    BY DEF Inv, PairHolds, MethodsLeft
  <2>7. \A buffer \in Held : MemoryNode \in Nodes => buffer.node = MemoryNode
    BY <2>3, <2>4, <2>5, <2>6 DEF Held
  <2> QED BY <2>7 DEF Inv, CellsMeasured, ResultsOfMethod, NothingButNuma
<1> QED BY <1>1, BenchmarksInvariant, PTL

-------------------------------------------------------------------------------
(* With nothing failing, nothing is left out.                               *)

Reached(n, m) ==
  /\ \E cell \in latency_ns : cell.row = n /\ cell.col = m
  /\ \E cell \in bandwidth_gibs : cell.row = n /\ cell.col = m

\* The cells of the matrix that are still to be done, the one under way included.
Pending(n, m) ==
  \/ n \in rows
  \/ n = row /\ m \in cols /\ pc \in {"cell", "construct"} \union Cell
  \/ n = row /\ m = col /\ pc \in {"construct"} \union Cell /\ ~(pc = "bandwidth" /\ methods = <<>>)

PairThere ==
  /\ pc \in {"dst", "check"} => src.ptr # NoBuffer
  /\ pc = "check" => dst.ptr # NoBuffer

MatrixKept ==
  numa_matrix /\ pc \notin Over =>
    \A n \in Initiators(allowed), m \in Nodes : Reached(n, m) \/ Pending(n, m)

\* The methods that are done are those that are not to be done.
ListedAll ==
  \/ bandwidth_results = <<>> /\ methods = <<"mmap", "malloc", "LargePage">>
  \/ bandwidth_results = <<"mmap">> /\ methods = <<"malloc", "LargePage">>
  \/ bandwidth_results = <<"mmap", "malloc">> /\ methods = <<"LargePage">>
  \/ bandwidth_results = <<"mmap", "malloc", "LargePage">> /\ methods = <<>>
ListedNode ==
  \/ bandwidth_results = <<>> /\ methods = <<"numa">>
  \/ bandwidth_results = <<"numa-node">> /\ methods = <<>>
Listed == (numa_node = -1 => ListedAll) /\ (numa_node # -1 => ListedNode)

Measured ==
  measured /\ (run_bandwidth => Listed)

\* The shared-memory test is over, on the CPUs the process was started with.
SharedMemoryDone ==
  run_shared_memory =>
    shared_memory \in IF given = {Least(given)} THEN {"one CPU"} ELSE {"success", "failure"}

PipelineKept ==
  ~numa_matrix =>
    /\ pc \in {"bandwidth", "src", "dst", "check", "transfer"} \union Reporting => Measured
    /\ pc \in {"start", "cpus", "pin", "calibrate", "construct", "latency"} => bandwidth_results = <<>>
    /\ pc = "history" => csv_file /\ csv = "complete"
    /\ pc \in {"csv", "history"} => SharedMemoryDone

Complete ==
  AllMeasured /\ (faults = {} => PairThere /\ MatrixKept /\ PipelineKept)

\* Pinning does not change what was read before it.
AllowedKept == faults = {} /\ pc \notin Over => allowed = given

LEMMA AllowedKeptNext ==
  ASSUME Inv, AllowedKept, [Next]_vars
  PROVE  AllowedKept'
<1>1. CASE Dispatch
  BY <1>1 DEF Dispatch, Return, AllowedKept, Over
<1>2. CASE ReadCpus
  BY <1>2 DEF ReadCpus, Return, AllowedKept, Over, options, Inv, Affinity, Unread
<1>3. ASSUME UNCHANGED <<options, allowed>>, pc \notin Over
      PROVE  AllowedKept'
  BY <1>3 DEF AllowedKept, options
<1>4. CASE PinPrimary \/ Calibrate \/ StartRow \/ StartCell \/ ConstructLatency \/ MeasureLatency
  <2>1. UNCHANGED <<options, allowed>> /\ pc \notin Over
    BY <1>4 DEF PinPrimary, Calibrate, StartRow, StartCell, ConstructLatency, MeasureLatency, places, Over
  <2> QED BY <1>3, <2>1
<1>5. CASE NextMethod \/ AllocateSrc \/ AllocateDst \/ CheckBuffers \/ Transfer \/ StrandBuffers
  <2>1. UNCHANGED <<options, allowed>> /\ pc \notin Over
    BY <1>5 DEF NextMethod, AllocateSrc, AllocateDst, CheckBuffers, Transfer, StrandBuffers, places, Over
  <2> QED BY <1>3, <2>1
<1>6. CASE SharedMemoryTest \/ WriteCsv \/ AppendHistory
  <2>1. UNCHANGED <<options, allowed>> /\ pc \notin Over
    BY <1>6 DEF SharedMemoryTest, WriteCsv, AppendHistory, places, Over
  <2> QED BY <1>3, <2>1
<1>7. CASE UNCHANGED vars
  BY <1>7 DEF vars, options, places, AllowedKept
<1> QED BY <1>1, <1>2, <1>4, <1>5, <1>6, <1>7 DEF Next, Step, Exited

\* As long as nothing is measured and nothing is reported, the matrix and the pipeline stay
\* as they are.
LEMMA NothingDone ==
  ASSUME Inv, Complete, faults = {}, pc' # "exit",
         UNCHANGED <<faults, numa_matrix, numa_node, run_bandwidth, allowed, rows, row, cols, col,
                     methods, measured, latency_ns, bandwidth_gibs, bandwidth_results>>,
         \/ pc \in {"construct"} \union Cell /\ pc' \in {"construct"} \union Cell
            /\ (pc' = "bandwidth" => pc = "bandwidth")
         \/ ~numa_matrix
  PROVE  AllMeasured' /\ MatrixKept'
<1>1. AllMeasured'
  BY DEF AllMeasured
<1>2. MatrixKept'
  <2>1. CASE ~numa_matrix
    BY <2>1 DEF MatrixKept
  <2>2. CASE numa_matrix /\ pc \in {"construct"} \union Cell /\ pc' \in {"construct"} \union Cell
             /\ (pc' = "bandwidth" => pc = "bandwidth")
    <3>1. ASSUME NEW n \in Initiators(allowed), NEW m \in Nodes
          PROVE  Reached(n, m) \/ Pending(n, m)
      BY <2>2 DEF Complete, MatrixKept, Cell, Over
    <3>2. ASSUME NEW n, NEW m PROVE Reached(n, m) => Reached(n, m)'
      BY DEF Reached
    <3>3. ASSUME NEW n, NEW m PROVE Pending(n, m) => Pending(n, m)'
      BY <2>2 DEF Pending
    <3>4. Initiators(allowed)' = Initiators(allowed)
      BY DEF Initiators, CpusOn
    <3> QED BY <3>1, <3>2, <3>3, <3>4 DEF MatrixKept
  <2> QED BY <2>1, <2>2
<1> QED BY <1>1, <1>2

LEMMA EntryComplete ==
  ASSUME Inv, Inv', Complete, faults = {}, Dispatch \/ ReadCpus \/ PinPrimary \/ Calibrate
  PROVE  Complete'
<1>1. UNCHANGED <<faults, numa_matrix, numa_node, run_bandwidth, csv_file, numa_available, given, row, cols, col,
                  methods, src, dst, measured, latency_ns, bandwidth_gibs, bandwidth_results>>
  BY DEF Dispatch, ReadCpus, PinPrimary, Calibrate, options, places, matrix, buffers
<1>2. /\ numa_node = -1 \/ numa_node >= 0
      /\ ~numa_matrix => bandwidth_results = <<>>
      /\ pc \in Unread \union {"pin", "calibrate"}
  <2>1. numa_node = -1 \/ numa_node >= 0
    BY MachineAssumption DEF Inv, TypeOK
  <2>2. pc \in Unread \union {"pin", "calibrate"}
    BY DEF Dispatch, ReadCpus, PinPrimary, Calibrate, Unread
  <2>3. ~numa_matrix => bandwidth_results = <<>>
    BY <2>2 DEF Complete, PipelineKept, Unread
  <2> QED BY <2>1, <2>2, <2>3
<1>3. CASE Dispatch
  <2>1. CASE pc' = "cpus"
    BY <1>1, <1>2, <2>1 DEF Complete, AllMeasured, PairThere, MatrixKept, PipelineKept, Over, Reporting
  <2>2. CASE pc' # "cpus"
    <3>1. /\ pc' = "exit"
          /\ \/ numa_matrix /\ numa_node >= 0
             \/ exit' = 0 /\ (numa_matrix \/ numa_node >= 0) /\ ~numa_available
      BY <1>3, <2>2 DEF Dispatch, Return
    <3>2. /\ ~(numa_matrix /\ numa_node >= 0)' => exit' = 0
          /\ ~(numa_matrix /\ numa_available /\ ~(numa_node >= 0))'
          /\ ~(~numa_matrix /\ (numa_node = -1 \/ numa_available))'
      BY ONLY <1>1, <1>2, <3>1
    <3>3. AllMeasured'
      BY ONLY <3>2 DEF AllMeasured
    <3> QED BY <1>1, <3>1, <3>3 DEF Complete, PairThere, MatrixKept, PipelineKept, Over, Reporting
  <2> QED BY <2>1, <2>2
<1>4. CASE ReadCpus
  <2>1. /\ pc = "cpus" /\ allowed' = affinity /\ affinity # {}
        /\ rows' = IF numa_matrix THEN Initiators(allowed') ELSE {}
        /\ affinity = given
    BY <1>4 DEF ReadCpus, Inv, Affinity, Unread
  <2>2. CASE pc' = "row" /\ numa_matrix
    <3>1. MatrixKept'
      BY <2>1, <2>2, <1>1 DEF MatrixKept, Pending, Initiators, CpusOn
    <3> QED BY <1>1, <2>2, <3>1 DEF Complete, AllMeasured, PairThere, PipelineKept
  <2>3. CASE pc' = "pin" /\ ~numa_matrix
    BY <1>1, <1>2, <2>3 DEF Complete, AllMeasured, PairThere, MatrixKept, PipelineKept, Reporting
  <2>4. CASE pc' \notin {"row", "pin"}
    <3>1. numa_matrix /\ rows' = {} /\ pc' = "exit" /\ exit' = 0
      BY <1>4, <2>1, <2>4 DEF ReadCpus, Return
    <3>2. Initiators(given)' = {}
      BY <1>1, <2>1, <3>1 DEF Initiators, CpusOn
    <3>3. AllMeasured'
      BY <1>1, <3>1, <3>2 DEF AllMeasured
    <3> QED BY <1>1, <3>1, <3>3 DEF Complete, PairThere, MatrixKept, PipelineKept, Over
  <2>5. (pc' = "row" => numa_matrix) /\ (pc' = "pin" => ~numa_matrix)
    BY <1>1 DEF Inv, Stages
  <2> QED BY <2>2, <2>3, <2>4, <2>5
<1>5. CASE PinPrimary \/ Calibrate
  <2>1. ~numa_matrix /\ pc' \in {"calibrate", "construct"}
    BY <1>5 DEF Inv, Stages, PinPrimary, Calibrate
  <2> QED BY <1>1, <1>2, <2>1 DEF Complete, AllMeasured, PairThere, MatrixKept, PipelineKept, Reporting
<1> QED BY <1>3, <1>4, <1>5

LEMMA MatrixStepsComplete ==
  ASSUME Inv, Inv', Complete, AllowedKept, faults = {}, StartRow \/ StartCell
  PROVE  Complete'
<1>1. UNCHANGED <<faults, numa_matrix, numa_node, run_bandwidth, csv_file, numa_available, given, allowed,
                  methods, src, dst, latency_ns, bandwidth_gibs, bandwidth_results>>
  BY DEF StartRow, StartCell, options, matrix, buffers
<1>2. numa_matrix /\ pc \in {"row", "cell"} /\ Initiators(allowed)' = Initiators(allowed)
  BY <1>1 DEF StartRow, StartCell, Inv, Stages, Initiators, CpusOn
<1>3. ASSUME NEW n \in Initiators(allowed), NEW m \in Nodes
      PROVE  Reached(n, m) \/ Pending(n, m)
  BY <1>2 DEF Complete, MatrixKept, Over
<1>4. ASSUME NEW n, NEW m PROVE Reached(n, m) => Reached(n, m)'
  BY <1>1 DEF Reached
<1>5. CASE StartRow /\ rows = {}
  <2>1. pc = "row" /\ pc' = "exit" /\ exit' = 0
    BY <1>5 DEF StartRow, Return
  <2>2. ASSUME NEW n \in Initiators(allowed), NEW m \in Nodes
        PROVE  Reached(n, m)'
    BY <1>3, <1>4, <1>5, <2>1 DEF Pending, Cell
  <2>3. Initiators(given)' = Initiators(allowed)
    BY <1>1, <2>1 DEF AllowedKept, Over, Initiators, CpusOn
  <2>4. AllMeasured'
    BY <1>1, <1>2, <2>1, <2>2, <2>3 DEF AllMeasured, Reached
  <2> QED BY <1>1, <1>2, <2>1, <2>4 DEF Complete, PairThere, MatrixKept, PipelineKept, Over
<1>6. CASE StartRow /\ rows # {}
  <2>1. pc = "row" /\ pc' = "cell" /\ rows' = rows \ {row'} /\ cols' = Nodes
    BY <1>6 DEF StartRow
  <2>2. ASSUME NEW n, NEW m \in Nodes PROVE Pending(n, m) => Pending(n, m)'
    BY <2>1 DEF Pending, Cell
  <2>3. MatrixKept'
    BY <1>2, <1>3, <1>4, <2>2 DEF MatrixKept
  <2>4. AllMeasured' /\ PairThere' /\ PipelineKept'
    BY <1>1, <1>2, <2>1 DEF AllMeasured, PairThere, PipelineKept
  <2> QED BY <2>3, <2>4 DEF Complete
<1>7. CASE StartCell
  <2>1. /\ pc = "cell" /\ UNCHANGED <<rows, row>>
        /\ \/ cols = {} /\ pc' = "row"
           \/ cols' = cols \ {col'} /\ pc' = "construct"
    BY <1>7 DEF StartCell
  <2>2. ASSUME NEW n, NEW m PROVE Pending(n, m) => Pending(n, m)'
    BY <2>1 DEF Pending, Cell
  <2>3. MatrixKept'
    BY <1>2, <1>3, <1>4, <2>2 DEF MatrixKept
  <2> QED BY <1>1, <1>2, <2>1, <2>3 DEF Complete, AllMeasured, PairThere, PipelineKept
<1> QED BY <1>5, <1>6, <1>7

LEMMA LatencyComplete ==
  ASSUME Inv, Inv', Complete, faults = {}, ConstructLatency \/ MeasureLatency
  PROVE  Complete'
<1>1. UNCHANGED <<faults, numa_matrix, numa_node, run_bandwidth, csv_file, numa_available, given, allowed, rows, row,
                  cols, col, src, dst, bandwidth_gibs, bandwidth_results>>
  BY DEF ConstructLatency, MeasureLatency, options, places, matrix
<1>2. /\ numa_matrix \in BOOLEAN /\ MemoryNode \in Int /\ MemoryNode' = MemoryNode
      /\ pc \in {"construct", "latency"}
      /\ ~numa_matrix => bandwidth_results = <<>>
  BY <1>1, NodesAreInts DEF ConstructLatency, MeasureLatency, Complete, PipelineKept, MemoryNode, Inv
<1>3. CASE ConstructLatency
  <2>1. pc = "construct" /\ pc' = "latency" /\ UNCHANGED <<methods, measured, latency_ns>>
    BY <1>3 DEF ConstructLatency, Throw, MayStrand, matrix
  <2>2. AllMeasured' /\ MatrixKept'
    BY <1>1, <2>1, NothingDone DEF Cell
  <2>3. PairThere' /\ PipelineKept'
    BY <1>1, <1>2, <2>1 DEF PairThere, PipelineKept, Reporting
  <2> QED BY <2>2, <2>3 DEF Complete
<1>4. CASE MeasureLatency
  <2>1. /\ pc = "latency" /\ pc' = "bandwidth"
        /\ IF numa_matrix
             THEN latency_ns' = latency_ns \union {NewCell}
             ELSE measured' = TRUE
        /\ methods' = IF numa_matrix \/ run_bandwidth THEN Methods ELSE <<>>
    BY <1>4 DEF MeasureLatency, NewCell
  <2>2. AllMeasured' /\ PairThere'
    BY <2>1 DEF AllMeasured, PairThere
  <2>3. CASE numa_matrix
    <3>1. methods' # <<>> /\ latency_ns \subseteq latency_ns'
      BY <2>1, <2>3 DEF Methods
    <3>2. ASSUME NEW n \in Initiators(allowed), NEW m \in Nodes
          PROVE  Reached(n, m) \/ Pending(n, m)
      BY <2>1, <2>3 DEF Complete, MatrixKept, Over
    <3>3. ASSUME NEW n, NEW m PROVE Reached(n, m) => Reached(n, m)'
      BY <1>1, <3>1 DEF Reached
    <3>4. ASSUME NEW n, NEW m PROVE Pending(n, m) => Pending(n, m)'
      BY <1>1, <2>1, <3>1 DEF Pending, Cell
    <3>5. Initiators(allowed)' = Initiators(allowed)
      BY <1>1 DEF Initiators, CpusOn
    <3>6. MatrixKept'
      BY <3>2, <3>3, <3>4, <3>5 DEF MatrixKept
    <3>7. PipelineKept'
      BY <1>1, <2>3 DEF PipelineKept
    <3> QED BY <2>2, <3>6, <3>7 DEF Complete
  <2>4. CASE ~numa_matrix
    <3>1. run_bandwidth => methods' = IF numa_node = -1 THEN <<"mmap", "malloc", "LargePage">> ELSE <<"numa">>
      BY <1>2, <2>1, <2>4, MachineAssumption DEF Methods, MemoryNode, Inv, TypeOK
    <3>2. measured' /\ bandwidth_results' = <<>>
      BY <1>1, <1>2, <2>1, <2>4
    <3>3. MatrixKept' /\ PipelineKept'
      BY <1>1, <2>1, <2>4, <3>1, <3>2 DEF MatrixKept, PipelineKept, Measured, Listed, ListedAll, ListedNode, Reporting
    <3> QED BY <2>2, <3>3 DEF Complete
  <2> QED BY <1>2, <2>3, <2>4
<1> QED BY <1>3, <1>4

LEMMA MethodStepsComplete ==
  ASSUME Inv, Inv', Complete, faults = {}, AllocateSrc \/ AllocateDst \/ CheckBuffers
  PROVE  Complete'
<1>1. UNCHANGED <<faults, numa_matrix, numa_node, run_bandwidth, csv_file, numa_available, given, allowed, rows, row,
                  cols, col, measured, latency_ns, bandwidth_gibs, bandwidth_results>>
  BY DEF AllocateSrc, AllocateDst, CheckBuffers, options, places, matrix
<1>2. PairThere
  BY DEF Complete
<1>3. /\ UNCHANGED methods /\ PairThere'
      /\ pc \in {"src", "dst", "check"} /\ pc' \in {"dst", "check", "transfer"}
  <2>1. ASSUME NEW owner, NEW a, Allocated(owner, a)
        PROVE  a.ptr # NoBuffer
    BY <2>1, BufferFacts DEF Allocated
  <2>2. CASE AllocateSrc
    BY <2>1, <2>2 DEF AllocateSrc, PairThere
  <2>3. CASE AllocateDst
    BY <1>2, <2>1, <2>3 DEF AllocateDst, PairThere
  <2>4. CASE CheckBuffers
    <3>1. src.ptr # NoBuffer /\ dst.ptr # NoBuffer
      BY <1>2, <2>4, PairThere DEF CheckBuffers, PairThere
    <3> QED BY <2>4, <3>1 DEF CheckBuffers, PairThere
  <2> QED BY <2>2, <2>3, <2>4
<1>4. AllMeasured' /\ MatrixKept'
  BY <1>1, <1>3, NothingDone DEF Cell
<1>5. PipelineKept'
  BY <1>1, <1>3 DEF Complete, PipelineKept, Measured, Listed, ListedAll, ListedNode, Reporting
<1> QED BY <1>3, <1>4, <1>5 DEF Complete

LEMMA NextMethodComplete ==
  ASSUME Inv, Inv', Complete, faults = {}, NextMethod
  PROVE  Complete'
<1>1. /\ pc = "bandwidth"
      /\ UNCHANGED <<faults, numa_matrix, numa_node, run_bandwidth, csv_file, numa_available, given, allowed, rows, row,
                     cols, col, methods, src, dst, measured, latency_ns, bandwidth_gibs, bandwidth_results>>
      /\ \/ methods # <<>> /\ pc' = "src"
         \/ methods = <<>> /\ numa_matrix /\ pc' = "cell"
         \/ methods = <<>> /\ ~numa_matrix /\ pc' = "shm"
  BY DEF NextMethod, options, places, matrix
<1>2. AllMeasured' /\ PairThere'
  BY <1>1 DEF AllMeasured, PairThere
<1>3. PipelineKept'
  BY <1>1 DEF Complete, PipelineKept, Measured, Listed, ListedAll, ListedNode, Reporting
<1>4. MatrixKept'
  <2>1. CASE ~numa_matrix
    BY <1>1, <2>1 DEF MatrixKept
  <2>2. CASE numa_matrix
    <3>1. ASSUME NEW n \in Initiators(allowed), NEW m \in Nodes
          PROVE  Reached(n, m) \/ Pending(n, m)
      BY <1>1, <2>2 DEF Complete, MatrixKept, Over
    <3>2. ASSUME NEW n, NEW m PROVE Reached(n, m) => Reached(n, m)'
      BY <1>1 DEF Reached
    <3>3. ASSUME NEW n, NEW m PROVE Pending(n, m) => Pending(n, m)'
      BY <1>1, <2>2 DEF Pending, Cell
    <3>4. Initiators(allowed)' = Initiators(allowed)
      BY <1>1 DEF Initiators, CpusOn
    <3> QED BY <3>1, <3>2, <3>3, <3>4 DEF MatrixKept
  <2> QED BY <2>1, <2>2
<1> QED BY <1>2, <1>3, <1>4 DEF Complete

\* Appending the last method to the list of those before it.
LEMMA Appended ==
  ASSUME NEW a, NEW b, NEW c
  PROVE  Append(<<a>>, b) = <<a, b>> /\ Append(<<a, b>>, c) = <<a, b, c>>
<1> DEFINE S == {a, b, c}
<1>0. a \in S /\ b \in S /\ c \in S
  OBVIOUS
<1> HIDE DEF S
<1>1. ASSUME NEW s \in Seq(S), NEW t \in Seq(S), Len(s) = Len(t), \A i \in 1 .. Len(s) : s[i] = t[i]
      PROVE  s = t
  <2>1. s = [i \in 1 .. Len(s) |-> s[i]] /\ t = [i \in 1 .. Len(t) |-> t[i]]
    OBVIOUS
  <2> QED BY <1>1, <2>1
<1>2. Append(<<a>>, b) = <<a, b>>
  <2> DEFINE s == Append(<<a>>, b)
  <2>1. s \in Seq(S) /\ Len(s) = 2 /\ s[1] = a /\ s[2] = b
    BY <1>0
  <2>2. <<a, b>> \in Seq(S) /\ Len(<<a, b>>) = 2 /\ <<a, b>>[1] = a /\ <<a, b>>[2] = b
    BY <1>0
  <2> HIDE DEF s
  <2>3. \A i \in 1 .. 2 : s[i] = <<a, b>>[i]
    BY <2>1, <2>2
  <2> QED BY <1>1, <2>1, <2>2, <2>3 DEF s
<1>3. Append(<<a, b>>, c) = <<a, b, c>>
  <2> DEFINE s == Append(<<a, b>>, c)
  <2>1. s \in Seq(S) /\ Len(s) = 3 /\ s[1] = a /\ s[2] = b /\ s[3] = c
    BY <1>0
  <2>2. /\ <<a, b, c>> \in Seq(S) /\ Len(<<a, b, c>>) = 3
        /\ <<a, b, c>>[1] = a /\ <<a, b, c>>[2] = b /\ <<a, b, c>>[3] = c
    BY <1>0
  <2> HIDE DEF s
  <2>3. \A i \in 1 .. 3 : s[i] = <<a, b, c>>[i]
    BY <2>1, <2>2
  <2> QED BY <1>1, <2>1, <2>2, <2>3 DEF s
<1> QED BY <1>2, <1>3

LEMMA TransferComplete ==
  ASSUME Inv, Inv', Complete, faults = {}, Transfer
  PROVE  Complete'
<1>1. /\ pc = "transfer" /\ pc' = "bandwidth" /\ methods' = Tail(methods)
      /\ UNCHANGED <<faults, numa_matrix, numa_node, run_bandwidth, csv_file, numa_available, given, allowed, rows, row,
                     cols, col, measured, latency_ns>>
      /\ IF numa_matrix
           THEN bandwidth_gibs' = bandwidth_gibs \union {NewBandwidth}
           ELSE bandwidth_results' = Append(bandwidth_results, src.method)
  BY DEF Transfer, NewBandwidth, options, places
<1>2. AllMeasured' /\ PairThere'
  BY <1>1 DEF AllMeasured, PairThere
<1>3. CASE numa_matrix
  <2>1. /\ bandwidth_gibs' = bandwidth_gibs \union {NewBandwidth}
        /\ NewBandwidth.row = row /\ NewBandwidth.col = col
    BY <1>1, <1>3 DEF NewBandwidth
  <2>2. \E c \in latency_ns : c.row = row /\ c.col = col
    BY <1>1, <1>3 DEF Inv, CellsMeasured, Cell
  <2>3. Reached(row, col)'
    BY <1>1, <2>1, <2>2 DEF Reached
  <2>4. ASSUME NEW n \in Initiators(allowed), NEW m \in Nodes
        PROVE  Reached(n, m) \/ Pending(n, m)
    BY <1>1, <1>3 DEF Complete, MatrixKept, Over
  <2>5. ASSUME NEW n, NEW m PROVE Reached(n, m) => Reached(n, m)'
    BY <1>1, <2>1 DEF Reached
  <2>6. ASSUME NEW n, NEW m PROVE Pending(n, m) => Pending(n, m)' \/ (n = row /\ m = col)
    BY <1>1 DEF Pending, Cell
  <2>7. Initiators(allowed)' = Initiators(allowed) /\ row' = row /\ col' = col
    BY <1>1 DEF Initiators, CpusOn
  <2>8. \A n \in Initiators(allowed), m \in Nodes : Reached(n, m)' \/ Pending(n, m)'
    BY <2>3, <2>4, <2>5, <2>6, <2>7
  <2>9. MatrixKept'
    BY <2>7, <2>8 DEF MatrixKept
  <2>10. PipelineKept'
    BY <1>1, <1>3 DEF PipelineKept
  <2> QED BY <1>2, <2>9, <2>10 DEF Complete
<1>4. CASE ~numa_matrix
  <2>1. /\ measured /\ (run_bandwidth => Listed) /\ methods # <<>>
        /\ bandwidth_results' = Append(bandwidth_results, src.method)
    BY <1>1, <1>4 DEF Complete, PipelineKept, Measured, Inv, MethodsLeft
  <2>2. numa_node = -1 => src.method = Head(methods)
    BY <1>1, <1>4 DEF Inv, PairHolds, HeldOrMissing, Filled, Missing, NextMethodOf, AllocationMethod, MemoryNode
  <2>3. run_bandwidth /\ numa_node = -1 => ListedAll'
    <3>1. CASE bandwidth_results = <<>> /\ methods = <<"mmap", "malloc", "LargePage">>
      BY <1>1, <2>1, <2>2, <3>1 DEF ListedAll
    <3>2. CASE bandwidth_results = <<"mmap">> /\ methods = <<"malloc", "LargePage">>
      <4>1. methods' = <<"LargePage">> /\ Head(methods) = "malloc"
        BY <1>1, <3>2
      <4>2. Append(<<"mmap">>, "malloc") = <<"mmap", "malloc">>
        BY Appended
      <4>3. numa_node = -1 => bandwidth_results' = <<"mmap", "malloc">>
        BY <2>1, <2>2, <3>2, <4>1, <4>2
      <4> QED BY <4>1, <4>3 DEF ListedAll
    <3>3. CASE bandwidth_results = <<"mmap", "malloc">> /\ methods = <<"LargePage">>
      <4>1. methods' = <<>> /\ Head(methods) = "LargePage"
        BY <1>1, <3>3
      <4>2. Append(<<"mmap", "malloc">>, "LargePage") = <<"mmap", "malloc", "LargePage">>
        BY Appended
      <4>3. numa_node = -1 => bandwidth_results' = <<"mmap", "malloc", "LargePage">>
        BY <2>1, <2>2, <3>3, <4>1, <4>2
      <4> QED BY <4>1, <4>3 DEF ListedAll
    <3> QED BY <2>1, <3>1, <3>2, <3>3 DEF Listed, ListedAll
  <2>4. run_bandwidth /\ numa_node # -1 => ListedNode'
    <3>1. SUFFICES ASSUME run_bandwidth, numa_node # -1
                   PROVE  ListedNode'
      OBVIOUS
    <3>2. bandwidth_results = <<>> /\ methods = <<"numa">>
      BY <2>1, <3>1 DEF Listed, ListedNode
    <3>3. src.method = "numa-node"
      <4>1. MemoryNode >= 0
        BY <3>2, NodesAreInts DEF Inv, MethodsLeft
      <4> QED BY <1>1, <4>1 DEF Inv, PairHolds, HeldOrMissing, Filled, Missing, NextMethodOf, AllocationMethod
    <3>4. bandwidth_results' = <<"numa-node">> /\ methods' = <<>>
      BY <1>1, <2>1, <3>2, <3>3
    <3> QED BY <3>4 DEF ListedNode
  <2>5. run_bandwidth => Listed'
    BY <1>1, <2>3, <2>4 DEF Listed
  <2>6. MatrixKept' /\ PipelineKept'
    BY <1>1, <1>4, <2>1, <2>5 DEF MatrixKept, PipelineKept, Measured
  <2> QED BY <1>2, <2>6 DEF Complete
<1>5. numa_matrix \in BOOLEAN
  BY DEF Inv, TypeOK
<1> QED BY <1>3, <1>4, <1>5

LEMMA ReportComplete ==
  ASSUME Inv, Inv', Complete, AllowedKept, faults = {}, SharedMemoryTest \/ WriteCsv \/ AppendHistory
  PROVE  Complete'
<1>1. UNCHANGED <<faults, numa_matrix, numa_node, run_bandwidth, run_shared_memory, csv_file, numa_available,
                  given, allowed, methods, measured, bandwidth_results>>
  BY DEF SharedMemoryTest, WriteCsv, AppendHistory, options, places
<1>2. pc \in Reporting /\ ~numa_matrix /\ methods = <<>> /\ Measured
  BY DEF SharedMemoryTest, WriteCsv, AppendHistory, Inv, Stages, MethodsLeft, Complete, PipelineKept, Reporting
<1>3. /\ pc' \in {"csv", "history", "exit"}
      /\ pc' = "exit" => exit' = 0
      /\ pc' = "history" => csv_file /\ csv' = "complete"
      /\ pc' = "exit" /\ csv_file => csv' = "complete" /\ history' = "complete"
      /\ SharedMemoryDone'
  <2>1. CASE SharedMemoryTest
    <3>1. allowed = given
      BY <1>2 DEF AllowedKept, Reporting, Over
    <3>2. SharedMemoryDone'
      BY <1>1, <2>1, <3>1 DEF SharedMemoryTest, SharedMemoryDone
    <3> QED BY <2>1, <3>2 DEF SharedMemoryTest
  <2>2. CASE WriteCsv \/ AppendHistory
    <3>1. SharedMemoryDone /\ UNCHANGED shared_memory
      BY <1>2, <2>2 DEF WriteCsv, AppendHistory, Complete, PipelineKept, shm
    <3>2. SharedMemoryDone'
      BY <1>1, <3>1 DEF SharedMemoryDone
    <3>3. CASE WriteCsv
      BY <3>2, <3>3 DEF WriteCsv, Return
    <3>4. CASE AppendHistory
      BY <3>2, <3>4 DEF AppendHistory, Return, Complete, PipelineKept, Inv, Stages, Reporting
    <3> QED BY <2>2, <3>3, <3>4
  <2> QED BY <2>1, <2>2
<1>4. /\ Measured'
      /\ run_bandwidth => bandwidth_results = IF numa_node = -1 THEN <<"mmap", "malloc", "LargePage">>
                                                 ELSE <<"numa-node">>
  BY <1>1, <1>2 DEF Measured, Listed, ListedAll, ListedNode
<1>5. MatrixKept' /\ PairThere' /\ PipelineKept'
  BY <1>1, <1>2, <1>3, <1>4 DEF MatrixKept, PairThere, PipelineKept, Reporting
<1>6. AllMeasured'
  <2>1. numa_node = -1 => Methods' = <<"mmap", "malloc", "LargePage">>
    BY <1>1, <1>2 DEF Methods, MemoryNode
  <2> QED BY <1>1, <1>2, <1>3, <1>4, <2>1 DEF AllMeasured, Measured, SharedMemoryDone
<1> QED BY <1>5, <1>6 DEF Complete

LEMMA CompleteNext ==
  ASSUME Inv, Inv', Complete, AllowedKept, [Next]_vars
  PROVE  Complete'
<1>1. UNCHANGED options
  BY DEF Next, Step, Exited, vars, Dispatch, ReadCpus, PinPrimary, Calibrate, StartRow, StartCell,
     ConstructLatency, MeasureLatency, NextMethod, AllocateSrc, AllocateDst, CheckBuffers, Transfer,
     StrandBuffers, SharedMemoryTest, WriteCsv, AppendHistory
<1>2. CASE faults # {}
  BY <1>1, <1>2 DEF Complete, AllMeasured, options
<1>3. CASE faults = {} /\ Step
  <2>1. ~StrandBuffers
    BY <1>3 DEF StrandBuffers, MayStrand
  <2> QED BY <1>3, <2>1, EntryComplete, MatrixStepsComplete, LatencyComplete, MethodStepsComplete,
             NextMethodComplete, TransferComplete, ReportComplete DEF Step
<1>4. CASE UNCHANGED vars
  <2>1. UNCHANGED <<faults, numa_matrix, numa_node, run_bandwidth, run_shared_memory, csv_file, numa_available,
                    given, shared_memory, pc, exit, allowed, rows, row, cols, col, methods, src, dst,
                    measured, latency_ns, bandwidth_gibs, bandwidth_results, csv, history>>
    BY <1>4 DEF vars, options, places, matrix, buffers, files, shm
  <2>2. /\ Initiators(allowed)' = Initiators(allowed) /\ Initiators(given)' = Initiators(given)
        /\ Methods' = Methods
    BY <2>1 DEF Initiators, CpusOn, Methods, MemoryNode
  <2>3. \A n, m : (Reached(n, m)' <=> Reached(n, m)) /\ (Pending(n, m)' <=> Pending(n, m))
    BY <2>1 DEF Reached, Pending
  <2>4. AllMeasured'
    <3>1. AllMeasured
      BY DEF Complete
    <3>2. (given = {Least(given)})' <=> given = {Least(given)}
      BY <2>1 DEF Least
    <3>3. CASE numa_matrix
      BY ONLY <2>1, <2>2, <3>1, <3>3, SMT DEF AllMeasured
    <3>4. CASE ~numa_matrix
      BY ONLY <2>1, <2>2, <3>1, <3>2, <3>4, Zenon DEF AllMeasured
    <3> QED BY <3>3, <3>4
  <2>5. PairThere' <=> PairThere
    BY <2>1 DEF PairThere
  <2>6. MatrixKept' <=> MatrixKept
    BY <2>1, <2>2, <2>3 DEF MatrixKept
  <2>7. PipelineKept' <=> PipelineKept
    BY <2>1 DEF PipelineKept, Measured, Listed, ListedAll, ListedNode, SharedMemoryDone
  <2> QED BY <2>1, <2>4, <2>5, <2>6, <2>7 DEF Complete
<1> QED BY <1>2, <1>3, <1>4 DEF Next, Exited

\* With nothing failing main measures what it was asked for, on the CPUs it was started with: in
\* the matrix every initiator node against every memory node, in the pipeline every method in
\* its order, the shared memory where there is a second CPU, and the files.
THEOREM NothingLeftOut == Spec => []AllMeasured
<1>1. Init => Complete /\ AllowedKept
  BY DEF Init, Complete, AllMeasured, PairThere, MatrixKept, PipelineKept, AllowedKept, Over, Reporting
<1>2. Inv /\ Inv' /\ Complete /\ AllowedKept /\ [Next]_vars => Complete' /\ AllowedKept'
  BY CompleteNext, AllowedKeptNext
<1>3. Complete => AllMeasured
  BY DEF Complete
<1> QED BY <1>1, <1>2, <1>3, BenchmarksInvariant, PTL DEF Spec

-------------------------------------------------------------------------------
(* Every step leaves less to do.                                            *)

\* Where main is: before the rows are known, within a cell or the pipeline, and within a
\* bandwidth method.
SetupLeft == CASE pc = "start" -> 2 [] pc = "cpus" -> 1 [] OTHER -> 0
StageLeft ==
  CASE pc = "pin" -> 12 [] pc = "calibrate" -> 11 [] pc = "construct" -> 10 [] pc = "latency" -> 9
    [] pc \in {"bandwidth", "src", "dst", "check", "transfer"} -> 8
    [] pc = "shm" -> 7 [] pc = "csv" -> 6 [] pc = "history" -> 5
    [] pc = "cell" -> 3 [] pc = "row" -> 2 [] OTHER -> 0
TurnLeft ==
  CASE pc = "bandwidth" -> 5 [] pc = "src" -> 4 [] pc = "dst" -> 3 [] pc = "check" -> 2
    [] pc = "transfer" -> 1 [] OTHER -> 0

Fewer(now, before) == now \subseteq before /\ now # before

\* No row, no cell and no method is done twice: a step goes on to a later stage, or it takes
\* one of the rows, of the row's cells or of the methods that are left, whatever fails in it.
Nearer ==
  \/ SetupLeft' < SetupLeft
  \/ /\ SetupLeft' = SetupLeft
     /\ \/ Fewer(rows', rows)
        \/ rows' = rows /\ Fewer(cols', cols)
        \/ UNCHANGED <<rows, cols>> /\ StageLeft' < StageLeft
        \/ /\ UNCHANGED <<rows, cols>> /\ StageLeft' = StageLeft
           /\ Len(methods') < Len(methods) \/ (methods' = methods /\ TurnLeft' < TurnLeft)
StepsRunOut == [][Nearer]_vars

LEMMA LaterStage ==
  ASSUME UNCHANGED places, UNCHANGED SetupLeft, StageLeft' < StageLeft
  PROVE  Nearer
BY DEF places, Nearer

LEMMA LaterTurn ==
  ASSUME UNCHANGED <<places, methods>>, pc \in {"bandwidth", "src", "dst", "check", "transfer"},
         pc' \in {"bandwidth", "src", "dst", "check", "transfer"}, TurnLeft' < TurnLeft
  PROVE  Nearer
<1>1. SetupLeft' = SetupLeft /\ StageLeft' = StageLeft
  BY DEF SetupLeft, StageLeft
<1> QED BY <1>1 DEF places, Nearer

\* A method that is over is not tried again.
LEMMA MethodTaken ==
  ASSUME MethodsLeft, UNCHANGED places, pc \in {"src", "dst", "check", "transfer"},
         methods' = Tail(methods), pc' \in {"bandwidth", "cell"}
  PROVE  Nearer
<1>1. SetupLeft' = SetupLeft
  BY DEF SetupLeft
<1>2. CASE pc' = "cell"
  BY <1>1, <1>2, LaterStage DEF StageLeft
<1>3. CASE pc' = "bandwidth"
  <2>1. StageLeft' = StageLeft
    BY <1>3 DEF StageLeft
  <2>2. Len(methods') < Len(methods)
    <3>1. CASE methods = <<"numa">>
      BY <3>1
    <3>2. CASE methods = <<"mmap", "malloc", "LargePage">>
      BY <3>2
    <3>3. CASE methods = <<"malloc", "LargePage">>
      BY <3>3
    <3>4. CASE methods = <<"LargePage">>
      BY <3>4
    <3> QED BY <3>1, <3>2, <3>3, <3>4, Zenon DEF MethodsLeft
  <2> QED BY <1>1, <2>1, <2>2 DEF places, Nearer
<1> QED BY <1>2, <1>3

LEMMA SetupNearer ==
  ASSUME Dispatch \/ ReadCpus \/ PinPrimary \/ Calibrate
  PROVE  Nearer
<1>1. CASE Dispatch
  <2>1. pc = "start" /\ pc' \in {"exit", "cpus"}
    BY <1>1, Zenon DEF Dispatch, Return
  <2> QED BY <2>1 DEF SetupLeft, Nearer
<1>2. CASE ReadCpus
  <2>1. pc = "cpus" /\ pc' \in {"exit", "row", "pin"}
    BY <1>2, Zenon DEF ReadCpus, Return
  <2> QED BY <2>1 DEF SetupLeft, Nearer
<1>3. CASE PinPrimary
  BY <1>3, LaterStage DEF PinPrimary, SetupLeft, StageLeft
<1>4. CASE Calibrate
  <2>1. pc = "calibrate" /\ pc' \in {"construct", "cell", "exit"} /\ UNCHANGED places
    BY <1>4, Zenon DEF Calibrate, Throw, Return
  <2> QED BY <2>1, LaterStage DEF SetupLeft, StageLeft
<1> QED BY <1>1, <1>2, <1>3, <1>4

LEMMA MatrixNearer ==
  ASSUME TypeOK, StartRow \/ StartCell
  PROVE  Nearer
<1>1. rows \subseteq Nat /\ cols \subseteq Nat
  BY MachineAssumption DEF TypeOK
<1>2. CASE StartRow /\ rows = {}
  <2>1. pc = "row" /\ pc' = "exit" /\ UNCHANGED <<rows, cols>>
    BY <1>2 DEF StartRow, Return
  <2> QED BY <2>1 DEF SetupLeft, StageLeft, Nearer
<1>3. CASE StartRow /\ rows # {}
  <2>1. pc = "row" /\ pc' = "cell" /\ rows' = rows \ {Least(rows)}
    BY <1>3 DEF StartRow
  <2>2. Least(rows) \in rows
    BY <1>1, <1>3, LeastOf
  <2>3. Fewer(rows', rows) /\ SetupLeft' = SetupLeft
    BY <2>1, <2>2 DEF Fewer, SetupLeft
  <2> QED BY <2>3 DEF Nearer
<1>4. CASE StartCell /\ cols = {}
  <2>1. pc = "cell" /\ pc' = "row" /\ UNCHANGED <<rows, cols>>
    BY <1>4 DEF StartCell
  <2> QED BY <2>1 DEF SetupLeft, StageLeft, Nearer
<1>5. CASE StartCell /\ cols # {}
  <2>1. pc = "cell" /\ pc' = "construct" /\ rows' = rows /\ cols' = cols \ {Least(cols)}
    BY <1>5 DEF StartCell
  <2>2. Least(cols) \in cols
    BY <1>1, <1>5, LeastOf
  <2>3. Fewer(cols', cols) /\ SetupLeft' = SetupLeft
    BY <2>1, <2>2 DEF Fewer, SetupLeft
  <2> QED BY <2>1, <2>3 DEF Nearer
<1> QED BY <1>2, <1>3, <1>4, <1>5

LEMMA MeasuringNearer ==
  ASSUME ConstructLatency \/ MeasureLatency \/ SharedMemoryTest \/ WriteCsv \/ AppendHistory
  PROVE  Nearer
<1>1. UNCHANGED places
  BY DEF ConstructLatency, MeasureLatency, SharedMemoryTest, WriteCsv, AppendHistory
<1>2. \/ pc = "construct" /\ pc' \in {"latency", "cell", "exit"}
      \/ pc = "latency" /\ pc' \in {"bandwidth", "cell", "exit"}
      \/ pc = "shm" /\ pc' \in {"csv", "cell", "exit"}
      \/ pc = "csv" /\ pc' \in {"history", "exit"}
      \/ pc = "history" /\ pc' = "exit"
  BY Zenon DEF ConstructLatency, MeasureLatency, SharedMemoryTest, WriteCsv, AppendHistory, Throw, Return
<1> QED BY <1>1, <1>2, LaterStage DEF SetupLeft, StageLeft

LEMMA BandwidthNearer ==
  ASSUME MethodsLeft,
         \/ NextMethod \/ AllocateSrc \/ AllocateDst \/ CheckBuffers \/ Transfer \/ StrandBuffers
  PROVE  Nearer
<1>1. UNCHANGED places
  BY DEF NextMethod, AllocateSrc, AllocateDst, CheckBuffers, Transfer, StrandBuffers
<1>2. CASE NextMethod
  <2>1. pc = "bandwidth" /\ pc' \in {"src", "cell", "shm"} /\ methods' = methods
    BY <1>2, Zenon DEF NextMethod
  <2>2. CASE pc' = "src"
    BY <1>1, <2>1, <2>2, LaterTurn DEF TurnLeft
  <2>3. CASE pc' \in {"cell", "shm"}
    BY <1>1, <2>1, <2>3, LaterStage DEF SetupLeft, StageLeft
  <2> QED BY <2>1, <2>2, <2>3
<1>3. CASE AllocateSrc \/ AllocateDst
  <2>1. \/ pc = "src" /\ pc' = "dst" /\ methods' = methods
        \/ pc = "dst" /\ pc' = "check" /\ methods' = methods
    BY <1>3 DEF AllocateSrc, AllocateDst
  <2> QED BY <1>1, <2>1, LaterTurn DEF TurnLeft
<1>4. CASE CheckBuffers \/ Transfer \/ StrandBuffers
  <2>1. /\ pc \in {"check", "transfer"}
        /\ \/ pc = "check" /\ pc' = "transfer" /\ methods' = methods
           \/ methods' = Tail(methods) /\ pc' \in {"bandwidth", "cell"}
    BY <1>4, Zenon DEF CheckBuffers, Transfer, StrandBuffers, BandwidthThrows
  <2>2. CASE pc = "check" /\ pc' = "transfer" /\ methods' = methods
    BY <1>1, <2>2, LaterTurn DEF TurnLeft
  <2> QED BY <1>1, <2>1, <2>2, MethodTaken
<1> QED BY <1>2, <1>3, <1>4

\* On every machine and with every set of faults: no row of the matrix, no cell of a row and
\* no method of a cell or of the pipeline is done twice, and no stage is gone back to for
\* the same of them.  On a machine with finitely many nodes main cannot go on for ever.
THEOREM StepsDecrease == Spec => StepsRunOut
<1>1. Inv /\ [Next]_vars => [Nearer]_vars
  <2> SUFFICES ASSUME Inv, Step PROVE Nearer
    BY DEF Next, Exited
  <2>1. TypeOK /\ MethodsLeft
    BY DEF Inv
  <2> QED BY <2>1, SetupNearer, MatrixNearer, MeasuringNearer, BandwidthNearer DEF Step
<1> QED BY <1>1, BenchmarksInvariant, PTL DEF Spec, StepsRunOut
===============================================================================
