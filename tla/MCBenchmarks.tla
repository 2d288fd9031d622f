----------------------------- MODULE MCBenchmarks ------------------------------
(* An instance of Benchmarks for TLC: CPUs 0 and 1 are siblings of one     *)
(* core on node 0, CPU 2 is on node 1, and node 2 has memory only.         *)
EXTENDS Benchmarks

Machine == {0, 1, 2}
MachineNodes == {0, 1, 2}
\* The nodes, and one that the machine does not have.
NodeArguments == MachineNodes \union {3}
MachineNodeOf == [cpu \in Machine |-> IF cpu = 2 THEN 1 ELSE 0]
MachineCoreOf == [cpu \in Machine |-> IF cpu = 2 THEN <<0, 1>> ELSE <<0, 0>>]

\* All options of the pipeline; the matrix reads none of the others.
AnyOptions ==
  {o \in [numa_matrix : BOOLEAN, run_bandwidth : BOOLEAN, run_shared_memory : BOOLEAN,
          csv_file : BOOLEAN] :
     o.numa_matrix => o.run_bandwidth /\ o.run_shared_memory /\ o.csv_file}

\* Everything may fail, or nothing does.
AllOrNone == {FaultKinds, {}}
AllFaults == {FaultKinds}
===============================================================================
