---------------------------- MODULE MCSharedMemory ----------------------------
(* Instances of SharedMemory for TLC.                                      *)
EXTENDS SharedMemory

\* Everything may happen to a call, or nothing does.
AllOrNone == {FaultKinds, {}}
AllFaults == {FaultKinds}

\* Invalid arguments and the smallest valid ones: two measured round trips are the
\* least that show one round trip disturbing the next, and a partial result.
Counts == {-1, 0, 1, 2}
Cpus == {-1, 0}
===============================================================================
