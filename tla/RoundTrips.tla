------------------------------ MODULE RoundTrips ------------------------------
(***************************************************************************)
(* What SharedMemoryMeasurer::measure_cross_process promises its caller,   *)
(* with no flags, processes, segments or timeouts in it.  One call makes   *)
(* warm-up round trips and then measured ones, strictly one at a time: a   *)
(* request is posted only after the previous answer was taken, an answer   *)
(* only follows its own request, and nothing is answered any more once the *)
(* call has returned.  The call reports exactly the measured round trips   *)
(* it took, and it fails only when it has none to report.                  *)
(***************************************************************************)
EXTENDS Integers

VARIABLES
  iterations,  \* round trips to measure, as the caller asked
  warmup,      \* round trips to make first and throw away
  sent,        \* requests posted so far
  served,      \* requests answered so far
  taken,       \* answers taken so far, warm-up included
  outcome,     \* "pending" until the call returns
  reported     \* result.iterations

vars == <<iterations, warmup, sent, served, taken, outcome, reported>>

Init ==
  /\ sent = 0
  /\ served = 0
  /\ taken = 0
  /\ outcome = "pending"
  /\ reported = iterations

\* A new request is posted, never two at once and never more than were asked for.
Post ==
  /\ outcome = "pending"
  /\ sent = taken
  /\ taken < warmup + iterations
  /\ sent' = sent + 1
  /\ UNCHANGED <<iterations, warmup, served, taken, outcome, reported>>

\* The other process answers the one request that is outstanding.
Answer ==
  /\ outcome = "pending"
  /\ served < sent
  /\ served' = served + 1
  /\ UNCHANGED <<iterations, warmup, sent, taken, outcome, reported>>

Take ==
  /\ outcome = "pending"
  /\ taken < served
  /\ taken' = taken + 1
  /\ UNCHANGED <<iterations, warmup, sent, served, outcome, reported>>

\* The call returns what it measured, all of the round trips or a first part of them.
Succeed ==
  /\ outcome = "pending"
  /\ taken > warmup
  /\ outcome' = "success"
  /\ reported' = taken - warmup
  /\ UNCHANGED <<iterations, warmup, sent, served, taken>>

\* The call fails only when it has measured nothing.
Fail ==
  /\ outcome = "pending"
  /\ warmup < 0 \/ taken <= warmup
  /\ outcome' = "failure"
  /\ UNCHANGED <<iterations, warmup, sent, served, taken, reported>>

Next == Post \/ Answer \/ Take \/ Succeed \/ Fail

Spec == Init /\ [][Next]_vars
===============================================================================
