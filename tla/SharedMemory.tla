----------------------------- MODULE SharedMemory -----------------------------
(***************************************************************************)
(* SharedMemoryMeasurer::measure_cross_process: a producer process maps a  *)
(* POSIX shared-memory segment, forks a consumer, and bounces one request  *)
(* and one response flag with it, warmup + iterations times.  The segment  *)
(* holds four flags, each on a line of its own: request, response,         *)
(* consumer_ready and stop.  Every load and store of a flag that the other *)
(* process can observe is a step of its own.                               *)
(*                                                                         *)
(* ppc and cpc are the places the two processes have reached.  pSpun and   *)
(* cSpun say that the wait a process is in has looked at its flag at least *)
(* once, which wait_for_value always does before it looks at the clock.    *)
(***************************************************************************)
EXTENDS Integers

CONSTANTS
  IterationArgs,  \* values the caller may pass as iterations
  WarmupArgs,     \* values the caller may pass as warmup
  CpuArgs,        \* values the caller may pass as either CPU
  FaultSets       \* what the environment may do to a call: one of these sets

FaultKinds ==
  { "syscall",        \* shm_open, ftruncate, mmap or fork fails
    "memory",         \* std::bad_alloc
    "clock",          \* clock_gettime fails, and monotonic_raw_ns throws
    "pin",            \* the consumer cannot be pinned to its CPU
    "timeout",        \* a peer is slower than the deadline set for it
    "consumerCrash",  \* the consumer is killed from outside
    "producerCrash" } \* the producer is killed from outside

ASSUME ArgumentsAssumption ==
  IterationArgs \subseteq Int /\ WarmupArgs \subseteq Int /\ CpuArgs \subseteq Int

ASSUME FaultsAssumption == FaultSets \subseteq SUBSET FaultKinds

VARIABLES
  faults,               \* what the environment may do to this call
  iterations, warmup,   \* the arguments of the call
  sigchldIgnored,       \* the process ignores SIGCHLD: its children leave no zombie
  alive,                \* the producer process exists
  ppc, pSpun,           \* the producer
  warmed, samples,      \* round trips completed in either loop
  err, success, reported, \* SharedMemoryResult: error_message, success, iterations
  held,                 \* what the producer holds of {"fd", "view", "name"}
  cpc, cSpun,           \* the consumer
  sigkill,              \* a SIGKILL for the consumer is on its way
  request, response, consumer_ready, stop  \* the shared flags

inputs == <<faults, iterations, warmup, sigchldIgnored>>
flags == <<request, response, consumer_ready, stop>>
result == <<err, success, reported>>
progress == <<warmed, samples>>
consumer == <<cpc, cSpun, sigkill>>
vars == <<inputs, alive, ppc, pSpun, progress, result, held, consumer, flags>>

ProducerPlaces ==
  {"args", "open", "truncate", "map", "fork", "ready", "warmup", "reserve", "measure",
   "await", "ack", "stop", "reap", "reapKilled", "release",
   "returned", "thrown", "thrownAwaiting"}
ConsumerPlaces ==
  {"none", "pin", "publish", "loop", "wait", "waitStop", "clear", "answer", "zombie", "reaped"}
Errors ==
  {"none", "arguments", "cpus", "shm_open", "ftruncate", "mmap", "fork",
   "ready", "warmup", "measure", "empty"}

ConsumerRuns == cpc \notin {"none", "zombie", "reaped"}

\* An exception has left the call, from the wait for a response or from elsewhere.
Thrown == {"thrown", "thrownAwaiting"}
ProducerRuns == alive /\ ppc \notin {"returned"} \union Thrown

\* Where the consumer is once the producer process is gone: init reaps its zombie.
Adopted == IF cpc = "zombie" THEN "reaped" ELSE cpc

Init ==
  /\ faults \in FaultSets
  /\ iterations \in IterationArgs
  /\ warmup \in WarmupArgs
  /\ sigchldIgnored \in BOOLEAN
  /\ alive = TRUE
  /\ ppc = "args"
  /\ pSpun = FALSE
  /\ warmed = 0
  /\ samples = 0
  /\ err = "none"
  /\ success = FALSE
  /\ reported = iterations
  /\ held = {}
  /\ cpc = "none"
  /\ cSpun = FALSE
  /\ sigkill = FALSE
  /\ request = 0
  /\ response = 0
  /\ consumer_ready = 0
  /\ stop = 0

-------------------------------------------------------------------------------
(* The producer, from the arguments to the fork.                           *)

\* The call returns early with error e, holding r.
ReturnError(e, r) ==
  /\ ppc' = "returned"
  /\ err' = e
  /\ held' = r
  /\ UNCHANGED <<inputs, alive, pSpun, progress, success, reported, consumer, flags>>

Advance(place, r) ==
  /\ ppc' = place
  /\ held' = r
  /\ UNCHANGED <<inputs, alive, pSpun, progress, result, consumer, flags>>

\* An exception leaves the call without any of its clean-up; main reports it and the process
\* ends, which undoes all but the name.
Throw(place) ==
  /\ ppc' = place
  /\ held' = held \ {"view"}
  /\ cpc' = Adopted
  /\ UNCHANGED <<inputs, alive, pSpun, progress, result, cSpun, sigkill, flags>>

RejectCounts ==
  /\ alive /\ ppc = "args"
  /\ iterations <= 0 \/ warmup < 0
  /\ ReturnError("arguments", held)

CheckCpus ==
  /\ alive /\ ppc = "args"
  /\ iterations > 0 /\ warmup >= 0
  /\ \E producer_cpu, consumer_cpu \in CpuArgs :
       IF producer_cpu < 0 \/ consumer_cpu < 0
         THEN ReturnError("cpus", held)
         ELSE Advance("open", held)

\* unique_name makes a string of the time.
NamingThrows ==
  /\ alive /\ ppc = "open"
  /\ {"clock", "memory"} \intersect faults # {}
  /\ Throw("thrown")

OpenSegment ==
  /\ alive /\ ppc = "open"
  /\ \/ Advance("truncate", {"fd", "name"})
     \/ "syscall" \in faults /\ ReturnError("shm_open", {})

Truncate ==
  /\ alive /\ ppc = "truncate"
  /\ \/ Advance("map", held)
     \/ "syscall" \in faults /\ ReturnError("ftruncate", held \ {"fd", "name"})

\* The descriptor is closed whether or not the segment could be mapped.  The
\* flags are zeroed, as ftruncate left them, before there is anyone to see them.
MapView ==
  /\ alive /\ ppc = "map"
  /\ \/ Advance("fork", (held \ {"fd"}) \union {"view"})
     \/ "syscall" \in faults /\ ReturnError("mmap", held \ {"fd", "name"})

StartConsumer ==
  /\ ppc' = "ready"
  /\ pSpun' = FALSE
  /\ cpc' = "pin"
  /\ UNCHANGED <<inputs, alive, progress, result, held, cSpun, sigkill, flags>>

Fork ==
  /\ alive /\ ppc = "fork"
  /\ \/ StartConsumer
     \/ "syscall" \in faults /\ ReturnError("fork", held \ {"view", "name"})

-------------------------------------------------------------------------------
(* The producer's waits and its two loops.                                 *)

\* wait_for_value looks at the flag: seen goes on, not seen keeps waiting.
Poll(flag, place) ==
  /\ IF flag = 1
       THEN ppc' = place /\ pSpun' = FALSE
       ELSE ppc' = ppc /\ pSpun' = TRUE
  /\ UNCHANGED <<inputs, alive, progress, result, held, consumer, flags>>

PollReady == alive /\ ppc = "ready" /\ Poll(consumer_ready, "warmup")

PollResponse == alive /\ ppc = "await" /\ Poll(response, "ack")

\* The deadline has passed since the flag was last looked at, or, waiting for a response,
\* stop was seen.  A peer that is gone is always too late.
WaitFails ==
  /\ ppc \in {"ready", "await"}
  /\ pSpun
  /\ "timeout" \in faults \/ ~ConsumerRuns \/ (ppc = "await" /\ stop # 0)

\* Mutant: the measuring loop forgets its message.
MessageForgotten ==
  /\ alive /\ WaitFails
  /\ err' = IF ppc = "ready" THEN "ready" ELSE IF warmed < warmup THEN "warmup" ELSE err
  /\ ppc' = "stop"
  /\ pSpun' = FALSE
  /\ UNCHANGED <<inputs, alive, progress, success, reported, held, consumer, flags>>

\* wait_for_value returns false.  Each wait has its own message, and all end in the shutdown.
ProducerGivesUp ==
  /\ alive /\ WaitFails
  /\ err' = IF ppc = "ready" THEN "ready"
            ELSE IF warmed < warmup THEN "warmup" ELSE "measure"
  /\ ppc' = "stop"
  /\ pSpun' = FALSE
  /\ UNCHANGED <<inputs, alive, progress, success, reported, held, consumer, flags>>

\* A wait that has spun without success cannot read the clock; or there is no room for the
\* measuring loop's message, the one that is written before the shutdown.
WaitThrows ==
  /\ alive /\ ppc \in {"ready", "await"}
  /\ pSpun
  /\ \/ "clock" \in faults
     \/ "memory" \in faults /\ ppc = "await" /\ warmed = warmup /\ WaitFails
  /\ Throw(IF ppc = "await" THEN "thrownAwaiting" ELSE "thrown")

\* Mutant: one round trip too many.
OneRoundTripMore ==
  \/ ppc = "warmup" /\ warmed < warmup
  \/ ppc = "measure" /\ samples <= iterations

RoundTripsLeft ==
  \/ ppc = "warmup" /\ warmed < warmup
  \/ ppc = "measure" /\ samples < iterations

PostRequest ==
  /\ alive /\ RoundTripsLeft
  /\ request' = 1
  /\ ppc' = "await"
  /\ pSpun' = FALSE
  /\ UNCHANGED <<inputs, alive, progress, result, held, consumer,
                 response, consumer_ready, stop>>

\* Mutant: the response stays set.
ResponseKept ==
  /\ alive /\ ppc = "ack"
  /\ IF warmed < warmup
       THEN warmed' = warmed + 1 /\ ppc' = "warmup" /\ samples' = samples
       ELSE samples' = samples + 1 /\ ppc' = "measure" /\ warmed' = warmed
  /\ UNCHANGED <<inputs, alive, pSpun, result, held, consumer, flags>>

\* Mutant: the warm-up counts down, from 0.
WarmupCountedDown ==
  /\ alive /\ ppc = "ack"
  /\ response' = 0
  /\ IF warmed < warmup
       THEN warmed' = warmed - 1 /\ ppc' = "warmup" /\ samples' = samples
       ELSE samples' = samples + 1 /\ ppc' = "measure" /\ warmed' = warmed
  /\ UNCHANGED <<inputs, alive, pSpun, result, held, consumer, request, consumer_ready, stop>>

\* The response is consumed and the round trip counted: a sample after the warm-up.
Ack ==
  /\ alive /\ ppc = "ack"
  /\ response' = 0
  /\ IF warmed < warmup
       THEN warmed' = warmed + 1 /\ ppc' = "warmup" /\ samples' = samples
       ELSE samples' = samples + 1 /\ ppc' = "measure" /\ warmed' = warmed
  /\ UNCHANGED <<inputs, alive, pSpun, result, held, consumer, request, consumer_ready, stop>>

LoopDone ==
  /\ alive /\ ppc \in {"warmup", "measure"} /\ ~RoundTripsLeft
  /\ ppc' = IF ppc = "warmup" THEN "reserve" ELSE "stop"
  /\ UNCHANGED <<inputs, alive, pSpun, progress, result, held, consumer, flags>>

\* Room for the samples.
ReserveSamples ==
  /\ alive /\ ppc = "reserve"
  /\ \/ Advance("measure", held)
     \/ "memory" \in faults /\ Throw("thrown")

-------------------------------------------------------------------------------
(* The producer's shutdown: stop, wait_or_kill, munmap, shm_unlink.        *)

StoreStop ==
  /\ alive /\ ppc = "stop"
  /\ stop' = 1
  /\ ppc' = "reap"
  /\ UNCHANGED <<inputs, alive, pSpun, progress, result, held, consumer,
                 request, response, consumer_ready>>

\* waitpid reaps a child that has exited, and fails when there is none left to
\* reap because SIGCHLD is ignored.  Both end the wait for it.
Reap ==
  /\ cpc' = "reaped"
  /\ ppc' = "release"
  /\ UNCHANGED <<inputs, alive, pSpun, progress, result, held, cSpun, sigkill, flags>>

ReapPoll ==
  /\ alive /\ ppc = "reap"
  /\ IF ConsumerRuns
       THEN /\ pSpun' = TRUE
            /\ UNCHANGED <<inputs, alive, ppc, progress, result, held, consumer, flags>>
       ELSE Reap

\* Mutant: nobody waits for the consumer that was killed.
KilledNotReaped ==
  /\ alive /\ ppc = "reap"
  /\ pSpun
  /\ "timeout" \in faults
  /\ ppc' = "release"
  /\ sigkill' = (cpc # "reaped")
  /\ UNCHANGED <<inputs, alive, pSpun, progress, result, held, cpc, cSpun, flags>>

\* Mutant: the blocking wait comes without the SIGKILL.
WaitWithoutKill ==
  /\ alive /\ ppc = "reap"
  /\ pSpun
  /\ "timeout" \in faults
  /\ ppc' = IF cpc = "reaped" THEN "release" ELSE "reapKilled"
  /\ UNCHANGED <<inputs, alive, pSpun, progress, result, held, consumer, flags>>

\* Enough polls have found the child running.  It may have exited since the last
\* one: a signal to a zombie succeeds, to a child that left no zombie it does not.
KillConsumer ==
  /\ alive /\ ppc = "reap"
  /\ pSpun
  /\ "timeout" \in faults
  /\ IF cpc = "reaped"
       THEN ppc' = "release" /\ sigkill' = sigkill
       ELSE ppc' = "reapKilled" /\ sigkill' = TRUE
  /\ UNCHANGED <<inputs, alive, pSpun, progress, result, held, cpc, cSpun, flags>>

ReapKilled ==
  /\ alive /\ ppc = "reapKilled"
  /\ ~ConsumerRuns
  /\ Reap

\* The segment goes and the result is made up: samples of a measurement that was
\* cut short still count as a success, and keep the error message.
Release ==
  /\ alive /\ ppc = "release"
  /\ held' = held \ {"view", "name"}
  /\ ppc' = "returned"
  /\ IF samples = 0
       THEN /\ err' = IF err = "none" THEN "empty" ELSE err
            /\ UNCHANGED <<success, reported>>
       ELSE success' = TRUE /\ reported' = samples /\ err' = err
  /\ UNCHANGED <<inputs, alive, pSpun, progress, consumer, flags>>

\* The samples are copied to be sorted.  Nothing is left to clean up.
SummarizeThrows ==
  /\ alive /\ ppc = "release" /\ samples > 0
  /\ "memory" \in faults
  /\ ppc' = "thrown"
  /\ held' = held \ {"view", "name"}
  /\ UNCHANGED <<inputs, alive, pSpun, progress, result, consumer, flags>>

-------------------------------------------------------------------------------
(* The consumer: consumer_loop, and how the kernel ends a process.         *)

ConsumerAt(place, next) ==
  /\ cpc = place
  /\ cpc' = next
  /\ UNCHANGED <<inputs, alive, ppc, pSpun, progress, result, held, sigkill>>

\* An exited child stays a zombie only for a parent that may still ask about it.
ExitPlace == IF sigchldIgnored \/ ~alive \/ ppc \in Thrown THEN "reaped" ELSE "zombie"

Pin ==
  /\ \/ ConsumerAt("pin", "publish")
     \/ "pin" \in faults /\ ConsumerAt("pin", ExitPlace)
  /\ UNCHANGED <<cSpun, flags>>

Publish ==
  /\ ConsumerAt("publish", "loop")
  /\ consumer_ready' = 1
  /\ UNCHANGED <<cSpun, request, response, stop>>

CheckStop ==
  /\ ConsumerAt("loop", IF stop # 0 THEN ExitPlace ELSE "wait")
  /\ cSpun' = FALSE
  /\ UNCHANGED flags

PollRequest ==
  /\ ConsumerAt("wait", IF request = 1 THEN "clear" ELSE "waitStop")
  /\ UNCHANGED <<cSpun, flags>>

PollStop ==
  /\ ConsumerAt("waitStop", IF stop # 0 THEN ExitPlace ELSE "wait")
  /\ cSpun' = TRUE
  /\ UNCHANGED flags

\* Mutant: a consumer that has seen no request for long starts over.
TimeoutRetried ==
  /\ cSpun
  /\ "timeout" \in faults \/ ~alive \/ ppc \in Thrown
  /\ ConsumerAt("wait", "loop")
  /\ UNCHANGED <<cSpun, flags>>

\* The deadline for the next request has passed, and the consumer gives up without
\* another look.  With the producer gone that time always comes.
ConsumerTimeout ==
  /\ cSpun
  /\ "timeout" \in faults \/ ~alive \/ ppc \in Thrown
  /\ ConsumerAt("wait", ExitPlace)
  /\ UNCHANGED <<cSpun, flags>>

\* The consumer cannot read the clock.  It is main's handler, in its own copy of the
\* process, that catches this, and the child ends as its parent would.
ConsumerThrows ==
  /\ cSpun
  /\ "clock" \in faults
  /\ ConsumerAt("wait", ExitPlace)
  /\ UNCHANGED <<cSpun, flags>>

\* Mutant: the request stays set.
RequestKept == ConsumerAt("clear", "answer") /\ UNCHANGED <<cSpun, flags>>

Clear ==
  /\ ConsumerAt("clear", "answer")
  /\ request' = 0
  /\ UNCHANGED <<cSpun, response, consumer_ready, stop>>

Answer ==
  /\ ConsumerAt("answer", "loop")
  /\ response' = 1
  /\ UNCHANGED <<cSpun, request, consumer_ready, stop>>

\* The kernel ends the consumer wherever it is.
Die ==
  /\ ConsumerRuns
  /\ ConsumerAt(cpc, ExitPlace)
  /\ UNCHANGED <<cSpun, flags>>

SigkillDelivered == sigkill /\ Die

ConsumerCrash == "consumerCrash" \in faults /\ Die

\* The producer is killed.  Its descriptor and mapping go with it, the name does
\* not; init reaps the consumer.
ProducerCrash ==
  /\ "producerCrash" \in faults
  /\ ProducerRuns
  /\ alive' = FALSE
  /\ held' = held \ {"fd", "view"}
  /\ cpc' = Adopted
  /\ UNCHANGED <<inputs, ppc, pSpun, progress, result, cSpun, sigkill, flags>>

\* Nothing is left to do: the call is over and so is the consumer.
Terminated == ~ProducerRuns /\ ~ConsumerRuns /\ UNCHANGED vars

ProducerStep ==
  \/ RejectCounts \/ CheckCpus \/ OpenSegment \/ Truncate \/ MapView \/ Fork
  \/ PollReady \/ PollResponse \/ ProducerGivesUp
  \/ PostRequest \/ Ack \/ LoopDone \/ ReserveSamples
  \/ StoreStop \/ ReapPoll \/ KillConsumer \/ ReapKilled \/ Release
  \/ NamingThrows \/ WaitThrows \/ SummarizeThrows

ConsumerStep ==
  \/ Pin \/ Publish \/ CheckStop \/ PollRequest \/ PollStop \/ ConsumerTimeout
  \/ ConsumerThrows \/ Clear \/ Answer

Next ==
  \/ ProducerStep \/ ConsumerStep
  \/ SigkillDelivered \/ ConsumerCrash \/ ProducerCrash
  \/ Terminated

Spec == Init /\ [][Next]_vars

\* The producer is scheduled, its deadlines pass, and a signal sent is delivered.
\* Nothing is assumed of the consumer, which may hang at any place; the properties that
\* need more say so.
ProducerFairness == WF_vars(ProducerStep) /\ WF_vars(SigkillDelivered)

\* The consumer is scheduled.  It looks at the clock between any two looks at
\* the flag, so a deadline it is past forever is one it notices.
ConsumerFairness == WF_vars(ConsumerStep) /\ SF_vars(ConsumerTimeout)

FairSpec == Spec /\ ProducerFairness
-------------------------------------------------------------------------------
(* Properties.                                                             *)

BooleansOK ==
  /\ sigchldIgnored \in BOOLEAN /\ alive \in BOOLEAN /\ pSpun \in BOOLEAN
  /\ success \in BOOLEAN /\ cSpun \in BOOLEAN /\ sigkill \in BOOLEAN

ValuesOK ==
  /\ faults \subseteq FaultKinds
  /\ iterations \in IterationArgs /\ warmup \in WarmupArgs
  /\ ppc \in ProducerPlaces /\ cpc \in ConsumerPlaces
  /\ warmed \in Nat /\ samples \in Nat
  /\ err \in Errors /\ reported \in Int
  /\ held \subseteq {"fd", "view", "name"}
  /\ request \in {0, 1} /\ response \in {0, 1}
  /\ consumer_ready \in {0, 1} /\ stop \in {0, 1}

\* Every variable has its type: flags are 0 or 1, the processes are at places of
\* their code, the counts of round trips never go below zero.
TypeOK == BooleansOK /\ ValuesOK

\* A request was posted and its answer not taken, perhaps given up waiting for.
Outstanding == ppc \in {"await", "ack", "thrownAwaiting"} \/ err \in {"warmup", "measure"}

\* The places a round trip can be at: posted, in the consumer's hands, answered.
Posted == request = 1
InHand == cpc = "answer"
Answered == response = 1

\* The two flags and the consumer never hold more than one round trip between
\* them, and none at all unless the producer has posted one and not yet taken its
\* answer.  A consumer that is still running has not lost the one the producer
\* waits for, and the producer counts a round trip only on an answer.  It is what
\* makes a sample the time of one round trip, through every timeout and crash.
Handshake ==
  /\ ~(Posted /\ InHand) /\ ~(Posted /\ Answered) /\ ~(InHand /\ Answered)
  /\ Posted \/ InHand \/ Answered => Outstanding
  /\ ppc = "await" /\ ConsumerRuns => Posted \/ InHand \/ Answered
  /\ ppc = "ack" => Answered

\* A call that returns, by any of its paths, leaves nothing behind: no descriptor,
\* no mapping, no name in /dev/shm, no consumer, running or zombie.
ReleasedOnReturn == ppc = "returned" => held = {} /\ cpc \in {"none", "reaped"}

\* What the caller is told: without an error message all of the warm-up and all of
\* the samples were made; success is told exactly of the calls that have samples,
\* with their number.  The message for a call that met no error and still has no
\* samples is never used.
ResultCoherent ==
  /\ err # "empty"
  /\ ppc = "returned" =>
       /\ err = "none" => warmed = warmup /\ samples = iterations /\ success
       /\ success <=> samples > 0
       /\ success => reported = samples
       /\ samples > 0 => err \in {"none", "measure"}

\* The call implements RoundTrips: it posts, is answered and takes the answers one
\* at a time, and returns nothing but what it took.
taken == warmed + samples
Promise == INSTANCE RoundTrips WITH
  sent <- taken + (IF Outstanding THEN 1 ELSE 0),
  served <- taken + response,
  outcome <- IF ppc # "returned" THEN "pending" ELSE IF success THEN "success" ELSE "failure"
ImplementsRoundTrips == Promise!Spec

\* However the consumer hangs, crashes or dawdles, the call comes back: every wait
\* has a deadline, and a consumer that will not stop is killed.  (One that hangs is late:
\* where nobody is ever late the consumer is taken to be scheduled.)
CallEnds == "timeout" \in faults \/ ConsumerFairness => <>~ProducerRuns

\* A consumer that is scheduled does not outlive its producer for good, even when the
\* producer never stored stop: the wait for the next request ends by its own deadline.
ConsumerEnds == ConsumerFairness => [](~ProducerRuns => <>~ConsumerRuns)

\* With nothing failing and nobody late, a call with valid arguments makes every
\* round trip it was asked for.
CallSucceeds ==
  ConsumerFairness /\ faults = {} =>
    <>(/\ ppc = "returned"
       /\ err \in {"arguments", "cpus"} \/ (success /\ reported = iterations))
-------------------------------------------------------------------------------
(* What the invariants above rest on: what is true at each place of ppc.   *)

BeforeFork == {"args", "open", "truncate", "map", "fork"}
Running == {"ready", "warmup", "reserve", "measure", "await", "ack"}
Stopping == {"stop", "reap", "reapKilled", "release"}

HeldAt ==
  /\ ppc \in {"args", "open", "returned"} => held = {}
  /\ ppc \in {"truncate", "map"} => held \subseteq {"fd", "name"}
  /\ ppc \in {"fork"} \union Running \union Stopping => held \subseteq {"view", "name"}
  /\ ~alive => ppc # "returned"

ConsumerAtPlace ==
  /\ ppc \in BeforeFork => cpc = "none" /\ request = 0 /\ response = 0
  /\ ppc \in {"release", "returned"} => cpc \in {"none", "reaped"}
  /\ cpc = "clear" => Posted

ErrAt ==
  /\ ppc \in BeforeFork \union Running \union {"thrownAwaiting"} => err = "none"
  /\ ppc \in Stopping => err \in {"none", "ready", "warmup", "measure"}
  /\ ppc # "returned" => ~success

ProgressAt ==
  /\ warmed = 0 \/ warmed <= warmup
  /\ ppc # "args" /\ ppc # "returned" => iterations > 0 /\ warmup >= 0
  /\ ppc \in BeforeFork \union {"ready"} => warmed = 0
  /\ ppc \in BeforeFork \union {"ready", "warmup", "reserve"} => samples = 0
  /\ ppc \in {"reserve", "measure"} => warmed = warmup
  /\ ppc = "measure" => samples <= iterations
  /\ ppc \in {"await", "ack"} =>
       \/ warmed < warmup /\ samples = 0
       \/ warmed = warmup /\ samples < iterations
  /\ ppc \in Stopping =>
       /\ err = "none" => warmed = warmup /\ samples = iterations
       /\ samples > 0 => warmed = warmup /\ err \in {"none", "measure"}

Placed == HeldAt /\ ConsumerAtPlace /\ ErrAt /\ ProgressAt /\ Handshake

\* The inductive invariant: the state of the call agrees with the place it is at.
Inv == TypeOK /\ Placed /\ ResultCoherent
===============================================================================
