------------------------------- MODULE Evaluation ------------------------------
(***************************************************************************)
(* The collection of the samples of two classes, fixed and random, which   *)
(* the statistics of Metrics compare.  The behaviours only collect; the    *)
(* properties are about what the statistics say of every pair of classes   *)
(* on the way.                                                             *)
(***************************************************************************)
EXTENDS Metrics

CONSTANTS
  Samples,             \* the values a sample may have
  MaxFixed, MaxRandom  \* bounds on the samples collected of each class

ASSUME SamplesAssumption ==
  Samples \subseteq Nat /\ MaxFixed \in Nat /\ MaxRandom \in Nat

VARIABLES fixed, random
vars == <<fixed, random>>

-------------------------------------------------------------------------------
Init == fixed = <<>> /\ random = <<>>

\* collect_trace appends one more timing to the trace of a class.
CollectFixed ==
  /\ Len(fixed) < MaxFixed
  /\ \E value \in Samples : fixed' = Append(fixed, value)
  /\ UNCHANGED random

CollectRandom ==
  /\ Len(random) < MaxRandom
  /\ \E value \in Samples : random' = Append(random, value)
  /\ UNCHANGED fixed

Collected == Len(fixed) = MaxFixed /\ Len(random) = MaxRandom /\ UNCHANGED vars

Next == CollectFixed \/ CollectRandom \/ Collected

Spec == Init /\ [][Next]_vars

-------------------------------------------------------------------------------
(* Properties.                                                             *)

\* The rejection of outliers keeps at least half of the samples, whatever they are: it
\* never leaves a class too small for the statistics behind it.
HalfKept == 2 * KeptCount(fixed) >= Len(fixed) /\ 2 * KeptCount(random) >= Len(random)

\* Sample k is a large excursion: one of five or more, at least twice any other, and
\* further above the others than six times their range.
Excursion(samples, k) ==
  LET others == {samples[j] : j \in DOMAIN samples \ {k}}
  IN  /\ Len(samples) >= 5
      /\ \A v, w \in others : samples[k] >= 2 * v /\ samples[k] - v > 6 * Distance(v, w)

\* A single excursion does not survive, as long as no half of the samples coincide.
ExcursionRejected ==
  \A k \in DOMAIN fixed :
    Excursion(fixed, k) /\ Mad4(fixed) > 0 => ~WithinMad(Deviation2(fixed)[k], Mad4(fixed))

\* src/README.md says of the rejection: it "is used instead of a mean/stddev rule so a few
\* large excursions do not dominate the result".  Without the condition on the others, a
\* sample twice as long as all of the others, which are the same, is to be rejected.
ExcursionsDoNotDominate ==
  \A k \in DOMAIN fixed : Excursion(fixed, k) => RejectedCount(fixed) > 0

\* No error is reported only of classes that do not overlap, the fixed one below.
ZeroErrorSeparates ==
  fixed # <<>> /\ random # <<>> /\ ClassificationErrors(fixed, random) = 0 =>
    \A k \in DOMAIN fixed, n \in DOMAIN random : fixed[k] < random[n]

\* It does not matter which class is called fixed: the size of t and the ratio of snr_linear,
\* each by its two parts, are the same for the swapped classes, and so are the verdicts.
ClassesSymmetric ==
  LET f == RemoveMadOutliers(fixed)
      r == RemoveMadOutliers(random)
  IN  /\ WelchSignal(fixed, random) = WelchSignal(random, fixed)
      /\ WelchNoise(fixed, random) = WelchNoise(random, fixed)
      /\ SnrSignal(f, r) = SnrSignal(r, f) /\ SnrNoise(f, r) = SnrNoise(r, f)
      /\ ThresholdExceeded(fixed, random) <=> ThresholdExceeded(random, fixed)
      /\ HasSnr(fixed, random) <=> HasSnr(random, fixed)

\* tests/evaluation_test.cpp asserts of two classes of constant samples, 10 and 20, that
\* abs_t > 4.5, threshold_exceeded and snr > 0: of classes without noise, everything
\* that tells them apart is a signal.
ConstantClassesDetected ==
  /\ Len(fixed) >= 2 /\ Len(random) >= 2
  /\ \A k \in DOMAIN fixed, n \in DOMAIN random :
       fixed[k] = fixed[1] /\ random[n] = random[1] /\ fixed[1] # random[1]
  => ThresholdExceeded(fixed, random) /\ HasSnr(fixed, random)
===============================================================================
