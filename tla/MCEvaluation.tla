----------------------------- MODULE MCEvaluation ------------------------------
(* Instances of Evaluation for TLC.  10, 12 and 20 are quiet samples, 99   *)
(* is an excursion; six samples are enough for the filter, which begins at *)
(* five, with an odd and an even median.                                   *)
EXTENDS Statistics

ClassSamples == {10, 12, 20, 99}

\* The two values of the classes in tests/evaluation_test.cpp.
TestSamples == {10, 20}
===============================================================================
