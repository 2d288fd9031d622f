--------------------------- MODULE MCLatencyMeasurer ---------------------------
(* An instance of LatencyMeasurer for TLC: lines of 2 bytes, buffers of 4  *)
(* and 5 lines, batches of 3 loads or stores, so that a batch is neither   *)
(* one load nor the whole ring and consecutive batches overlap and wrap.   *)
EXTENDS LatencyMeasurer

\* 7 gives the minimum of 4 lines, 11 is cut down to 5 whole lines.
Sizes == {7, 11}
\* Invalid counts and the valid ones: 0 is a valid warm-up only.
Counts == {-1, 0, 1, 2}
\* Less than a line, a line, a line and a half, and as long as the whole buffer.
Lists == {<<>>, <<1, 4>>, <<5>>, <<8, 2>>}
===============================================================================
