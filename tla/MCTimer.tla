-------------------------------- MODULE MCTimer --------------------------------
(* An instance of Timer for TLC: two CPUs whose counters are apart by more *)
(* than any delay, in either direction once they wrap.                     *)
EXTENDS Timer

TwoCpus == {0, 1}
Apart == [c \in TwoCpus |-> IF c = 0 THEN 0 ELSE 7]
===============================================================================
