------------------------------ MODULE MachineInt -------------------------------
(* The int of the program: two's complement of some width.                 *)
EXTENDS Integers

CONSTANT IntMax  \* INT_MAX

ASSUME IntMaxAssumption == IntMax \in Nat \ {0}

Ints == (-IntMax - 1) .. IntMax

\* What a sum or product of ints leaves in an int.
Wrap(n) == ((n + IntMax + 1) % (2 * IntMax + 2)) - IntMax - 1
===============================================================================
