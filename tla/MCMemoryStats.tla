---------------------------- MODULE MCMemoryStats ----------------------------
(* Three blocks, one of them large: every order of two crossings of the limit *)
(* and of the races for the peak.                                             *)
EXTENDS MemoryStats, TLC

CONSTANTS b1, b2, b3

TwoBlocks == {b1, b2}
ThreeBlocks == {b1, b2, b3}
MCSize == [b \in Blocks |-> IF b = b1 THEN 2 ELSE 1]

\* b2 and b3 are alike.
Symmetry == Permutations(Blocks \ {b1})

=============================================================================
