------------------------------ MODULE MCBitSet ------------------------------
(* A small instance of BitSet. *)
EXTENDS BitSet, TLC

CONSTANTS a, b, x, y

MCSources == {<<{1}>>, <<{0, 1}, {0}>>}
MCSymmetry == Permutations({a, b}) \cup Permutations({x, y})
=============================================================================
