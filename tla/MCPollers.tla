------------------------------ MODULE MCPollers ------------------------------
(* A small instance of Pollers. *)
EXTENDS Pollers, TLC

CONSTANTS a, b, p1, p2

MCSymmetry == Permutations({a, b}) \cup Permutations({p1, p2})
=============================================================================
