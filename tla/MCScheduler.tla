----------------------------- MODULE MCScheduler -----------------------------
(* A small instance of Scheduler. *)
EXTENDS Scheduler

CONSTANTS p1, p2, n1, n2, n3

MCPayloads == {p1, p2}
MCNodes == {n1, n2, n3}
=============================================================================
