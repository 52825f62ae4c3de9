------------------------------- MODULE MCQueue -------------------------------
(* A small instance of Queue. *)
EXTENDS Queue

CONSTANTS p1, p2, v1, v2

MCProducers == {p1, p2}
MCValues == {v1, v2}
=============================================================================
