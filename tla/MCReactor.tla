------------------------------ MODULE MCReactor ------------------------------
(* A small instance of Reactor. *)
EXTENDS Reactor, TLC

CONSTANTS a, b, loop, client

MCReadMask == {"EPOLLIN", "EPOLLONESHOT"}
MCWriteMask == {"EPOLLOUT", "EPOLLONESHOT"}
MCMasks == {MCReadMask, MCWriteMask}
MCSteps == {2}
MCInHup == {"EPOLLIN", "EPOLLHUP"}
MCSymmetry == Permutations({a, b})
=============================================================================
