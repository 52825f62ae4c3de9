-------------------------- MODULE MCReactorInThread --------------------------
(* A small instance of ReactorInThread. *)
EXTENDS ReactorInThread

CONSTANTS a, loop, client

MCReadMask == {"EPOLLIN", "EPOLLONESHOT"}
MCBothMasks == {MCReadMask, {"EPOLLIN", "EPOLLOUT", "EPOLLONESHOT"}}
MCSteps == {2}
MCConditions == {"EPOLLIN", "EPOLLOUT", "EPOLLHUP"}
=============================================================================
