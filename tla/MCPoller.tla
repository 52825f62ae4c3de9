------------------------------ MODULE MCPoller ------------------------------
(* Small instances of Poller under any caller. *)
EXTENDS Poller

CONSTANTS a, b, loop, client

MCReadMask == {"EPOLLIN", "EPOLLONESHOT"}
MCBothMask == {"EPOLLIN", "EPOLLOUT"}
MCMasks == {MCReadMask, MCBothMask}
MCSteps == {0, 1}
MCConditions == {"EPOLLIN", "EPOLLOUT", "EPOLLHUP"}
=============================================================================
