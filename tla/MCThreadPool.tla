---------------------------- MODULE MCThreadPool ----------------------------
(* A small instance of ThreadPool. *)
EXTENDS ThreadPool

CONSTANTS c1, c2, t1, t2, t3, t4, t5

MCClients == {c1, c2}
MCTasks == {t1, t2, t3, t4, t5}
=============================================================================
