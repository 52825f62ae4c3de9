--------------------------- MODULE ReactorInThread ---------------------------
(***************************************************************************)
(* ReactorInThread of poller/reactor.cpp: a Reactor whose run is the task  *)
(* of a Worker of its own, and the thread that owns it. Here is also the   *)
(* fairness under which a Reactor runs.                                    *)
(*                                                                         *)
(* The owner constructs and destroys the object. Other threads use it in   *)
(* between, and no call of theirs is in progress when it is destroyed; but *)
(* a callback may call stop as long as the loop runs.                      *)
(***************************************************************************)
EXTENDS Reactor, Sequences

VARIABLES
  owner,      \* what the owning thread does
  worker,     \* what m_worker does: looks for a task, runs one, or has ended
  m_tasks     \* the queue of the worker, which has room for both tasks

threadVars == <<owner, worker, m_tasks>>
tvars == <<rvars, threadVars>>

ThreadTypeOK ==
  /\ ReactorTypeOK
  /\ owner \in {"add", "stop", "alive", "joining", "destroyed"}
  /\ worker \in {"loop", "run", "stop_", "done"}
  /\ m_tasks \in {<<>>, <<"run">>, <<"stop_">>, <<"run", "stop_">>}

ThreadInit ==
  /\ ReactorInit
  /\ owner = "add"
  /\ worker = "loop"
  /\ m_tasks = <<>>

-----------------------------------------------------------------------------
(* The owner *)

add_run ==
  /\ owner = "add"
  /\ m_tasks' = Append(m_tasks, "run")
  /\ owner' = "stop"
  /\ UNCHANGED <<rvars, worker>>

(* Mistake: nothing ends the worker. *)
add_stop_forgotten ==
  /\ owner = "stop"
  /\ owner' = "alive"
  /\ UNCHANGED <<rvars, worker, m_tasks>>

(* Worker::stop, right behind run. *)
add_stop ==
  /\ owner = "stop"
  /\ m_tasks' = Append(m_tasks, "stop_")
  /\ owner' = "alive"
  /\ UNCHANGED <<rvars, worker>>

destroy ==
  /\ owner = "alive"
  /\ lock \notin Clients
  /\ ~stopping
  /\ owner' = "joining"
  /\ UNCHANGED <<rvars, worker, m_tasks>>

join ==
  /\ owner = "joining"
  /\ worker = "done"
  /\ owner' = "destroyed"
  /\ UNCHANGED <<rvars, worker, m_tasks>>

-----------------------------------------------------------------------------
(* The worker *)

take_task ==
  /\ worker = "loop"
  /\ m_tasks # <<>>
  /\ worker' = Head(m_tasks)
  /\ m_tasks' = Tail(m_tasks)
  /\ UNCHANGED <<rvars, owner>>

(* run returns, or Worker::run catches its exception. *)
run_ends ==
  /\ worker = "run"
  /\ pc \in {"done", "thrown"}
  /\ worker' = "loop"
  /\ UNCHANGED <<rvars, owner, m_tasks>>

stop_ ==
  /\ worker = "stop_"
  /\ worker' = "done"
  /\ UNCHANGED <<rvars, owner, m_tasks>>

(* A callback that calls stop waits for it to return. *)
InStop == owner = "joining" /\ stopping

Running == worker = "run" /\ ~InStop /\ UNCHANGED threadVars

(* Others use the object between its construction and its destruction; a   *)
(* callback may stop the loop until it ends.                               *)
Used == owner = "alive" /\ UNCHANGED threadVars
StoppedByCallback ==
  /\ owner = "joining"
  /\ worker = "run" /\ pc = "callback"
  /\ stop \/ stop_signal
  /\ UNCHANGED threadVars

Destroyed == owner = "destroyed" /\ UNCHANGED tvars

ThreadNext ==
  \/ /\ failed = "none"
     /\ \/ add_run \/ add_stop \/ destroy \/ join
        \/ take_task \/ run_ends \/ stop_
        \/ Running /\ LoopStep
        \/ Used /\ ClientStep
        \/ StoppedByCallback
        \/ tick /\ UNCHANGED threadVars
  \/ Aborted /\ UNCHANGED <<socketVars, reactorVars, threadVars>>
  \/ Destroyed

-----------------------------------------------------------------------------
(* Fairness: the operating system runs every thread and the clock, the     *)
(* spinlock is given to a waiting loop, callbacks return, epoll_wait       *)
(* returns when the eventfd is readable or the time is up, although signal *)
(* handlers may interrupt it many times, and accept returns -1 some time:  *)
(* listeners are made with NON_BLOCK and peers do not fill the backlog for *)
(* ever. Nothing makes a descriptor ready, no thread has to call anything, *)
(* and the owner does not have to destroy the object.                      *)
Fairness ==
  /\ WF_tvars(failed = "none" /\ (add_run \/ add_stop \/ join))
  /\ WF_tvars(failed = "none" /\ (take_task \/ run_ends \/ stop_))
  /\ WF_tvars(failed = "none" /\ Running /\ RunStep)
  /\ SF_tvars(failed = "none" /\ Running /\ WakeUp)
  /\ SF_tvars(failed = "none" /\ Running /\ accept_fails)
  /\ SF_tvars(failed = "none" /\ Running /\ (callback_return \/ callback_throw))
  /\ WF_tvars(failed = "none" /\ stop_signal /\ UNCHANGED threadVars)
  /\ \A c \in Clients : WF_tvars(failed = "none" /\ hand_over(c) /\ UNCHANGED threadVars)
  /\ WF_tvars(failed = "none" /\ tick /\ UNCHANGED threadVars)

FairThreadSpec == ThreadInit /\ [][ThreadNext]_tvars /\ Fairness

-----------------------------------------------------------------------------
(* The destructor returns once the reactor is stopped or an exception has  *)
(* ended its loop: the stop of the worker queued behind run is found then. *)
(* Without either it waits for ever, since nothing in it stops the reactor.*)
JoinReturns ==
  owner = "joining" /\ (m_stop \/ pc = "thrown") ~> owner = "destroyed" \/ failed # "none"
=============================================================================
