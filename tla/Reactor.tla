------------------------------- MODULE Reactor -------------------------------
(***************************************************************************)
(* poller/reactor.cpp: the loop that polls, takes the events and calls     *)
(* back the sockets, with the threads that hand sockets to it and stop it. *)
(*                                                                         *)
(* A callback is the user's code. It may change the interest and timeout   *)
(* of a socket that has a poller, hand over a new one, close any socket in *)
(* use, throw a std::exception, and return; on_close may throw as well.    *)
(* Other threads hand over new sockets, send UPDATE signals and call stop; *)
(* sockets are closed on the loop thread.                                  *)
(***************************************************************************)
EXTENDS Socket

VARIABLES
  servers,    \* the sockets that are a TcpServer
  m_stop,
  stopping,   \* stop has set m_stop and not sent the signal yet
  pc,         \* where run is
  current     \* the event being dispatched: what is left of it to do

reactorVars == <<servers, m_stop, stopping, pc, current>>
rvars == <<pollerVars, socketVars, reactorVars>>

NoCurrent == [socket |-> "none", action |-> {}, reason |-> {}]

ReactorTypeOK ==
  /\ PollerTypeOK
  /\ SocketTypeOK
  /\ servers \subseteq Sockets
  /\ m_stop \in BOOLEAN
  /\ stopping \in BOOLEAN
  /\ pc \in {"while", "poll", "get_next_event", "dispatch", "accept", "callback", "update",
             "done", "thrown"}
  /\ current \in [socket : Sockets, action : SUBSET Actions, reason : SUBSET Reasons]
                 \cup {NoCurrent}

ReactorInit ==
  /\ PollerInit
  /\ SocketInit
  /\ servers \in SUBSET Sockets
  /\ m_stop = FALSE
  /\ stopping = FALSE
  /\ pc = "while"
  /\ current = NoCurrent

-----------------------------------------------------------------------------
(* run *)

check_stop ==
  /\ pc = "while"
  /\ IF m_stop THEN pc' = "done" /\ UNCHANGED pollerVars
               ELSE pc' = "poll" /\ start_poll
  /\ UNCHANGED <<socketVars, servers, m_stop, stopping, current>>

(* Mistake: events are taken before the deadlines are looked at. *)
poll_left_early ==
  /\ pc = "poll"
  /\ PollStep
  /\ pc' = IF pollPc' \in {"idle", "schedule"} THEN "get_next_event" ELSE "poll"
  /\ UNCHANGED <<socketVars, servers, m_stop, stopping, current>>

poll ==
  /\ pc = "poll"
  /\ PollStep
  /\ pc' = IF pollPc' = "idle" THEN "get_next_event" ELSE "poll"
  /\ UNCHANGED <<socketVars, servers, m_stop, stopping, current>>

take_event ==
  /\ pc = "get_next_event"
  /\ \E s \in Sockets :
       /\ get_next_event(s)
       /\ current' = [socket |-> s, action |-> out[s].action, reason |-> out[s].reason]
  /\ pc' = "dispatch"
  /\ UNCHANGED <<socketVars, servers, m_stop, stopping>>

no_more_events ==
  /\ pc = "get_next_event"
  /\ \A s \in Sockets : out[s] = NoEvent
  /\ pc' = "while"
  /\ UNCHANGED <<pollerVars, socketVars, servers, m_stop, stopping, current>>

(* The handlers run in the order READ, WRITE, CLOSE, whatever the earlier  *)
(* ones did to the socket. on_read and on_write are callbacks.             *)
dispatch_callback(action) ==
  /\ pc = "dispatch"
  /\ action \in current.action
  /\ action = "WRITE" => "READ" \notin current.action
  /\ current.socket \notin servers
  /\ current' = [current EXCEPT !.action = @ \ {action}]
  /\ pc' = "callback"
  /\ UNCHANGED <<pollerVars, socketVars, servers, m_stop, stopping>>

(* The handler of run closes the socket, without a reason, and drops the   *)
(* rest of the event.                                                      *)
Caught ==
  /\ current' = [current EXCEPT !.action = {"CLOSE"}, !.reason = {}]
  /\ pc' = "dispatch"

(* TcpServer::read: READ stays in the event as long as Socket::accept has  *)
(* not found the backlog empty.                                            *)
dispatch_accept ==
  /\ pc = "dispatch"
  /\ "READ" \in current.action
  /\ current.socket \in servers
  /\ pc' = "accept"
  /\ UNCHANGED <<pollerVars, socketVars, servers, m_stop, stopping, current>>

accept_connection ==
  /\ pc = "accept"
  /\ pc' = "callback"
  /\ UNCHANGED <<pollerVars, socketVars, servers, m_stop, stopping, current>>

accept_fails ==
  /\ pc = "accept"
  /\ current' = [current EXCEPT !.action = @ \ {"READ"}]
  /\ pc' = "dispatch"
  /\ UNCHANGED <<pollerVars, socketVars, servers, m_stop, stopping>>

(* TcpServer::write throws.                                                *)
dispatch_write_throws ==
  /\ pc = "dispatch"
  /\ "WRITE" \in current.action /\ "READ" \notin current.action
  /\ current.socket \in servers
  /\ Caught
  /\ UNCHANGED <<pollerVars, socketVars, servers, m_stop, stopping>>

dispatch_close ==
  /\ pc = "dispatch"
  /\ current.action = {"CLOSE"}
  /\ closing = NotClosing
  /\ current' = [current EXCEPT !.action = {}]
  /\ IF state[current.socket] = "INVALID" THEN UNCHANGED <<pollerVars, socketVars>>
                                          ELSE close(current.socket)
  /\ UNCHANGED <<servers, m_stop, stopping, pc>>

(* Mistake: one event per poll. *)
dispatched_once ==
  /\ pc = "dispatch"
  /\ current.action = {}
  /\ closing = NotClosing
  /\ current' = NoCurrent
  /\ pc' = "while"
  /\ UNCHANGED <<pollerVars, socketVars, servers, m_stop, stopping>>

dispatched ==
  /\ pc = "dispatch"
  /\ current.action = {}
  /\ closing = NotClosing
  /\ current' = NoCurrent
  /\ pc' = "get_next_event"
  /\ UNCHANGED <<pollerVars, socketVars, servers, m_stop, stopping>>

-----------------------------------------------------------------------------
(* The user's callbacks *)

InCallback == pc = "callback" /\ closing = NotClosing

(* update_poll_mask asks for a poller; Reactor::update_socket brings a new *)
(* socket to it.                                                           *)
Updatable == {s \in Sockets : \/ state[s] = "READY" /\ s \in attached
                              \/ state[s] = "CREATED"}

callback_update_lock ==
  /\ InCallback
  /\ Updatable # {}
  /\ lock_for(LoopThread, "update_socket")
  /\ pc' = "update"
  /\ UNCHANGED <<socketVars, servers, m_stop, stopping, current>>

callback_update ==
  /\ pc = "update"
  /\ \E s \in Updatable, mask \in Masks, step \in Steps :
       update_and_attach(LoopThread, s, mask, step)
  /\ pc' = "callback"
  /\ UNCHANGED <<servers, m_stop, stopping, current>>

callback_close ==
  /\ InCallback
  /\ \E s \in Sockets : state[s] = "READY" /\ close(s)
  /\ UNCHANGED reactorVars

AfterCallback == IF "READ" \in current.action THEN "accept" ELSE "dispatch"

callback_return ==
  /\ InCallback
  /\ pc' = AfterCallback
  /\ UNCHANGED <<pollerVars, socketVars, servers, m_stop, stopping, current>>

callback_throw ==
  /\ InCallback
  /\ Caught
  /\ UNCHANGED <<pollerVars, socketVars, servers, m_stop, stopping>>

close_step ==
  /\ CloseStep
  /\ UNCHANGED reactorVars

(* Every CLOSE of an event has a reason, the one of the handler has none.  *)
InHandler == pc = "dispatch" /\ current.reason = {}

(* An on_close that throws is caught like any callback, but in the handler *)
(* itself nobody catches it: run is left by the exception.                 *)
on_close_throws ==
  /\ close_callback
  /\ IF InHandler THEN pc' = "thrown" /\ current' = NoCurrent ELSE Caught
  /\ UNCHANGED <<servers, m_stop, stopping>>

LoopStep ==
  \/ check_stop \/ poll \/ take_event \/ no_more_events
  \/ \E action \in {"READ", "WRITE"} : dispatch_callback(action)
  \/ dispatch_accept \/ accept_connection \/ accept_fails \/ dispatch_write_throws
  \/ dispatch_close \/ dispatched \/ on_close_throws
  \/ callback_update_lock \/ callback_update \/ callback_close
  \/ callback_return \/ callback_throw \/ close_step

-----------------------------------------------------------------------------
(* Other threads *)

(* Reactor::update_socket with a socket that is new. *)
hand_over_lock(c) ==
  /\ \E s \in Sockets : state[s] = "CREATED"
  /\ lock_for(c, "update_socket")
  /\ UNCHANGED <<socketVars, reactorVars>>

hand_over(c) ==
  /\ \E s \in Sockets, mask \in Masks, step \in Steps :
       /\ state[s] = "CREATED"
       /\ update_and_attach(c, s, mask, step)
  /\ UNCHANGED reactorVars

send_update ==
  /\ signal("UPDATE")
  /\ UNCHANGED <<socketVars, reactorVars>>

(* stop sets the flag first and wakes the loop up afterwards. *)
stop ==
  /\ ~m_stop
  /\ m_stop' = TRUE
  /\ stopping' = TRUE
  /\ UNCHANGED <<pollerVars, socketVars, servers, pc, current>>

stop_signal ==
  /\ stopping
  /\ signal("STOP")
  /\ stopping' = FALSE
  /\ UNCHANGED <<socketVars, servers, m_stop, pc, current>>

ClientStep ==
  \/ \E c \in Clients : hand_over_lock(c) \/ hand_over(c)
  \/ send_update \/ stop \/ stop_signal

tick == Tick /\ UNCHANGED <<socketVars, reactorVars>>

ReactorNext ==
  \/ failed = "none" /\ (LoopStep \/ ClientStep \/ tick)
  \/ Aborted /\ UNCHANGED <<socketVars, reactorVars>>

ReactorSpec == ReactorInit /\ [][ReactorNext]_rvars

-----------------------------------------------------------------------------
(* What the loop does sooner or later; ReactorInThread says how fairly.    *)
Awake == eventfd # {} \/ now >= wakeAt

WakeUp ==
  /\ pc = "poll"
  /\ Awake
  /\ epoll_wait_return
  /\ UNCHANGED <<socketVars, reactorVars>>

RunStep ==
  \/ check_stop
  \/ pollPc # "epoll_wait" /\ poll
  \/ take_event \/ no_more_events
  \/ \E action \in {"READ", "WRITE"} : dispatch_callback(action)
  \/ dispatch_accept \/ dispatch_write_throws
  \/ dispatch_close \/ dispatched \/ callback_update \/ close_step

-----------------------------------------------------------------------------
(* Used this way, with finite timeouts, the one assertion that can fail is *)
(* that of an interrupted wait, and get_next_event never meets a           *)
(* remove_socket: events are only for sockets the poller knows, even while *)
(* stop is under way.                                                      *)
NoAssertionFails == failed \in {"none", "nothing_found"}

(* remove_socket has ended for the socket. *)
Closed(s) == /\ state[s] = "INVALID"
             /\ closing.socket = s => closing.at \in {"reset", "on_close"}

(* A closed socket leaves nothing behind: no registration, no deadline, no *)
(* event that would call back a socket after on_close.                     *)
ClosedIsForgotten ==
  \A s \in Sockets : Closed(s) => /\ s \notin active
                                  /\ out[s] = NoEvent
                                  /\ deadline[s] = INVALID_TIME
                                  /\ ~epoll[s].registered

(* on_close is called once for every closed socket, although a callback, an*)
(* exception and the CLOSE of the same event may all ask for it.           *)
OnCloseOnce ==
  \A s \in Sockets :
    onClose[s] = IF state[s] = "INVALID" /\ closing.socket # s THEN 1 ELSE 0

(* The event that closes s has been found, but not dispatched yet. *)
ClosePending(s) ==
  \/ "CLOSE" \in out[s].action
  \/ current.socket = s /\ "CLOSE" \in current.action
  \/ closing.socket = s

(* As long as a socket is registered and not about to be closed its nearest*)
(* timeout is in the scheduler: an idle connection is always dropped some  *)
(* time, although process_scheduler takes deadlines out without closing.   *)
TimeoutStaysArmed ==
  \A s \in active : \/ ClosePending(s)
                    \/ deadline[s] = get_nearest_timeout(context[s])

(* The loop does not oversleep: while it waits, the wait ends no later than*)
(* the first deadline, or the eventfd is readable. A socket handed over in *)
(* the middle of the unlocked look at m_scheduler is what could break it.  *)
NoLostWakeup ==
  pollPc = "epoll_wait" /\ lock \notin Clients /\ eventfd = {} =>
    \A s \in Sockets : wakeAt <= deadline[s]

(* What epoll reported of a socket reaches the loop entirely: it is never  *)
(* merged away by insert because an older event of the socket is in        *)
(* m_out_events. After EPOLLONESHOT nobody would report it again.          *)
EveryReportIsDispatched ==
  [][\A s \in Sockets :
       batch[s] # {} /\ pollPc' = "schedule" /\ s \in active' =>
         ActionsOf(batch[s]) \subseteq out'[s].action]_rvars

Ended == pc \in {"done", "thrown"} \/ failed # "none"

(* stop ends run, wherever the loop is and whatever the callbacks do: the  *)
(* flag is set before the signal that wakes epoll_wait up, so the round    *)
(* that reads STOP is the last.                                            *)
StopEndsRun == m_stop ~> Ended

(* A socket whose deadline comes is closed, unless activity or an update   *)
(* has moved the deadline behind the bounded horizon of the model, or run  *)
(* has ended.                                                              *)
DeadlinesAreServed ==
  \A s \in Sockets :
    s \in active /\ deadline[s] <= MaxTime
      ~> \/ onClose[s] = 1
         \/ deadline[s] \in MaxTime + 1 .. INVALID_TIME - 1
         \/ Ended

(* Everything a Reactor does with its poller is among what Poller allows   *)
(* its callers, so what holds for any caller holds here.                   *)
ImplementsPoller == PollerSpec
=============================================================================
