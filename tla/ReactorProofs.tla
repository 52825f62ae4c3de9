----------------------------- MODULE ReactorProofs -----------------------------
(***************************************************************************)
(* Proofs about Reactor, for every set of sockets and threads, every mask  *)
(* and step and every bound: a Reactor is one of the callers Poller was    *)
(* specified for, on_close is called once, a closed socket is forgotten,   *)
(* and, with finite timeouts, no idle socket is, nor slept through.        *)
(***************************************************************************)
EXTENDS ReactorInThread, PollerProofs

Events == [socket : Sockets, action : SUBSET Actions, reason : SUBSET Reasons]
Closings == [at : ClosingSteps, socket : Sockets]

LEMMA ClosingCases ==
  ASSUME SocketTypeOK
  PROVE  \/ closing = NotClosing /\ closing.at = "idle" /\ closing.socket \notin Sockets
         \/ /\ closing # NotClosing /\ closing.at \in ClosingSteps /\ closing.at # "idle"
            /\ closing.socket \in Sockets
  BY SocketAssumption DEF SocketTypeOK, NotClosing, ClosingSteps

LEMMA CurrentCases ==
  ASSUME ReactorTypeOK
  PROVE  \/ /\ current = NoCurrent /\ current.socket \notin Sockets
            /\ current.action = {} /\ current.reason = {}
         \/ current # NoCurrent /\ current \in Events /\ current.socket \in Sockets
  BY SocketAssumption DEF ReactorTypeOK, NoCurrent, Events

-----------------------------------------------------------------------------
(* Where the loop is. *)

InEvent == {"dispatch", "accept", "callback", "update"}

(* Who has the lock and for what, and that the loop is in poll, in an event*)
(* or in a close of a socket, never in two of them. After an assertion has *)
(* failed nothing moves, and nothing of this is needed.                    *)
ControlInv ==
  failed = "none" =>
    /\ pc = "poll" <=> pollPc # "idle"
    /\ lock = LoopThread <=> pollPc = "schedule" \/ pc = "update" \/ closing.at = "remove_socket"
    /\ call = "update_socket" <=> lock \in Clients \/ pc = "update"
    /\ call = "remove_socket" <=> closing.at = "remove_socket"
    /\ closing # NotClosing => pc \in {"dispatch", "callback"}
    /\ current # NoCurrent <=> pc \in InEvent
    /\ closing # NotClosing /\ pc = "dispatch" =>
         closing.socket = current.socket /\ current.action = {}

LEMMA ControlInit == ReactorInit => ControlInv
  BY ThreadAssumption
     DEF ReactorInit, PollerInit, SocketInit, ControlInv, NotClosing, InEvent, Threads

(* The steps of the loop that neither the poller nor a socket sees.        *)
QuietStep ==
  \/ m_stop /\ check_stop
  \/ no_more_events
  \/ \E action \in {"READ", "WRITE"} : dispatch_callback(action)
  \/ dispatch_accept \/ accept_connection \/ accept_fails \/ dispatch_write_throws
  \/ dispatch_close /\ state[current.socket] = "INVALID"
  \/ dispatched \/ callback_return \/ callback_throw

LEMMA QuietFacts ==
  ASSUME ReactorTypeOK, ControlInv, failed = "none", QuietStep
  PROVE  /\ UNCHANGED <<pollerVars, socketVars, servers, m_stop, stopping>>
         /\ pollPc = "idle" /\ closing = NotClosing
         /\ pc \in {"while", "get_next_event"} \cup (InEvent \ {"update"})
         /\ pc' \in {"done", "while", "get_next_event"} \cup (InEvent \ {"update"})
         /\ pc = "while" => pc' = "done"
         /\ pc = "get_next_event" => pc' = "while"
         /\ pc' = "while" => \A s \in Sockets : out[s] = NoEvent
         /\ current' \in Events \cup {NoCurrent}
         /\ current' # NoCurrent <=> pc' \in InEvent
         /\ pc \in InEvent /\ "CLOSE" \in current.action =>
              \/ current'.socket = current.socket /\ "CLOSE" \in current'.action
              \/ state[current.socket] = "INVALID"
<1> USE DEF InEvent
<1>1. /\ pc = "poll" <=> pollPc # "idle"
      /\ closing # NotClosing => pc \in {"dispatch", "callback"}
      /\ current # NoCurrent <=> pc \in InEvent
      /\ closing # NotClosing /\ pc = "dispatch" => current.action = {}
  BY DEF ControlInv
<1>2. /\ current # NoCurrent => current \in Events
      /\ pc \in {"while", "poll", "get_next_event", "dispatch", "accept", "callback", "update",
                 "done", "thrown"}
  BY CurrentCases DEF ReactorTypeOK
<1>3. NoCurrent \notin Events
  BY SocketAssumption DEF Events, NoCurrent
<1>4. CASE m_stop /\ check_stop
  BY <1>1, <1>4 DEF check_stop, NoCurrent
<1>5. CASE no_more_events
  BY <1>1, <1>5 DEF no_more_events, NoCurrent
<1>6. ASSUME NEW action \in {"READ", "WRITE"}, dispatch_callback(action)
      PROVE  /\ pc = "dispatch" /\ pc' = "callback" /\ closing = NotClosing
             /\ current' \in Events /\ current'.socket = current.socket
             /\ "CLOSE" \in current.action => "CLOSE" \in current'.action
             /\ UNCHANGED <<pollerVars, socketVars, servers, m_stop, stopping>>
  BY <1>1, <1>2, <1>6 DEF dispatch_callback, Events
<1>7. CASE \E action \in {"READ", "WRITE"} : dispatch_callback(action)
  BY <1>1, <1>3, <1>6, <1>7
<1>8. CASE dispatch_accept \/ accept_connection \/ callback_return
  BY <1>1, <1>2, <1>8 DEF dispatch_accept, accept_connection, callback_return, InCallback,
                          AfterCallback
<1>9. CASE accept_fails
  <2>1. /\ pc = "accept" /\ pc' = "dispatch" /\ closing = NotClosing
        /\ current' = [current EXCEPT !.action = @ \ {"READ"}]
        /\ UNCHANGED <<pollerVars, socketVars, servers, m_stop, stopping>>
    BY <1>1, <1>9 DEF accept_fails
  <2>2. /\ current' \in Events /\ current'.socket = current.socket
        /\ "CLOSE" \in current.action => "CLOSE" \in current'.action
    BY <1>1, <1>2, <2>1 DEF Events
  <2>3. QED
    BY <1>1, <1>3, <2>1, <2>2
<1>10. CASE dispatch_write_throws \/ callback_throw
  <2>1. /\ pc \in {"dispatch", "callback"} /\ pc' = "dispatch" /\ closing = NotClosing
        /\ current' = [current EXCEPT !.action = {"CLOSE"}, !.reason = {}]
        /\ UNCHANGED <<pollerVars, socketVars, servers, m_stop, stopping>>
    BY <1>1, <1>10 DEF dispatch_write_throws, callback_throw, InCallback, Caught
  <2>2. current' \in Events /\ current'.socket = current.socket /\ current'.action = {"CLOSE"}
    BY <1>1, <1>2, <2>1 DEF Events, Actions
  <2>3. QED
    BY <1>1, <1>3, <2>1, <2>2
<1>11. CASE dispatch_close /\ state[current.socket] = "INVALID"
  <2>1. /\ pc = "dispatch" /\ pc' = "dispatch" /\ closing = NotClosing
        /\ current' = [current EXCEPT !.action = {}]
        /\ UNCHANGED <<pollerVars, socketVars, servers, m_stop, stopping>>
    BY <1>1, <1>11 DEF dispatch_close
  <2>2. current' \in Events
    BY <1>1, <1>2, <2>1 DEF Events
  <2>3. QED
    BY <1>1, <1>3, <1>11, <2>1, <2>2
<1>12. CASE dispatched
  BY <1>1, <1>2, <1>12 DEF dispatched
<1>13. QED
  BY <1>4, <1>5, <1>7, <1>8, <1>9, <1>10, <1>11, <1>12 DEF QuietStep

(* The steps of a close. *)
BeginClose == callback_close \/ (dispatch_close /\ state[current.socket] # "INVALID")

LEMMA BeginCloseFacts ==
  ASSUME ReactorTypeOK, ControlInv, failed = "none", BeginClose
  PROVE  \E s \in Sockets :
           /\ state[s] # "INVALID" /\ state' = [state EXCEPT ![s] = "INVALID"]
           /\ closing = NotClosing
           /\ closing' = [at |-> IF s \in attached THEN "lock" ELSE "on_close", socket |-> s]
           /\ pc \in {"dispatch", "callback"} /\ pc' = pc /\ pollPc = "idle"
           /\ current # NoCurrent /\ current' \in Events /\ current'.socket = current.socket
           /\ current' = current \/ current.socket = s
           /\ pc = "dispatch" => s = current.socket /\ current'.action = {}
           /\ UNCHANGED <<pollerVars, attached, onClose, servers, m_stop, stopping>>
<1>1. /\ pc = "poll" <=> pollPc # "idle"
      /\ current # NoCurrent <=> pc \in InEvent
      /\ current # NoCurrent => current \in Events /\ current.socket \in Sockets
  BY CurrentCases DEF ControlInv
<1>2. CASE callback_close
  <2>1. PICK s \in Sockets : state[s] = "READY" /\ close(s)
    BY <1>2 DEF callback_close
  <2>2. pc = "callback" /\ closing = NotClosing /\ UNCHANGED reactorVars
    BY <1>2 DEF callback_close, InCallback
  <2>3. /\ current # NoCurrent /\ current' = current /\ current \in Events
        /\ pc' = pc /\ pollPc = "idle" /\ UNCHANGED <<servers, m_stop, stopping>>
    BY <1>1, <2>2 DEF InEvent, reactorVars
  <2>4. /\ state' = [state EXCEPT ![s] = "INVALID"]
        /\ closing' = [at |-> IF s \in attached THEN "lock" ELSE "on_close", socket |-> s]
        /\ UNCHANGED <<pollerVars, attached, onClose>>
    BY <2>1 DEF close
  <2>5. QED
    BY <2>1, <2>2, <2>3, <2>4
<1>3. CASE dispatch_close /\ state[current.socket] # "INVALID"
  <2> DEFINE s == current.socket
  <2>1. /\ pc = "dispatch" /\ closing = NotClosing
        /\ current' = [current EXCEPT !.action = {}]
        /\ close(s) /\ UNCHANGED <<servers, m_stop, stopping, pc>>
    BY <1>3 DEF dispatch_close
  <2>2. /\ current # NoCurrent /\ current \in Events /\ s \in Sockets /\ pollPc = "idle"
    BY <1>1, <2>1 DEF InEvent
  <2>3. current' \in Events /\ current'.socket = s /\ current'.action = {}
    BY <2>1, <2>2 DEF Events
  <2>4. /\ state' = [state EXCEPT ![s] = "INVALID"]
        /\ closing' = [at |-> IF s \in attached THEN "lock" ELSE "on_close", socket |-> s]
        /\ UNCHANGED <<pollerVars, attached, onClose>>
    BY <2>1 DEF close
  <2> HIDE DEF s
  <2>5. QED
    BY <1>3, <2>1, <2>2, <2>3, <2>4 DEF s
<1>4. QED
  BY <1>2, <1>3 DEF BeginClose

(* A close between its beginning and its end. *)
LEMMA ClosingFacts ==
  ASSUME ReactorTypeOK, ControlInv, failed = "none", closing.at # "idle"
  PROVE  /\ closing.socket \in Sockets /\ closing # NotClosing
         /\ pc \in {"dispatch", "callback"} /\ pollPc = "idle"
         /\ current # NoCurrent /\ current \in Events
         /\ lock = LoopThread <=> closing.at = "remove_socket"
         /\ call = "update_socket" <=> lock \in Clients
         /\ call = "remove_socket" <=> closing.at = "remove_socket"
         /\ pc = "dispatch" => closing.socket = current.socket /\ current.action = {}
  BY ClosingCases, CurrentCases DEF ReactorTypeOK, ControlInv, InEvent

LEMMA CloseLockFacts ==
  ASSUME ReactorTypeOK, ControlInv, failed = "none", close_lock, UNCHANGED reactorVars
  PROVE  /\ closing.at = "lock" /\ lock = NoThread /\ lock' = LoopThread /\ call' = "remove_socket"
         /\ closing' = [at |-> "remove_socket", socket |-> closing.socket]
         /\ UNCHANGED <<now, failed, tableVars, kernelVars, pollVars, state, attached, onClose,
                        reactorVars>>
  BY ClosingCases DEF ReactorTypeOK, close_lock, lock_for, SocketTypeOK, Closings

LEMMA CloseRemoveFacts ==
  ASSUME ReactorTypeOK, ControlInv, failed = "none", close_remove, UNCHANGED reactorVars
  PROVE  /\ closing.at = "remove_socket" /\ remove_socket(LoopThread, closing.socket)
         /\ closing' = [at |-> "reset", socket |-> closing.socket]
         /\ UNCHANGED <<state, attached, onClose, reactorVars>>
  BY ClosingCases DEF ReactorTypeOK, close_remove, SocketTypeOK, Closings

LEMMA CloseResetFacts ==
  ASSUME ReactorTypeOK, ControlInv, failed = "none", close_reset, UNCHANGED reactorVars
  PROVE  /\ closing.at = "reset" /\ attached' = attached \ {closing.socket}
         /\ closing' = [at |-> "on_close", socket |-> closing.socket]
         /\ UNCHANGED <<pollerVars, state, onClose, reactorVars>>
  BY ClosingCases DEF ReactorTypeOK, close_reset, SocketTypeOK, Closings

(* on_close has returned, or thrown. *)
EndClose == (close_callback /\ UNCHANGED reactorVars) \/ on_close_throws

LEMMA EndCloseFacts ==
  ASSUME ReactorTypeOK, ControlInv, failed = "none", EndClose
  PROVE  /\ closing.at = "on_close" /\ closing' = NotClosing
         /\ onClose' = [onClose EXCEPT ![closing.socket] = @ + 1]
         /\ UNCHANGED <<pollerVars, state, attached, servers, m_stop, stopping>>
         /\ \/ current' = current /\ pc' = pc
            \/ /\ pc' = "dispatch" /\ current' \in Events
               /\ current'.socket = current.socket /\ current'.action = {"CLOSE"}
            \/ pc' = "thrown" /\ current' = NoCurrent /\ current.socket = closing.socket
<1>1. /\ closing.at = "on_close" /\ closing' = NotClosing
      /\ onClose' = [onClose EXCEPT ![closing.socket] = @ + 1]
      /\ UNCHANGED <<pollerVars, state, attached, servers, m_stop, stopping>>
  BY DEF EndClose, close_callback, on_close_throws, reactorVars
<1>2. /\ current \in Events
      /\ pc = "dispatch" => closing.socket = current.socket
  BY <1>1, ClosingFacts
<1>3. \/ current' = current /\ pc' = pc
      \/ pc' = "dispatch" /\ current' = [current EXCEPT !.action = {"CLOSE"}, !.reason = {}]
      \/ pc' = "thrown" /\ current' = NoCurrent /\ pc = "dispatch"
  BY DEF EndClose, on_close_throws, Caught, InHandler, reactorVars
<1>4. LET c == [current EXCEPT !.action = {"CLOSE"}, !.reason = {}]
      IN  c \in Events /\ c.socket = current.socket /\ c.action = {"CLOSE"}
  BY <1>2 DEF Events, Actions
<1>5. QED
  BY <1>1, <1>2, <1>3, <1>4

(* Steps of others that leave the lock and the tables alone. *)
OutsideStep == send_update \/ stop \/ stop_signal \/ tick

LEMMA OutsideFacts ==
  ASSUME OutsideStep
  PROVE  /\ UNCHANGED <<failed, callVars, tableVars, epoll, room, pollPc, wakeAt, batch, signalled,
                        socketVars, servers, pc, current>>
         /\ \/ Tick /\ UNCHANGED <<eventfd, m_stop, stopping>>
            \/ UNCHANGED <<now, drift>>
         /\ eventfd \subseteq eventfd'
  BY DEF OutsideStep, send_update, stop, stop_signal, tick, signal, Signalled, Tick, pollerVars,
         callVars, tableVars, kernelVars, pollVars, reactorVars

(* The whole of ReactorNext, as the proofs below split it. *)
LEMMA StepCases ==
  ASSUME ReactorNext
  PROVE  \/ /\ failed = "none"
            /\ \/ QuietStep \/ BeginClose \/ EndClose \/ OutsideStep
               \/ (close_lock \/ close_remove \/ close_reset) /\ UNCHANGED reactorVars
               \/ ~m_stop /\ check_stop
               \/ poll \/ take_event \/ callback_update_lock \/ callback_update
               \/ \E c \in Clients : hand_over_lock(c) \/ hand_over(c)
         \/ failed # "none" /\ UNCHANGED rvars
<1>1. CASE failed = "none" /\ LoopStep
  <2>1. check_stop => QuietStep \/ (~m_stop /\ check_stop)
    BY DEF QuietStep
  <2>2. dispatch_close => QuietStep \/ BeginClose
    BY DEF QuietStep, BeginClose
  <2>3. close_step => \/ EndClose
                      \/ (close_lock \/ close_remove \/ close_reset) /\ UNCHANGED reactorVars
    BY DEF close_step, CloseStep, EndClose
  <2>4. on_close_throws => EndClose
    BY DEF EndClose
  <2>5. callback_close => BeginClose
    BY DEF BeginClose
  <2>6. \A action \in {"READ", "WRITE"} : dispatch_callback(action) => QuietStep
    BY DEF QuietStep
  <2>7. no_more_events \/ dispatch_accept \/ accept_connection \/ accept_fails
          \/ dispatch_write_throws \/ dispatched \/ callback_return \/ callback_throw => QuietStep
    BY DEF QuietStep
  <2>8. QED
    BY <1>1, <2>1, <2>2, <2>3, <2>4, <2>5, <2>6, <2>7 DEF LoopStep
<1>2. CASE failed = "none" /\ (ClientStep \/ tick)
  BY <1>2 DEF ClientStep, OutsideStep
<1>3. CASE Aborted /\ UNCHANGED <<socketVars, reactorVars>>
  BY <1>3 DEF Aborted, rvars
<1>4. QED
  BY <1>1, <1>2, <1>3 DEF ReactorNext

(* A Reactor calls its poller the way any caller may: poll and             *)
(* get_next_event on the thread of the loop, which has no lock then.       *)
LEMMA PollerStep ==
  ASSUME ReactorTypeOK, ControlInv, [ReactorNext]_rvars
  PROVE  [PollerNext]_pollerVars
<1> DEFINE Free == failed = "none" /\ LoopIsFree
<1>1. ASSUME NEW t \in Threads, NEW op \in {"update_socket", "remove_socket"}, lock_for(t, op),
             failed = "none", t = LoopThread => Free
      PROVE  PollerNext
  BY <1>1 DEF PollerNext
<1>2. ASSUME NEW t \in Threads, NEW s \in Sockets, NEW mask \in Masks, NEW step \in Steps,
             update_socket(t, s, mask, step), failed = "none"
      PROVE  PollerNext
  BY <1>2 DEF PollerNext
<1>3. ASSUME UNCHANGED rvars PROVE UNCHANGED pollerVars
  BY <1>3 DEF rvars
<1>4. ASSUME failed = "none", pollPc = "idle", lock # LoopThread PROVE Free
  BY <1>4 DEF LoopIsFree
<1>5. LoopThread \in Threads /\ \A c \in Clients : c \in Threads /\ c # LoopThread
  BY ThreadAssumption DEF Threads
<1>6. failed = "none" =>
        /\ pc = "poll" <=> pollPc # "idle"
        /\ lock = LoopThread <=> pollPc = "schedule" \/ pc = "update" \/ closing.at = "remove_socket"
        /\ closing # NotClosing => pc \in {"dispatch", "callback"}
  BY DEF ControlInv
<1>7. closing.at # "idle" => closing # NotClosing /\ closing.socket \in Sockets
  BY ClosingCases DEF ReactorTypeOK
<1>8. closing = NotClosing => closing.at # "remove_socket"
  BY DEF NotClosing
<1>9. NoThread # LoopThread
  BY ThreadAssumption DEF Threads
<1> HIDE DEF Free
<1>10. CASE failed = "none" /\ QuietStep
  BY <1>10, QuietFacts
<1>11. CASE failed = "none" /\ BeginClose
  BY <1>11, BeginCloseFacts
<1>12. CASE failed = "none" /\ EndClose
  BY <1>12, EndCloseFacts
<1>13. CASE failed = "none" /\ OutsideStep
  BY <1>13 DEF OutsideStep, send_update, stop, stop_signal, tick, PollerNext
<1>14. CASE failed = "none" /\ close_lock /\ UNCHANGED reactorVars
  BY <1>1, <1>4, <1>5, <1>6, <1>7, <1>9, <1>14 DEF close_lock, lock_for
<1>15. CASE failed = "none" /\ close_remove /\ UNCHANGED reactorVars
  BY <1>5, <1>7, <1>15 DEF close_remove, PollerNext
<1>16. CASE failed = "none" /\ close_reset /\ UNCHANGED reactorVars
  BY <1>16 DEF close_reset
<1>17. CASE failed = "none" /\ ~m_stop /\ check_stop
  <2>1. Free /\ start_poll
    BY <1>4, <1>6, <1>8, <1>17 DEF check_stop
  <2>2. QED
    BY <2>1 DEF PollerNext, Free
<1>18. CASE failed = "none" /\ poll
  BY <1>18 DEF poll, PollerNext
<1>19. CASE failed = "none" /\ take_event
  <2>1. Free /\ \E s \in Sockets : get_next_event(s)
    BY <1>4, <1>6, <1>8, <1>19 DEF take_event
  <2>2. QED
    BY <2>1 DEF PollerNext, Free
<1>20. CASE failed = "none" /\ callback_update_lock
  BY <1>1, <1>4, <1>5, <1>6, <1>9, <1>20 DEF callback_update_lock, lock_for, InCallback
<1>21. CASE failed = "none" /\ callback_update
  BY <1>2, <1>5, <1>21 DEF callback_update, Updatable, update_and_attach
<1>22. ASSUME NEW c \in Clients, failed = "none", hand_over_lock(c) \/ hand_over(c)
       PROVE  PollerNext
  BY <1>1, <1>2, <1>5, <1>22 DEF hand_over_lock, hand_over, update_and_attach
<1>23. QED
  BY <1>3, <1>10, <1>11, <1>12, <1>13, <1>14, <1>15, <1>16, <1>17, <1>18, <1>19, <1>20, <1>21,
     <1>22, StepCases

(* The steps that use the poller. *)
LEMMA PollFacts ==
  ASSUME ReactorTypeOK, ControlInv, failed = "none", poll
  PROVE  /\ pc = "poll" /\ pollPc # "idle" /\ closing = NotClosing /\ current = NoCurrent
         /\ PollStep
         /\ UNCHANGED <<socketVars, servers, m_stop, stopping, current>>
         /\ pc' = IF pollPc' = "idle" THEN "get_next_event" ELSE "poll"
  BY DEF poll, ControlInv, InEvent

(* What a step of poll does to the lock. *)
LEMMA PollLockFacts ==
  ASSUME PollStep, failed' = "none"
  PROVE  /\ call' = call
         /\ \/ lock' = lock /\ pollPc' \notin {"idle", "schedule"} /\ pollPc # "schedule"
            \/ lock = NoThread /\ lock' = LoopThread /\ pollPc' = "schedule" /\ pollPc = "process"
            \/ lock' = NoThread /\ pollPc' = "idle" /\ pollPc = "schedule"
<1>1. CASE get_wait_time
  <2>1. pollPc' \in {"process", "process_failure", "epoll_wait"}
    BY <1>1 DEF get_wait_time
  <2>2. QED
    BY <1>1, <2>1 DEF get_wait_time, callVars
<1>2. CASE epoll_wait_return \/ epoll_wait_interrupted
  BY <1>2 DEF epoll_wait_return, epoll_wait_interrupted, callVars
<1>3. CASE process_epoll_events
  BY <1>3 DEF process_epoll_events, Abort
<1>4. CASE process_failure
  BY <1>4 DEF process_failure, Abort
<1>5. CASE process_scheduler
  BY <1>5 DEF process_scheduler
<1>6. QED
  BY <1>1, <1>2, <1>3, <1>4, <1>5 DEF PollStep

LEMMA TakeEventFacts ==
  ASSUME ReactorTypeOK, ControlInv, failed = "none", take_event
  PROVE  /\ pc = "get_next_event" /\ pc' = "dispatch" /\ pollPc = "idle" /\ closing = NotClosing
         /\ UNCHANGED <<socketVars, servers, m_stop, stopping>>
         /\ \E s \in Sockets :
              /\ out[s] # NoEvent /\ out' = [out EXCEPT ![s] = NoEvent]
              /\ UNCHANGED <<now, failed, callVars, active, context, deadline, lastSeen,
                             kernelVars, pollVars>>
              /\ current' = [socket |-> s, action |-> out[s].action, reason |-> out[s].reason]
              /\ current' \in Events
<1>1. PICK s \in Sockets :
        /\ get_next_event(s)
        /\ current' = [socket |-> s, action |-> out[s].action, reason |-> out[s].reason]
  BY DEF take_event
<1>2. pc = "get_next_event" /\ pc' = "dispatch" /\ UNCHANGED <<socketVars, servers, m_stop, stopping>>
  BY DEF take_event
<1>3. pollPc = "idle" /\ closing = NotClosing /\ call # "remove_socket"
  <2>1. closing = NotClosing
    BY <1>2 DEF ControlInv
  <2>2. closing.at # "remove_socket"
    BY <2>1 DEF NotClosing
  <2>3. QED
    BY <1>2, <2>1, <2>2 DEF ControlInv
<1>4. /\ out[s] # NoEvent /\ out' = [out EXCEPT ![s] = NoEvent]
      /\ UNCHANGED <<now, failed, callVars, active, context, deadline, lastSeen, kernelVars, pollVars>>
  BY <1>1, <1>3 DEF get_next_event
<1>5. current' \in Events
  BY <1>1 DEF Events, ReactorTypeOK, PollerTypeOK
<1>6. QED
  BY <1>1, <1>2, <1>3, <1>4, <1>5

LEMMA CallbackLockFacts ==
  ASSUME ReactorTypeOK, ControlInv, failed = "none", callback_update_lock
  PROVE  /\ pc = "callback" /\ pc' = "update" /\ closing = NotClosing
         /\ pollPc = "idle" /\ current # NoCurrent
         /\ lock = NoThread /\ lock' = LoopThread /\ call' = "update_socket"
         /\ UNCHANGED <<now, failed, tableVars, kernelVars, pollVars,
                        socketVars, servers, m_stop, stopping, current>>
<1>1. pc = "callback" /\ closing = NotClosing
  BY DEF callback_update_lock, InCallback
<1>2. QED
  BY <1>1 DEF callback_update_lock, lock_for, ControlInv, InEvent

(* A socket that has no poller becomes known; the others only get a new    *)
(* interest and a new timeout.                                             *)
LEMMA UpdateFacts ==
  ASSUME ReactorTypeOK, NEW t \in Threads, NEW s \in Sockets, NEW mask \in Masks,
         NEW step \in Steps, update_and_attach(t, s, mask, step)
  PROVE  /\ lock = t /\ call = "update_socket"
         /\ attached' = attached \cup (active' \ active)
         /\ state' = [state EXCEPT ![s] = "READY"]
         /\ UNCHANGED <<closing, onClose, now, out, pollVars>>
         /\ \/ /\ failed' = "has_timeout" /\ ScheduleFails(s, mask, step)
               /\ UNCHANGED <<callVars, tableVars, kernelVars>>
            \/ /\ failed' = failed /\ lock' = NoThread /\ call' = "none"
               /\ ~ScheduleFails(s, mask, step) /\ Schedule(s, mask, step)
               /\ active' = active \cup {s}
               /\ \/ s \in active /\ epoll' = EpollMod(s, mask) /\ eventfd' = eventfd
                  \/ /\ s \notin active /\ epoll' = EpollAdd(s, mask)
                     /\ eventfd' = eventfd \cup {"UPDATE"}
<1>1. update_socket(t, s, mask, step)
  BY DEF update_and_attach
<1>2. CASE ScheduleFails(s, mask, step)
  <2>1. Abort("has_timeout")
    BY <1>1, <1>2 DEF update_socket
  <2>2. QED
    BY <1>1, <1>2, <2>1 DEF update_and_attach, update_socket, Abort, tableVars
<1>3. CASE ~ScheduleFails(s, mask, step)
  <2>1. /\ Schedule(s, mask, step) /\ lock' = NoThread /\ call' = "none"
        /\ UNCHANGED <<now, failed, out, pollVars>>
        /\ lock = t /\ call = "update_socket"
    BY <1>1, <1>3 DEF update_socket
  <2>2. CASE s \in active
    BY <1>1, <1>3, <2>1, <2>2 DEF update_and_attach, update_socket
  <2>3. CASE s \notin active
    BY <1>1, <1>3, <2>1, <2>3 DEF update_and_attach, update_socket, Signalled
  <2>4. QED
    BY <2>2, <2>3
<1>4. QED
  BY <1>2, <1>3

LEMMA CallbackUpdateFacts ==
  ASSUME ReactorTypeOK, ControlInv, failed = "none", callback_update
  PROVE  /\ pc = "update" /\ pc' = "callback" /\ closing = NotClosing
         /\ pollPc = "idle" /\ current # NoCurrent
         /\ UNCHANGED <<servers, m_stop, stopping, current>>
         /\ \E s \in Sockets, mask \in Masks, step \in Steps :
              /\ (state[s] = "READY" /\ s \in attached) \/ state[s] = "CREATED"
              /\ update_and_attach(LoopThread, s, mask, step)
<1>1. pc = "update" /\ pc' = "callback" /\ UNCHANGED <<servers, m_stop, stopping, current>>
  BY DEF callback_update
<1>2. closing = NotClosing /\ pollPc = "idle" /\ current # NoCurrent
  BY <1>1 DEF ControlInv, InEvent
<1>3. PICK s \in Updatable, mask \in Masks, step \in Steps :
        update_and_attach(LoopThread, s, mask, step)
  BY DEF callback_update
<1>4. s \in Sockets /\ ((state[s] = "READY" /\ s \in attached) \/ state[s] = "CREATED")
  BY DEF Updatable
<1>5. QED
  BY <1>1, <1>2, <1>3, <1>4

LEMMA HandOverFacts ==
  ASSUME ReactorTypeOK, ControlInv, failed = "none", NEW c \in Clients, hand_over(c)
  PROVE  /\ UNCHANGED reactorVars /\ c \in Threads /\ lock = c
         /\ pc # "update" /\ pollPc # "schedule" /\ closing.at # "remove_socket"
         /\ \E s \in Sockets, mask \in Masks, step \in Steps :
              state[s] = "CREATED" /\ update_and_attach(c, s, mask, step)
<1>1. PICK s \in Sockets, mask \in Masks, step \in Steps :
        state[s] = "CREATED" /\ update_and_attach(c, s, mask, step)
  BY DEF hand_over
<1>2. c \in Threads /\ c # LoopThread
  BY ThreadAssumption DEF Threads
<1>3. lock = c
  BY <1>1, <1>2, UpdateFacts
<1>4. QED
  BY <1>1, <1>2, <1>3 DEF hand_over, ControlInv

LEMMA ControlStep ==
  ASSUME ReactorTypeOK, ControlInv, [ReactorNext]_rvars
  PROVE  ControlInv'
<1> SUFFICES ASSUME failed' = "none"
             PROVE  /\ pc' = "poll" <=> pollPc' # "idle"
                    /\ lock' = LoopThread <=> \/ pollPc' = "schedule" \/ pc' = "update"
                                              \/ closing'.at = "remove_socket"
                    /\ call' = "update_socket" <=> lock' \in Clients \/ pc' = "update"
                    /\ call' = "remove_socket" <=> closing'.at = "remove_socket"
                    /\ closing' # NotClosing => pc' \in {"dispatch", "callback"}
                    /\ current' # NoCurrent <=> pc' \in InEvent
                    /\ closing' # NotClosing /\ pc' = "dispatch" =>
                         closing'.socket = current'.socket /\ current'.action = {}
  BY DEF ControlInv
<1> USE DEF InEvent
<1>1. /\ NotClosing.at = "idle"
      /\ closing # NotClosing => closing.at # "idle" /\ closing.socket \in Sockets
      /\ \A at \in ClosingSteps : \A x : (at # "idle" => [at |-> at, socket |-> x] # NotClosing)
      /\ NoCurrent \notin Events
      /\ NoThread # LoopThread /\ LoopThread \notin Clients /\ NoThread \notin Clients
  BY ClosingCases, SocketAssumption, ThreadAssumption
     DEF ReactorTypeOK, NotClosing, ClosingSteps, Events, NoCurrent, Threads
<1>2. CASE failed # "none" \/ UNCHANGED rvars
  <2>1. UNCHANGED rvars
    BY <1>2, StepCases
  <2>2. QED
    BY <1>2, <2>1 DEF rvars, pollerVars, callVars, pollVars, socketVars, reactorVars, ControlInv
<1>3. CASE failed = "none" /\ ReactorNext
  <2>1. /\ pc = "poll" <=> pollPc # "idle"
        /\ lock = LoopThread <=> pollPc = "schedule" \/ pc = "update" \/ closing.at = "remove_socket"
        /\ call = "update_socket" <=> lock \in Clients \/ pc = "update"
        /\ call = "remove_socket" <=> closing.at = "remove_socket"
        /\ closing # NotClosing => pc \in {"dispatch", "callback"}
        /\ current # NoCurrent <=> pc \in InEvent
        /\ closing # NotClosing /\ pc = "dispatch" =>
             closing.socket = current.socket /\ current.action = {}
    BY <1>3 DEF ControlInv
  <2>2. CASE QuietStep
    <3>1. UNCHANGED <<pollPc, lock, call, closing>>
      BY <1>3, <2>2, QuietFacts DEF pollerVars, callVars, pollVars, socketVars
    <3>2. QED
      BY <1>1, <1>3, <2>1, <2>2, <3>1, QuietFacts
  <2>3. CASE BeginClose
    <3>1. PICK s \in Sockets :
           /\ closing = NotClosing
           /\ closing' = [at |-> IF s \in attached THEN "lock" ELSE "on_close", socket |-> s]
           /\ pc \in {"dispatch", "callback"} /\ pc' = pc /\ pollPc = "idle"
           /\ current # NoCurrent /\ current' \in Events /\ current'.socket = current.socket
           /\ pc = "dispatch" => s = current.socket /\ current'.action = {}
           /\ UNCHANGED pollerVars
      BY <1>3, <2>3, BeginCloseFacts
    <3>2. /\ closing'.at \in {"lock", "on_close"} /\ closing'.socket = s /\ closing' # NotClosing
          /\ UNCHANGED <<pollPc, lock, call>>
      BY <1>1, <3>1 DEF pollerVars, callVars, pollVars, ClosingSteps
    <3>3. QED
      BY <1>1, <2>1, <3>1, <3>2
  <2>4. CASE EndClose
    <3>1. UNCHANGED <<pollPc, lock, call>> /\ closing # NotClosing /\ closing.at = "on_close"
          /\ closing' = NotClosing
      BY <1>1, <1>3, <2>4, EndCloseFacts DEF pollerVars, callVars, pollVars
    <3>2. QED
      BY <1>1, <1>3, <2>1, <2>4, <3>1, EndCloseFacts
  <2>5. CASE OutsideStep
    BY <2>1, <2>5, OutsideFacts DEF callVars, socketVars
  <2>6. CASE close_lock /\ UNCHANGED reactorVars
    <3>1. closing' # NotClosing /\ closing'.at = "remove_socket" /\ closing'.socket = closing.socket
      BY <1>1, <1>3, <2>6, CloseLockFacts DEF ClosingSteps
    <3>2. closing.at = "lock"
      BY <1>3, <2>6, CloseLockFacts
    <3>3. QED
      BY <1>1, <1>3, <2>1, <2>6, <3>1, <3>2, CloseLockFacts DEF reactorVars, pollVars
  <2>7. CASE close_remove /\ UNCHANGED reactorVars
    <3>1. /\ closing' # NotClosing /\ closing'.at = "reset" /\ closing'.socket = closing.socket
          /\ closing.at = "remove_socket"
      BY <1>1, <1>3, <2>7, CloseRemoveFacts DEF ClosingSteps
    <3>2. lock' = NoThread /\ call' = "none" /\ pollPc' = pollPc
      BY <1>3, <2>7, CloseRemoveFacts DEF remove_socket, pollVars
    <3>3. QED
      BY <1>1, <1>3, <2>1, <2>7, <3>1, <3>2 DEF reactorVars
  <2>8. CASE close_reset /\ UNCHANGED reactorVars
    <3>1. /\ closing' # NotClosing /\ closing'.at = "on_close" /\ closing'.socket = closing.socket
          /\ closing.at = "reset" /\ UNCHANGED <<pollPc, lock, call>>
      BY <1>1, <1>3, <2>8, CloseResetFacts DEF ClosingSteps, pollerVars, callVars, pollVars
    <3>2. QED
      BY <1>1, <2>1, <2>8, <3>1 DEF reactorVars
  <2>9. CASE ~m_stop /\ check_stop
    <3>1. /\ pc = "while" /\ pc' = "poll" /\ pollPc' = "wait_time" /\ pollPc = "idle"
          /\ UNCHANGED <<lock, call, closing, current>>
      BY <2>9 DEF check_stop, start_poll, callVars, socketVars
    <3>2. QED
      BY <1>1, <2>1, <3>1
  <2>10. CASE poll
    <3>1. PollStep /\ pc = "poll" /\ closing = NotClosing /\ closing' = closing
          /\ current' = current
          /\ pc' = IF pollPc' = "idle" THEN "get_next_event" ELSE "poll"
      BY <1>3, <2>10, PollFacts DEF socketVars
    <3>2. QED
      BY <1>1, <2>1, <3>1, PollLockFacts
  <2>11. CASE take_event
    <3>1. /\ pc = "get_next_event" /\ pc' = "dispatch" /\ closing = NotClosing /\ closing' = closing
          /\ current' \in Events /\ UNCHANGED <<pollPc, lock, call>>
      BY <1>3, <2>11, TakeEventFacts DEF socketVars, callVars, pollVars
    <3>2. QED
      BY <1>1, <2>1, <3>1
  <2>12. CASE callback_update_lock
    BY <1>1, <1>3, <2>1, <2>12, CallbackLockFacts DEF socketVars, pollVars
  <2>13. CASE callback_update
    <3>1. /\ pc = "update" /\ pc' = "callback" /\ closing = NotClosing /\ current' = current
          /\ \E s \in Sockets, mask \in Masks, step \in Steps :
               update_and_attach(LoopThread, s, mask, step)
      BY <1>3, <2>13, CallbackUpdateFacts
    <3>2. lock' = NoThread /\ call' = "none" /\ UNCHANGED <<closing, pollPc>>
      BY <3>1, UpdateFacts DEF pollVars, Threads
    <3>3. QED
      BY <1>1, <2>1, <3>1, <3>2
  <2>14. ASSUME NEW c \in Clients, hand_over_lock(c)
         PROVE  /\ UNCHANGED <<closing, current, pc, pollPc>>
                /\ lock = NoThread /\ lock' = c /\ call' = "update_socket"
    BY <2>14 DEF hand_over_lock, lock_for, socketVars, reactorVars, pollVars
  <2>15. ASSUME NEW c \in Clients, hand_over(c)
         PROVE  /\ UNCHANGED <<closing, current, pc, pollPc>>
                /\ lock = c /\ lock' = NoThread /\ call' = "none"
    <3>1. UNCHANGED <<current, pc>> /\ c \in Threads
      BY <1>3, <2>15, HandOverFacts DEF reactorVars
    <3>2. PICK s \in Sockets, mask \in Masks, step \in Steps : update_and_attach(c, s, mask, step)
      BY <2>15 DEF hand_over
    <3>3. QED
      BY <3>1, <3>2, UpdateFacts DEF pollVars
  <2>16. CASE \E c \in Clients : hand_over_lock(c) \/ hand_over(c)
    BY <1>1, <2>1, <2>14, <2>15, <2>16
  <2>17. QED
    BY <1>3, <2>2, <2>3, <2>4, <2>5, <2>6, <2>7, <2>8, <2>9, <2>10, <2>11, <2>12, <2>13, <2>16,
       StepCases
<1>4. QED
  BY <1>2, <1>3

-----------------------------------------------------------------------------
(* Types, and the count of the calls of on_close. *)

(* A socket that is being closed is marked, so that a second close of it   *)
(* does nothing.                                                           *)
CloseInv == /\ closing # NotClosing => state[closing.socket] = "INVALID"
            /\ OnCloseOnce

BasicInv == ReactorTypeOK /\ ControlInv /\ CloseInv

(* What a step does to the life of the sockets. *)
SocketChange ==
  \/ UNCHANGED <<state, attached, closing, onClose>>
  \/ \E s \in Sockets :                                              \* a close begins
       /\ state[s] # "INVALID" /\ state' = [state EXCEPT ![s] = "INVALID"]
       /\ closing = NotClosing
       /\ closing' = [at |-> IF s \in attached THEN "lock" ELSE "on_close", socket |-> s]
       /\ UNCHANGED <<attached, onClose>>
  \/ /\ closing # NotClosing /\ closing' # NotClosing                \* ... goes on
     /\ closing' \in Closings /\ closing'.socket = closing.socket
     /\ attached' \subseteq attached /\ UNCHANGED <<state, onClose>>
  \/ /\ closing # NotClosing /\ closing' = NotClosing                \* ... and ends
     /\ onClose' = [onClose EXCEPT ![closing.socket] = @ + 1]
     /\ UNCHANGED <<state, attached>>
  \/ \E s \in Sockets :                                              \* an update
       /\ state[s] # "INVALID" /\ state' = [state EXCEPT ![s] = "READY"]
       /\ attached' = attached \cup (active' \ active)
       /\ UNCHANGED <<closing, onClose>>

(* ... and to what run keeps. *)
RunChange ==
  /\ servers' = servers
  /\ m_stop' \in BOOLEAN /\ stopping' \in BOOLEAN
  /\ pc' \in {"while", "poll", "get_next_event", "dispatch", "accept", "callback", "update",
              "done", "thrown"}
  /\ current' \in Events \cup {NoCurrent}

LEMMA Changes ==
  ASSUME ReactorTypeOK, ControlInv, [ReactorNext]_rvars
  PROVE  SocketChange /\ RunChange
<1>1. /\ m_stop \in BOOLEAN /\ stopping \in BOOLEAN
      /\ pc \in {"while", "poll", "get_next_event", "dispatch", "accept", "callback", "update",
                 "done", "thrown"}
      /\ current \in Events \cup {NoCurrent}
      /\ closing # NotClosing <=> closing.at # "idle"
  BY ClosingCases DEF ReactorTypeOK, Events
<1>2. \A at \in ClosingSteps, s \in Sockets :
        LET c == [at |-> at, socket |-> s] IN c # NotClosing /\ c \in Closings /\ c.socket = s
  BY SocketAssumption DEF NotClosing, Closings
<1>3. UNCHANGED reactorVars => RunChange
  BY <1>1 DEF reactorVars, RunChange
<1>4. UNCHANGED socketVars => SocketChange
  BY DEF socketVars, SocketChange
<1>5. CASE UNCHANGED rvars
  BY <1>3, <1>4, <1>5 DEF rvars
<1>6. CASE failed = "none" /\ QuietStep
  BY <1>1, <1>4, <1>6, QuietFacts DEF RunChange, InEvent
<1>7. CASE failed = "none" /\ BeginClose
  <2>1. SocketChange
    BY <1>7, BeginCloseFacts DEF SocketChange
  <2>2. RunChange
    BY <1>1, <1>7, BeginCloseFacts DEF RunChange
  <2>3. QED
    BY <2>1, <2>2
<1>8. CASE failed = "none" /\ EndClose
  <2>1. SocketChange
    BY <1>1, <1>8, EndCloseFacts DEF SocketChange
  <2>2. RunChange
    BY <1>1, <1>8, EndCloseFacts DEF RunChange
  <2>3. QED
    BY <2>1, <2>2
<1>9. CASE failed = "none" /\ OutsideStep
  <2>1. RunChange
    BY <1>1, <1>9, OutsideFacts
       DEF RunChange, OutsideStep, send_update, stop, stop_signal, tick, reactorVars
  <2>2. QED
    BY <1>4, <1>9, <2>1, OutsideFacts
<1>10. CASE failed = "none" /\ (close_lock \/ close_remove \/ close_reset) /\ UNCHANGED reactorVars
  <2>1. closing # NotClosing /\ closing.socket \in Sockets
    BY <1>1, <1>10, ClosingCases DEF ReactorTypeOK, close_lock, close_remove, close_reset
  <2>2. \E at \in ClosingSteps : closing' = [at |-> at, socket |-> closing.socket]
    BY <1>10, CloseLockFacts, CloseRemoveFacts, CloseResetFacts DEF ClosingSteps
  <2>3. /\ closing' # NotClosing /\ closing' \in Closings /\ closing'.socket = closing.socket
    BY <1>2, <2>1, <2>2
  <2>4. attached' \subseteq attached /\ UNCHANGED <<state, onClose>>
    BY <1>10, CloseLockFacts, CloseRemoveFacts, CloseResetFacts
  <2>5. QED
    BY <1>3, <1>10, <2>1, <2>3, <2>4 DEF SocketChange
<1>11. CASE failed = "none" /\ ~m_stop /\ check_stop
  BY <1>1, <1>4, <1>11 DEF check_stop, RunChange
<1>12. CASE failed = "none" /\ poll
  BY <1>1, <1>4, <1>12, PollFacts DEF RunChange
<1>13. CASE failed = "none" /\ take_event
  BY <1>1, <1>4, <1>13, TakeEventFacts DEF RunChange
<1>14. CASE failed = "none" /\ callback_update_lock
  BY <1>1, <1>4, <1>14, CallbackLockFacts DEF RunChange
<1>15. ASSUME NEW t \in Threads, NEW s \in Sockets, NEW mask \in Masks, NEW step \in Steps,
              update_and_attach(t, s, mask, step), state[s] # "INVALID"
       PROVE  SocketChange
  BY <1>15, UpdateFacts DEF SocketChange
<1>16. CASE failed = "none" /\ callback_update
  <2>1. RunChange
    BY <1>1, <1>16, CallbackUpdateFacts DEF RunChange
  <2>2. QED
    BY <1>15, <1>16, <2>1, CallbackUpdateFacts DEF Threads
<1>17. ASSUME NEW c \in Clients, failed = "none", hand_over_lock(c)
       PROVE  SocketChange /\ RunChange
  BY <1>3, <1>4, <1>17 DEF hand_over_lock
<1>18. ASSUME NEW c \in Clients, failed = "none", hand_over(c)
       PROVE  SocketChange /\ RunChange
  BY <1>3, <1>15, <1>18, HandOverFacts
<1>19. QED
  BY <1>5, <1>6, <1>7, <1>8, <1>9, <1>10, <1>11, <1>12, <1>13, <1>14, <1>16, <1>17, <1>18,
     StepCases

LEMMA ReactorTypeStep ==
  ASSUME ReactorTypeOK, ControlInv, [ReactorNext]_rvars
  PROVE  ReactorTypeOK'
<1>1. PollerTypeOK'
  BY PollerStep, TypeNext DEF ReactorTypeOK
<1>2. SocketChange /\ RunChange
  BY Changes
<1>3. /\ state \in [Sockets -> {"CREATED", "READY", "INVALID"}]
      /\ attached \subseteq Sockets
      /\ closing \in Closings \cup {NotClosing}
      /\ onClose \in [Sockets -> Nat]
  BY DEF ReactorTypeOK, SocketTypeOK, Closings
<1>4. active' \subseteq Sockets
  BY <1>1 DEF PollerTypeOK
<1>5. /\ state' \in [Sockets -> {"CREATED", "READY", "INVALID"}]
      /\ attached' \subseteq Sockets
  BY <1>2, <1>3, <1>4 DEF SocketChange
<1>6. closing' \in Closings \cup {NotClosing}
  BY <1>2, <1>3 DEF SocketChange, Closings, ClosingSteps
<1>7. onClose' \in [Sockets -> Nat]
  BY <1>2, <1>3 DEF SocketChange
<1>8. SocketTypeOK'
  BY <1>5, <1>6, <1>7 DEF SocketTypeOK, Closings, NotClosing
<1>9. QED
  BY <1>1, <1>2, <1>8 DEF ReactorTypeOK, RunChange, Events, NoCurrent

LEMMA CloseInvStep ==
  ASSUME ReactorTypeOK, SocketChange, CloseInv
  PROVE  CloseInv'
<1>1. /\ state \in [Sockets -> {"CREATED", "READY", "INVALID"}]
      /\ onClose \in [Sockets -> Nat]
      /\ closing # NotClosing => closing.socket \in Sockets /\ state[closing.socket] = "INVALID"
      /\ \A s \in Sockets :
           onClose[s] = IF state[s] = "INVALID" /\ closing.socket # s THEN 1 ELSE 0
      /\ NotClosing.socket \notin Sockets
  BY ClosingCases, SocketAssumption
     DEF ReactorTypeOK, SocketTypeOK, CloseInv, OnCloseOnce, NotClosing
<1>2. CASE UNCHANGED <<state, attached, closing, onClose>>
  BY <1>2 DEF CloseInv, OnCloseOnce, NotClosing
<1>3. ASSUME NEW s \in Sockets,
             state[s] # "INVALID", state' = [state EXCEPT ![s] = "INVALID"],
             closing = NotClosing, closing'.socket = s, onClose' = onClose
      PROVE  CloseInv'
  BY <1>1, <1>3 DEF CloseInv, OnCloseOnce
<1>4. CASE /\ closing # NotClosing /\ closing' # NotClosing
           /\ closing'.socket = closing.socket /\ UNCHANGED <<state, onClose>>
  BY <1>1, <1>4 DEF CloseInv, OnCloseOnce
<1>5. CASE /\ closing # NotClosing /\ closing' = NotClosing
           /\ onClose' = [onClose EXCEPT ![closing.socket] = @ + 1] /\ state' = state
  <2>1. closing'.socket \notin Sockets
    BY <1>1, <1>5
  <2>2. \A s \in Sockets : onClose'[s] = IF state'[s] = "INVALID" THEN 1 ELSE 0
    BY <1>1, <1>5
  <2>3. QED
    BY <1>5, <2>1, <2>2 DEF CloseInv, OnCloseOnce, NotClosing
<1>6. ASSUME NEW s \in Sockets,
             state[s] # "INVALID", state' = [state EXCEPT ![s] = "READY"],
             UNCHANGED <<closing, onClose>>
      PROVE  CloseInv'
  BY <1>1, <1>6 DEF CloseInv, OnCloseOnce, NotClosing
<1>7. QED
  BY <1>2, <1>3, <1>4, <1>5, <1>6 DEF SocketChange

LEMMA BasicInit == ReactorInit => BasicInv
<1> SUFFICES ASSUME ReactorInit PROVE BasicInv
  OBVIOUS
<1>1. PollerTypeOK
  BY TypeInit DEF ReactorInit
<1>2. SocketTypeOK /\ CloseInv
  BY DEF ReactorInit, SocketInit, SocketTypeOK, CloseInv, OnCloseOnce
<1>3. ReactorTypeOK
  BY <1>1, <1>2 DEF ReactorInit, ReactorTypeOK
<1>4. QED
  BY <1>2, <1>3, ControlInit DEF BasicInv

LEMMA BasicStep ==
  ASSUME BasicInv, [ReactorNext]_rvars
  PROVE  BasicInv'
  BY ReactorTypeStep, ControlStep, Changes, CloseInvStep DEF BasicInv

LEMMA BasicAlways == ReactorSpec => []BasicInv
  BY BasicInit, BasicStep, PTL DEF ReactorSpec

(* Type correctness of the reactor, its sockets and its poller.            *)
THEOREM ReactorTypeCorrect == ReactorSpec => []ReactorTypeOK
<1>1. BasicInv => ReactorTypeOK
  BY DEF BasicInv
<1>2. QED
  BY BasicAlways, <1>1, PTL

(* Whatever callbacks, exceptions and other threads do, and in whatever    *)
(* order, on_close is called once for each closed socket: the mark of the  *)
(* first close is set before anything else can ask for a second one.       *)
THEOREM ClosedOnceEach == ReactorSpec => []OnCloseOnce
<1>1. BasicInv => OnCloseOnce
  BY DEF BasicInv, CloseInv
<1>2. QED
  BY BasicAlways, <1>1, PTL

(* A Reactor is one of the callers of Poller: each of its steps is a step  *)
(* Poller allows, or leaves the poller alone. So whatever PollerProofs     *)
(* shows of Poller holds of the poller of a Reactor.                       *)
THEOREM ReactorImplementsPoller == ReactorSpec => ImplementsPoller
<1>1. ReactorInit => PollerInit
  BY DEF ReactorInit
<1>2. BasicInv /\ [ReactorNext]_rvars => [PollerNext]_pollerVars
  BY PollerStep DEF BasicInv
<1>3. QED
  BY BasicAlways, <1>1, <1>2, PTL DEF ReactorSpec, ImplementsPoller, PollerSpec

(* A ReactorInThread moves its Reactor only as ReactorNext allows, so every*)
(* theorem about ReactorSpec here holds of it too.                         *)
THEOREM ThreadImplementsReactor == FairThreadSpec => ReactorSpec
<1>1. ThreadInit => ReactorInit
  BY DEF ThreadInit
<1>2. [ThreadNext]_tvars => [ReactorNext]_rvars
  <2> SUFFICES ASSUME [ThreadNext]_tvars PROVE [ReactorNext]_rvars
    OBVIOUS
  <2>1. CASE failed = "none" /\ Running /\ LoopStep
    BY <2>1 DEF ReactorNext
  <2>2. CASE failed = "none" /\ Used /\ ClientStep
    BY <2>2 DEF ReactorNext
  <2>3. CASE failed = "none" /\ StoppedByCallback
    BY <2>3 DEF StoppedByCallback, ReactorNext, ClientStep
  <2>4. CASE failed = "none" /\ tick
    BY <2>4 DEF ReactorNext
  <2>5. CASE add_run \/ add_stop \/ destroy \/ join \/ take_task \/ run_ends \/ stop_
    BY <2>5 DEF add_run, add_stop, destroy, join, take_task, run_ends, stop_
  <2>6. CASE Aborted /\ UNCHANGED <<socketVars, reactorVars, threadVars>>
    BY <2>6 DEF ReactorNext
  <2>7. CASE Destroyed \/ UNCHANGED tvars
    BY <2>7 DEF Destroyed, tvars
  <2>8. QED
    BY <2>1, <2>2, <2>3, <2>4, <2>5, <2>6, <2>7 DEF ThreadNext
<1>3. QED
  BY <1>1, <1>2, PTL DEF FairThreadSpec, ReactorSpec

-----------------------------------------------------------------------------
(* What is left of a closed socket. *)

Forgotten(s) == /\ s \notin active
                /\ out[s] = NoEvent
                /\ deadline[s] = INVALID_TIME
                /\ ~epoll[s].registered

Drained == \A s \in Sockets : out[s] = NoEvent

(* From the STOP in process_epoll_events on the poller knows fewer sockets *)
(* than have it as their m_poller; but then this round is the last.        *)
Stopped ==
  /\ m_stop /\ Drained /\ closing = NotClosing
  /\ \/ pc = "poll" /\ pollPc = "schedule" /\ active = {}
     \/ pc \in {"get_next_event", "while", "done"}

(* The socket and the poller agree whether the one has the other. *)
Attached(s) ==
  /\ s \notin attached => Forgotten(s)
  /\ state[s] = "CREATED" => s \notin attached
  /\ state[s] = "READY" => s \in attached
  /\ state[s] = "INVALID" => (s \in attached <=> closing.socket = s /\ closing.at # "on_close")
  /\ closing.socket = s /\ closing.at = "reset" => Forgotten(s)
  /\ s \in attached \ active => Stopped \/ (closing.socket = s /\ closing.at = "reset")
  /\ epoll[s].armed => epoll[s].registered
  /\ out[s] # NoEvent => s \in active

(* An epoll report on its way to the event table. *)
Reporting(s) ==
  /\ pollPc \notin {"process", "schedule"} => batch[s] = {}
  /\ pollPc = "process" /\ batch[s] # {} => s \in active
  /\ pollPc = "schedule" /\ s \in active => ActionsOf(batch[s]) \subseteq out[s].action

(* STOP is sent by stop only, and every event is taken before the next     *)
(* poll.                                                                   *)
RoundInv == /\ stopping \/ "STOP" \in eventfd => m_stop
            /\ pc = "while" \/ pollPc \notin {"idle", "schedule"} => Drained

LifeInv ==
  failed = "none" => RoundInv /\ \A s \in Sockets : Attached(s) /\ Reporting(s)

SameSocket(s) ==
  /\ s \in attached' <=> s \in attached
  /\ s \in active' <=> s \in active
  /\ out'[s] = out[s] /\ deadline'[s] = deadline[s] /\ epoll'[s] = epoll[s]
  /\ state'[s] = state[s]

LEMMA AttachedSame ==
  ASSUME NEW s \in Sockets, Attached(s), SameSocket(s), closing' = closing, Stopped => Stopped'
  PROVE  Attached(s)'
  BY DEF Attached, SameSocket, Forgotten

LEMMA LifeInit == ReactorInit => LifeInv
<1> SUFFICES ASSUME ReactorInit PROVE RoundInv /\ \A s \in Sockets : Attached(s) /\ Reporting(s)
  BY DEF LifeInv
<1>1. PollerInit /\ SocketInit
  BY DEF ReactorInit
<1>2. \A s \in Sockets : Forgotten(s) /\ ~epoll[s].armed
  BY <1>1 DEF PollerInit, Forgotten, NotRegistered
<1>3. \A s \in Sockets : Attached(s)
  BY <1>1, <1>2 DEF SocketInit, Attached, Forgotten
<1>4. \A s \in Sockets : Reporting(s)
  BY <1>1 DEF PollerInit, Reporting
<1>5. RoundInv
  BY <1>1 DEF ReactorInit, PollerInit, RoundInv, Drained
<1>6. QED
  BY <1>3, <1>4, <1>5

(* Before a step: what the invariant says as long as nothing has failed.   *)
Alive == BasicInv /\ LifeInv /\ failed = "none"

LEMMA AliveFacts ==
  ASSUME Alive
  PROVE  /\ ReactorTypeOK /\ ControlInv /\ PollerTypeOK /\ RoundInv
         /\ \A s \in Sockets : Attached(s) /\ Reporting(s)
  BY DEF Alive, BasicInv, LifeInv, ReactorTypeOK

LEMMA LifeQuiet ==
  ASSUME Alive, QuietStep
  PROVE  RoundInv' /\ \A s \in Sockets : (Attached(s) /\ Reporting(s))'
<1>1. /\ UNCHANGED <<active, out, deadline, epoll, eventfd, pollPc, batch>>
      /\ UNCHANGED <<state, attached, closing, m_stop, stopping>>
  BY AliveFacts, QuietFacts DEF Alive, pollerVars, tableVars, kernelVars, pollVars, socketVars
<1>2. Stopped => Stopped'
  BY <1>1, AliveFacts, QuietFacts DEF Alive, Stopped, Drained, InEvent
<1>3. \A s \in Sockets : Attached(s)'
  BY <1>1, <1>2, AliveFacts, AttachedSame DEF SameSocket
<1>4. \A s \in Sockets : Reporting(s)'
  BY <1>1, AliveFacts DEF Reporting
<1>5. RoundInv'
  BY <1>1, AliveFacts, QuietFacts DEF Alive, RoundInv, Drained
<1>6. QED
  BY <1>3, <1>4, <1>5

LEMMA LifeBeginClose ==
  ASSUME Alive, BeginClose
  PROVE  RoundInv' /\ \A s \in Sockets : (Attached(s) /\ Reporting(s))'
<1>1. PICK x \in Sockets :
        /\ state[x] # "INVALID" /\ state' = [state EXCEPT ![x] = "INVALID"]
        /\ closing = NotClosing
        /\ closing' = [at |-> IF x \in attached THEN "lock" ELSE "on_close", socket |-> x]
        /\ pc \in {"dispatch", "callback"} /\ pc' = pc
        /\ UNCHANGED <<pollerVars, attached, m_stop, stopping>>
  BY AliveFacts, BeginCloseFacts DEF Alive
<1>2. UNCHANGED <<active, out, deadline, epoll, eventfd, pollPc, batch>>
  BY <1>1 DEF pollerVars, tableVars, kernelVars, pollVars
<1>3. ~Stopped
  BY <1>1 DEF Stopped
<1>4. closing.socket \notin Sockets /\ closing.at = "idle"
  BY <1>1, SocketAssumption DEF NotClosing
<1>5. /\ closing'.socket = x /\ closing'.at # "reset"
      /\ closing'.at # "on_close" <=> x \in attached
  BY <1>1
<1>6. /\ state'[x] = "INVALID"
      /\ \A s \in Sockets \ {x} : state'[s] = state[s]
  BY <1>1, AliveFacts DEF ReactorTypeOK, SocketTypeOK
<1>7. \A s \in Sockets : Attached(s)'
  BY <1>1, <1>2, <1>3, <1>4, <1>5, <1>6, AliveFacts DEF Attached, Forgotten
<1>8. \A s \in Sockets : Reporting(s)'
  BY <1>2, AliveFacts DEF Reporting
<1>9. RoundInv'
  BY <1>1, <1>2, AliveFacts DEF RoundInv, Drained
<1>10. QED
  BY <1>7, <1>8, <1>9

LEMMA LifeEndClose ==
  ASSUME Alive, EndClose
  PROVE  RoundInv' /\ \A s \in Sockets : (Attached(s) /\ Reporting(s))'
<1>1. /\ closing.at = "on_close" /\ closing' = NotClosing
      /\ UNCHANGED <<pollerVars, state, attached, m_stop, stopping>>
      /\ pc' \in {pc, "dispatch", "thrown"}
  BY AliveFacts, EndCloseFacts DEF Alive
<1>2. UNCHANGED <<active, out, deadline, epoll, eventfd, pollPc, batch>>
  BY <1>1 DEF pollerVars, tableVars, kernelVars, pollVars
<1>3. ~Stopped /\ closing'.socket \notin Sockets
  BY <1>1, SocketAssumption DEF Stopped, NotClosing
<1>4. \A s \in Sockets : Attached(s)'
  BY <1>1, <1>2, <1>3, AliveFacts DEF Attached, Forgotten
<1>5. \A s \in Sockets : Reporting(s)'
  BY <1>2, AliveFacts DEF Reporting
<1>6. RoundInv'
  BY <1>1, <1>2, AliveFacts DEF RoundInv, Drained
<1>7. QED
  BY <1>4, <1>5, <1>6

(* The three steps of a close in between. *)
LEMMA LifeClosing ==
  ASSUME Alive, close_lock \/ close_remove \/ close_reset, UNCHANGED reactorVars
  PROVE  RoundInv' /\ \A s \in Sockets : (Attached(s) /\ Reporting(s))'
<1>1. closing.at # "idle" /\ UNCHANGED <<m_stop, stopping, pc>>
  BY DEF close_lock, close_remove, close_reset, reactorVars
<1>2. /\ closing.socket \in Sockets /\ closing # NotClosing /\ pollPc = "idle"
      /\ state[closing.socket] = "INVALID"
  BY <1>1, AliveFacts, ClosingFacts DEF Alive, BasicInv, CloseInv
<1>3. ~Stopped
  BY <1>2 DEF Stopped
<1>4. CASE close_lock
  <2>1. /\ closing.at = "lock" /\ closing' = [at |-> "remove_socket", socket |-> closing.socket]
        /\ UNCHANGED <<active, out, deadline, epoll, eventfd, pollPc, batch, state, attached>>
    BY <1>4, AliveFacts, CloseLockFacts DEF Alive, tableVars, kernelVars, pollVars
  <2>2. closing'.at = "remove_socket" /\ closing'.socket = closing.socket
    BY <2>1
  <2>3. \A s \in Sockets : Attached(s)'
    BY <1>3, <2>1, <2>2, AliveFacts DEF Attached, Forgotten
  <2>4. QED
    BY <1>1, <2>1, <2>3, AliveFacts DEF Reporting, RoundInv, Drained
<1>5. CASE close_remove
  <2>5. PICK x \in Sockets : x = closing.socket
    BY <1>2
  <2>1. /\ closing.at = "remove_socket" /\ closing' = [at |-> "reset", socket |-> x]
        /\ remove_socket(LoopThread, x)
        /\ UNCHANGED <<state, attached>>
    BY <1>5, <2>5, AliveFacts, CloseRemoveFacts DEF Alive
  <2>2. closing'.at = "reset" /\ closing'.socket = x
    BY <2>1
  <2>3. x \in active
    BY <1>2, <1>3, <2>1, <2>5, AliveFacts DEF Attached
  <2>4. /\ epoll' = [epoll EXCEPT ![x] = NotRegistered]
        /\ deadline' = [deadline EXCEPT ![x] = INVALID_TIME]
        /\ out' = [out EXCEPT ![x] = NoEvent]
        /\ active' = active \ {x}
        /\ UNCHANGED <<eventfd, pollPc, batch>>
    BY <2>1, <2>3
       DEF remove_socket, EpollDel, DeadlineDeleted, Sched!Clear, OutEventErased, pollVars
  <2>6. /\ ~epoll'[x].registered /\ ~epoll'[x].armed /\ Forgotten(x)'
        /\ \A s \in Sockets \ {x} :
             /\ epoll'[s] = epoll[s] /\ deadline'[s] = deadline[s] /\ out'[s] = out[s]
             /\ s \in active' <=> s \in active
    BY <2>4, <2>5, AliveFacts DEF PollerTypeOK, NotRegistered, Forgotten
  <2>7. \A s \in Sockets : Attached(s)'
    <3>1. Attached(x)'
      BY <1>2, <2>1, <2>2, <2>5, <2>6, AliveFacts DEF Attached, Forgotten
    <3>2. ASSUME NEW s \in Sockets \ {x} PROVE Attached(s)'
      BY <1>3, <2>1, <2>2, <2>5, <2>6, <3>2, AliveFacts DEF Attached, Forgotten
    <3>3. QED
      BY <3>1, <3>2
  <2>8. \A s \in Sockets : Reporting(s)'
    BY <1>2, <2>4, AliveFacts DEF Reporting
  <2>9. RoundInv'
    BY <1>1, <1>2, <2>4, <2>5, <2>6, AliveFacts DEF RoundInv, Drained
  <2>10. QED
    BY <2>7, <2>8, <2>9
<1>6. CASE close_reset
  <2>1. /\ closing.at = "reset" /\ closing' = [at |-> "on_close", socket |-> closing.socket]
        /\ attached' = attached \ {closing.socket}
        /\ UNCHANGED <<active, out, deadline, epoll, eventfd, pollPc, batch, state>>
    BY <1>6, AliveFacts, CloseResetFacts
       DEF Alive, pollerVars, tableVars, kernelVars, pollVars
  <2>2. closing'.at = "on_close" /\ closing'.socket = closing.socket
    BY <2>1
  <2>3. \A s \in Sockets : Attached(s)'
    BY <1>2, <1>3, <2>1, <2>2, AliveFacts DEF Attached, Forgotten
  <2>4. QED
    BY <1>1, <2>1, <2>3, AliveFacts DEF Reporting, RoundInv, Drained
<1>7. QED
  BY <1>4, <1>5, <1>6

(* Steps that look only at the signals, the clock or the lock. *)
LEMMA LifeOutside ==
  ASSUME Alive, OutsideStep
  PROVE  RoundInv' /\ \A s \in Sockets : (Attached(s) /\ Reporting(s))'
<1>1. /\ UNCHANGED <<active, out, deadline, epoll, pollPc, batch, pc>>
      /\ UNCHANGED <<state, attached, closing>>
  BY OutsideFacts DEF tableVars, socketVars
<1>2. /\ m_stop => m_stop'
      /\ stopping' \/ "STOP" \in eventfd' => m_stop'
  <2>1. CASE send_update
    BY <2>1, AliveFacts DEF RoundInv, send_update, signal, Signalled, reactorVars
  <2>2. CASE stop
    BY <2>2 DEF stop
  <2>3. CASE stop_signal
    BY <2>3, AliveFacts DEF RoundInv, stop_signal, signal, Signalled
  <2>4. CASE tick
    BY <2>4, AliveFacts DEF RoundInv, tick, Tick, reactorVars, kernelVars
  <2>5. QED
    BY <2>1, <2>2, <2>3, <2>4 DEF OutsideStep
<1>3. Stopped => Stopped'
  BY <1>1, <1>2 DEF Stopped, Drained
<1>4. \A s \in Sockets : Attached(s)'
  BY <1>1, <1>3, AliveFacts, AttachedSame DEF SameSocket
<1>5. (\A s \in Sockets : Reporting(s)') /\ RoundInv'
  BY <1>1, <1>2, AliveFacts DEF Reporting, RoundInv, Drained
<1>6. QED
  BY <1>4, <1>5

LEMMA LifeLock ==
  ASSUME Alive, callback_update_lock \/ \E c \in Clients : hand_over_lock(c)
  PROVE  RoundInv' /\ \A s \in Sockets : (Attached(s) /\ Reporting(s))'
<1>1. /\ UNCHANGED <<active, out, deadline, epoll, eventfd, pollPc, batch>>
      /\ UNCHANGED <<state, attached, closing, m_stop, stopping>>
      /\ pc' = pc \/ (pc = "callback" /\ pc' = "update")
  <2>1. CASE callback_update_lock
    BY <2>1, AliveFacts, CallbackLockFacts
       DEF Alive, tableVars, kernelVars, pollVars, socketVars
  <2>2. ASSUME NEW c \in Clients, hand_over_lock(c)
        PROVE  UNCHANGED <<tableVars, kernelVars, pollVars, socketVars, reactorVars>>
    BY <2>2 DEF hand_over_lock, lock_for
  <2>3. QED
    BY <2>1, <2>2 DEF tableVars, kernelVars, pollVars, socketVars, reactorVars
<1>2. Stopped => Stopped'
  BY <1>1 DEF Stopped, Drained
<1>3. \A s \in Sockets : Attached(s)'
  BY <1>1, <1>2, AliveFacts, AttachedSame DEF SameSocket
<1>4. (\A s \in Sockets : Reporting(s)') /\ RoundInv'
  BY <1>1, AliveFacts DEF Reporting, RoundInv, Drained
<1>5. QED
  BY <1>3, <1>4

LEMMA LifeUpdate ==
  ASSUME Alive, failed' = "none", NEW t \in Threads,
         NEW x \in Sockets, NEW mask \in Masks, NEW step \in Steps,
         update_and_attach(t, x, mask, step),
         state[x] = "CREATED" \/ (state[x] = "READY" /\ x \in attached /\ ~Stopped),
         pollPc # "schedule", pc' = pc \/ (pc = "update" /\ pc' = "callback"),
         UNCHANGED <<m_stop, stopping>>
  PROVE  RoundInv' /\ \A s \in Sockets : (Attached(s) /\ Reporting(s))'
<1>1. /\ attached' = attached \cup (active' \ active)
      /\ state' = [state EXCEPT ![x] = "READY"]
      /\ UNCHANGED <<closing, out, pollVars>>
      /\ Schedule(x, mask, step) /\ active' = active \cup {x}
      /\ epoll' = EpollMod(x, mask) \/ epoll' = EpollAdd(x, mask)
      /\ eventfd' \in {eventfd, eventfd \cup {"UPDATE"}}
  BY AliveFacts, UpdateFacts DEF Alive
<1>2. /\ state'[x] = "READY"
      /\ \A s \in Sockets \ {x} : state'[s] = state[s] /\ epoll'[s] = epoll[s]
      /\ epoll'[x].armed => epoll'[x].registered
  BY <1>1, AliveFacts
     DEF ReactorTypeOK, SocketTypeOK, PollerTypeOK, EpollMod, EpollAdd, Interest, Attached
<1>3. \A s \in Sockets \ {x} : deadline'[s] = deadline[s]
  BY <1>1, AliveFacts DEF PollerTypeOK, Schedule, Sched!Set
<1>4. closing.socket # x
  <2>1. closing # NotClosing => state[closing.socket] = "INVALID"
    BY DEF Alive, BasicInv, CloseInv
  <2>2. QED
    BY <2>1, SocketAssumption DEF NotClosing
<1>5. Stopped => Stopped'
  BY <1>1 DEF Stopped, Drained, pollVars
<1>6. x \in attached'
  BY <1>1, <1>4, AliveFacts DEF Attached, Forgotten
<1>7. Attached(x)'
  BY <1>1, <1>2, <1>4, <1>6 DEF Attached
<1>8. ASSUME NEW s \in Sockets \ {x} PROVE Attached(s)'
  <2>1. SameSocket(s)
    BY <1>1, <1>2, <1>3 DEF SameSocket
  <2>2. QED
    BY <1>1, <1>5, <2>1, AliveFacts, AttachedSame
<1>9. \A s \in Sockets : Reporting(s)'
  BY <1>1, AliveFacts DEF Reporting, pollVars
<1>10. RoundInv'
  BY <1>1, AliveFacts DEF RoundInv, Drained, pollVars
<1>11. QED
  BY <1>7, <1>8, <1>9, <1>10

LEMMA LifeCallbackUpdate ==
  ASSUME Alive, failed' = "none", callback_update
  PROVE  RoundInv' /\ \A s \in Sockets : (Attached(s) /\ Reporting(s))'
<1>1. /\ pc = "update" /\ pc' = "callback" /\ pollPc = "idle"
      /\ UNCHANGED <<m_stop, stopping>>
  BY AliveFacts, CallbackUpdateFacts DEF Alive
<1>2. PICK s \in Sockets, mask \in Masks, step \in Steps :
        /\ (state[s] = "READY" /\ s \in attached) \/ state[s] = "CREATED"
        /\ update_and_attach(LoopThread, s, mask, step)
  BY AliveFacts, CallbackUpdateFacts DEF Alive
<1>3. ~Stopped
  BY <1>1 DEF Stopped
<1>4. QED
  BY <1>1, <1>2, <1>3, LifeUpdate DEF Threads

LEMMA LifeHandOver ==
  ASSUME Alive, failed' = "none", NEW c \in Clients, hand_over(c)
  PROVE  RoundInv' /\ \A s \in Sockets : (Attached(s) /\ Reporting(s))'
<1>1. UNCHANGED <<pc, m_stop, stopping>> /\ c \in Threads /\ pollPc # "schedule"
  BY AliveFacts, HandOverFacts DEF Alive, reactorVars
<1>2. PICK s \in Sockets, mask \in Masks, step \in Steps :
        state[s] = "CREATED" /\ update_and_attach(c, s, mask, step)
  BY AliveFacts, HandOverFacts DEF Alive
<1>3. QED
  BY <1>1, <1>2, LifeUpdate

LEMMA LifeCheckStop ==
  ASSUME Alive, ~m_stop, check_stop
  PROVE  RoundInv' /\ \A s \in Sockets : (Attached(s) /\ Reporting(s))'
<1>1. /\ pc = "while" /\ pc' = "poll" /\ pollPc = "idle" /\ pollPc' = "wait_time"
      /\ UNCHANGED <<active, out, deadline, epoll, eventfd, batch>>
      /\ UNCHANGED <<state, attached, closing, m_stop, stopping>>
  BY DEF check_stop, start_poll, tableVars, kernelVars, socketVars
<1>2. ~Stopped
  BY DEF Stopped
<1>3. \A s \in Sockets : Attached(s)'
  BY <1>1, <1>2, AliveFacts, AttachedSame DEF SameSocket
<1>4. (\A s \in Sockets : Reporting(s)') /\ RoundInv'
  BY <1>1, AliveFacts DEF Reporting, RoundInv, Drained
<1>5. QED
  BY <1>3, <1>4

LEMMA LifeTakeEvent ==
  ASSUME Alive, take_event
  PROVE  RoundInv' /\ \A s \in Sockets : (Attached(s) /\ Reporting(s))'
<1>1. PICK x \in Sockets :
        /\ out[x] # NoEvent /\ out' = [out EXCEPT ![x] = NoEvent]
        /\ UNCHANGED <<active, deadline, kernelVars, pollVars>>
  BY AliveFacts, TakeEventFacts DEF Alive
<1>2. /\ pc' = "dispatch" /\ pollPc = "idle"
      /\ UNCHANGED <<state, attached, closing, m_stop, stopping>>
  BY AliveFacts, TakeEventFacts DEF Alive, socketVars
<1>3. UNCHANGED <<epoll, eventfd, pollPc, batch>>
  BY <1>1 DEF kernelVars, pollVars
<1>4. ~Stopped
  BY <1>1 DEF Stopped, Drained
<1>5. \A s \in Sockets : out'[s] \in {out[s], NoEvent}
  BY <1>1, AliveFacts DEF PollerTypeOK
<1>6. \A s \in Sockets : Attached(s)'
  BY <1>1, <1>2, <1>3, <1>4, <1>5, AliveFacts DEF Attached, Forgotten
<1>7. (\A s \in Sockets : Reporting(s)') /\ RoundInv'
  BY <1>2, <1>3, AliveFacts DEF Reporting, RoundInv, Drained
<1>8. QED
  BY <1>6, <1>7

-----------------------------------------------------------------------------
(* poll *)

LEMMA PollAlive ==
  ASSUME Alive, poll
  PROVE  /\ pc = "poll" /\ closing = NotClosing /\ closing.socket \notin Sockets
         /\ UNCHANGED <<state, attached, closing, m_stop, stopping>>
         /\ pollPc # "schedule" => ~Stopped
         /\ pc' = IF pollPc' = "idle" THEN "get_next_event" ELSE "poll"
  BY AliveFacts, PollFacts, SocketAssumption DEF Alive, Stopped, socketVars, NotClosing

LEMMA LifeWait ==
  ASSUME Alive, poll, get_wait_time \/ epoll_wait_interrupted
  PROVE  RoundInv' /\ \A s \in Sockets : (Attached(s) /\ Reporting(s))'
<1>1. /\ UNCHANGED <<active, out, deadline, epoll, eventfd>>
      /\ pollPc # "schedule"
  BY DEF get_wait_time, epoll_wait_interrupted, tableVars, kernelVars
<1>2. /\ pollPc' \in {"process", "process_failure", "epoll_wait", "wait_time_again"}
      /\ \A s \in Sockets : batch'[s] = {}
  <2>1. CASE get_wait_time
    <3>1. pollPc' \in {"process", "process_failure", "epoll_wait"}
      BY <2>1 DEF get_wait_time
    <3>2. QED
      BY <2>1, <3>1 DEF get_wait_time
  <2>2. CASE epoll_wait_interrupted
    BY <2>2, AliveFacts DEF epoll_wait_interrupted, Reporting
  <2>3. QED
    BY <2>1, <2>2
<1>3. \A s \in Sockets : Attached(s)'
  BY <1>1, PollAlive, AliveFacts, AttachedSame DEF SameSocket
<1>4. \A s \in Sockets : Reporting(s)'
  BY <1>2 DEF Reporting
<1>5. pollPc # "idle"
  BY AliveFacts, PollFacts DEF Alive
<1>6. RoundInv'
  BY <1>1, <1>2, <1>5, PollAlive, AliveFacts DEF RoundInv, Drained
<1>7. QED
  BY <1>3, <1>4, <1>6

LEMMA LifeReturn ==
  ASSUME Alive, poll, epoll_wait_return
  PROVE  RoundInv' /\ \A s \in Sockets : (Attached(s) /\ Reporting(s))'
<1>1. PICK ev \in [Sockets -> SUBSET Conditions] :
        /\ \A s \in Sockets : ev[s] \subseteq Reportable(s)
        /\ batch' = ev
        /\ epoll' = [s \in Sockets |->
                       IF ev[s] # {} /\ "EPOLLONESHOT" \in epoll[s].mask
                       THEN [epoll[s] EXCEPT !.armed = FALSE] ELSE epoll[s]]
  BY DEF epoll_wait_return
<1>2. /\ UNCHANGED <<active, out, deadline, eventfd>>
      /\ pollPc = "epoll_wait" /\ pollPc' = "process"
  BY DEF epoll_wait_return, tableVars
<1>3. \A s \in Sockets :
        /\ epoll'[s].registered = epoll[s].registered
        /\ epoll'[s].armed => epoll[s].armed
  BY <1>1, AliveFacts DEF PollerTypeOK
<1>4. \A s \in Sockets : Attached(s)'
  BY <1>2, <1>3, PollAlive, AliveFacts DEF Attached, Forgotten
<1>5. ASSUME NEW s \in Sockets, batch'[s] # {} PROVE s \in active
  <2>1. epoll[s].registered
    BY <1>1, <1>5, AliveFacts DEF Reportable, Attached
  <2>2. QED
    BY <1>2, <2>1, PollAlive, AliveFacts DEF Attached, Forgotten
<1>6. \A s \in Sockets : Reporting(s)'
  BY <1>2, <1>5 DEF Reporting
<1>7. RoundInv'
  BY <1>2, PollAlive, AliveFacts DEF RoundInv, Drained
<1>8. QED
  BY <1>4, <1>6, <1>7

(* What process_epoll_events does unless it fails. *)
LEMMA ProcessFacts ==
  ASSUME process_epoll_events, failed' = failed \/ failed' = "none", failed = "none"
  PROVE  /\ pollPc = "process" /\ pollPc' = "schedule" /\ lock' = LoopThread
         /\ UNCHANGED <<now, failed, call, epoll, wakeAt, drift, batch, signalled>>
         /\ eventfd' \in {{}, eventfd}
         /\ \E S \in SUBSET active :
              /\ S \subseteq Reported(batch)
              /\ \A s \in S : HasTimeout(RefreshedContext(s))
              /\ \/ "STOP" \in eventfd /\ HarvestAndStop(S)
                 \/ S = Reported(batch) /\ Harvest(S) /\ active' = active
<1>1. PICK S \in SUBSET Reported(batch) :
        /\ S = Reported(batch) \/ (signalled /\ "STOP" \in eventfd)
        /\ S \subseteq active
        /\ \A s \in S : HasTimeout(RefreshedContext(s))
        /\ IF signalled /\ "STOP" \in eventfd THEN HarvestAndStop(S)
           ELSE /\ Harvest(S)
                /\ UNCHANGED active
        /\ eventfd' = IF signalled THEN {} ELSE eventfd
        /\ lock' = LoopThread
        /\ pollPc' = "schedule"
        /\ UNCHANGED <<now, failed, call, epoll, wakeAt, drift, batch, signalled>>
  BY DEF process_epoll_events, Abort
<1>2. QED
  BY <1>1 DEF process_epoll_events

LEMMA LifeProcess ==
  ASSUME Alive, failed' = "none", poll, process_epoll_events
  PROVE  RoundInv' /\ \A s \in Sockets : (Attached(s) /\ Reporting(s))'
<1>1. /\ pollPc = "process" /\ pollPc' = "schedule" /\ pc' = "poll" /\ ~Stopped
      /\ UNCHANGED <<epoll, batch>> /\ eventfd' \in {{}, eventfd}
  BY ProcessFacts, PollAlive DEF Alive
<1>2. PICK S \in SUBSET active :
        /\ S \subseteq Reported(batch)
        /\ \/ "STOP" \in eventfd /\ HarvestAndStop(S)
           \/ S = Reported(batch) /\ Harvest(S) /\ active' = active
  BY ProcessFacts DEF Alive
<1>3. /\ Drained
      /\ RoundInv'
  BY <1>1, PollAlive, AliveFacts DEF RoundInv
<1>4. \A s \in Sockets \ active : deadline'[s] = deadline[s]
  BY <1>2 DEF HarvestAndStop, Harvest, Reschedule
<1>5. CASE "STOP" \in eventfd /\ HarvestAndStop(S)
  <2>1. active' = {} /\ \A s \in Sockets : out'[s] = NoEvent
    BY <1>5 DEF HarvestAndStop
  <2>2. Stopped'
    BY <1>1, <1>5, <2>1, PollAlive, AliveFacts DEF Stopped, Drained, RoundInv
  <2>3. \A s \in Sockets : Attached(s)'
    BY <1>1, <1>4, <2>1, <2>2, PollAlive, AliveFacts DEF Attached, Forgotten
  <2>4. \A s \in Sockets : Reporting(s)'
    BY <1>1, <2>1 DEF Reporting
  <2>5. QED
    BY <1>3, <2>3, <2>4
<1>6. CASE S = Reported(batch) /\ Harvest(S) /\ active' = active
  <2>1. \A s \in Sockets : out'[s] = IF s \in S THEN EventOf(batch[s]) ELSE NoEvent
    BY <1>3, <1>6 DEF Harvest, Drained
  <2>2. \A s \in Sockets : Attached(s)'
    BY <1>1, <1>2, <1>4, <1>6, <2>1, PollAlive, AliveFacts DEF Attached, Forgotten
  <2>3. \A s \in Sockets : ActionsOf(batch[s]) \subseteq out'[s].action
    <3>1. \A ev : EventOf(ev).action = ActionsOf(ev)
      BY DEF EventOf
    <3>2. ActionsOf({}) = {}
      BY DEF ActionsOf
    <3>3. \A s \in Sockets \ S : batch[s] = {}
      BY <1>6 DEF Reported
    <3>4. QED
      BY <2>1, <3>1, <3>2, <3>3
  <2>4. \A s \in Sockets : Reporting(s)'
    BY <1>1, <2>3 DEF Reporting
  <2>5. QED
    BY <1>3, <2>2, <2>4
<1>7. QED
  BY <1>2, <1>5, <1>6

LEMMA LifeScheduler ==
  ASSUME Alive, poll, process_scheduler
  PROVE  RoundInv' /\ \A s \in Sockets : (Attached(s) /\ Reporting(s))'
<1>1. /\ pollPc = "schedule" /\ pollPc' = "idle"
      /\ UNCHANGED <<active, epoll, eventfd>>
      /\ \A s \in Sockets : /\ batch'[s] = {}
                            /\ out'[s] = EventAfterTimeout(s)
                            /\ deadline'[s] \in {deadline[s], INVALID_TIME}
  BY DEF process_scheduler, kernelVars
<1>2. pc' = "get_next_event"
  BY <1>1, PollAlive
<1>3. \A s \in Sockets \ active : out'[s] = out[s]
  BY <1>1 DEF EventAfterTimeout
<1>4. Stopped => Stopped'
  BY <1>1, <1>2, <1>3, PollAlive DEF Stopped, Drained
<1>5. \A s \in Sockets : Attached(s)'
  BY <1>1, <1>3, <1>4, PollAlive, AliveFacts DEF Attached, Forgotten
<1>6. (\A s \in Sockets : Reporting(s)') /\ RoundInv'
  BY <1>1, <1>2, PollAlive, AliveFacts DEF Reporting, RoundInv
<1>7. QED
  BY <1>5, <1>6

LEMMA LifePoll ==
  ASSUME Alive, failed' = "none", poll
  PROVE  RoundInv' /\ \A s \in Sockets : (Attached(s) /\ Reporting(s))'
<1>1. ~process_failure
  BY DEF process_failure, Abort
<1>2. QED
  BY <1>1, PollFacts, AliveFacts, LifeWait, LifeReturn, LifeProcess, LifeScheduler
     DEF Alive, PollStep

LEMMA LifeStep ==
  ASSUME BasicInv, LifeInv, [ReactorNext]_rvars
  PROVE  LifeInv'
<1> SUFFICES ASSUME failed' = "none"
             PROVE  RoundInv' /\ \A s \in Sockets : (Attached(s) /\ Reporting(s))'
  BY DEF LifeInv
<1>1. CASE UNCHANGED rvars
  <2>1. UNCHANGED <<active, out, deadline, epoll, eventfd, batch, pollPc, pc, failed,
                    state, attached, closing, m_stop, stopping>>
    BY <1>1 DEF rvars, pollerVars, tableVars, kernelVars, pollVars, socketVars, reactorVars
  <2>2. RoundInv /\ \A s \in Sockets : Attached(s) /\ Reporting(s)
    BY <2>1 DEF LifeInv
  <2>3. QED
    BY <2>1, <2>2 DEF RoundInv, Attached, Reporting, Forgotten, Stopped, Drained
<1>2. CASE failed = "none" /\ ReactorNext
  <2>1. Alive
    BY <1>2 DEF Alive
  <2>2. QED
    BY <1>2, <2>1, LifeQuiet, LifeBeginClose, LifeEndClose, LifeClosing, LifeOutside, LifeLock,
       LifeCallbackUpdate, LifeHandOver, LifeCheckStop, LifeTakeEvent, LifePoll, StepCases
<1>3. QED
  BY <1>1, <1>2, StepCases

(* An assertion that fails leaves everything as it is, and it is not one   *)
(* of those about what the poller knows.                                   *)
LEMMA FailFacts ==
  ASSUME Alive, [ReactorNext]_rvars, failed' # "none"
  PROVE  /\ UNCHANGED <<tableVars, epoll, pollVars, closing>>
         /\ \A s \in Sockets : state'[s] = "INVALID" => state[s] = "INVALID"
         /\ \/ failed' = "nothing_found" /\ poll /\ process_failure
            \/ failed' = "has_timeout" /\ poll /\ process_epoll_events
            \/ /\ failed' = "has_timeout"
               /\ \E t \in Threads, s \in Sockets, mask \in Masks, step \in Steps :
                    update_and_attach(t, s, mask, step)
<1>1. failed = "none" /\ ReactorTypeOK /\ ControlInv
  BY AliveFacts DEF Alive
<1>2. ~UNCHANGED failed
  BY <1>1
<1>3. ~QuietStep /\ ~BeginClose /\ ~EndClose
  BY <1>1, <1>2, QuietFacts, BeginCloseFacts, EndCloseFacts DEF pollerVars
<1>4. /\ ~OutsideStep /\ ~check_stop /\ ~callback_update_lock
      /\ ~((close_lock \/ close_remove \/ close_reset) /\ UNCHANGED reactorVars)
      /\ \A c \in Clients : ~hand_over_lock(c)
  BY <1>2, OutsideFacts
     DEF check_stop, start_poll, callback_update_lock, close_lock, close_remove, close_reset,
         remove_socket, hand_over_lock, lock_for, pollerVars
<1>5. ~take_event
  BY <1>1, <1>2, TakeEventFacts
<1>6. CASE poll
  <2>1. PollStep /\ UNCHANGED socketVars
    BY <1>1, <1>6, PollFacts
  <2>2. \/ process_epoll_events /\ \E a \in {"socket_found", "has_timeout"} : Abort(a)
        \/ process_failure /\ Abort("nothing_found")
    BY <1>2, <2>1
       DEF PollStep, get_wait_time, epoll_wait_return, epoll_wait_interrupted, process_failure,
           process_scheduler, process_epoll_events
  <2>3. ASSUME process_epoll_events, Abort("socket_found")
        PROVE  FALSE
    <3>1. PICK S \in SUBSET Reported(batch) : \E s \in S : s \notin active
      BY <2>3, <1>1 DEF process_epoll_events, Abort
    <3>2. \A s \in Reported(batch) : s \in active
      BY <2>3, AliveFacts DEF process_epoll_events, Reported, Reporting
    <3>3. QED
      BY <3>1, <3>2
  <2>4. QED
    BY <1>6, <2>1, <2>2, <2>3 DEF Abort, kernelVars, socketVars
<1>7. ASSUME NEW t \in Threads, NEW s \in Sockets, NEW mask \in Masks, NEW step \in Steps,
             update_and_attach(t, s, mask, step)
      PROVE  /\ UNCHANGED <<tableVars, epoll, pollVars, closing>>
             /\ \A p \in Sockets : state'[p] = "INVALID" => state[p] = "INVALID"
             /\ failed' = "has_timeout"
  <2>1. /\ state' = [state EXCEPT ![s] = "READY"]
        /\ UNCHANGED <<closing, pollVars, tableVars, kernelVars>>
        /\ failed' = "has_timeout"
    BY <1>1, <1>2, <1>7, UpdateFacts
  <2>2. QED
    BY <1>1, <2>1 DEF kernelVars, ReactorTypeOK, SocketTypeOK
<1>8. CASE callback_update \/ \E c \in Clients : hand_over(c)
  BY <1>1, <1>7, <1>8, CallbackUpdateFacts, HandOverFacts DEF Threads
<1>9. ReactorNext
  BY <1>2 DEF rvars, pollerVars
<1>10. QED
  BY <1>1, <1>3, <1>4, <1>5, <1>6, <1>8, <1>9, StepCases

KnownInv == failed \notin {"socket_found", "out_events_race"}

SafeInv == BasicInv /\ LifeInv /\ ClosedIsForgotten /\ KnownInv

LEMMA ClosedFromLife ==
  ASSUME Alive
  PROVE  ClosedIsForgotten
  BY AliveFacts DEF ClosedIsForgotten, Closed, Attached, Forgotten, ReactorTypeOK, SocketTypeOK,
                    ClosingSteps

LEMMA SafeStep ==
  ASSUME SafeInv, [ReactorNext]_rvars
  PROVE  SafeInv'
<1>1. BasicInv' /\ LifeInv'
  BY BasicStep, LifeStep DEF SafeInv
<1>2. CASE failed' = "none"
  <2>1. Alive'
    BY <1>1, <1>2 DEF Alive
  <2>2. ClosedIsForgotten'
    BY <2>1, ClosedFromLife, PTL
  <2>3. QED
    BY <1>1, <1>2, <2>2 DEF SafeInv, KnownInv
<1>3. CASE failed = "none" /\ failed' # "none"
  <2>1. Alive
    BY <1>3 DEF Alive, SafeInv
  <2>2. UNCHANGED <<active, out, deadline, epoll, closing>>
    BY <1>3, <2>1, FailFacts DEF tableVars
  <2>3. ClosedIsForgotten'
    BY <1>3, <2>1, <2>2, FailFacts DEF SafeInv, ClosedIsForgotten, Closed
  <2>4. KnownInv'
    BY <1>3, <2>1, FailFacts DEF KnownInv
  <2>5. QED
    BY <1>1, <2>3, <2>4 DEF SafeInv
<1>4. CASE failed # "none"
  <2>1. UNCHANGED <<active, out, deadline, epoll, closing, state, failed>>
    BY <1>4, StepCases DEF rvars, pollerVars, tableVars, kernelVars, socketVars
  <2>2. QED
    BY <1>1, <2>1 DEF SafeInv, ClosedIsForgotten, Closed, KnownInv
<1>5. QED
  BY <1>2, <1>3, <1>4

LEMMA SafeAlways == ReactorSpec => []SafeInv
<1>1. ReactorInit => SafeInv
  <2> SUFFICES ASSUME ReactorInit PROVE SafeInv
    OBVIOUS
  <2>1. failed = "none" /\ BasicInv /\ LifeInv
    BY BasicInit, LifeInit DEF ReactorInit, PollerInit
  <2>2. QED
    BY <2>1, ClosedFromLife DEF SafeInv, KnownInv, Alive
<1>2. QED
  BY <1>1, SafeStep, PTL DEF ReactorSpec

(* Once remove_socket of a close has ended nothing is left of the socket:  *)
(* no registration, no deadline and no event, whatever reports, timeouts,  *)
(* signals and hand-overs came before and whatever comes later.            *)
THEOREM ClosedSocketsAreForgotten == ReactorSpec => []ClosedIsForgotten
<1>1. SafeInv => ClosedIsForgotten
  BY DEF SafeInv
<1>2. QED
  BY SafeAlways, <1>1, PTL

(* A Reactor does not meet the two accidents a Poller has with careless    *)
(* callers: a report of a socket that is not in m_active_sockets any more, *)
(* and get_next_event in the middle of a remove_socket of another thread.  *)
THEOREM OnlyKnownSocketsReport ==
  ReactorSpec => [](failed \notin {"socket_found", "out_events_race"})
<1>1. SafeInv => failed \notin {"socket_found", "out_events_race"}
  BY DEF SafeInv, KnownInv
<1>2. QED
  BY SafeAlways, <1>1, PTL

LEMMA BatchKept ==
  ASSUME PollerNext, pollPc' = "schedule"
  PROVE  batch' = batch
<1>1. CASE PollStep
  <2>1. ~get_wait_time
    <3>1. get_wait_time => pollPc' \in {"process", "process_failure", "epoll_wait"}
      BY DEF get_wait_time
    <3>2. QED
      BY <3>1
  <2>2. ~epoll_wait_return /\ ~epoll_wait_interrupted /\ ~process_scheduler
    BY DEF epoll_wait_return, epoll_wait_interrupted, process_scheduler
  <2>3. process_failure => batch' = batch
    BY DEF process_failure, Abort, pollVars
  <2>4. process_epoll_events => batch' = batch
    BY DEF process_epoll_events, Abort, pollVars
  <2>5. QED
    BY <1>1, <2>1, <2>2, <2>3, <2>4 DEF PollStep
<1>2. CASE \/ \E t \in Threads, op \in {"update_socket", "remove_socket"} : lock_for(t, op)
           \/ \E kind \in {"UPDATE", "STOP"} : signal(kind)
           \/ start_poll \/ Tick \/ Aborted
  BY <1>2 DEF lock_for, signal, start_poll, Tick, Aborted, pollerVars, pollVars
<1>3. CASE \/ \E t \in Threads, s \in Sockets, mask \in Masks, step \in Steps :
                update_socket(t, s, mask, step)
           \/ \E t \in Threads, s \in Sockets : remove_socket(t, s)
           \/ \E s \in Sockets : get_next_event(s)
  BY <1>3 DEF update_socket, remove_socket, get_next_event, Abort, pollVars
<1>4. QED
  BY <1>1, <1>2, <1>3 DEF PollerNext

(* With EPOLLONESHOT a report that is lost is lost for good. None is: when *)
(* process_epoll_events runs all earlier events have been taken, so insert *)
(* never meets an older event of the socket.                               *)
THEOREM NoReportIsLost == ReactorSpec => EveryReportIsDispatched
<1>1. ASSUME SafeInv, [ReactorNext]_rvars, ~UNCHANGED rvars,
             NEW s \in Sockets, pollPc' = "schedule", s \in active'
      PROVE  ActionsOf(batch[s]) \subseteq out'[s].action
  <2>1. failed = "none" /\ Alive
    BY <1>1, StepCases DEF SafeInv, Alive
  <2>2. batch' = batch
    BY <1>1, <2>1, PollerStep, AliveFacts, BatchKept DEF pollerVars, pollVars
  <2>3. CASE failed' = "none"
    <3>1. LifeInv'
      BY <1>1, LifeStep DEF SafeInv
    <3>2. QED
      BY <1>1, <2>2, <2>3, <3>1 DEF LifeInv, Reporting
  <2>4. CASE failed' # "none"
    <3>1. UNCHANGED <<active, out, pollPc>>
      BY <1>1, <2>1, <2>4, FailFacts DEF tableVars, pollVars
    <3>2. QED
      BY <1>1, <2>1, <3>1, AliveFacts DEF Reporting
  <2>5. QED
    BY <2>3, <2>4
<1>2. SafeInv /\ [ReactorNext]_rvars =>
        [\A s \in Sockets :
           batch[s] # {} /\ pollPc' = "schedule" /\ s \in active' =>
             ActionsOf(batch[s]) \subseteq out'[s].action]_rvars
  BY <1>1
<1>3. QED
  BY SafeAlways, <1>2, PTL DEF ReactorSpec, EveryReportIsDispatched

-----------------------------------------------------------------------------
(* Finite timeouts. *)

(* The steps add_to_scheduler works with. *)
RealSteps == (Steps \ {0}) \cup {DEFAULT_TIMEOUT_MS}

(* Every call asks for reading or writing, with a timeout that is longer   *)
(* than a pass of poll takes and far from the end of uint64_t.             *)
FiniteTimeouts ==
  /\ \A mask \in Masks : "EPOLLIN" \in mask \/ "EPOLLOUT" \in mask
  /\ \A step \in RealSteps : MaxDrift < step /\ MaxTime + step < INVALID_TIME

LEMMA RealStepType ==
  ASSUME FiniteTimeouts, NEW step \in RealSteps
  PROVE  /\ step \in Nat /\ step > 0 /\ step \in UInt64
         /\ MaxDrift < step /\ MaxTime + step < INVALID_TIME
<1>1. step \in UInt64
  BY CallAssumption DEF RealSteps
<1>2. MaxDrift \in Nat
  BY BoundAssumption
<1>3. QED
  BY <1>1, <1>2, InvalidTimeType DEF FiniteTimeouts

LEMMA StepIsReal ==
  ASSUME NEW step \in Steps
  PROVE  (IF step = 0 THEN DEFAULT_TIMEOUT_MS ELSE step) \in RealSteps
  BY DEF RealSteps

LEMMA FiniteSteps ==
  ASSUME FiniteTimeouts
  PROVE  INVALID_TIME \notin Steps
<1> SUFFICES ASSUME INVALID_TIME \in Steps PROVE FALSE
  OBVIOUS
<1>1. INVALID_TIME \in Nat /\ INVALID_TIME # 0 /\ MaxTime \in Nat
  BY InvalidTimeType, TimeModulusAssumption, BoundAssumption DEF INVALID_TIME
<1>2. INVALID_TIME \in RealSteps
  BY <1>1 DEF RealSteps
<1>3. QED
  BY <1>1, <1>2 DEF FiniteTimeouts

(* A timeout that runs: one step after the last activity.                  *)
RunsFrom(t, seen) == t.step \in RealSteps /\ t.time = seen + t.step /\ seen <= now
RunsOrNot(t, seen) == t.time # INVALID_TIME => RunsFrom(t, seen)

LEMMA RunningTime ==
  ASSUME FiniteTimeouts, NEW seen \in Times, NEW step \in RealSteps
  PROVE  /\ seen + step \in UInt64 /\ seen + step # INVALID_TIME
         /\ (seen + step) % TimeModulus = seen + step
<1>1. step \in Nat /\ MaxTime + step < INVALID_TIME /\ MaxTime \in Nat /\ INVALID_TIME \in Nat
  BY RealStepType, BoundAssumption, InvalidTimeType
<1>2. seen \in Nat /\ seen <= MaxTime
  BY <1>1 DEF Times
<1>3. seen + step \in Nat /\ seen + step < INVALID_TIME
  BY <1>1, <1>2
<1>4. INVALID_TIME = TimeModulus - 1 /\ TimeModulus \in Nat
  BY TimeModulusAssumption DEF INVALID_TIME
<1>5. (seen + step) % TimeModulus = seen + step
  BY <1>3, <1>4, NoWrap
<1>6. QED
  BY <1>1, <1>3, <1>5 DEF UInt64

(* Activity restarts a timeout ... *)
LEMMA RestartedRuns ==
  ASSUME FiniteTimeouts, now \in Times, NEW t \in Timeout, t.step \in RealSteps
  PROVE  /\ update_timeout(t, now).time # INVALID_TIME
         /\ RunsFrom(update_timeout(t, now), now)
<1>1. /\ update_timeout(t, now).time = (now + t.step) % TimeModulus
      /\ update_timeout(t, now).step = t.step
  BY DEF update_timeout, Timeout
<1>2. (now + t.step) % TimeModulus = now + t.step /\ now + t.step # INVALID_TIME
  BY RunningTime
<1>3. now <= now
  BY BoundAssumption DEF Times
<1>4. QED
  BY <1>1, <1>2, <1>3 DEF RunsFrom

(* ... and a new step shifts it, or starts it. *)
LEMMA ArmedRuns ==
  ASSUME FiniteTimeouts, now \in Times, NEW t \in Timeout, NEW seen \in Times,
         RunsOrNot(t, seen), NEW step \in RealSteps
  PROVE  /\ Arm(t, step).time # INVALID_TIME
         /\ RunsFrom(Arm(t, step), IF t.time = INVALID_TIME THEN now ELSE seen)
<1>1. now <= now /\ now \in Nat /\ seen \in Nat /\ step \in Nat
  BY BoundAssumption, RealStepType DEF Times
<1>2. CASE t.time = INVALID_TIME
  <2>1. /\ Arm(t, step).time = (now + step) % TimeModulus
        /\ Arm(t, step).step = step
    BY <1>2 DEF Arm, update_timeout_step
  <2>2. QED
    BY <1>1, <1>2, <2>1, RunningTime DEF RunsFrom
<1>3. CASE t.time # INVALID_TIME
  <2>1. t.step \in RealSteps /\ t.time = seen + t.step /\ seen <= now
    BY <1>3 DEF RunsOrNot, RunsFrom
  <2>2. t.step \in Nat
    BY <2>1, RealStepType
  <2>3. t.time + step - t.step = seen + step
    BY <1>1, <2>1, <2>2
  <2>4. update_timeout_step(t, step) = [time |-> seen + step, step |-> step]
    BY <1>3, <2>3, RunningTime DEF update_timeout_step
  <2>5. Arm(t, step) = [time |-> seen + step, step |-> step]
    BY <2>4, RunningTime DEF Arm
  <2>6. QED
    BY <1>3, <2>1, <2>5, RunningTime DEF RunsFrom
<1>4. QED
  BY <1>2, <1>3

(* The timeouts of a socket count from its activity; a socket the poller   *)
(* knows has one in every direction it is interested in or has a report of.*)
Timed(s) ==
  /\ s \notin active => context[s] = NewContext
  /\ s \in active => HasTimeout(context[s])
  /\ RunsOrNot(context[s].read, lastSeen[s].read)
  /\ RunsOrNot(context[s].write, lastSeen[s].write)
  /\ s \in active /\ "EPOLLIN" \in epoll[s].mask \cup batch[s] =>
       context[s].read.time # INVALID_TIME
  /\ s \in active /\ "EPOLLOUT" \in epoll[s].mask \cup batch[s] =>
       context[s].write.time # INVALID_TIME

(* The nearest of them is in the scheduler, not far ahead. A direction that*)
(* process_epoll_events has seen active cannot time out in the same pass.  *)
Armed(s) ==
  /\ s \in active => ClosePending(s) \/ deadline[s] = get_nearest_timeout(context[s])
  /\ deadline[s] # INVALID_TIME => \E step \in RealSteps : deadline[s] <= now + step
  /\ pollPc = "schedule" =>
       /\ "READ" \in out[s].action =>
            context[s].read.time # INVALID_TIME /\ lastSeen[s].read + drift >= now
       /\ "WRITE" \in out[s].action =>
            context[s].write.time # INVALID_TIME /\ lastSeen[s].write + drift >= now

TimeInv == /\ pollPc # "schedule" => drift = 0
           /\ \A s \in Sockets : Timed(s) /\ Armed(s)

Timely == FiniteTimeouts /\ Alive /\ TimeInv

LEMMA TimelyTypes ==
  ASSUME Timely
  PROVE  /\ Alive /\ PollerTypeOK /\ failed = "none" /\ now \in Times /\ now \in Nat
         /\ \A s \in Sockets :
              /\ context[s] \in Context
              /\ context[s].read \in Timeout /\ context[s].write \in Timeout
              /\ lastSeen[s].read \in Times /\ lastSeen[s].write \in Times
              /\ Timed(s) /\ Armed(s)
<1>1. Alive /\ PollerTypeOK /\ failed = "none"
  BY AliveFacts DEF Timely, Alive
<1>2. now \in Times /\ now \in Nat
  BY <1>1, BoundAssumption DEF PollerTypeOK, Times
<1>3. \A s \in Sockets : /\ context[s] \in Context
                         /\ lastSeen[s].read \in Times /\ lastSeen[s].write \in Times
  BY <1>1 DEF PollerTypeOK
<1>4. QED
  BY <1>1, <1>2, <1>3 DEF Timely, TimeInv, Context

LEMMA Horizon ==
  ASSUME FiniteTimeouts, now \in Times, NEW c \in Context, HasTimeout(c),
         NEW r \in Times, NEW w \in Times, RunsOrNot(c.read, r), RunsOrNot(c.write, w)
  PROVE  /\ get_nearest_timeout(c) # INVALID_TIME
         /\ \E step \in RealSteps : get_nearest_timeout(c) <= now + step
<1>1. get_nearest_timeout(c) # INVALID_TIME
  BY NearestIsSet
<1>2. now \in Nat /\ r \in Nat /\ w \in Nat
  BY BoundAssumption DEF Times
<1>3. \A step \in RealSteps : step \in Nat
  BY RealStepType
<1>4. CASE get_nearest_timeout(c) = c.read.time
  BY <1>1, <1>2, <1>3, <1>4 DEF RunsOrNot, RunsFrom
<1>5. CASE get_nearest_timeout(c) = c.write.time
  BY <1>1, <1>2, <1>3, <1>5 DEF RunsOrNot, RunsFrom
<1>6. QED
  BY <1>4, <1>5, NearestIsSet

(* What an update makes of the timeouts. *)
LEMMA ArmedContextFacts ==
  ASSUME Timely, NEW s \in Sockets, NEW mask \in Masks, NEW real \in RealSteps
  PROVE  LET c == ArmedContext(context[s], mask, real)
             l == SeenAfterUpdate(s, mask)
         IN  /\ c \in Context /\ HasTimeout(c)
             /\ RunsOrNot(c.read, l.read) /\ RunsOrNot(c.write, l.write)
             /\ l.read \in Times /\ l.write \in Times
             /\ "EPOLLIN" \in mask \/ context[s].read.time # INVALID_TIME =>
                  c.read.time # INVALID_TIME
             /\ "EPOLLOUT" \in mask \/ context[s].write.time # INVALID_TIME =>
                  c.write.time # INVALID_TIME
<1> DEFINE c == ArmedContext(context[s], mask, real)
           l == SeenAfterUpdate(s, mask)
           t == context[s]
<1>1. c \in Context
  BY TimelyTypes, RealStepType, ArmedContextType DEF Timely
<1>2. /\ c.read = IF "EPOLLIN" \in mask THEN Arm(t.read, real) ELSE t.read
      /\ c.write = IF "EPOLLOUT" \in mask THEN Arm(t.write, real) ELSE t.write
  BY DEF ArmedContext
<1>3. /\ l.read = IF "EPOLLIN" \in mask /\ t.read.time = INVALID_TIME THEN now ELSE lastSeen[s].read
      /\ l.write = IF "EPOLLOUT" \in mask /\ t.write.time = INVALID_TIME THEN now
                   ELSE lastSeen[s].write
  BY DEF SeenAfterUpdate
<1>4. /\ Arm(t.read, real).time # INVALID_TIME
      /\ RunsFrom(Arm(t.read, real), IF t.read.time = INVALID_TIME THEN now ELSE lastSeen[s].read)
  BY TimelyTypes, ArmedRuns DEF Timely, Timed
<1>5. /\ Arm(t.write, real).time # INVALID_TIME
      /\ RunsFrom(Arm(t.write, real), IF t.write.time = INVALID_TIME THEN now ELSE lastSeen[s].write)
  BY TimelyTypes, ArmedRuns DEF Timely, Timed
<1>6. RunsOrNot(t.read, lastSeen[s].read) /\ RunsOrNot(t.write, lastSeen[s].write)
  BY TimelyTypes DEF Timed
<1>7. l.read \in Times /\ l.write \in Times
  BY <1>3, TimelyTypes
<1> HIDE DEF c, l, t
<1>8. /\ "EPOLLIN" \in mask \/ t.read.time # INVALID_TIME => c.read.time # INVALID_TIME
      /\ "EPOLLOUT" \in mask \/ t.write.time # INVALID_TIME => c.write.time # INVALID_TIME
  BY <1>2, <1>4, <1>5
<1>9. HasTimeout(c)
  BY <1>8 DEF HasTimeout, Timely, FiniteTimeouts
<1>10. RunsOrNot(c.read, l.read)
  BY <1>2, <1>3, <1>4, <1>6 DEF RunsOrNot
<1>11. RunsOrNot(c.write, l.write)
  BY <1>2, <1>3, <1>5, <1>6 DEF RunsOrNot
<1>12. QED
  BY <1>1, <1>7, <1>8, <1>9, <1>10, <1>11 DEF c, l, t

(* What a report makes of them. *)
LEMMA RefreshedContextFacts ==
  ASSUME Timely, NEW s \in active
  PROVE  LET c == RefreshedContext(s)
         IN  /\ c \in Context /\ HasTimeout(c)
             /\ RunsOrNot(c.read, IF "EPOLLIN" \in batch[s] THEN now ELSE lastSeen[s].read)
             /\ RunsOrNot(c.write, IF "EPOLLOUT" \in batch[s] THEN now ELSE lastSeen[s].write)
             /\ "EPOLLIN" \in batch[s] \/ context[s].read.time # INVALID_TIME =>
                  c.read.time # INVALID_TIME
             /\ "EPOLLOUT" \in batch[s] \/ context[s].write.time # INVALID_TIME =>
                  c.write.time # INVALID_TIME
<1> DEFINE c == RefreshedContext(s)
           t == context[s]
<1>1. s \in Sockets /\ PollerTypeOK
  BY TimelyTypes DEF PollerTypeOK
<1>2. c \in Context
  BY <1>1, RefreshedContextType
<1>3. /\ c.read = IF "EPOLLIN" \in batch[s] THEN update_timeout(t.read, now) ELSE t.read
      /\ c.write = IF "EPOLLOUT" \in batch[s] THEN update_timeout(t.write, now) ELSE t.write
  BY DEF RefreshedContext
<1>4. /\ RunsOrNot(t.read, lastSeen[s].read) /\ RunsOrNot(t.write, lastSeen[s].write)
      /\ HasTimeout(t)
      /\ "EPOLLIN" \in batch[s] => t.read.time # INVALID_TIME
      /\ "EPOLLOUT" \in batch[s] => t.write.time # INVALID_TIME
  BY <1>1, TimelyTypes DEF Timed
<1>5. ASSUME "EPOLLIN" \in batch[s]
      PROVE  /\ update_timeout(t.read, now).time # INVALID_TIME
             /\ RunsFrom(update_timeout(t.read, now), now)
  <2>1. t.read.step \in RealSteps
    BY <1>4, <1>5 DEF RunsOrNot, RunsFrom
  <2>2. QED
    BY <1>1, <2>1, TimelyTypes, RestartedRuns DEF Timely
<1>6. ASSUME "EPOLLOUT" \in batch[s]
      PROVE  /\ update_timeout(t.write, now).time # INVALID_TIME
             /\ RunsFrom(update_timeout(t.write, now), now)
  <2>1. t.write.step \in RealSteps
    BY <1>4, <1>6 DEF RunsOrNot, RunsFrom
  <2>2. QED
    BY <1>1, <2>1, TimelyTypes, RestartedRuns DEF Timely
<1> HIDE DEF c, t
<1>7. /\ "EPOLLIN" \in batch[s] \/ t.read.time # INVALID_TIME => c.read.time # INVALID_TIME
      /\ "EPOLLOUT" \in batch[s] \/ t.write.time # INVALID_TIME => c.write.time # INVALID_TIME
  BY <1>3, <1>5, <1>6
<1>8. HasTimeout(c)
  BY <1>4, <1>7 DEF HasTimeout
<1>9. RunsOrNot(c.read, IF "EPOLLIN" \in batch[s] THEN now ELSE lastSeen[s].read)
  BY <1>3, <1>4, <1>5 DEF RunsOrNot
<1>10. RunsOrNot(c.write, IF "EPOLLOUT" \in batch[s] THEN now ELSE lastSeen[s].write)
  BY <1>3, <1>4, <1>6 DEF RunsOrNot
<1>11. QED
  BY <1>2, <1>7, <1>8, <1>9, <1>10 DEF c, t

(* So an assertion about timeouts does not fail.                           *)
LEMMA TimelyFails ==
  ASSUME Timely, [ReactorNext]_rvars, failed' # "none"
  PROVE  failed' = "nothing_found" /\ poll /\ process_failure
<1>1. ASSUME failed' = "has_timeout", process_epoll_events PROVE FALSE
  <2>1. PICK s \in active : ~HasTimeout(RefreshedContext(s))
    BY <1>1, TimelyTypes DEF process_epoll_events, Abort
  <2>2. QED
    BY <2>1, RefreshedContextFacts
<1>2. ASSUME failed' = "has_timeout", NEW t \in Threads, NEW s \in Sockets, NEW mask \in Masks,
             NEW step \in Steps, update_and_attach(t, s, mask, step)
      PROVE  FALSE
  <2>1. ScheduleFails(s, mask, step)
    BY <1>2, TimelyTypes, AliveFacts, UpdateFacts
  <2>2. QED
    BY <2>1, StepIsReal, ArmedContextFacts DEF ScheduleFails
<1>3. QED
  BY <1>1, <1>2, FailFacts DEF Timely

LEMMA TimeInit == ReactorInit => TimeInv
<1> SUFFICES ASSUME ReactorInit PROVE TimeInv
  OBVIOUS
<1>1. PollerInit
  BY DEF ReactorInit
<1>2. NewContext.read.time = INVALID_TIME /\ NewContext.write.time = INVALID_TIME
  BY DEF NewContext, NoTimeout
<1>3. ASSUME NEW s \in Sockets PROVE Timed(s) /\ Armed(s)
  BY <1>1, <1>2 DEF PollerInit, Timed, Armed, RunsOrNot
<1>4. QED
  BY <1>1, <1>3 DEF PollerInit, TimeInv

(* A socket the poller does not know has no timeout. *)
LEMMA UnknownIsTimed ==
  ASSUME NEW s \in Sockets, s \notin active, context[s] = NewContext
  PROVE  Timed(s)
<1>1. NewContext.read.time = INVALID_TIME /\ NewContext.write.time = INVALID_TIME
  BY DEF NewContext, NoTimeout
<1>2. QED
  BY <1>1 DEF Timed, RunsOrNot

(* Steps that leave the timeouts, the reports and the clock alone.         *)
LEMMA TimeSame ==
  ASSUME Timely, UNCHANGED <<now, tableVars, epoll, drift, batch>>,
         pollPc' = pollPc \/ (pollPc # "schedule" /\ pollPc' # "schedule"),
         \A s \in active : ClosePending(s) => ClosePending(s)'
  PROVE  TimeInv'
<1>1. UNCHANGED <<now, active, context, deadline, out, lastSeen, epoll, drift, batch>>
  BY DEF tableVars
<1>2. ASSUME NEW s \in Sockets PROVE (Timed(s) /\ Armed(s))'
  BY <1>1, TimelyTypes DEF Timed, Armed, RunsOrNot, RunsFrom
<1>3. QED
  BY <1>1, <1>2 DEF Timely, TimeInv

LEMMA PendingSame ==
  ASSUME UNCHANGED <<out, current, closing>>, NEW s, ClosePending(s)
  PROVE  ClosePending(s)'
  BY DEF ClosePending

(* A socket of m_active_sockets that is INVALID is the one being closed.   *)
LEMMA ActiveInvalid ==
  ASSUME Alive, NEW s \in active, state[s] = "INVALID"
  PROVE  closing.socket = s /\ closing.at \notin {"reset", "on_close"}
<1>1. s \in Sockets /\ Attached(s)
  BY AliveFacts DEF PollerTypeOK
<1>2. QED
  BY <1>1 DEF Attached, Forgotten

LEMMA TimeQuiet ==
  ASSUME Timely, QuietStep
  PROVE  TimeInv'
<1>1. UNCHANGED <<now, tableVars, epoll, pollPc, drift, batch, closing>> /\ closing = NotClosing
  BY TimelyTypes, AliveFacts, QuietFacts DEF Alive, pollerVars, kernelVars, pollVars, socketVars
<1>2. ASSUME NEW s \in active, ClosePending(s) PROVE ClosePending(s)'
  <2>1. s \in Sockets /\ closing.socket # s
    BY <1>1, TimelyTypes, SocketAssumption DEF PollerTypeOK, NotClosing
  <2>2. CASE "CLOSE" \in out[s].action
    BY <1>1, <2>2 DEF ClosePending, tableVars
  <2>3. CASE current.socket = s /\ "CLOSE" \in current.action
    <3>1. pc \in InEvent
      BY <2>1, <2>3, TimelyTypes, AliveFacts, SocketAssumption DEF Alive, ControlInv, NoCurrent
    <3>2. state[s] # "INVALID"
      BY <2>1, TimelyTypes, ActiveInvalid
    <3>3. current'.socket = current.socket /\ "CLOSE" \in current'.action
      BY <2>3, <3>1, <3>2, TimelyTypes, AliveFacts, QuietFacts DEF Alive
    <3>4. QED
      BY <2>3, <3>3 DEF ClosePending
  <2>4. QED
    BY <1>2, <2>1, <2>2, <2>3 DEF ClosePending
<1>3. QED
  BY <1>1, <1>2, TimeSame

LEMMA TimeClose ==
  ASSUME Timely, BeginClose \/ EndClose
                 \/ ((close_lock \/ close_reset) /\ UNCHANGED reactorVars)
  PROVE  TimeInv'
<1>1. UNCHANGED <<now, tableVars, epoll, pollPc, drift, batch>>
  BY TimelyTypes, AliveFacts, BeginCloseFacts, EndCloseFacts, CloseLockFacts, CloseResetFacts
     DEF Alive, pollerVars, kernelVars, pollVars
<1>2. ASSUME NEW s \in active, ClosePending(s) PROVE ClosePending(s)'
  <2>1. s \in Sockets /\ out'[s] = out[s]
    BY <1>1, TimelyTypes DEF PollerTypeOK, tableVars
  <2>2. CASE BeginClose
    <3>1. PICK x \in Sockets :
            /\ closing = NotClosing /\ closing'.socket = x
            /\ current'.socket = current.socket
            /\ current' = current \/ current.socket = x
      BY <2>2, TimelyTypes, AliveFacts, BeginCloseFacts DEF Alive
    <3>2. closing.socket # s
      BY <2>1, <3>1, SocketAssumption DEF NotClosing
    <3>3. QED
      BY <1>2, <2>1, <3>1, <3>2 DEF ClosePending
  <2>3. CASE EndClose
    <3>1. /\ closing.at = "on_close" /\ closing.socket \in Sockets
          /\ state[closing.socket] = "INVALID"
      <4>1. closing.at = "on_close"
        BY <2>3, TimelyTypes, AliveFacts, EndCloseFacts DEF Alive
      <4>2. QED
        BY <4>1, TimelyTypes, AliveFacts, ClosingFacts DEF Alive, BasicInv, CloseInv
    <3>2. closing.socket # s
      BY <3>1, TimelyTypes, ActiveInvalid
    <3>3. \/ current' = current
          \/ current'.socket = current.socket /\ "CLOSE" \in current'.action
          \/ current.socket = closing.socket
      BY <2>3, TimelyTypes, AliveFacts, EndCloseFacts DEF Alive
    <3>4. QED
      BY <1>2, <2>1, <3>2, <3>3 DEF ClosePending
  <2>4. CASE (close_lock \/ close_reset) /\ UNCHANGED reactorVars
    <3>1. closing'.socket = closing.socket /\ current' = current
      BY <2>4, TimelyTypes, AliveFacts, CloseLockFacts, CloseResetFacts DEF Alive, reactorVars
    <3>2. QED
      BY <1>2, <2>1, <3>1 DEF ClosePending
  <2>5. QED
    BY <2>2, <2>3, <2>4
<1>3. QED
  BY <1>1, <1>2, TimeSame

LEMMA TimeRemove ==
  ASSUME Timely, close_remove, UNCHANGED reactorVars
  PROVE  TimeInv'
<1>1. /\ closing.at = "remove_socket" /\ remove_socket(LoopThread, closing.socket)
      /\ closing' = [at |-> "reset", socket |-> closing.socket]
  BY TimelyTypes, AliveFacts, CloseRemoveFacts DEF Alive
<1>2. PICK x \in Sockets : x = closing.socket
  BY <1>1, TimelyTypes, AliveFacts, ClosingFacts DEF Alive
<1>3. /\ closing'.socket = closing.socket /\ current' = current
      /\ UNCHANGED <<now, pollPc, drift, batch>>
      /\ pollPc = "idle"
  BY <1>1, TimelyTypes, AliveFacts, ClosingFacts DEF Alive, reactorVars, remove_socket, pollVars
<1>4. /\ \A s \in Sockets \ {x} :
           /\ context'[s] = context[s] /\ lastSeen'[s] = lastSeen[s] /\ out'[s] = out[s]
           /\ epoll'[s] = epoll[s] /\ (s \in active' <=> s \in active)
           /\ deadline'[s] = deadline[s]
      /\ x \notin active' /\ context'[x] = NewContext
      /\ deadline'[x] \in {INVALID_TIME, deadline[x]}
  <2>1. /\ \A s \in Sockets \ {x} : epoll'[s] = epoll[s]
    BY <1>1, <1>2, TimelyTypes DEF remove_socket, EpollDel, PollerTypeOK
  <2>2. CASE x \in active
    BY <1>1, <1>2, <2>1, <2>2, TimelyTypes
       DEF remove_socket, DeadlineDeleted, Sched!Clear, OutEventErased, PollerTypeOK
  <2>3. CASE x \notin active
    BY <1>1, <1>2, <2>1, <2>3, TimelyTypes DEF remove_socket, tableVars, Timed
  <2>4. QED
    BY <2>2, <2>3
<1>5. Timed(x)'
  BY <1>4, UnknownIsTimed, NewContextType DEF Timed, RunsOrNot, NewContext, NoTimeout
<1>6. Armed(x)'
  BY <1>3, <1>4, TimelyTypes DEF Armed
<1>7. ASSUME NEW s \in Sockets \ {x} PROVE (Timed(s) /\ Armed(s))'
  <2>1. ClosePending(s) => ClosePending(s)'
    BY <1>3, <1>4 DEF ClosePending
  <2>2. QED
    BY <1>3, <1>4, <2>1, TimelyTypes DEF Timed, Armed, RunsOrNot, RunsFrom
<1>8. QED
  BY <1>3, <1>5, <1>6, <1>7 DEF Timely, TimeInv

LEMMA TimeOutside ==
  ASSUME Timely, OutsideStep
  PROVE  TimeInv'
<1>1. UNCHANGED <<tableVars, epoll, pollPc, batch, current, closing>>
  BY OutsideFacts DEF socketVars
<1>2. \A s : ClosePending(s) => ClosePending(s)'
  BY <1>1, PendingSame DEF tableVars
<1>3. CASE UNCHANGED <<now, drift>>
  BY <1>1, <1>2, <1>3, TimeSame
<1>4. CASE Tick
  <2>1. /\ now' = now + 1
        /\ IF pollPc = "schedule" THEN drift' = drift + 1 ELSE drift' = drift
        /\ UNCHANGED <<active, context, deadline, out, lastSeen>>
    BY <1>4 DEF Tick, tableVars
  <2>2. now \in Nat /\ drift \in Nat
    BY TimelyTypes, BoundAssumption DEF PollerTypeOK
  <2>3. ASSUME NEW s \in Sockets PROVE Timed(s)'
    <3>1. lastSeen[s].read \in Nat /\ lastSeen[s].write \in Nat
      BY TimelyTypes, BoundAssumption DEF Times
    <3>2. QED
      BY <1>1, <2>1, <2>2, <3>1, TimelyTypes DEF Timed, RunsOrNot, RunsFrom
  <2>4. ASSUME NEW s \in Sockets PROVE Armed(s)'
    <3>1. lastSeen[s].read \in Nat /\ lastSeen[s].write \in Nat /\ deadline[s] \in Nat
      BY TimelyTypes, BoundAssumption, InvalidTimeType DEF Times, PollerTypeOK
    <3>2. \A step \in RealSteps : step \in Nat
      BY RealStepType DEF Timely
    <3>3. deadline[s] # INVALID_TIME => \E step \in RealSteps : deadline[s] <= now' + step
      BY <2>1, <2>2, <3>1, <3>2, TimelyTypes DEF Armed
    <3>4. QED
      BY <1>1, <1>2, <2>1, <2>2, <3>1, <3>3, TimelyTypes DEF Armed
  <2>5. QED
    BY <1>1, <2>1, <2>3, <2>4 DEF Timely, TimeInv
<1>5. QED
  BY <1>3, <1>4, OutsideFacts

LEMMA TimeLock ==
  ASSUME Timely, (~m_stop /\ check_stop) \/ callback_update_lock
                 \/ \E c \in Clients : hand_over_lock(c)
  PROVE  TimeInv'
<1>1. CASE ~m_stop /\ check_stop
  <2>1. /\ UNCHANGED <<now, tableVars, epoll, drift, batch, current, closing>>
        /\ pollPc = "idle" /\ pollPc' = "wait_time"
    BY <1>1 DEF check_stop, start_poll, kernelVars, socketVars
  <2>2. QED
    BY <2>1, PendingSame, TimeSame DEF tableVars
<1>2. CASE callback_update_lock \/ \E c \in Clients : hand_over_lock(c)
  <2>1. UNCHANGED <<now, tableVars, epoll, pollPc, drift, batch, current, closing>>
    BY <1>2, TimelyTypes, AliveFacts, CallbackLockFacts
       DEF Alive, hand_over_lock, lock_for, kernelVars, pollVars, socketVars, reactorVars
  <2>2. QED
    BY <2>1, PendingSame, TimeSame DEF tableVars
<1>3. QED
  BY <1>1, <1>2

LEMMA TimeTakeEvent ==
  ASSUME Timely, take_event
  PROVE  TimeInv'
<1>1. PICK x \in Sockets :
        /\ out' = [out EXCEPT ![x] = NoEvent]
        /\ UNCHANGED <<now, active, context, deadline, lastSeen, kernelVars, pollVars>>
        /\ current' = [socket |-> x, action |-> out[x].action, reason |-> out[x].reason]
  BY TimelyTypes, AliveFacts, TakeEventFacts DEF Alive
<1>2. /\ UNCHANGED <<epoll, pollPc, drift, batch, closing>> /\ pollPc = "idle"
      /\ pc = "get_next_event"
  BY <1>1, TimelyTypes, AliveFacts, TakeEventFacts DEF Alive, kernelVars, pollVars, socketVars
<1>3. current = NoCurrent
  BY <1>2, TimelyTypes, AliveFacts DEF Alive, ControlInv, InEvent
<1>4. ASSUME NEW s \in Sockets, ClosePending(s) PROVE ClosePending(s)'
  <2>1. current.action = {}
    BY <1>3 DEF NoCurrent
  <2>2. s # x => out'[s] = out[s]
    BY <1>1, TimelyTypes DEF PollerTypeOK
  <2>3. QED
    BY <1>1, <1>2, <1>4, <2>1, <2>2 DEF ClosePending
<1>5. ASSUME NEW s \in Sockets PROVE (Timed(s) /\ Armed(s))'
  BY <1>1, <1>2, <1>4, TimelyTypes DEF Timed, Armed, RunsOrNot, RunsFrom
<1>6. QED
  BY <1>1, <1>2, <1>5 DEF Timely, TimeInv

LEMMA TimeUpdate ==
  ASSUME Timely, failed' = "none", NEW t \in Threads,
         NEW x \in Sockets, NEW mask \in Masks, NEW step \in Steps,
         update_and_attach(t, x, mask, step),
         state[x] = "CREATED" \/ x \in active, pollPc # "schedule", current' = current
  PROVE  TimeInv'
<1> DEFINE real == IF step = 0 THEN DEFAULT_TIMEOUT_MS ELSE step
<1>1. /\ UNCHANGED <<now, closing, out, pollPc, drift, batch>>
      /\ Schedule(x, mask, step) /\ active' = active \cup {x}
      /\ \/ x \in active /\ epoll' = EpollMod(x, mask)
         \/ x \notin active /\ epoll' = EpollAdd(x, mask)
  BY TimelyTypes, AliveFacts, UpdateFacts DEF Alive, pollVars
<1>2. PICK c, l : c = ArmedContext(context[x], mask, real) /\ l = SeenAfterUpdate(x, mask)
  OBVIOUS
<1>3. /\ c \in Context /\ HasTimeout(c)
      /\ RunsOrNot(c.read, l.read) /\ RunsOrNot(c.write, l.write)
      /\ l.read \in Times /\ l.write \in Times
      /\ "EPOLLIN" \in mask \/ context[x].read.time # INVALID_TIME => c.read.time # INVALID_TIME
      /\ "EPOLLOUT" \in mask \/ context[x].write.time # INVALID_TIME => c.write.time # INVALID_TIME
  <2>1. real \in RealSteps
    BY StepIsReal
  <2>2. QED
    BY <1>2, <2>1, ArmedContextFacts
<1>4. /\ get_nearest_timeout(c) # INVALID_TIME
      /\ \E p \in RealSteps : get_nearest_timeout(c) <= now + p
  BY <1>3, TimelyTypes, Horizon DEF Timely
<1>5. /\ context' = [context EXCEPT ![x] = c]
      /\ deadline' = [deadline EXCEPT ![x] = get_nearest_timeout(c)]
      /\ lastSeen' = [lastSeen EXCEPT ![x] = l]
  <2>1. step # INVALID_TIME
    BY FiniteSteps DEF Timely
  <2>2. QED
    BY <1>1, <1>2, <1>4, <2>1 DEF Schedule, Sched!Set
<1>6. /\ context'[x] = c /\ deadline'[x] = get_nearest_timeout(c) /\ lastSeen'[x] = l
      /\ x \in active'
      /\ \A s \in Sockets \ {x} :
           /\ context'[s] = context[s] /\ deadline'[s] = deadline[s]
           /\ lastSeen'[s] = lastSeen[s] /\ epoll'[s] = epoll[s]
           /\ s \in active' <=> s \in active
  BY <1>1, <1>5, TimelyTypes DEF PollerTypeOK, EpollMod, EpollAdd
<1>7. epoll'[x].mask = mask
  <2>1. CASE x \in active
    BY <1>1, <2>1, TimelyTypes DEF PollerTypeOK, EpollMod, Interest
  <2>2. CASE x \notin active
    <3>1. ~epoll[x].registered
      BY <2>2, TimelyTypes, AliveFacts DEF Attached, Forgotten
    <3>2. QED
      BY <1>1, <2>2, <3>1, TimelyTypes DEF PollerTypeOK, EpollAdd, Interest
  <2>3. QED
    BY <2>1, <2>2
<1>8. /\ "EPOLLIN" \in batch[x] => context[x].read.time # INVALID_TIME
      /\ "EPOLLOUT" \in batch[x] => context[x].write.time # INVALID_TIME
  <2>1. batch[x] # {} => x \in active
    BY TimelyTypes, AliveFacts DEF Reporting
  <2>2. QED
    BY <2>1, TimelyTypes DEF Timed
<1> HIDE DEF real
<1>9. RunsOrNot(c.read, l.read)' /\ RunsOrNot(c.write, l.write)'
  BY <1>1, <1>3 DEF RunsOrNot, RunsFrom
<1>10. Timed(x)'
  BY <1>1, <1>3, <1>6, <1>7, <1>8, <1>9 DEF Timed
<1>11. Armed(x)'
  BY <1>1, <1>4, <1>6, TimelyTypes DEF Armed
<1>12. ASSUME NEW s \in Sockets \ {x} PROVE (Timed(s) /\ Armed(s))'
  <2>1. ClosePending(s) => ClosePending(s)'
    BY <1>1, PendingSame
  <2>2. QED
    BY <1>1, <1>6, <2>1, TimelyTypes DEF Timed, Armed, RunsOrNot, RunsFrom
<1>13. QED
  BY <1>1, <1>10, <1>11, <1>12 DEF Timely, TimeInv

LEMMA TimeCallbackUpdate ==
  ASSUME Timely, failed' = "none", callback_update
  PROVE  TimeInv'
<1>1. PICK s \in Sockets, mask \in Masks, step \in Steps :
        /\ (state[s] = "READY" /\ s \in attached) \/ state[s] = "CREATED"
        /\ update_and_attach(LoopThread, s, mask, step)
  BY TimelyTypes, AliveFacts, CallbackUpdateFacts DEF Alive
<1>2. /\ pollPc = "idle" /\ current' = current /\ closing = NotClosing /\ pc = "update"
  BY TimelyTypes, AliveFacts, CallbackUpdateFacts DEF Alive
<1>3. state[s] = "CREATED" \/ s \in active
  BY <1>1, <1>2, TimelyTypes, AliveFacts, SocketAssumption DEF Attached, Stopped, NotClosing
<1>4. QED
  BY <1>1, <1>2, <1>3, TimeUpdate DEF Threads

LEMMA TimeHandOver ==
  ASSUME Timely, failed' = "none", NEW c \in Clients, hand_over(c)
  PROVE  TimeInv'
<1>1. /\ UNCHANGED current /\ c \in Threads /\ pollPc # "schedule"
      /\ \E s \in Sockets, mask \in Masks, step \in Steps :
           state[s] = "CREATED" /\ update_and_attach(c, s, mask, step)
  BY TimelyTypes, AliveFacts, HandOverFacts DEF Alive, reactorVars
<1>2. QED
  BY <1>1, TimeUpdate

-----------------------------------------------------------------------------
(* poll *)

LEMMA TimeWait ==
  ASSUME Timely, poll, get_wait_time \/ epoll_wait_interrupted \/ epoll_wait_return
  PROVE  TimeInv'
<1>1. /\ UNCHANGED <<now, active, context, deadline, out, lastSeen, drift, current, closing>>
      /\ pollPc # "schedule"
  BY TimelyTypes, AliveFacts, PollFacts
     DEF Alive, get_wait_time, epoll_wait_interrupted, epoll_wait_return, tableVars, socketVars
<1>2. pollPc' # "schedule"
  <2>1. get_wait_time => pollPc' \in {"process", "process_failure", "epoll_wait"}
    BY DEF get_wait_time
  <2>2. QED
    BY <2>1 DEF epoll_wait_interrupted, epoll_wait_return
<1>3. ASSUME NEW s \in Sockets
      PROVE  /\ epoll'[s].mask = epoll[s].mask
             /\ {"EPOLLIN", "EPOLLOUT"} \cap batch'[s] \subseteq epoll[s].mask \cup batch[s]
  <2>1. CASE get_wait_time \/ epoll_wait_interrupted
    BY <2>1 DEF get_wait_time, epoll_wait_interrupted, kernelVars
  <2>2. CASE epoll_wait_return
    <3>1. PICK ev \in [Sockets -> SUBSET Conditions] :
            /\ \A p \in Sockets : ev[p] \subseteq Reportable(p)
            /\ batch' = ev
            /\ epoll' = [p \in Sockets |->
                           IF ev[p] # {} /\ "EPOLLONESHOT" \in epoll[p].mask
                           THEN [epoll[p] EXCEPT !.armed = FALSE] ELSE epoll[p]]
      BY <2>2 DEF epoll_wait_return
    <3>2. epoll'[s].mask = epoll[s].mask
      BY <3>1, TimelyTypes DEF PollerTypeOK
    <3>3. batch'[s] \subseteq epoll[s].mask \cup HangUps
      BY <3>1 DEF Reportable
    <3>4. QED
      BY <3>2, <3>3 DEF HangUps
  <2>3. QED
    BY <2>1, <2>2
<1>4. ASSUME NEW s \in Sockets PROVE (Timed(s) /\ Armed(s))'
  <2>1. ClosePending(s) => ClosePending(s)'
    BY <1>1, PendingSame
  <2>2. QED
    BY <1>1, <1>2, <1>3, <2>1, TimelyTypes DEF Timed, Armed, RunsOrNot, RunsFrom
<1>5. QED
  BY <1>1, <1>2, <1>4 DEF Timely, TimeInv

LEMMA NothingPending ==
  ASSUME Alive, poll
  PROVE  /\ \A s \in Sockets : ClosePending(s) => "CLOSE" \in out[s].action
         /\ UNCHANGED <<current, closing>>
<1>1. current = NoCurrent /\ closing = NotClosing /\ UNCHANGED <<current, closing>>
  BY AliveFacts, PollFacts DEF Alive, socketVars
<1>2. QED
  BY <1>1, SocketAssumption DEF ClosePending, NoCurrent, NotClosing

LEMMA TimeProcess ==
  ASSUME Timely, failed' = "none", poll, process_epoll_events
  PROVE  TimeInv'
<1>1. /\ pollPc = "process" /\ pollPc' = "schedule"
      /\ UNCHANGED <<now, epoll, drift, batch>>
  BY TimelyTypes, ProcessFacts
<1>2. PICK S \in SUBSET active :
        /\ S \subseteq Reported(batch)
        /\ \/ HarvestAndStop(S)
           \/ S = Reported(batch) /\ Harvest(S) /\ active' = active
  BY TimelyTypes, ProcessFacts
<1>3. drift = 0 /\ Drained
  BY <1>1, TimelyTypes, AliveFacts DEF Timely, TimeInv, RoundInv
<1>4. \A s \in Sockets : deadline'[s] = IF s \in S THEN DeadlineAfter(s) ELSE deadline[s]
  BY <1>2 DEF HarvestAndStop, Harvest, Reschedule
<1>5. ASSUME NEW s \in Sockets, deadline'[s] # INVALID_TIME
      PROVE  \E step \in RealSteps : deadline'[s] <= now' + step
  <2>1. CASE s \in S
    <3>1. DeadlineAfter(s) = get_nearest_timeout(RefreshedContext(s))
      BY DEF DeadlineAfter
    <3>2. /\ (IF "EPOLLIN" \in batch[s] THEN now ELSE lastSeen[s].read) \in Times
          /\ (IF "EPOLLOUT" \in batch[s] THEN now ELSE lastSeen[s].write) \in Times
      BY TimelyTypes
    <3>3. \E step \in RealSteps : get_nearest_timeout(RefreshedContext(s)) <= now + step
      BY <2>1, <3>2, RefreshedContextFacts, TimelyTypes, Horizon DEF Timely
    <3>4. QED
      BY <1>1, <1>4, <2>1, <3>1, <3>3
  <2>2. CASE s \notin S
    BY <1>1, <1>4, <1>5, <2>2, TimelyTypes DEF Armed
  <2>3. QED
    BY <2>1, <2>2
<1>6. CASE HarvestAndStop(S)
  <2>1. active' = {} /\ \A s \in Sockets : context'[s] = NewContext /\ out'[s] = NoEvent
    BY <1>6 DEF HarvestAndStop
  <2>2. NewContext.read.time = INVALID_TIME /\ NewContext.write.time = INVALID_TIME
    BY DEF NewContext, NoTimeout
  <2>3. \A s \in Sockets : Timed(s)'
    BY <2>1, <2>2 DEF Timed, RunsOrNot
  <2>4. \A s \in Sockets : Armed(s)'
    BY <1>5, <2>1 DEF Armed, NoEvent
  <2>5. QED
    BY <1>1, <2>3, <2>4 DEF TimeInv
<1>7. CASE S = Reported(batch) /\ Harvest(S) /\ active' = active
  <2>1. ASSUME NEW s \in Sockets \ S
        PROVE  (Timed(s) /\ Armed(s))'
    <3>1. batch[s] = {} /\ context'[s] = context[s] /\ lastSeen'[s] = lastSeen[s]
      BY <1>7, TimelyTypes DEF Harvest, Reported, PollerTypeOK
    <3>2. out'[s] = NoEvent /\ deadline'[s] = deadline[s]
      BY <1>3, <1>4, <1>7 DEF Harvest, Drained
    <3>3. ~ClosePending(s)
      BY <1>3, TimelyTypes, NothingPending DEF Drained, NoEvent
    <3>4. Timed(s)'
      BY <1>1, <1>7, <3>1, TimelyTypes DEF Timed, RunsOrNot, RunsFrom
    <3>5. Armed(s)'
      BY <1>1, <1>5, <1>7, <3>1, <3>2, <3>3, TimelyTypes DEF Armed, NoEvent
    <3>6. QED
      BY <3>4, <3>5
  <2>2. ASSUME NEW s \in S
        PROVE  (Timed(s) /\ Armed(s))'
    <3>1. s \in active /\ s \in Sockets
      BY TimelyTypes DEF PollerTypeOK
    <3>2. PICK c : c = RefreshedContext(s)
      OBVIOUS
    <3>3. /\ context'[s] = c /\ deadline'[s] = get_nearest_timeout(c)
          /\ lastSeen'[s].read = IF "EPOLLIN" \in batch[s] THEN now ELSE lastSeen[s].read
          /\ lastSeen'[s].write = IF "EPOLLOUT" \in batch[s] THEN now ELSE lastSeen[s].write
          /\ out'[s] = EventOf(batch[s])
      BY <1>3, <1>4, <1>7, <3>1, <3>2 DEF Harvest, DeadlineAfter, Drained
    <3>4. /\ HasTimeout(c)
          /\ RunsOrNot(c.read, lastSeen'[s].read) /\ RunsOrNot(c.write, lastSeen'[s].write)
          /\ "EPOLLIN" \in batch[s] \/ context[s].read.time # INVALID_TIME =>
               c.read.time # INVALID_TIME
          /\ "EPOLLOUT" \in batch[s] \/ context[s].write.time # INVALID_TIME =>
               c.write.time # INVALID_TIME
      BY <3>1, <3>2, <3>3, RefreshedContextFacts
    <3>5. Timed(s)'
      <4>1. /\ c.read.time # INVALID_TIME =>
                 /\ c.read.step \in RealSteps /\ c.read.time = lastSeen'[s].read + c.read.step
                 /\ lastSeen'[s].read <= now'
            /\ c.write.time # INVALID_TIME =>
                 /\ c.write.step \in RealSteps /\ c.write.time = lastSeen'[s].write + c.write.step
                 /\ lastSeen'[s].write <= now'
        BY <1>1, <3>4 DEF RunsOrNot, RunsFrom
      <4>2. QED
        BY <1>1, <1>7, <3>1, <3>3, <3>4, <4>1, TimelyTypes DEF Timed, RunsOrNot, RunsFrom
    <3>6. /\ "READ" \in out'[s].action <=> "EPOLLIN" \in batch[s]
          /\ "WRITE" \in out'[s].action <=> "EPOLLOUT" \in batch[s]
      BY <3>3 DEF EventOf, ActionsOf
    <3>7. now + 0 >= now
      BY TimelyTypes
    <3>8. Armed(s)'
      BY <1>1, <1>3, <1>5, <1>7, <3>1, <3>3, <3>4, <3>6, <3>7 DEF Armed
    <3>9. QED
      BY <3>5, <3>8
  <2>3. QED
    BY <1>1, <2>1, <2>2 DEF TimeInv
<1>8. QED
  BY <1>2, <1>6, <1>7

LEMMA TimeScheduler ==
  ASSUME Timely, poll, process_scheduler
  PROVE  TimeInv'
<1>1. /\ pollPc = "schedule" /\ pollPc' = "idle" /\ drift' = 0
      /\ UNCHANGED <<now, active, context, lastSeen, epoll, current, closing>>
      /\ \A s \in Sockets : /\ batch'[s] = {}
                            /\ out'[s] = EventAfterTimeout(s)
                            /\ deadline'[s] = IF Due(s) THEN INVALID_TIME ELSE deadline[s]
  BY TimelyTypes, NothingPending DEF process_scheduler, kernelVars
<1>2. ASSUME NEW s \in Sockets PROVE Timed(s)'
  BY <1>1, TimelyTypes DEF Timed, RunsOrNot, RunsFrom
<1>3. ASSUME NEW s \in active, "CLOSE" \notin out[s].action, Due(s)
      PROVE  TimedOut(s) # {}
  <2>1. s \in Sockets /\ ~ClosePending(s)
    BY <1>3, TimelyTypes, NothingPending DEF PollerTypeOK
  <2>2. deadline[s] = get_nearest_timeout(context[s]) /\ deadline[s] <= now
    BY <1>3, <2>1, TimelyTypes DEF Armed, Due
  <2>3. /\ now \in Nat /\ drift \in Nat /\ drift <= MaxDrift /\ MaxDrift \in Nat
        /\ lastSeen[s].read \in Nat /\ lastSeen[s].write \in Nat
        /\ \A step \in RealSteps : step \in Nat /\ MaxDrift < step
    BY <2>1, TimelyTypes, RealStepType, BoundAssumption DEF Timely, PollerTypeOK, Times
  <2>4. get_nearest_timeout(context[s]) # INVALID_TIME
    BY <1>3, <2>1, TimelyTypes, NearestIsSet DEF Timed
  <2>5. CASE get_nearest_timeout(context[s]) = context[s].read.time
    <3>1. context[s].read.time <= now /\ RunsFrom(context[s].read, lastSeen[s].read)
      BY <2>1, <2>2, <2>4, <2>5, TimelyTypes DEF Timed, RunsOrNot
    <3>2. "READ" \notin out[s].action
      BY <1>1, <2>1, <2>3, <3>1, TimelyTypes DEF Armed, RunsFrom
    <3>3. "TIMEOUT_READ" \in get_timeout_type(context[s], now)
      <4>1. context[s].read.time \in Nat
        BY <2>1, TimelyTypes, InvalidTimeType DEF Timeout
      <4>2. QED
        BY <2>3, <3>1, <4>1 DEF get_timeout_type
    <3>4. "TIMEOUT_READ" \in TimedOut(s)
      BY <3>2, <3>3 DEF TimedOut
    <3>5. QED
      BY <3>4
  <2>6. CASE get_nearest_timeout(context[s]) = context[s].write.time
    <3>1. context[s].write.time <= now /\ RunsFrom(context[s].write, lastSeen[s].write)
      BY <2>1, <2>2, <2>4, <2>6, TimelyTypes DEF Timed, RunsOrNot
    <3>2. "WRITE" \notin out[s].action
      BY <1>1, <2>1, <2>3, <3>1, TimelyTypes DEF Armed, RunsFrom
    <3>3. "TIMEOUT_WRITE" \in get_timeout_type(context[s], now)
      <4>1. context[s].write.time \in Nat
        BY <2>1, TimelyTypes, InvalidTimeType DEF Timeout
      <4>2. QED
        BY <2>3, <3>1, <4>1 DEF get_timeout_type
    <3>4. "TIMEOUT_WRITE" \in TimedOut(s)
      BY <3>2, <3>3 DEF TimedOut
    <3>5. QED
      BY <3>4
  <2>7. QED
    BY <2>1, <2>5, <2>6, TimelyTypes, NearestIsSet
<1>4. ASSUME NEW s \in active PROVE (ClosePending(s) \/ deadline[s] = get_nearest_timeout(context[s]))'
  <2>1. s \in Sockets
    BY TimelyTypes DEF PollerTypeOK
  <2>2. CASE "CLOSE" \in out[s].action
    BY <1>1, <2>1, <2>2 DEF EventAfterTimeout, ClosePending
  <2>3. CASE "CLOSE" \notin out[s].action /\ Due(s)
    <3>1. TimedOut(s) # {}
      BY <1>3, <2>3
    <3>2. "CLOSE" \in EventAfterTimeout(s).action
      BY <2>3, <3>1 DEF EventAfterTimeout
    <3>3. QED
      BY <1>1, <2>1, <3>2 DEF ClosePending
  <2>4. CASE "CLOSE" \notin out[s].action /\ ~Due(s)
    BY <1>1, <2>1, <2>4, TimelyTypes, NothingPending DEF Armed
  <2>5. QED
    BY <2>2, <2>3, <2>4
<1>5. ASSUME NEW s \in Sockets PROVE Armed(s)'
  BY <1>1, <1>4, TimelyTypes DEF Armed
<1>6. QED
  BY <1>1, <1>2, <1>5 DEF TimeInv

LEMMA TimeStep ==
  ASSUME FiniteTimeouts, BasicInv, LifeInv, TimeInv, [ReactorNext]_rvars
  PROVE  TimeInv'
<1>1. CASE UNCHANGED rvars
  <2>1. UNCHANGED <<now, active, context, deadline, out, lastSeen, epoll, batch, pollPc, drift,
                    current, closing>>
    BY <1>1 DEF rvars, pollerVars, tableVars, kernelVars, pollVars, socketVars, reactorVars
  <2>2. QED
    BY <2>1 DEF TimeInv, Timed, Armed, RunsOrNot, RunsFrom, ClosePending
<1>2. CASE failed = "none" /\ ReactorNext
  <2>1. Timely
    BY <1>2 DEF Timely, Alive
  <2>2. CASE failed' # "none"
    <3>1. poll /\ process_failure
      BY <2>1, <2>2, TimelyFails
    <3>2. UNCHANGED <<now, tableVars, epoll, pollPc, drift, batch, current, closing>>
      BY <2>1, <3>1, TimelyTypes, NothingPending DEF process_failure, Abort, kernelVars, pollVars
    <3>3. QED
      BY <2>1, <3>2, PendingSame, TimeSame DEF tableVars
  <2>3. CASE failed' = "none"
    <3>1. poll => TimeInv'
      <4>1. ~process_failure
        BY <2>3 DEF process_failure, Abort
      <4>2. poll => PollStep
        BY DEF poll
      <4>3. QED
        BY <2>1, <2>3, <4>1, <4>2, TimeWait, TimeProcess, TimeScheduler DEF PollStep
    <3>2. QED
      BY <1>2, <2>1, <2>3, <3>1, TimeQuiet, TimeClose, TimeRemove, TimeOutside, TimeLock,
         TimeTakeEvent, TimeCallbackUpdate, TimeHandOver, StepCases
  <2>4. QED
    BY <2>2, <2>3
<1>3. QED
  BY <1>1, <1>2, StepCases

-----------------------------------------------------------------------------
(* The wait. *)

(* The timeout of epoll_wait is an int: no step is as long as its positive *)
(* half, which added to the clock is still a uint64_t.                     *)
ShortWaits ==
  /\ \A step \in RealSteps : 2 * step < IntModulus
  /\ MaxTime + (IntModulus \div 2) <= INVALID_TIME

(* Without another thread in m_scheduler the wait ends by the first        *)
(* deadline.                                                               *)
LEMMA WaitsForTheFirst ==
  ASSUME Timely, ShortWaits, get_wait_time, pollPc' = "epoll_wait", lock \notin Clients,
         NEW s \in Sockets
  PROVE  wakeAt' <= deadline[s]
<1>1. PICK ms \in ms_to_next_event : ms # 0 /\ wakeAt' = GiveUpTime(ms)
  BY DEF get_wait_time
<1>2. PICK p \in Sockets :
        /\ \A q \in Sockets : deadline[p] <= deadline[q]
        /\ ms = IF deadline[p] = INVALID_TIME THEN INVALID_TIME
                ELSE IF deadline[p] <= now THEN 0 ELSE deadline[p] - now
  BY <1>1 DEF ms_to_next_event, Sched!IsEarliest
<1>3. /\ \A q \in Sockets : deadline[q] \in Nat /\ deadline[q] <= INVALID_TIME
      /\ now \in Nat /\ INVALID_TIME \in Nat
  BY TimelyTypes, InvalidTimeType DEF PollerTypeOK
<1>4. CASE deadline[p] = INVALID_TIME
  <2>1. deadline[s] = INVALID_TIME
    BY <1>2, <1>3, <1>4
  <2>2. wakeAt' \in (0 .. MaxTime + (IntModulus \div 2)) \cup {INVALID_TIME}
    BY <1>1, <1>2, <1>3, <1>4, TimelyTypes, GiveUpTimeType
  <2>3. MaxTime + (IntModulus \div 2) \in Nat
    BY BoundAssumption
  <2>4. QED
    BY <1>3, <2>1, <2>2, <2>3 DEF ShortWaits
<1>5. CASE deadline[p] # INVALID_TIME
  <2>1. ms = deadline[p] - now /\ ms \in Nat
    BY <1>1, <1>2, <1>3, <1>5
  <2>2. PICK step \in RealSteps : deadline[p] <= now + step
    BY <1>5, TimelyTypes DEF Armed
  <2>3. 2 * ms < IntModulus
    <3>1. step \in Nat /\ 2 * step < IntModulus /\ IntModulus \in Nat
      BY RealStepType, BoundAssumption DEF Timely, ShortWaits
    <3>2. QED
      BY <1>3, <2>1, <2>2, <3>1
  <2>4. wakeAt' = deadline[p]
    BY <1>1, <1>3, <2>1, <2>3, ShortWait
  <2>5. QED
    BY <1>2, <2>4
<1>6. QED
  BY <1>4, <1>5

LEMMA WakeupStep ==
  ASSUME Timely, ShortWaits, NoLostWakeup, ReactorNext
  PROVE  NoLostWakeup'
<1> SUFFICES ASSUME pollPc' = "epoll_wait", lock' \notin Clients, eventfd' = {},
                    NEW s \in Sockets
             PROVE  wakeAt' <= deadline'[s]
  BY DEF NoLostWakeup
<1>1. Alive /\ ReactorTypeOK /\ ControlInv /\ failed = "none"
  BY TimelyTypes, AliveFacts
<1>2. ~QuietStep /\ ~BeginClose /\ ~EndClose /\ ~check_stop /\ ~take_event /\ ~callback_update_lock
  <2>1. QuietStep \/ BeginClose \/ EndClose => pollPc = "idle" /\ UNCHANGED pollVars
    BY <1>1, QuietFacts, BeginCloseFacts, EndCloseFacts, ClosingFacts DEF pollerVars
  <2>2. take_event \/ callback_update_lock => pollPc = "idle" /\ UNCHANGED pollVars
    BY <1>1, TakeEventFacts, CallbackLockFacts
  <2>3. check_stop => QuietStep \/ pollPc' = "wait_time"
    BY DEF check_stop, start_poll, QuietStep
  <2>4. QED
    BY <2>1, <2>2, <2>3 DEF pollVars
<1>3. ~((close_lock \/ close_remove \/ close_reset) /\ UNCHANGED reactorVars)
  BY <1>1, ClosingFacts
     DEF close_lock, close_remove, close_reset, lock_for, remove_socket, pollerVars, pollVars
<1>4. ~callback_update
  <2> SUFFICES ASSUME callback_update PROVE FALSE
    OBVIOUS
  <2>1. pollPc = "idle" /\ \E x \in Sockets, mask \in Masks, step \in Steps :
                             update_and_attach(LoopThread, x, mask, step)
    BY <1>1, CallbackUpdateFacts
  <2>2. QED
    BY <1>1, <2>1, UpdateFacts DEF pollVars, Threads
<1>5. CASE OutsideStep
  <2>1. /\ UNCHANGED <<lock, deadline, pollPc, wakeAt>> /\ eventfd = {}
    BY <1>5, OutsideFacts DEF callVars, tableVars
  <2>2. QED
    BY <2>1 DEF NoLostWakeup
<1>6. CASE \E c \in Clients : hand_over_lock(c)
  BY <1>6 DEF hand_over_lock, lock_for
<1>7. ASSUME NEW c \in Clients, hand_over(c) PROVE FALSE
  <2>1. PICK x \in Sockets, mask \in Masks, step \in Steps :
          state[x] = "CREATED" /\ update_and_attach(c, x, mask, step)
    BY <1>1, <1>7, HandOverFacts
  <2>2. x \notin active
    BY <1>1, <2>1, AliveFacts DEF Attached, Forgotten
  <2>3. c \in Threads /\ lock = c
    BY <1>1, <1>7, HandOverFacts
  <2>4. CASE failed' = "none"
    BY <1>1, <2>1, <2>2, <2>3, <2>4, UpdateFacts
  <2>5. CASE failed' # "none"
    <3>1. failed' = "has_timeout"
      BY <1>1, <2>1, <2>3, <2>5, UpdateFacts
    <3>2. QED
      BY <2>5, <3>1, TimelyFails
  <2>6. QED
    BY <2>4, <2>5
<1>8. CASE poll
  <2>1. PollStep
    BY <1>8 DEF poll
  <2>2. ~epoll_wait_return /\ ~epoll_wait_interrupted /\ ~process_scheduler
    BY DEF epoll_wait_return, epoll_wait_interrupted, process_scheduler
  <2>3. ~process_failure /\ ~process_epoll_events
    BY DEF process_failure, process_epoll_events, Abort, pollVars
  <2>4. get_wait_time
    BY <2>1, <2>2, <2>3 DEF PollStep
  <2>5. lock' = lock /\ deadline' = deadline
    BY <2>4 DEF get_wait_time, callVars, tableVars
  <2>6. QED
    BY <2>4, <2>5, WaitsForTheFirst
<1>9. QED
  BY <1>1, <1>2, <1>3, <1>4, <1>5, <1>6, <1>7, <1>8, StepCases

TimelyInv == SafeInv /\ TimeInv /\ NoAssertionFails

LEMMA TimelyAlways ==
  ASSUME FiniteTimeouts
  PROVE  ReactorSpec => []TimelyInv
<1>1. ReactorInit => TimeInv /\ NoAssertionFails
  BY TimeInit DEF ReactorInit, PollerInit, NoAssertionFails
<1>2. TimelyInv /\ SafeInv /\ [ReactorNext]_rvars => (TimeInv /\ NoAssertionFails)'
  <2> SUFFICES ASSUME TimelyInv, [ReactorNext]_rvars PROVE (TimeInv /\ NoAssertionFails)'
    OBVIOUS
  <2>1. TimeInv'
    BY TimeStep DEF TimelyInv, SafeInv
  <2>2. CASE failed = "none" /\ failed' # "none"
    <3>1. Timely
      BY <2>2 DEF TimelyInv, SafeInv, Timely, Alive
    <3>2. QED
      BY <2>1, <2>2, <3>1, TimelyFails DEF NoAssertionFails
  <2>3. CASE failed = "none" /\ failed' = "none"
    BY <2>1, <2>3 DEF NoAssertionFails
  <2>4. CASE failed # "none"
    BY <2>1, <2>4, StepCases DEF TimelyInv, NoAssertionFails, rvars, pollerVars
  <2>5. QED
    BY <2>2, <2>3, <2>4
<1>3. QED
  BY SafeAlways, <1>1, <1>2, PTL DEF ReactorSpec, TimelyInv

(* If every call asks for reading or writing and has a timeout, the only   *)
(* assertion of the poller a Reactor can fail is that of an interrupted    *)
(* wait.                                                                   *)
THEOREM OnlyInterruptsAbort ==
  ASSUME FiniteTimeouts
  PROVE  ReactorSpec => []NoAssertionFails
<1>1. TimelyInv => NoAssertionFails
  BY DEF TimelyInv
<1>2. QED
  BY TimelyAlways, <1>1, PTL

(* Then no idle connection is kept for ever: although process_scheduler    *)
(* takes every due deadline out, and closes only for the timeouts its event*)
(* does not contradict, a registered socket has its nearest timeout in the *)
(* scheduler or is about to be closed.                                     *)
THEOREM IdleSocketsStayArmed ==
  ASSUME FiniteTimeouts
  PROVE  ReactorSpec => []TimeoutStaysArmed
<1>1. TimelyInv => TimeoutStaysArmed
  <2> SUFFICES ASSUME TimelyInv, NEW s \in active
               PROVE  ClosePending(s) \/ deadline[s] = get_nearest_timeout(context[s])
    BY DEF TimeoutStaysArmed
  <2>1. s \in Sockets
    BY DEF TimelyInv, SafeInv, BasicInv, ReactorTypeOK, PollerTypeOK
  <2>2. QED
    BY <2>1 DEF TimelyInv, TimeInv, Armed
<1>2. QED
  BY TimelyAlways, <1>1, PTL

(* And no deadline is slept through: a socket that another thread hands    *)
(* over in the middle of the unlocked look at m_scheduler writes to the    *)
(* eventfd before it releases the lock.                                    *)
THEOREM NoDeadlineIsSleptThrough ==
  ASSUME FiniteTimeouts, ShortWaits
  PROVE  ReactorSpec => []NoLostWakeup
<1>1. ReactorInit => NoLostWakeup
  BY DEF ReactorInit, PollerInit, NoLostWakeup
<1>2. TimelyInv /\ NoLostWakeup /\ [ReactorNext]_rvars => NoLostWakeup'
  <2> SUFFICES ASSUME TimelyInv, NoLostWakeup, [ReactorNext]_rvars PROVE NoLostWakeup'
    OBVIOUS
  <2>1. CASE UNCHANGED rvars
    BY <2>1 DEF rvars, pollerVars, callVars, tableVars, kernelVars, pollVars, NoLostWakeup
  <2>2. CASE failed = "none" /\ ReactorNext
    <3>1. Timely
      BY <2>2 DEF TimelyInv, SafeInv, Timely, Alive
    <3>2. QED
      BY <2>2, <3>1, WakeupStep
  <2>3. QED
    BY <2>1, <2>2, StepCases
<1>3. QED
  BY TimelyAlways, <1>1, <1>2, PTL DEF ReactorSpec
=============================================================================
