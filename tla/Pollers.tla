------------------------------- MODULE Pollers -------------------------------
(***************************************************************************)
(* socket/socket.cpp and poller/poller.cpp where there are several pollers:*)
(* sockets are handed over, moved from one poller to another and closed,   *)
(* by the loop threads and by others.                                      *)
(*                                                                         *)
(* Poller::update_socket of a socket that is new to it calls               *)
(* Socket::attach_to_poller with its own lock held, and that takes the     *)
(* lock of the poller the socket comes from. Everything a socket keeps     *)
(* itself, m_poller and m_info.state, is read and written without a lock.  *)
(*                                                                         *)
(* Timeouts, masks and signals are the business of Poller; here an event   *)
(* is a socket. remove_socket and the locked half of poll take no second   *)
(* lock, so each is one step.                                              *)
(***************************************************************************)
EXTENDS Naturals, FiniteSets

CONSTANTS
  Sockets,
  Pollers,    \* a poller is also the name of the thread that runs its loop
  MaxReport,  \* bound on the sockets of one report
  None

Threads == Pollers

ASSUME NameAssumption == None \notin Threads \cup Sockets

VARIABLES
  lock,       \* holder of each poller's m_lock
  active,     \* its m_active_sockets
  watched,    \* its epoll's interest list
  out,        \* its m_out_events
  loop,       \* where its loop is, the report it has in hand and the socket it calls back
  m_poller,   \* of each socket
  invalid,    \* the sockets whose m_info.state is INVALID
  onClose,    \* history: how often on_close was called
  call,       \* the call each thread is in
  failed,     \* the socket of which process_epoll_events asserts that it is known
  shared      \* history: the sockets two threads were let use

pollersVars == <<lock, active, watched, out>>
loopVars == <<loop, failed>>
socketVars == <<m_poller, invalid, onClose>>
vars == <<pollersVars, loopVars, socketVars, call, shared>>

Idle == [op |-> "none", at |-> "idle", socket |-> None, to |-> None, from |-> None]
NotRunning == [at |-> "start", report |-> {}, current |-> None]

TypeOK ==
  /\ lock \in [Pollers -> Threads \cup {None}]
  /\ active \in [Pollers -> SUBSET Sockets]
  /\ watched \in [Pollers -> SUBSET Sockets]
  /\ out \in [Pollers -> SUBSET Sockets]
  /\ loop \in [Pollers -> [at : {"start", "epoll_wait", "lock", "dispatch", "callback", "done"},
                           report : SUBSET Sockets, current : Sockets \cup {None}]]
  /\ m_poller \in [Sockets -> Pollers \cup {None}]
  /\ invalid \subseteq Sockets
  /\ onClose \in [Sockets -> Nat]
  /\ call \in [Threads -> [op : {"none", "update", "remove", "close"},
                           at : {"idle", "lock", "attach", "mark", "remove", "return"},
                           socket : Sockets \cup {None},
                           to : Pollers \cup {None}, from : Pollers \cup {None}]]
  /\ failed \in Sockets \cup {None}
  /\ shared \subseteq Sockets

Init ==
  /\ lock = [p \in Pollers |-> None]
  /\ active = [p \in Pollers |-> {}]
  /\ watched = [p \in Pollers |-> {}]
  /\ out = [p \in Pollers |-> {}]
  /\ loop = [p \in Pollers |-> NotRunning]
  /\ m_poller = [s \in Sockets |-> None]
  /\ invalid = {}
  /\ onClose = [s \in Sockets |-> 0]
  /\ call = [t \in Threads |-> Idle]
  /\ failed = None
  /\ shared = {}

-----------------------------------------------------------------------------
(* A call begins: out of a callback, or on a thread that is not in a loop. *)

MayCall(t) == call[t] = Idle /\ loop[t].at \in {"start", "callback", "done"}

(* history: a socket with a poller belongs to the thread of its loop, and  *)
(* to that one even in a callback of the socket, which should not send it  *)
(* away; a socket without one, or whose loop has ended, to the one thread  *)
(* that is in a call on it.                                                *)
IsShared(t, s, op, to) ==
  \/ \E p \in Pollers \ {t} : m_poller[s] = p /\ loop[p].at # "done"
  \/ \E u \in Threads \ {t} : call[u].socket = s
  \/ loop[t].current = s /\ op = "update" /\ to # t
  \/ \E p \in Pollers \ {t} : loop[p].current = s \/ s \in loop[p].report

Begin(t, s, op, at, to, from) ==
  /\ call' = [call EXCEPT ![t] = [op |-> op, at |-> at, socket |-> s, to |-> to, from |-> from]]
  /\ shared' = IF IsShared(t, s, op, to) THEN shared \cup {s} ELSE shared
  /\ UNCHANGED <<pollersVars, loopVars, socketVars>>

(* Reactor::update_socket or Socket::update_poll_mask, which reads         *)
(* m_poller for the poller. Neither looks at the state: it is up to the    *)
(* caller not to hand over a socket that is closed already.                *)
update_socket(t, s, p) ==
  /\ MayCall(t)
  /\ s \notin invalid
  /\ Begin(t, s, "update", "lock", p, None)

(* Socket::remove_from_poller: m_poller is read before the lock is asked.  *)
remove_from_poller(t, s) ==
  /\ MayCall(t)
  /\ m_poller[s] # None
  /\ Begin(t, s, "remove", "remove", None, m_poller[s])

(* Socket::close looks at the state ...                                    *)
close(t, s) ==
  /\ MayCall(t)
  /\ s \notin invalid
  /\ Begin(t, s, "close", "mark", None, None)

-----------------------------------------------------------------------------
Goes(t, at) == call' = [call EXCEPT ![t].at = at]
Returns(t) == call' = [call EXCEPT ![t] = Idle]

(* Poller::update_socket of a socket the poller knows. *)
update_known(t) ==
  /\ call[t].at = "lock"
  /\ lock[call[t].to] = None
  /\ call[t].socket \in active[call[t].to]
  /\ Returns(t)
  /\ UNCHANGED <<pollersVars, loopVars, socketVars, shared>>

(* ... and of a new one. The lock stays.                                   *)
update_new(t) ==
  LET p == call[t].to
      s == call[t].socket
  IN /\ call[t].at = "lock"
     /\ lock[p] = None
     /\ s \notin active[p]
     /\ lock' = [lock EXCEPT ![p] = t]
     /\ watched' = [watched EXCEPT ![p] = @ \cup {s}]
     /\ active' = [active EXCEPT ![p] = @ \cup {s}]
     /\ Goes(t, "attach")
     /\ UNCHANGED <<out, loopVars, socketVars, shared>>

(* Mistake: the socket's own poller is not told from another one. *)
PollerToLeaveUnchecked(s, p) == m_poller[s]

(* attach_to_poller: the poller the socket has to be removed from. *)
PollerToLeave(s, p) == IF m_poller[s] = p THEN None ELSE m_poller[s]

attach_to_poller(t) ==
  LET from == PollerToLeave(call[t].socket, call[t].to)
  IN /\ call[t].at = "attach"
     /\ call' = [call EXCEPT ![t].from = from,
                             ![t].at = IF from = None THEN "return" ELSE "remove"]
     /\ UNCHANGED <<pollersVars, loopVars, socketVars, shared>>

(* Mistakes: the interest list, also only that of a poller which does not  *)
(* know the socket any more, the pending event keeps it.                   *)
WatchedStill(p, s) == watched
WatchedIfUnknown(p, s) == [watched EXCEPT ![p] = @ \ ({s} \cap active[p])]
OutEventKept(p, s) == out

Unwatched(p, s) == [watched EXCEPT ![p] = @ \ {s}]
OutEventErased(p, s) == IF s \in active[p] THEN [out EXCEPT ![p] = @ \ {s}] ELSE out

(* Poller::remove_socket, when the lock is free. *)
remove_socket(t) ==
  LET p == call[t].from
      s == call[t].socket
  IN /\ call[t].at = "remove"
     /\ lock[p] = None
     /\ watched' = Unwatched(p, s)
     /\ out' = OutEventErased(p, s)
     /\ active' = [active EXCEPT ![p] = @ \ {s}]
     /\ Goes(t, "return")
     /\ UNCHANGED <<lock, loopVars, socketVars, shared>>

(* m_poller becomes the new poller, whose lock is given back. *)
attached(t) ==
  /\ call[t].at = "return"
  /\ call[t].op = "update"
  /\ m_poller' = [m_poller EXCEPT ![call[t].socket] = call[t].to]
  /\ lock' = [lock EXCEPT ![call[t].to] = None]
  /\ Returns(t)
  /\ UNCHANGED <<active, watched, out, loopVars, invalid, onClose, shared>>

removed(t) ==
  /\ call[t].at = "return"
  /\ call[t].op = "remove"
  /\ m_poller' = [m_poller EXCEPT ![call[t].socket] = None]
  /\ Returns(t)
  /\ UNCHANGED <<pollersVars, loopVars, invalid, onClose, shared>>

(* Mistake: a socket without a poller is not marked. *)
MarkedIfAttached(s) == IF m_poller[s] = None THEN invalid ELSE invalid \cup {s}

Marked(s) == invalid \cup {s}

(* ... close then marks the socket, reads m_poller ...                     *)
close_mark(t) ==
  LET s == call[t].socket
  IN /\ call[t].at = "mark"
     /\ invalid' = Marked(s)
     /\ call' = [call EXCEPT ![t].from = m_poller[s],
                             ![t].at = IF m_poller[s] = None THEN "return" ELSE "remove"]
     /\ UNCHANGED <<pollersVars, loopVars, m_poller, onClose, shared>>

(* ... and after remove_socket forgets the poller and calls on_close.      *)
closed(t) ==
  /\ call[t].at = "return"
  /\ call[t].op = "close"
  /\ m_poller' = [m_poller EXCEPT ![call[t].socket] = None]
  /\ onClose' = [onClose EXCEPT ![call[t].socket] = @ + 1]
  /\ Returns(t)
  /\ UNCHANGED <<pollersVars, loopVars, invalid, shared>>

CallStep(t) ==
  \/ update_known(t) \/ update_new(t) \/ attach_to_poller(t)
  \/ remove_socket(t) \/ attached(t) \/ removed(t) \/ close_mark(t) \/ closed(t)

-----------------------------------------------------------------------------
(* The loops: Reactor::run with Poller::poll. Reactor::stop may be called  *)
(* any time: the loop may find STOP in a report, and m_stop after a round. *)

run(p) ==
  /\ loop[p].at = "start"
  /\ call[p] = Idle
  /\ loop' = [loop EXCEPT ![p].at = "epoll_wait"]
  /\ UNCHANGED <<pollersVars, failed, socketVars, call, shared>>

(* epoll_wait may report any socket it watches. *)
epoll_wait(p) ==
  /\ loop[p].at = "epoll_wait"
  /\ \E report \in SUBSET watched[p] :
       /\ Cardinality(report) <= MaxReport
       /\ loop' = [loop EXCEPT ![p].at = "lock", ![p].report = report]
  /\ UNCHANGED <<pollersVars, failed, socketVars, call, shared>>

(* Under the lock: reports and due timeouts become events. The assertion   *)
(* is that every report is of an active socket. After STOP there are no    *)
(* sockets any more, though epoll keeps what it watches.                   *)
process_events(p) ==
  /\ loop[p].at = "lock"
  /\ lock[p] = None
  /\ loop[p].report \subseteq active[p]
  /\ \E due \in SUBSET active[p] :
       out' = [out EXCEPT ![p] = @ \cup loop[p].report \cup due]
  /\ loop' = [loop EXCEPT ![p].at = "dispatch", ![p].report = {}]
  /\ UNCHANGED <<lock, active, watched, failed, socketVars, call, shared>>

process_stale_report(p) ==
  /\ loop[p].at = "lock"
  /\ lock[p] = None
  /\ failed' \in loop[p].report \ active[p]
  /\ UNCHANGED <<pollersVars, loop, socketVars, call, shared>>

process_stop(p) ==
  /\ loop[p].at = "lock"
  /\ lock[p] = None
  /\ active' = [active EXCEPT ![p] = {}]
  /\ out' = [out EXCEPT ![p] = {}]
  /\ loop' = [loop EXCEPT ![p].at = "done", ![p].report = {}]
  /\ UNCHANGED <<lock, watched, failed, socketVars, call, shared>>

get_next_event(p) ==
  /\ loop[p].at = "dispatch"
  /\ \E s \in out[p] :
       /\ out' = [out EXCEPT ![p] = @ \ {s}]
       /\ loop' = [loop EXCEPT ![p].at = "callback", ![p].current = s]
  /\ UNCHANGED <<lock, active, watched, failed, socketVars, call, shared>>

(* The callbacks of one event, and its close, are over. *)
dispatched(p) ==
  /\ loop[p].at = "callback"
  /\ call[p] = Idle
  /\ loop' = [loop EXCEPT ![p].at = "dispatch", ![p].current = None]
  /\ UNCHANGED <<pollersVars, failed, socketVars, call, shared>>

no_more_events(p) ==
  /\ loop[p].at = "dispatch"
  /\ out[p] = {}
  /\ \E at \in {"epoll_wait", "done"} : loop' = [loop EXCEPT ![p].at = at]
  /\ UNCHANGED <<pollersVars, failed, socketVars, call, shared>>

LoopStep(p) ==
  \/ run(p) \/ epoll_wait(p) \/ process_events(p) \/ process_stale_report(p)
  \/ process_stop(p) \/ get_next_event(p) \/ dispatched(p) \/ no_more_events(p)

-----------------------------------------------------------------------------
Calls(t) ==
  \E s \in Sockets : \/ \E p \in Pollers : update_socket(t, s, p)
                     \/ remove_from_poller(t, s)
                     \/ close(t, s)

Next ==
  /\ failed = None
  /\ \/ \E t \in Threads : Calls(t) \/ CallStep(t)
     \/ \E p \in Pollers : LoopStep(p)

Spec == Init /\ [][Next]_vars

-----------------------------------------------------------------------------
InCall(s) == \E t \in Threads : call[t].socket = s

Unshared == Sockets \ shared

(* Between two calls a socket is in the interest list of no poller but its *)
(* own, and known and pending only where epoll watches it: a move leaves   *)
(* nothing behind, wherever it came from and even after a STOP that took   *)
(* the socket out of m_active_sockets alone. The last two hold even in the *)
(* middle of a call and of sockets that threads share.                     *)
RegisteredWhereAttached ==
  \A s \in Sockets, p \in Pollers :
    /\ s \in Unshared /\ s \in watched[p] /\ ~InCall(s) => m_poller[s] = p
    /\ s \in active[p] => s \in watched[p]
    /\ s \in out[p] => s \in active[p]

(* close calls on_close once, and afterwards no poller has the socket,     *)
(* whoever asks for it again: callbacks, the CLOSE of an event, other      *)
(* threads once the loop has ended.                                        *)
ClosedForGood ==
  \A s \in Unshared :
    ~InCall(s) => /\ onClose[s] = IF s \in invalid THEN 1 ELSE 0
                  /\ s \in invalid => \A p \in Pollers : s \notin watched[p]

(* Two loops never call back the same socket at once, although one hands   *)
(* it to the other while events of it are pending.                         *)
CalledBackByOneLoop ==
  \A s \in Unshared, p \in Pollers, q \in Pollers :
    loop[p].current = s /\ loop[q].current = s => p = q

(* assert(false) in process_epoll_events stays out of reach as long as a   *)
(* socket is moved and removed by the thread of its loop.                  *)
NoStaleReport == failed # None => failed \in shared

(* The lock the next step of a thread asks for, in a call or in poll. *)
Asked(t) == CASE call[t].at = "lock" -> call[t].to
              [] call[t].at = "remove" -> call[t].from
              [] loop[t].at = "lock" -> t
              [] OTHER -> None

WaitsFor(t, u) == Asked(t) # None /\ lock[Asked(t)] = u

(* Threads that wait for each other in a circle, or in several. *)
Circle(ring) ==
  \A t \in ring : /\ \E u \in ring : WaitsFor(t, u)
                  /\ \E u \in ring : WaitsFor(u, t)

(* A lock is held in a call only, and threads that wait for each other in a*)
(* circle are all in a move, each with the lock of the poller its socket   *)
(* goes to, waiting for the one it comes from: moves in opposite directions*)
(* can deadlock, and nothing else can, the loops and a closing thread not. *)
DeadlocksAreCircularMoves ==
  /\ \A p \in Pollers : lock[p] # None => call[lock[p]].to = p
  /\ \A ring \in SUBSET Threads \ {{}} :
       Circle(ring) =>
         \A t \in ring : call[t].at = "remove" /\ call[t].op = "update" /\ ~WaitsFor(t, t)
=============================================================================
