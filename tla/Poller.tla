------------------------------- MODULE Poller -------------------------------
(***************************************************************************)
(* poller/poller.cpp: one Poller, the epoll instance and the eventfd it    *)
(* owns, the thread that runs its loop and the threads that call it.       *)
(*                                                                         *)
(* m_lock guards m_active_sockets, m_scheduler and m_out_events, but the   *)
(* loop reads m_scheduler (ms_to_next_event) and takes from m_out_events   *)
(* (get_next_event) without it. A locked call is therefore two steps: the  *)
(* thread takes the lock, then the call takes effect and the lock is       *)
(* released. Between the two the loop may look at containers that are      *)
(* being changed.                                                          *)
(*                                                                         *)
(* Next is the most general caller: any thread calls anything at any time. *)
(* Reactor is the caller of the repository. A Socket is identified with    *)
(* its descriptor; the program keeps its sockets alive, so no descriptor   *)
(* is reused.                                                              *)
(*                                                                         *)
(* A definition under "Mistake" is the next one with a slip of the kind a  *)
(* programmer makes; no action uses it. It shows what the properties see.  *)
(***************************************************************************)
EXTENDS SocketContext, FiniteSets

CONSTANTS
  Sockets,            \* Socket objects, each with its descriptor
  LoopThread,         \* the thread that calls poll and get_next_event
  Clients,            \* other threads that call the poller
  NoThread,           \* nobody holds m_lock
  Masks,              \* event masks callers pass
  Steps,              \* timeout steps callers pass; 0 asks for the default
  Conditions,         \* what epoll_wait can report of a descriptor
  DEFAULT_TIMEOUT_MS,
  InitialRoom,        \* MAX_NUMBER_OF_EPOLL_EVENTS
  IntModulus,         \* 2^32: epoll_wait takes its timeout as an int
  MaxTime,            \* bound on the clock
  MaxDrift            \* bound on the time one locked pass of poll takes

Threads == Clients \cup {LoopThread}
PollFlags == {"EPOLLIN", "EPOLLOUT", "EPOLLONESHOT"}
HangUps == {"EPOLLHUP", "EPOLLRDHUP", "EPOLLERR"}
Actions == {"READ", "WRITE", "CLOSE"}
Reasons == {"PEER_SHUTDOWN", "UNEXPECTED_SHUTDOWN", "SOCKET_ERROR",
            "TIMEOUT_READ", "TIMEOUT_WRITE"}

ASSUME ThreadAssumption == /\ LoopThread \notin Clients
                           /\ NoThread \notin Threads
ASSUME CallAssumption == /\ Masks \subseteq SUBSET PollFlags
                         /\ Steps \subseteq UInt64
                         /\ Conditions \subseteq {"EPOLLIN", "EPOLLOUT"} \cup HangUps
                         /\ DEFAULT_TIMEOUT_MS \in UInt64 \ {0}
ASSUME BoundAssumption == /\ MaxTime \in Nat
                          /\ MaxTime < INVALID_TIME
                          /\ MaxDrift \in Nat
                          /\ InitialRoom \in Nat \ {0}
                          /\ IntModulus \in Nat \ {0}
                          /\ TimeModulus % IntModulus = 0
                          /\ Sockets # {}

VARIABLES
  now,            \* m_timer.milliseconds_from_epoch()
  failed,         \* the assertion or race that ended the process, or "none"
  lock,           \* holder of m_lock
  call,           \* the call the holder of m_lock is executing
  active,         \* keys of m_active_sockets
  context,        \* values of m_active_sockets
  deadline,       \* m_scheduler, as DeadlineTable describes it
  out,            \* m_out_events: the event of each socket
  epoll,          \* the kernel's interest list
  eventfd,        \* the kinds of signal not read yet
  room,           \* m_epoll_events.size()
  pollPc,         \* where the loop thread is in poll
  wakeAt,         \* when the epoll_wait in progress times out
  drift,          \* milliseconds since process_epoll_events read the clock
  batch,          \* what epoll_wait returned: conditions per socket
  signalled,      \* ... and whether m_event_fd was among it
  lastSeen        \* history: when a socket was last active or registered

callVars == <<lock, call>>
tableVars == <<active, context, deadline, out, lastSeen>>
kernelVars == <<epoll, eventfd>>
pollVars == <<room, pollPc, wakeAt, drift, batch, signalled>>
pollerVars == <<now, failed, callVars, tableVars, kernelVars, pollVars>>

Sched == INSTANCE DeadlineTable WITH Payloads <- Sockets, NoDeadline <- INVALID_TIME

NoEvent == [action |-> {}, reason |-> {}]
NotSeen == [read |-> 0, write |-> 0]
NotRegistered == [registered |-> FALSE, armed |-> FALSE, mask |-> {}]
Times == 0 .. MaxTime

PollerTypeOK ==
  /\ now \in Times
  /\ failed \in {"none", "socket_found", "nothing_found", "has_timeout", "out_events_race"}
  /\ lock \in Threads \cup {NoThread}
  /\ call \in {"update_socket", "remove_socket", "none"}
  /\ active \subseteq Sockets
  /\ context \in [Sockets -> Context]
  /\ deadline \in [Sockets -> UInt64]
  /\ out \in [Sockets -> [action : SUBSET Actions, reason : SUBSET Reasons]]
  /\ epoll \in [Sockets -> [registered : BOOLEAN, armed : BOOLEAN, mask : SUBSET PollFlags]]
  /\ eventfd \subseteq {"UPDATE", "STOP"}
  /\ room \in Nat \ {0}
  /\ pollPc \in {"idle", "wait_time", "wait_time_again", "epoll_wait",
                 "process", "process_failure", "schedule"}
  /\ wakeAt \in (0 .. MaxTime + (IntModulus \div 2)) \cup {INVALID_TIME}
  /\ drift \in 0 .. MaxDrift
  /\ batch \in [Sockets -> SUBSET Conditions]
  /\ signalled \in BOOLEAN
  /\ lastSeen \in [Sockets -> [read : Times, write : Times]]

PollerInit ==
  /\ now = 0
  /\ failed = "none"
  /\ lock = NoThread
  /\ call = "none"
  /\ active = {}
  /\ context = [s \in Sockets |-> NewContext]
  /\ deadline = [s \in Sockets |-> INVALID_TIME]
  /\ out = [s \in Sockets |-> NoEvent]
  /\ epoll = [s \in Sockets |-> NotRegistered]
  /\ eventfd = {}
  /\ room = InitialRoom
  /\ pollPc = "idle"
  /\ wakeAt = INVALID_TIME
  /\ drift = 0
  /\ batch = [s \in Sockets |-> {}]
  /\ signalled = FALSE
  /\ lastSeen = [s \in Sockets |-> NotSeen]

Abort(assertion) ==
  /\ failed' = assertion
  /\ UNCHANGED <<now, callVars, tableVars, kernelVars, pollVars>>

-----------------------------------------------------------------------------
(* std::lock_guard lock(m_lock) at the head of update_socket and           *)
(* remove_socket.                                                          *)
lock_for(t, op) ==
  /\ lock = NoThread
  /\ lock' = t
  /\ call' = op
  /\ UNCHANGED <<now, failed, tableVars, kernelVars, pollVars>>

-----------------------------------------------------------------------------
(* The kernel, as far as the poller uses it: epoll_ctl and the eventfd.    *)

Interest(mask) == [registered |-> TRUE, armed |-> TRUE, mask |-> mask]

(* Fails with EEXIST, and changes nothing, for a registered descriptor.    *)
EpollAdd(s, mask) == [epoll EXCEPT ![s] = IF @.registered THEN @ ELSE Interest(mask)]

EpollMod(s, mask) == [epoll EXCEPT ![s] = Interest(mask)]

(* Mistake: EPOLL_CTL_DEL is forgotten. *)
EpollDelForgotten(s) == epoll
EpollDel(s) == [epoll EXCEPT ![s] = NotRegistered]

(* Mistake: the write to the eventfd is lost. *)
SignalLost(kind) == eventfd

(* Adding to the eventfd's counter: any number of UPDATEs read as one, and *)
(* a STOP among them makes the sum at least STOP.                          *)
Signalled(kind) == eventfd \cup {kind}

signal(kind) ==
  /\ eventfd' = Signalled(kind)
  /\ UNCHANGED <<now, failed, callVars, tableVars, epoll, pollVars>>

-----------------------------------------------------------------------------
(* update_socket *)

(* add_to_scheduler on one direction of the socket's context. *)
Arm(t, step) ==
  LET stepped == update_timeout_step(t, step)
  IN IF stepped.time = INVALID_TIME
     THEN [stepped EXCEPT !.time = (now + step) % TimeModulus]
     ELSE stepped

ArmedContext(c, mask, step) ==
  [read  |-> IF "EPOLLIN" \in mask THEN Arm(c.read, step) ELSE c.read,
   write |-> IF "EPOLLOUT" \in mask THEN Arm(c.write, step) ELSE c.write]

(* history: registering a direction counts as activity on it. *)
SeenAfterUpdate(s, mask) ==
  [read  |-> IF "EPOLLIN" \in mask /\ context[s].read.time = INVALID_TIME
             THEN now ELSE lastSeen[s].read,
   write |-> IF "EPOLLOUT" \in mask /\ context[s].write.time = INVALID_TIME
             THEN now ELSE lastSeen[s].write]

(* add_to_scheduler; a timeout of INVALID_TIME skips it, 0 asks for the    *)
(* default.                                                                *)
Schedule(s, mask, step) ==
  IF step = INVALID_TIME
  THEN UNCHANGED <<context, deadline, lastSeen>>
  ELSE LET c == ArmedContext(context[s], mask, IF step = 0 THEN DEFAULT_TIMEOUT_MS ELSE step)
       IN /\ context' = [context EXCEPT ![s] = c]
          /\ deadline' = Sched!Set(deadline, s, get_nearest_timeout(c))
          /\ lastSeen' = [lastSeen EXCEPT ![s] = SeenAfterUpdate(s, mask)]

(* get_nearest_timeout asserts that some timeout is set. *)
ScheduleFails(s, mask, step) ==
  /\ step # INVALID_TIME
  /\ ~HasTimeout(ArmedContext(context[s], mask, IF step = 0 THEN DEFAULT_TIMEOUT_MS ELSE step))

(* First registration: EPOLL_CTL_ADD, which fails and changes nothing when *)
(* the descriptor is still in the interest list; then the timeouts, the    *)
(* socket's m_poller and the wake-up of the loop. Later calls modify the   *)
(* interest and the timeouts, without a wake-up.                           *)
update_socket(t, s, mask, step) ==
  /\ lock = t
  /\ call = "update_socket"
  /\ IF ScheduleFails(s, mask, step)
     THEN Abort("has_timeout")
     ELSE /\ Schedule(s, mask, step)
          /\ IF s \in active
             THEN /\ epoll' = EpollMod(s, mask)
                  /\ UNCHANGED <<active, eventfd>>
             ELSE /\ epoll' = EpollAdd(s, mask)
                  /\ active' = active \cup {s}
                  /\ eventfd' = Signalled("UPDATE")
          /\ lock' = NoThread
          /\ call' = "none"
          /\ UNCHANGED <<now, failed, out, pollVars>>

-----------------------------------------------------------------------------
(* Mistakes: the pending event, the deadline stays. *)
OutEventKept(s) == out
DeadlineKept(s) == deadline

OutEventErased(s) == [out EXCEPT ![s] = NoEvent]

DeadlineDeleted(s) == Sched!Clear(deadline, s)

(* remove_socket. A socket the poller does not know only leaves the        *)
(* interest list. A pending event of the socket is dropped with it.        *)
remove_socket(t, s) ==
  /\ lock = t
  /\ call = "remove_socket"
  /\ epoll' = EpollDel(s)
  /\ IF s \in active
     THEN /\ deadline' = DeadlineDeleted(s)
          /\ out' = OutEventErased(s)
          /\ active' = active \ {s}
          /\ context' = [context EXCEPT ![s] = NewContext]
          /\ lastSeen' = [lastSeen EXCEPT ![s] = NotSeen]
     ELSE UNCHANGED tableVars
  /\ lock' = NoThread
  /\ call' = "none"
  /\ UNCHANGED <<now, failed, eventfd, pollVars>>

-----------------------------------------------------------------------------
(* poll *)

(* ms_to_next_event for the first event of m_scheduler; its -1 for "no     *)
(* event" becomes a uint64_t.                                              *)
ms_to_next_event ==
  {IF deadline[s] = INVALID_TIME THEN INVALID_TIME
   ELSE IF deadline[s] <= now THEN 0 ELSE deadline[s] - now :
     s \in {p \in Sockets : Sched!IsEarliest(deadline, p)}}

(* What it may return when another thread is changing m_scheduler. *)
AnyTime == (0 .. MaxTime) \cup {INVALID_TIME}

(* Mistake: the conversion is overlooked. *)
GiveUpTimeUnconverted(ms) == now + ms

(* When epoll_wait gives up: its argument is an int, and a negative int    *)
(* waits for ever.                                                         *)
GiveUpTime(ms) == LET int_ms == ms % IntModulus
                  IN IF 2 * int_ms >= IntModulus THEN INVALID_TIME ELSE now + int_ms

(* get_epoll_events up to the system call. ms_to_next_event runs without   *)
(* the lock. An overdue event skips the wait, and what is returned then is *)
(* the nfds of the call before it: 0, or the -1 of an interrupted one.     *)
get_wait_time ==
  /\ pollPc \in {"wait_time", "wait_time_again"}
  /\ \E ms \in IF lock \in Clients THEN AnyTime ELSE ms_to_next_event :
       IF ms = 0 THEN /\ pollPc' = IF pollPc = "wait_time" THEN "process" ELSE "process_failure"
                      /\ UNCHANGED wakeAt
       ELSE /\ pollPc' = "epoll_wait"
            /\ wakeAt' = GiveUpTime(ms)
  /\ batch' = [s \in Sockets |-> {}]
  /\ signalled' = FALSE
  /\ UNCHANGED <<now, failed, callVars, tableVars, kernelVars, room, drift>>

(* What the kernel can report of a descriptor: HUP, RDHUP and ERR are      *)
(* always asked for; after one report EPOLLONESHOT disables it.            *)
Reportable(s) == IF epoll[s].armed
                 THEN Conditions \cap (epoll[s].mask \cup HangUps)
                 ELSE {}

Reported(ev) == {s \in Sockets : ev[s] # {}}
Count(ev, sig) == Cardinality(Reported(ev)) + (IF sig THEN 1 ELSE 0)

(* epoll_wait returns: some ready descriptors, as many as there is room    *)
(* for, the eventfd whenever it is readable and there is room, or nothing  *)
(* once the time is up.                                                    *)
epoll_wait_return ==
  /\ pollPc = "epoll_wait"
  /\ \E ev \in [Sockets -> SUBSET Conditions], sig \in BOOLEAN :
       /\ \A s \in Sockets : ev[s] \subseteq Reportable(s)
       /\ Count(ev, sig) <= room
       /\ sig => eventfd # {}
       /\ ~sig /\ eventfd # {} => Count(ev, sig) = room
       /\ Count(ev, sig) = 0 => now >= wakeAt
       /\ batch' = ev
       /\ signalled' = sig
       /\ epoll' = [s \in Sockets |->
                      IF ev[s] # {} /\ "EPOLLONESHOT" \in epoll[s].mask
                      THEN [epoll[s] EXCEPT !.armed = FALSE] ELSE epoll[s]]
  /\ pollPc' = "process"
  /\ wakeAt' = INVALID_TIME
  /\ UNCHANGED <<now, failed, callVars, tableVars, eventfd, room, drift>>

(* A signal handler ran: EINTR, and the wait time is computed again.       *)
epoll_wait_interrupted ==
  /\ pollPc = "epoll_wait"
  /\ pollPc' = "wait_time_again"
  /\ wakeAt' = INVALID_TIME
  /\ UNCHANGED <<now, failed, callVars, tableVars, kernelVars,
                 room, drift, batch, signalled>>

-----------------------------------------------------------------------------
(* poll, under the lock: process_epoll_events *)

(* The timeouts of a socket after the conditions ev: activity in a         *)
(* direction restarts its timeout.                                         *)
RefreshedContext(s) ==
  [read  |-> IF "EPOLLIN" \in batch[s] THEN update_timeout(context[s].read, now)
             ELSE context[s].read,
   write |-> IF "EPOLLOUT" \in batch[s] THEN update_timeout(context[s].write, now)
             ELSE context[s].write]

ActionsOf(ev) ==
  (IF "EPOLLIN" \in ev THEN {"READ"} ELSE {}) \cup
  (IF "EPOLLOUT" \in ev THEN {"WRITE"} ELSE {}) \cup
  (IF ev \cap HangUps # {} THEN {"CLOSE"} ELSE {})

CloseReasonsOf(ev) ==
  (IF "EPOLLHUP" \in ev THEN {"PEER_SHUTDOWN"} ELSE {}) \cup
  (IF "EPOLLRDHUP" \in ev THEN {"UNEXPECTED_SHUTDOWN"} ELSE {}) \cup
  (IF "EPOLLERR" \in ev THEN {"SOCKET_ERROR"} ELSE {})

EventOf(ev) == [action |-> ActionsOf(ev), reason |-> CloseReasonsOf(ev)]

(* A hang-up deletes the deadline, and the next statement adds it again.   *)
DeadlineAfter(s) == get_nearest_timeout(RefreshedContext(s))

(* Mistake: the scheduler is not told. *)
NoReschedule(S) == deadline

Reschedule(S) == [s \in Sockets |-> IF s \in S THEN DeadlineAfter(s) ELSE deadline[s]]

Harvest(S) ==
  /\ context' = [s \in Sockets |-> IF s \in S THEN RefreshedContext(s) ELSE context[s]]
  /\ deadline' = Reschedule(S)
  /\ out' = [s \in Sockets |-> IF s \in S /\ out[s] = NoEvent THEN EventOf(batch[s])
                               ELSE out[s]]
  /\ lastSeen' = [s \in Sockets |->
       [read  |-> IF s \in S /\ "EPOLLIN" \in batch[s] THEN now ELSE lastSeen[s].read,
        write |-> IF s \in S /\ "EPOLLOUT" \in batch[s] THEN now ELSE lastSeen[s].write]]

(* STOP drops every socket and every event; deadlines stay.                *)
HarvestAndStop(S) ==
  /\ active' = {}
  /\ context' = [s \in Sockets |-> NewContext]
  /\ deadline' = Reschedule(S)
  /\ out' = [s \in Sockets |-> NoEvent]
  /\ lastSeen' = [s \in Sockets |-> NotSeen]
  /\ UNCHANGED room

process_epoll_events ==
  /\ pollPc = "process"
  /\ lock = NoThread
  /\ LET reported == Reported(batch)
         stop == signalled /\ "STOP" \in eventfd
     IN \* the events in front of the STOP are handled, those behind it are not
        \E S \in IF stop THEN SUBSET reported ELSE {reported} :
          \/ \E s \in S : s \notin active /\ Abort("socket_found")
          \/ \E s \in S \cap active : ~HasTimeout(RefreshedContext(s)) /\ Abort("has_timeout")
          \/ /\ S \subseteq active
             /\ \A s \in S : HasTimeout(RefreshedContext(s))
             /\ IF stop THEN HarvestAndStop(S)
                ELSE /\ Harvest(S)
                     /\ room' = IF Count(batch, signalled) = room THEN 2 * room ELSE room
                     /\ UNCHANGED active
             /\ eventfd' = IF signalled THEN {} ELSE eventfd
             /\ lock' = LoopThread
             /\ pollPc' = "schedule"
             /\ UNCHANGED <<now, failed, call, epoll, wakeAt, drift, batch, signalled>>

(* -1 events are 2^64 - 1: the first entry of m_epoll_events, which memset *)
(* has cleared, is no socket.                                              *)
process_failure ==
  /\ pollPc = "process_failure"
  /\ lock = NoThread
  /\ Abort("nothing_found")

-----------------------------------------------------------------------------
(* poll, under the lock: process_scheduler *)

Due(s) == deadline[s] <= now

(* Mistake: without the mask. *)
AllTimedOut(s) == get_timeout_type(context[s], now)

(* The timeouts that have come, without those of a direction in which the  *)
(* pending event reports activity.                                         *)
TimedOut(s) ==
  {r \in get_timeout_type(context[s], now) :
     /\ r = "TIMEOUT_READ" => "READ" \notin out[s].action
     /\ r = "TIMEOUT_WRITE" => "WRITE" \notin out[s].action}

(* Mistake: a socket that has an event keeps it as it is. *)
EventAfterTimeoutIfNone(s) ==
  IF s \in active /\ Due(s) /\ TimedOut(s) # {} /\ out[s] = NoEvent
  THEN [action |-> {"CLOSE"}, reason |-> TimedOut(s)]
  ELSE out[s]

EventAfterTimeout(s) ==
  IF s \in active /\ Due(s) /\ TimedOut(s) # {} /\ "CLOSE" \notin out[s].action
  THEN [action |-> out[s].action \cup {"CLOSE"}, reason |-> TimedOut(s)]
  ELSE out[s]

(* Every due deadline is taken out of the scheduler, whatever becomes of   *)
(* it. The lock is released.                                               *)
process_scheduler ==
  /\ pollPc = "schedule"
  /\ deadline' = [s \in Sockets |-> IF Due(s) THEN INVALID_TIME ELSE deadline[s]]
  /\ out' = [s \in Sockets |-> EventAfterTimeout(s)]
  /\ lock' = NoThread
  /\ pollPc' = "idle"
  /\ batch' = [s \in Sockets |-> {}]
  /\ signalled' = FALSE
  /\ drift' = 0
  /\ UNCHANGED <<now, failed, call, active, context, lastSeen, kernelVars,
                 room, wakeAt>>

-----------------------------------------------------------------------------
(* get_next_event takes any event out of the unordered set, without the    *)
(* lock. A remove_socket in progress in another thread works on the same   *)
(* set: the iterator may be gone when it is used.                          *)
get_next_event(s) ==
  /\ out[s] # NoEvent
  /\ \/ /\ out' = [out EXCEPT ![s] = NoEvent]
        /\ UNCHANGED <<now, failed, callVars, active, context, deadline, lastSeen, kernelVars, pollVars>>
     \/ /\ lock \in Clients
        /\ call = "remove_socket"
        /\ Abort("out_events_race")

start_poll ==
  /\ pollPc = "idle"
  /\ pollPc' = "wait_time"
  /\ UNCHANGED <<now, failed, callVars, tableVars, kernelVars,
                 room, wakeAt, drift, batch, signalled>>

PollStep == \/ get_wait_time
            \/ epoll_wait_return
            \/ epoll_wait_interrupted
            \/ process_epoll_events
            \/ process_failure
            \/ process_scheduler

(* The clock runs while poll works under the lock, up to MaxDrift.         *)
Tick ==
  /\ now < MaxTime
  /\ now' = now + 1
  /\ IF pollPc = "schedule" THEN drift < MaxDrift /\ drift' = drift + 1
                            ELSE UNCHANGED drift
  /\ UNCHANGED <<failed, callVars, tableVars, kernelVars,
                 room, pollPc, wakeAt, batch, signalled>>

-----------------------------------------------------------------------------
(* The most general caller. *)

LoopIsFree == pollPc = "idle" /\ lock # LoopThread

(* abort() ended the process, or undefined behaviour did. *)
Aborted == failed # "none" /\ UNCHANGED pollerVars

PollerNext ==
  \/ /\ failed = "none"
     /\ \/ \E t \in Threads, op \in {"update_socket", "remove_socket"} :
             (t = LoopThread => LoopIsFree) /\ lock_for(t, op)
        \/ \E t \in Threads, s \in Sockets, mask \in Masks, step \in Steps :
             update_socket(t, s, mask, step)
        \/ \E t \in Threads, s \in Sockets : remove_socket(t, s)
        \/ \E kind \in {"UPDATE", "STOP"} : signal(kind)
        \/ LoopIsFree /\ (start_poll \/ \E s \in Sockets : get_next_event(s))
        \/ PollStep
        \/ Tick
  \/ Aborted

PollerSpec == PollerInit /\ [][PollerNext]_pollerVars

-----------------------------------------------------------------------------
(* The scheduler agrees with the timeouts it was filled from: a registered *)
(* socket's deadline is its nearest timeout, unless the deadline was taken *)
(* out; nothing in m_scheduler is left from an earlier state of the socket.*)
ScheduleMatchesContext ==
  \A s \in active : deadline[s] # INVALID_TIME => deadline[s] = get_nearest_timeout(context[s])

(* No event is handed out for a socket after it was removed, whatever the  *)
(* order of epoll reports, timeouts, removals and a STOP.                  *)
OutEventsAreActive == \A s \in Sockets : out[s] # NoEvent => s \in active

(* One report never says both that a direction was active and that it timed*)
(* out: process_scheduler masks the timeout of a direction that has news.  *)
ActivityBeatsTimeout ==
  \A s \in Sockets : /\ "READ" \in out[s].action => "TIMEOUT_READ" \notin out[s].reason
                     /\ "WRITE" \in out[s].action => "TIMEOUT_WRITE" \notin out[s].reason

(* A running timeout ends exactly one step after the last activity, however*)
(* often the step was changed in between (update_timeout_step shifts it).  *)
TimeoutsCountFromActivity ==
  \A s \in active :
    /\ context[s].read.time # INVALID_TIME =>
         context[s].read.time = (lastSeen[s].read + context[s].read.step) % TimeModulus
    /\ context[s].write.time # INVALID_TIME =>
         context[s].write.time = (lastSeen[s].write + context[s].write.step) % TimeModulus

(* A socket is reported timed out only after a whole step of silence in    *)
(* that direction, if that direction was given a timeout.                  *)
CloseOnlyAfterSilence ==
  [][\A s \in Sockets :
       /\ "TIMEOUT_READ" \in out'[s].reason \ out[s].reason =>
            \/ context[s].read.step = INVALID_TIME
            \/ now >= lastSeen[s].read + context[s].read.step
       /\ "TIMEOUT_WRITE" \in out'[s].reason \ out[s].reason =>
            \/ context[s].write.step = INVALID_TIME
            \/ now >= lastSeen[s].write + context[s].write.step]_pollerVars

(* The loop sleeps past a deadline, and no eventfd will wake it up. *)
Oversleeps ==
  /\ pollPc = "epoll_wait" /\ eventfd = {} /\ lock \notin Clients
  /\ \E s \in Sockets : deadline[s] < wakeAt

(* The loop gets to sleep too long only by a call of another thread that   *)
(* wakes nobody up: update_socket of a socket the poller knows, or a       *)
(* remove_socket the unlocked look at m_scheduler ran into. A registration *)
(* is never slept through, whenever it comes, whatever came before it.     *)
OversleepsOnlyAfterQuietCall ==
  [][~Oversleeps /\ Oversleeps' =>
       lock \in Clients /\ ~(call = "update_socket" /\ active' # active)]_pollerVars

-----------------------------------------------------------------------------
(* assert(false) in process_epoll_events: what epoll_wait returned are     *)
(* descriptors of m_active_sockets. A signal handler that interrupts the   *)
(* wait until a deadline is overdue is enough to refute it.                *)
EntriesAreReports == failed # "nothing_found"
=============================================================================
