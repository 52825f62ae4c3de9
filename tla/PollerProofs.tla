---------------------------- MODULE PollerProofs ----------------------------
(***************************************************************************)
(* Proofs about Poller under its most general caller, for every set of     *)
(* sockets and threads, every mask and step, and every bound.              *)
(***************************************************************************)
EXTENDS Poller, TLAPS

(* Operators of SocketContext. *)

LEMMA InvalidTimeType ==
  /\ INVALID_TIME \in UInt64
  /\ \A x \in UInt64 : x \in Nat /\ x <= INVALID_TIME
  BY TimeModulusAssumption DEF INVALID_TIME, UInt64

LEMMA WrapType == \A x \in Int : x % TimeModulus \in UInt64
  BY TimeModulusAssumption DEF INVALID_TIME, UInt64

LEMMA NewContextType == NewContext \in Context
  BY InvalidTimeType DEF NewContext, Context, NoTimeout, Timeout

LEMMA UpdateTimeoutType ==
  ASSUME NEW t \in Timeout, NEW time \in Nat
  PROVE  update_timeout(t, time) \in Timeout
<1>1. time + t.step \in Int
  BY InvalidTimeType DEF Timeout
<1>2. QED
  BY <1>1, WrapType DEF update_timeout, Timeout

LEMMA UpdateTimeoutStepType ==
  ASSUME NEW t \in Timeout, NEW step \in UInt64
  PROVE  update_timeout_step(t, step) \in Timeout
<1>1. t.time \in Nat /\ t.step \in Nat /\ step \in Nat
  BY InvalidTimeType DEF Timeout
<1>2. (t.time + step - t.step) \in Int
  BY <1>1
<1>3. (t.time + step - t.step) % TimeModulus \in UInt64
  BY <1>2, WrapType
<1>4. QED
  BY <1>3, InvalidTimeType DEF update_timeout_step, Timeout

LEMMA NearestTimeoutType ==
  ASSUME NEW c \in Context
  PROVE  get_nearest_timeout(c) \in UInt64
  BY DEF get_nearest_timeout, Context, Timeout

(* uint64_t does not wrap below its modulus. *)
LEMMA NoWrap ==
  ASSUME NEW x \in Nat, x < TimeModulus
  PROVE  x % TimeModulus = x
  BY TimeModulusAssumption

LEMMA NearestIsSet ==
  ASSUME NEW c \in Context
  PROVE  /\ HasTimeout(c) <=> get_nearest_timeout(c) # INVALID_TIME
         /\ get_nearest_timeout(c) \in {c.read.time, c.write.time}
         /\ get_nearest_timeout(c) <= c.read.time /\ get_nearest_timeout(c) <= c.write.time
<1>1. /\ c.read.time \in Nat /\ c.read.time <= INVALID_TIME
      /\ c.write.time \in Nat /\ c.write.time <= INVALID_TIME
      /\ INVALID_TIME \in Nat
  BY InvalidTimeType DEF Context, Timeout
<1>2. QED
  BY <1>1 DEF HasTimeout, get_nearest_timeout

LEMMA HalfBound ==
  ASSUME NEW x \in Nat, 2 * x < IntModulus
  PROVE  x <= IntModulus \div 2
  BY BoundAssumption

-----------------------------------------------------------------------------
(* Operators of Poller. *)

LEMMA StepType ==
  ASSUME NEW step \in Steps
  PROVE  (IF step = 0 THEN DEFAULT_TIMEOUT_MS ELSE step) \in UInt64
  BY CallAssumption

LEMMA ArmType ==
  ASSUME PollerTypeOK, NEW t \in Timeout, NEW step \in UInt64
  PROVE  Arm(t, step) \in Timeout
<1>1. now \in Nat /\ step \in Nat
  BY InvalidTimeType, BoundAssumption DEF PollerTypeOK, Times
<1>2. (now + step) % TimeModulus \in UInt64
  BY <1>1, WrapType
<1>3. update_timeout_step(t, step) \in Timeout
  BY UpdateTimeoutStepType
<1>4. QED
  BY <1>2, <1>3 DEF Arm, Timeout

LEMMA ArmedContextType ==
  ASSUME PollerTypeOK, NEW c \in Context, NEW mask, NEW step \in UInt64
  PROVE  ArmedContext(c, mask, step) \in Context
<1>1. c.read \in Timeout /\ c.write \in Timeout
  BY DEF Context
<1>2. Arm(c.read, step) \in Timeout /\ Arm(c.write, step) \in Timeout
  BY <1>1, ArmType
<1>3. QED
  BY <1>1, <1>2 DEF ArmedContext, Context

LEMMA SeenType ==
  ASSUME PollerTypeOK, NEW s \in Sockets, NEW mask
  PROVE  SeenAfterUpdate(s, mask) \in [read : Times, write : Times]
  BY DEF PollerTypeOK, SeenAfterUpdate

LEMMA ScheduleType ==
  ASSUME PollerTypeOK, NEW s \in Sockets, NEW mask \in Masks, NEW step \in Steps,
         Schedule(s, mask, step)
  PROVE  /\ context' \in [Sockets -> Context]
         /\ deadline' \in [Sockets -> UInt64]
         /\ lastSeen' \in [Sockets -> [read : Times, write : Times]]
<1>1. CASE step = INVALID_TIME
  BY <1>1 DEF Schedule, PollerTypeOK
<1>2. CASE step # INVALID_TIME
  <2> DEFINE real == IF step = 0 THEN DEFAULT_TIMEOUT_MS ELSE step
             c == ArmedContext(context[s], mask, real)
  <2>1. c \in Context
    BY StepType, ArmedContextType DEF PollerTypeOK
  <2>2. get_nearest_timeout(c) \in UInt64
    BY <2>1, NearestTimeoutType
  <2>3. SeenAfterUpdate(s, mask) \in [read : Times, write : Times]
    BY SeenType
  <2>4. /\ context' = [context EXCEPT ![s] = c]
        /\ deadline' = Sched!Set(deadline, s, get_nearest_timeout(c))
        /\ lastSeen' = [lastSeen EXCEPT ![s] = SeenAfterUpdate(s, mask)]
    BY <1>2 DEF Schedule
  <2> HIDE DEF c
  <2>5. QED
    BY <2>1, <2>2, <2>3, <2>4 DEF PollerTypeOK, Sched!Set
<1>3. QED
  BY <1>1, <1>2

LEMMA RefreshedContextType ==
  ASSUME PollerTypeOK, NEW s \in Sockets
  PROVE  RefreshedContext(s) \in Context
<1>1. context[s] \in Context /\ now \in Nat
  BY BoundAssumption DEF PollerTypeOK, Times
<1>2. context[s].read \in Timeout /\ context[s].write \in Timeout
  BY <1>1 DEF Context
<1>3. /\ update_timeout(context[s].read, now) \in Timeout
      /\ update_timeout(context[s].write, now) \in Timeout
  BY <1>1, <1>2, UpdateTimeoutType
<1>4. QED
  BY <1>2, <1>3 DEF RefreshedContext, Context

LEMMA EventOfType ==
  ASSUME NEW ev
  PROVE  EventOf(ev) \in [action : SUBSET Actions, reason : SUBSET Reasons]
  BY DEF EventOf, ActionsOf, CloseReasonsOf, Actions, Reasons

LEMMA RescheduleType ==
  ASSUME PollerTypeOK, NEW S
  PROVE  Reschedule(S) \in [Sockets -> UInt64]
<1>1. \A s \in Sockets : DeadlineAfter(s) \in UInt64
  BY RefreshedContextType, NearestTimeoutType DEF DeadlineAfter
<1>2. QED
  BY <1>1 DEF Reschedule, PollerTypeOK

-----------------------------------------------------------------------------
(* Type correctness: one lemma per action. *)

LEMMA NullTypes ==
  /\ NoEvent \in [action : SUBSET Actions, reason : SUBSET Reasons]
  /\ NotRegistered \in [registered : BOOLEAN, armed : BOOLEAN, mask : SUBSET PollFlags]
  /\ NotSeen \in [read : Times, write : Times]
<1>1. NoEvent \in [action : SUBSET Actions, reason : SUBSET Reasons]
  BY DEF NoEvent
<1>2. NotRegistered \in [registered : BOOLEAN, armed : BOOLEAN, mask : SUBSET PollFlags]
  BY DEF NotRegistered
<1>3. NotSeen \in [read : Times, write : Times]
  BY BoundAssumption DEF NotSeen, Times
<1>4. QED
  BY <1>1, <1>2, <1>3

LEMMA TypeInit == PollerInit => PollerTypeOK
<1> SUFFICES ASSUME PollerInit PROVE PollerTypeOK
  OBVIOUS
<1>1. /\ context \in [Sockets -> Context]
      /\ deadline \in [Sockets -> UInt64]
      /\ out \in [Sockets -> [action : SUBSET Actions, reason : SUBSET Reasons]]
      /\ lastSeen \in [Sockets -> [read : Times, write : Times]]
  BY NullTypes, NewContextType, InvalidTimeType DEF PollerInit
<1>2. /\ epoll \in [Sockets -> [registered : BOOLEAN, armed : BOOLEAN, mask : SUBSET PollFlags]]
      /\ batch \in [Sockets -> SUBSET Conditions]
  BY NullTypes DEF PollerInit
<1>3. now \in Times /\ drift \in 0 .. MaxDrift /\ room \in Nat \ {0}
  BY BoundAssumption DEF PollerInit, Times
<1>4. QED
  BY <1>1, <1>2, <1>3 DEF PollerInit, PollerTypeOK

LEMMA TypeLockFor ==
  ASSUME PollerTypeOK, NEW t \in Threads,
         NEW op \in {"update_socket", "remove_socket"}, lock_for(t, op)
  PROVE  PollerTypeOK'
  BY DEF PollerTypeOK, lock_for, tableVars, kernelVars, pollVars

LEMMA TypeAbort ==
  ASSUME PollerTypeOK, NEW a \in {"socket_found", "nothing_found", "has_timeout", "out_events_race"},
         Abort(a)
  PROVE  PollerTypeOK'
  BY DEF PollerTypeOK, Abort, callVars, tableVars, kernelVars, pollVars

LEMMA TypeUpdateSocket ==
  ASSUME PollerTypeOK, NEW t \in Threads, NEW s \in Sockets, NEW mask \in Masks,
         NEW step \in Steps, update_socket(t, s, mask, step)
  PROVE  PollerTypeOK'
<1>1. CASE ScheduleFails(s, mask, step)
  <2>1. Abort("has_timeout")
    BY <1>1 DEF update_socket
  <2>2. QED
    BY <2>1, TypeAbort
<1>2. CASE ~ScheduleFails(s, mask, step)
  <2>1. Schedule(s, mask, step)
    BY <1>2 DEF update_socket
  <2>2. /\ context' \in [Sockets -> Context]
        /\ deadline' \in [Sockets -> UInt64]
        /\ lastSeen' \in [Sockets -> [read : Times, write : Times]]
    BY <2>1, ScheduleType
  <2>3. Interest(mask) \in [registered : BOOLEAN, armed : BOOLEAN, mask : SUBSET PollFlags]
    BY CallAssumption DEF Interest
  <2>4. epoll' \in [Sockets -> [registered : BOOLEAN, armed : BOOLEAN, mask : SUBSET PollFlags]]
    BY <1>2, <2>3 DEF update_socket, PollerTypeOK, EpollMod, EpollAdd
  <2>5. active' \subseteq Sockets /\ eventfd' \subseteq {"UPDATE", "STOP"}
    BY <1>2 DEF update_socket, PollerTypeOK, Signalled
  <2>6. QED
    BY <1>2, <2>2, <2>4, <2>5 DEF update_socket, PollerTypeOK, pollVars
<1>3. QED
  BY <1>1, <1>2

LEMMA TypeRemoveSocket ==
  ASSUME PollerTypeOK, NEW t \in Threads, NEW s \in Sockets, remove_socket(t, s)
  PROVE  PollerTypeOK'
<1>1. epoll' \in [Sockets -> [registered : BOOLEAN, armed : BOOLEAN, mask : SUBSET PollFlags]]
  BY NullTypes DEF PollerTypeOK, remove_socket, EpollDel
<1>2. CASE s \in active
  <2>1. /\ deadline' = [deadline EXCEPT ![s] = INVALID_TIME]
        /\ out' = [out EXCEPT ![s] = NoEvent]
        /\ active' = active \ {s}
        /\ context' = [context EXCEPT ![s] = NewContext]
        /\ lastSeen' = [lastSeen EXCEPT ![s] = NotSeen]
    BY <1>2 DEF remove_socket, DeadlineDeleted, Sched!Clear, OutEventErased
  <2>2. context' \in [Sockets -> Context]
    BY <2>1, NewContextType DEF PollerTypeOK
  <2>3. lastSeen' \in [Sockets -> [read : Times, write : Times]]
    BY <2>1, NullTypes DEF PollerTypeOK
  <2>4. deadline' \in [Sockets -> UInt64]
    BY <2>1, InvalidTimeType DEF PollerTypeOK
  <2>5. out' \in [Sockets -> [action : SUBSET Actions, reason : SUBSET Reasons]]
    BY <2>1, NullTypes DEF PollerTypeOK
  <2>6. QED
    BY <1>1, <2>1, <2>2, <2>3, <2>4, <2>5 DEF PollerTypeOK, remove_socket, pollVars
<1>3. CASE s \notin active
  BY <1>1, <1>3 DEF PollerTypeOK, remove_socket, tableVars, pollVars
<1>4. QED
  BY <1>2, <1>3

LEMMA TypeSignal ==
  ASSUME PollerTypeOK, NEW kind \in {"UPDATE", "STOP"}, signal(kind)
  PROVE  PollerTypeOK'
  BY DEF PollerTypeOK, signal, Signalled, callVars, tableVars, pollVars

LEMMA GiveUpTimeType ==
  ASSUME PollerTypeOK, NEW ms \in Nat
  PROVE  GiveUpTime(ms) \in (0 .. MaxTime + (IntModulus \div 2)) \cup {INVALID_TIME}
<1> DEFINE int_ms == ms % IntModulus
<1>1. int_ms \in Nat
  BY BoundAssumption
<1> HIDE DEF int_ms
<1>2. CASE 2 * int_ms >= IntModulus
  BY <1>2 DEF GiveUpTime, int_ms
<1>3. CASE ~(2 * int_ms >= IntModulus)
  <2>1. int_ms <= IntModulus \div 2 /\ IntModulus \div 2 \in Nat
    BY <1>1, <1>3, HalfBound, BoundAssumption
  <2>2. now \in Nat /\ now <= MaxTime
    BY BoundAssumption DEF PollerTypeOK, Times
  <2>3. GiveUpTime(ms) = now + int_ms
    BY <1>3 DEF GiveUpTime, int_ms
  <2>4. QED
    BY <1>1, <2>1, <2>2, <2>3, BoundAssumption
<1>4. QED
  BY <1>2, <1>3

LEMMA TypeGetWaitTime ==
  ASSUME PollerTypeOK, get_wait_time
  PROVE  PollerTypeOK'
<1>1. PICK ms \in IF lock \in Clients THEN AnyTime ELSE ms_to_next_event :
        IF ms = 0 THEN pollPc' \in {"process", "process_failure"} /\ UNCHANGED wakeAt
        ELSE pollPc' = "epoll_wait" /\ wakeAt' = GiveUpTime(ms)
  BY DEF get_wait_time
<1>2. \A s \in Sockets : deadline[s] \in Nat
  BY InvalidTimeType DEF PollerTypeOK
<1>3. ms \in Nat
  <2>1. CASE lock \in Clients
    BY <1>1, <2>1, InvalidTimeType, BoundAssumption DEF AnyTime
  <2>2. CASE lock \notin Clients
    <3>1. PICK s \in Sockets :
            ms = IF deadline[s] = INVALID_TIME THEN INVALID_TIME
                 ELSE IF deadline[s] <= now THEN 0 ELSE deadline[s] - now
      BY <1>1, <2>2 DEF ms_to_next_event
    <3>2. now \in Nat /\ INVALID_TIME \in Nat
      BY InvalidTimeType, BoundAssumption DEF PollerTypeOK, Times
    <3>3. QED
      BY <1>2, <3>1, <3>2
  <2>3. QED
    BY <2>1, <2>2
<1>4. GiveUpTime(ms) \in (0 .. MaxTime + (IntModulus \div 2)) \cup {INVALID_TIME}
  BY <1>3, GiveUpTimeType
<1>5. /\ wakeAt' \in (0 .. MaxTime + (IntModulus \div 2)) \cup {INVALID_TIME}
      /\ pollPc' \in {"process", "process_failure", "epoll_wait"}
  BY <1>1, <1>4 DEF PollerTypeOK
<1>6. QED
  BY <1>5 DEF PollerTypeOK, get_wait_time, callVars, tableVars, kernelVars

LEMMA TypeEpollWaitReturn ==
  ASSUME PollerTypeOK, epoll_wait_return
  PROVE  PollerTypeOK'
<1>1. epoll' \in [Sockets -> [registered : BOOLEAN, armed : BOOLEAN, mask : SUBSET PollFlags]]
  <2> DEFINE Entry == [registered : BOOLEAN, armed : BOOLEAN, mask : SUBSET PollFlags]
  <2>1. PICK ev \in [Sockets -> SUBSET Conditions] :
          epoll' = [s \in Sockets |->
                      IF ev[s] # {} /\ "EPOLLONESHOT" \in epoll[s].mask
                      THEN [epoll[s] EXCEPT !.armed = FALSE] ELSE epoll[s]]
    BY DEF epoll_wait_return
  <2>2. \A s \in Sockets : epoll[s] \in Entry
    BY DEF PollerTypeOK
  <2>3. \A e \in Entry : [e EXCEPT !.armed = FALSE] \in Entry
    OBVIOUS
  <2> HIDE DEF Entry
  <2>4. epoll' \in [Sockets -> Entry]
    BY <2>1, <2>2, <2>3
  <2>5. QED
    BY <2>4 DEF Entry
<1>2. batch' \in [Sockets -> SUBSET Conditions] /\ signalled' \in BOOLEAN
  BY DEF epoll_wait_return
<1>3. QED
  BY <1>1, <1>2 DEF PollerTypeOK, epoll_wait_return, callVars, tableVars

LEMMA TypeEpollWaitInterrupted ==
  ASSUME PollerTypeOK, epoll_wait_interrupted
  PROVE  PollerTypeOK'
  BY DEF PollerTypeOK, epoll_wait_interrupted, callVars, tableVars, kernelVars

LEMMA TypeProcessEpollEvents ==
  ASSUME PollerTypeOK, process_epoll_events
  PROVE  PollerTypeOK'
<1> DEFINE Outs == [Sockets -> [action : SUBSET Actions, reason : SUBSET Reasons]]
           Tables == /\ active' \subseteq Sockets
                     /\ context' \in [Sockets -> Context]
                     /\ deadline' \in [Sockets -> UInt64]
                     /\ out' \in Outs
                     /\ lastSeen' \in [Sockets -> [read : Times, write : Times]]
                     /\ room' \in Nat \ {0}
<1>2. ASSUME NEW S, HarvestAndStop(S) PROVE Tables
  <2>1. deadline' \in [Sockets -> UInt64]
    BY <1>2, RescheduleType DEF HarvestAndStop
  <2>2. QED
    BY <1>2, <2>1, NewContextType, NullTypes DEF HarvestAndStop, PollerTypeOK
<1>3. ASSUME NEW S, Harvest(S), UNCHANGED active,
             room' = IF Count(batch, signalled) = room THEN 2 * room ELSE room
      PROVE  Tables
  <2>1. deadline' \in [Sockets -> UInt64]
    BY <1>3, RescheduleType DEF Harvest
  <2>2. context' \in [Sockets -> Context]
    BY <1>3, RefreshedContextType DEF Harvest, PollerTypeOK
  <2>3. out' \in Outs
    BY <1>3, EventOfType DEF Harvest, PollerTypeOK
  <2>4. lastSeen' \in [Sockets -> [read : Times, write : Times]]
    BY <1>3 DEF Harvest, PollerTypeOK
  <2>5. room' \in Nat \ {0}
    BY <1>3 DEF PollerTypeOK
  <2>6. QED
    BY <1>3, <2>1, <2>2, <2>3, <2>4, <2>5 DEF PollerTypeOK
<1>4. ASSUME Tables, eventfd' = IF signalled THEN {} ELSE eventfd,
             lock' = LoopThread, pollPc' = "schedule",
             UNCHANGED <<now, failed, call, epoll, wakeAt, drift, batch, signalled>>
      PROVE  PollerTypeOK'
  BY <1>4 DEF PollerTypeOK, Threads
<1>5. QED
  BY <1>2, <1>3, <1>4, TypeAbort DEF process_epoll_events

LEMMA TypeProcessScheduler ==
  ASSUME PollerTypeOK, process_scheduler
  PROVE  PollerTypeOK'
<1>1. deadline' \in [Sockets -> UInt64]
  BY InvalidTimeType DEF process_scheduler, PollerTypeOK
<1>2. out' \in [Sockets -> [action : SUBSET Actions, reason : SUBSET Reasons]]
  <2>1. \A s \in Sockets : TimedOut(s) \subseteq Reasons
    BY DEF TimedOut, get_timeout_type, Reasons
  <2>2. \A s \in Sockets :
          EventAfterTimeout(s) \in [action : SUBSET Actions, reason : SUBSET Reasons]
    BY <2>1 DEF EventAfterTimeout, PollerTypeOK, Actions
  <2>3. QED
    BY <2>2 DEF process_scheduler
<1>3. drift' \in 0 .. MaxDrift /\ batch' \in [Sockets -> SUBSET Conditions]
  BY BoundAssumption DEF process_scheduler
<1>4. QED
  BY <1>1, <1>2, <1>3 DEF PollerTypeOK, process_scheduler, kernelVars

LEMMA TypeGetNextEvent ==
  ASSUME PollerTypeOK, NEW s \in Sockets, get_next_event(s)
  PROVE  PollerTypeOK'
<1>1. CASE out' = [out EXCEPT ![s] = NoEvent] /\ failed' = failed
  <2>1. out' \in [Sockets -> [action : SUBSET Actions, reason : SUBSET Reasons]]
    BY <1>1, NullTypes DEF PollerTypeOK
  <2>2. CASE Abort("out_events_race")
    BY <2>2, TypeAbort
  <2>3. CASE UNCHANGED <<now, failed, callVars, active, context, deadline, lastSeen,
                         kernelVars, pollVars>>
    BY <2>1, <2>3 DEF PollerTypeOK, callVars, kernelVars, pollVars
  <2>4. QED
    BY <2>2, <2>3 DEF get_next_event
<1>2. CASE Abort("out_events_race")
  BY <1>2, TypeAbort
<1>3. QED
  BY <1>1, <1>2 DEF get_next_event

LEMMA TypeStartPoll ==
  ASSUME PollerTypeOK, start_poll
  PROVE  PollerTypeOK'
  BY DEF PollerTypeOK, start_poll, callVars, tableVars, kernelVars

LEMMA TypeTick ==
  ASSUME PollerTypeOK, Tick
  PROVE  PollerTypeOK'
<1>1. now' \in Times /\ drift' \in 0 .. MaxDrift
  BY BoundAssumption DEF PollerTypeOK, Tick, Times
<1>2. QED
  BY <1>1 DEF PollerTypeOK, Tick, callVars, tableVars, kernelVars

LEMMA TypeStutter ==
  ASSUME PollerTypeOK, UNCHANGED pollerVars
  PROVE  PollerTypeOK'
  BY DEF PollerTypeOK, pollerVars, callVars, tableVars, kernelVars, pollVars

LEMMA TypeNext ==
  ASSUME PollerTypeOK, [PollerNext]_pollerVars
  PROVE  PollerTypeOK'
<1>1. CASE UNCHANGED pollerVars
  BY <1>1, TypeStutter
<1>2. CASE PollerNext
  BY <1>2, TypeLockFor, TypeUpdateSocket, TypeRemoveSocket, TypeSignal,
     TypeGetWaitTime, TypeEpollWaitReturn, TypeEpollWaitInterrupted,
     TypeProcessEpollEvents, TypeProcessScheduler, TypeGetNextEvent, TypeAbort,
     TypeStartPoll, TypeTick, TypeStutter
     DEF PollerNext, PollStep, Aborted, process_failure
<1>3. QED
  BY <1>1, <1>2

(* Type correctness of the poller's state: in particular every time stored *)
(* in a context or in the scheduler is a uint64_t although add_to_scheduler*)
(* and update_timeout add to it, and the wait handed to epoll_wait is at   *)
(* most half the range of an int.                                          *)
THEOREM PollerTypeCorrect == PollerSpec => []PollerTypeOK
<1>1. PollerTypeOK /\ [PollerNext]_pollerVars => PollerTypeOK'
  BY TypeNext
<1>2. QED
  BY TypeInit, <1>1, PTL DEF PollerSpec

-----------------------------------------------------------------------------
(* The event table. Both invariants of it are inductive next to type       *)
(* correctness; they are kept together because the same actions touch them.*)
EventsInv == PollerTypeOK /\ OutEventsAreActive /\ ActivityBeatsTimeout

LEMMA EventsInit == PollerInit => EventsInv
  BY TypeInit DEF PollerInit, EventsInv, OutEventsAreActive, ActivityBeatsTimeout, NoEvent

LEMMA EventsFrame ==
  ASSUME EventsInv, out' = out, active \subseteq active'
  PROVE  OutEventsAreActive' /\ ActivityBeatsTimeout'
  BY DEF EventsInv, OutEventsAreActive, ActivityBeatsTimeout

LEMMA EventsErased ==
  ASSUME EventsInv, NEW s \in Sockets, out' = [out EXCEPT ![s] = NoEvent],
         active \ {s} \subseteq active'
  PROVE  OutEventsAreActive' /\ ActivityBeatsTimeout'
<1>1. /\ out'[s] = NoEvent
      /\ \A p \in Sockets \ {s} : out'[p] = out[p]
  BY DEF EventsInv, PollerTypeOK
<1>2. OutEventsAreActive'
  BY <1>1 DEF EventsInv, OutEventsAreActive
<1>3. ActivityBeatsTimeout'
  BY <1>1 DEF EventsInv, ActivityBeatsTimeout, NoEvent
<1>4. QED
  BY <1>2, <1>3

LEMMA EventsUpdateSocket ==
  ASSUME EventsInv, NEW t, NEW s \in Sockets, NEW mask, NEW step,
         update_socket(t, s, mask, step)
  PROVE  OutEventsAreActive' /\ ActivityBeatsTimeout'
<1>1. out' = out /\ active \subseteq active'
  BY DEF update_socket, Abort, tableVars
<1>2. QED
  BY <1>1, EventsFrame

LEMMA EventsRemoveSocket ==
  ASSUME EventsInv, NEW t, NEW s \in Sockets, remove_socket(t, s)
  PROVE  OutEventsAreActive' /\ ActivityBeatsTimeout'
<1>1. CASE s \in active
  BY <1>1, EventsErased DEF remove_socket, OutEventErased
<1>2. CASE s \notin active
  BY <1>2, EventsFrame DEF remove_socket, tableVars
<1>3. QED
  BY <1>1, <1>2

LEMMA EventsGetNextEvent ==
  ASSUME EventsInv, NEW s \in Sockets, get_next_event(s)
  PROVE  OutEventsAreActive' /\ ActivityBeatsTimeout'
  BY EventsErased, EventsFrame DEF get_next_event, Abort, tableVars

(* What epoll reports never carries a timeout among its reasons. *)
LEMMA EventOfHasNoTimeout ==
  ASSUME NEW ev
  PROVE  "TIMEOUT_READ" \notin EventOf(ev).reason /\ "TIMEOUT_WRITE" \notin EventOf(ev).reason
  BY DEF EventOf, CloseReasonsOf

LEMMA EventsProcessEpollEvents ==
  ASSUME EventsInv, process_epoll_events
  PROVE  OutEventsAreActive' /\ ActivityBeatsTimeout'
<1>1. ASSUME NEW a, Abort(a)
      PROVE  OutEventsAreActive' /\ ActivityBeatsTimeout'
  BY <1>1, EventsFrame DEF Abort, tableVars
<1>2. ASSUME NEW S, HarvestAndStop(S)
      PROVE  OutEventsAreActive' /\ ActivityBeatsTimeout'
  BY <1>2 DEF HarvestAndStop, OutEventsAreActive, ActivityBeatsTimeout, NoEvent
<1>3. ASSUME NEW S, S \subseteq active, Harvest(S), UNCHANGED active
      PROVE  OutEventsAreActive' /\ ActivityBeatsTimeout'
  <2>1. \A s \in Sockets : \/ out'[s] = out[s]
                           \/ s \in active /\ out'[s] = EventOf(batch[s])
    BY <1>3 DEF Harvest
  <2>2. OutEventsAreActive'
    BY <1>3, <2>1 DEF EventsInv, OutEventsAreActive
  <2>3. ActivityBeatsTimeout'
    BY <2>1, EventOfHasNoTimeout DEF EventsInv, ActivityBeatsTimeout
  <2>4. QED
    BY <2>2, <2>3
<1>4. QED
  BY <1>1, <1>2, <1>3 DEF process_epoll_events

LEMMA EventsProcessScheduler ==
  ASSUME EventsInv, process_scheduler
  PROVE  OutEventsAreActive' /\ ActivityBeatsTimeout'
<1>1. active' = active /\ \A s \in Sockets : out'[s] = EventAfterTimeout(s)
  BY DEF process_scheduler
<1>2. \A s \in Sockets : EventAfterTimeout(s) # out[s] => s \in active
  BY DEF EventAfterTimeout
<1>3. \A s \in Sockets :
        \/ EventAfterTimeout(s) = out[s]
        \/ /\ EventAfterTimeout(s).action = out[s].action \cup {"CLOSE"}
           /\ EventAfterTimeout(s).reason = TimedOut(s)
  BY DEF EventAfterTimeout
<1>4. \A s \in Sockets :
        /\ "READ" \in out[s].action => "TIMEOUT_READ" \notin TimedOut(s)
        /\ "WRITE" \in out[s].action => "TIMEOUT_WRITE" \notin TimedOut(s)
  BY DEF TimedOut
<1>5. OutEventsAreActive'
  BY <1>1, <1>2 DEF EventsInv, OutEventsAreActive
<1>6. ActivityBeatsTimeout'
  BY <1>1, <1>3, <1>4 DEF EventsInv, ActivityBeatsTimeout
<1>7. QED
  BY <1>5, <1>6

LEMMA EventsNext ==
  ASSUME EventsInv, [PollerNext]_pollerVars
  PROVE  OutEventsAreActive' /\ ActivityBeatsTimeout'
<1>1. CASE \E t \in Threads, op \in {"update_socket", "remove_socket"} : lock_for(t, op)
  BY <1>1, EventsFrame DEF lock_for, tableVars
<1>2. CASE \E kind \in {"UPDATE", "STOP"} : signal(kind)
  BY <1>2, EventsFrame DEF signal, tableVars
<1>3. CASE \/ start_poll \/ get_wait_time \/ epoll_wait_return \/ epoll_wait_interrupted
          \/ process_failure \/ Tick
  BY <1>3, EventsFrame
     DEF start_poll, get_wait_time, epoll_wait_return, epoll_wait_interrupted, process_failure,
         Abort, Tick, tableVars
<1>4. CASE UNCHANGED pollerVars
  BY <1>4, EventsFrame DEF pollerVars, tableVars
<1>5. QED
  BY <1>1, <1>2, <1>3, <1>4, EventsUpdateSocket, EventsRemoveSocket, EventsGetNextEvent,
     EventsProcessEpollEvents, EventsProcessScheduler
     DEF PollerNext, PollStep, Aborted

(* The induction that both theorems below share. *)
LEMMA EventsAlways == PollerSpec => []EventsInv
<1>1. EventsInv /\ [PollerNext]_pollerVars => PollerTypeOK'
  BY TypeNext DEF EventsInv
<1>2. EventsInv /\ [PollerNext]_pollerVars => EventsInv'
  BY <1>1, EventsNext DEF EventsInv
<1>3. QED
  BY EventsInit, <1>2, PTL DEF PollerSpec

(* Whatever threads register, remove and stop in whatever order, the loop  *)
(* never finds an event of a socket that was removed: remove_socket and    *)
(* process_signal drop the pending events, and only sockets of             *)
(* m_active_sockets get new ones.                                          *)
THEOREM EventsAreOfActiveSockets == PollerSpec => []OutEventsAreActive
<1>1. EventsInv => OutEventsAreActive
  BY DEF EventsInv
<1>2. QED
  BY EventsAlways, <1>1, PTL

(* No event says that a direction was active and that it timed out:        *)
(* process_scheduler masks the timeouts with the pending actions, and later*)
(* reports are not merged into an event that is already there.             *)
THEOREM NoTimeoutWithActivity == PollerSpec => []ActivityBeatsTimeout
<1>1. EventsInv => ActivityBeatsTimeout
  BY DEF EventsInv
<1>2. QED
  BY EventsAlways, <1>1, PTL

-----------------------------------------------------------------------------
(* The scheduler and the timeouts it was filled from. Callers that pass the*)
(* step INVALID_TIME are excluded: their registration leaves m_scheduler   *)
(* alone, with what a STOP may have left in it for the same descriptor.    *)
ScheduleInv == PollerTypeOK /\ ScheduleMatchesContext

LEMMA ScheduleInit == PollerInit => ScheduleMatchesContext
  BY DEF PollerInit, ScheduleMatchesContext

LEMMA ScheduleFrame ==
  ASSUME ScheduleInv, UNCHANGED <<context, deadline>>, active' \subseteq active
  PROVE  ScheduleMatchesContext'
  BY DEF ScheduleInv, ScheduleMatchesContext

LEMMA ScheduleUpdateSocket ==
  ASSUME ScheduleInv, INVALID_TIME \notin Steps,
         NEW t, NEW s \in Sockets, NEW mask \in Masks, NEW step \in Steps,
         update_socket(t, s, mask, step)
  PROVE  ScheduleMatchesContext'
<1>1. CASE ScheduleFails(s, mask, step)
  BY <1>1, ScheduleFrame DEF update_socket, Abort, tableVars
<1>2. CASE ~ScheduleFails(s, mask, step)
  <2> DEFINE c == ArmedContext(context[s], mask, IF step = 0 THEN DEFAULT_TIMEOUT_MS ELSE step)
  <2>1. /\ context' = [context EXCEPT ![s] = c]
        /\ deadline' = Sched!Set(deadline, s, get_nearest_timeout(c))
    BY <1>2 DEF update_socket, Schedule
  <2>2. HasTimeout(c) /\ c \in Context
    BY <1>2, StepType, ArmedContextType DEF ScheduleFails, ScheduleInv, PollerTypeOK
  <2> HIDE DEF c
  <2>3. get_nearest_timeout(c) # INVALID_TIME
    BY <2>2, InvalidTimeType DEF HasTimeout, get_nearest_timeout, Context, Timeout
  <2>4. deadline' = [deadline EXCEPT ![s] = get_nearest_timeout(c)]
    BY <2>1, <2>3 DEF Sched!Set
  <2>5. active' \subseteq active \cup {s}
    BY <1>2 DEF update_socket
  <2>6. /\ context'[s] = c /\ deadline'[s] = get_nearest_timeout(c)
        /\ \A p \in Sockets \ {s} : context'[p] = context[p] /\ deadline'[p] = deadline[p]
    BY <2>1, <2>4 DEF ScheduleInv, PollerTypeOK
  <2>7. QED
    BY <2>5, <2>6 DEF ScheduleInv, PollerTypeOK, ScheduleMatchesContext
<1>3. QED
  BY <1>1, <1>2

LEMMA ScheduleRemoveSocket ==
  ASSUME ScheduleInv, NEW t, NEW s \in Sockets, remove_socket(t, s)
  PROVE  ScheduleMatchesContext'
<1>1. CASE s \in active
  <2>1. \A p \in Sockets \ {s} : context'[p] = context[p] /\ deadline'[p] = deadline[p]
    BY <1>1 DEF remove_socket, DeadlineDeleted, Sched!Clear, ScheduleInv, PollerTypeOK
  <2>2. active' = active \ {s}
    BY <1>1 DEF remove_socket
  <2>3. QED
    BY <2>1, <2>2 DEF ScheduleInv, PollerTypeOK, ScheduleMatchesContext
<1>2. CASE s \notin active
  BY <1>2, ScheduleFrame DEF remove_socket, tableVars
<1>3. QED
  BY <1>1, <1>2

LEMMA ScheduleProcessEpollEvents ==
  ASSUME ScheduleInv, process_epoll_events
  PROVE  ScheduleMatchesContext'
<1>1. ASSUME NEW a, Abort(a) PROVE ScheduleMatchesContext'
  BY <1>1, ScheduleFrame DEF Abort, tableVars
<1>2. ASSUME NEW S, HarvestAndStop(S) PROVE ScheduleMatchesContext'
  BY <1>2 DEF HarvestAndStop, ScheduleMatchesContext
<1>3. ASSUME NEW S, Harvest(S), UNCHANGED active PROVE ScheduleMatchesContext'
  <2>1. \A s \in Sockets :
          \/ context'[s] = context[s] /\ deadline'[s] = deadline[s]
          \/ deadline'[s] = get_nearest_timeout(context'[s])
    BY <1>3 DEF Harvest, Reschedule, DeadlineAfter
  <2>2. QED
    BY <1>3, <2>1 DEF ScheduleInv, PollerTypeOK, ScheduleMatchesContext
<1>4. QED
  BY <1>1, <1>2, <1>3 DEF process_epoll_events

LEMMA ScheduleProcessScheduler ==
  ASSUME ScheduleInv, process_scheduler
  PROVE  ScheduleMatchesContext'
  BY DEF process_scheduler, ScheduleInv, PollerTypeOK, ScheduleMatchesContext

LEMMA ScheduleNext ==
  ASSUME ScheduleInv, INVALID_TIME \notin Steps, [PollerNext]_pollerVars
  PROVE  ScheduleMatchesContext'
<1>1. CASE \E t \in Threads, op \in {"update_socket", "remove_socket"} : lock_for(t, op)
  BY <1>1, ScheduleFrame DEF lock_for, tableVars
<1>2. CASE \E kind \in {"UPDATE", "STOP"} : signal(kind)
  BY <1>2, ScheduleFrame DEF signal, tableVars
<1>3. CASE \/ start_poll \/ get_wait_time \/ epoll_wait_return \/ epoll_wait_interrupted
          \/ process_failure \/ Tick
  BY <1>3, ScheduleFrame
     DEF start_poll, get_wait_time, epoll_wait_return, epoll_wait_interrupted, process_failure,
         Abort, Tick, tableVars
<1>4. CASE UNCHANGED pollerVars
  BY <1>4, ScheduleFrame DEF pollerVars, tableVars
<1>5. CASE \E s \in Sockets : get_next_event(s)
  BY <1>5, ScheduleFrame DEF get_next_event, Abort, tableVars
<1>6. QED
  BY <1>1, <1>2, <1>3, <1>4, <1>5, ScheduleUpdateSocket, ScheduleRemoveSocket,
     ScheduleProcessEpollEvents, ScheduleProcessScheduler
     DEF PollerNext, PollStep, Aborted

(* Unless a caller registers without a timeout, a registered socket that is*)
(* in the scheduler is there with its nearest timeout: registration, every *)
(* change of interest, activity and hang-up replace the deadline, and      *)
(* nothing left by a removed socket or by a STOP is taken for the new one. *)
THEOREM ScheduleIsConsistent ==
  ASSUME INVALID_TIME \notin Steps
  PROVE  PollerSpec => []ScheduleMatchesContext
<1>1. PollerInit => ScheduleInv
  BY TypeInit, ScheduleInit DEF ScheduleInv
<1>2. ScheduleInv /\ [PollerNext]_pollerVars => ScheduleInv'
  <2>1. ScheduleInv /\ [PollerNext]_pollerVars => PollerTypeOK'
    BY TypeNext DEF ScheduleInv
  <2>2. QED
    BY <2>1, ScheduleNext DEF ScheduleInv
<1>3. ScheduleInv => ScheduleMatchesContext
  BY DEF ScheduleInv
<1>4. QED
  BY <1>1, <1>2, <1>3, PTL DEF PollerSpec
-----------------------------------------------------------------------------
(* Timeouts and activity. *)

(* The steps the timeouts run with.                                        *)
ClockSteps == (Steps \ {0, INVALID_TIME}) \cup {DEFAULT_TIMEOUT_MS}

(* The clock and a timeout together stay away from the end of uint64_t,    *)
(* where a running timeout would be taken for none.                        *)
NoOverflow == \A step \in ClockSteps : MaxTime + step < INVALID_TIME

(* A timeout that runs ends one step after the last activity. A direction  *)
(* nobody asked a timeout for has the step INVALID_TIME, and a report of   *)
(* it starts one all the same.                                             *)
CountsFrom(t, seen) ==
  /\ t.step \in ClockSteps \cup {INVALID_TIME}
  /\ t.time # INVALID_TIME => t.time = (seen + t.step) % TimeModulus

SilenceInv ==
  \A s \in Sockets :
    /\ s \notin active => context[s] = NewContext
    /\ lastSeen[s].read <= now /\ lastSeen[s].write <= now
    /\ CountsFrom(context[s].read, lastSeen[s].read)
    /\ CountsFrom(context[s].write, lastSeen[s].write)

LEMMA ClockStepType ==
  ASSUME NEW step \in ClockSteps
  PROVE  step \in Nat /\ step \in UInt64
  BY CallAssumption, InvalidTimeType DEF ClockSteps

LEMMA NowType ==
  ASSUME NEW x \in Times
  PROVE  x \in Nat /\ x <= MaxTime /\ x < INVALID_TIME /\ INVALID_TIME \in Nat
  BY BoundAssumption, InvalidTimeType DEF Times

(* Replacing one step by another, wherever the sum with the first one has  *)
(* wrapped to.                                                             *)
LEMMA ShiftedStep ==
  ASSUME NEW seen \in Times, NEW a \in UInt64, NEW b \in Nat, seen + b < INVALID_TIME
  PROVE  (((seen + a) % TimeModulus) + b - a) % TimeModulus = seen + b
<1>1. /\ seen \in Nat /\ a \in Nat /\ a < TimeModulus
      /\ seen < TimeModulus /\ seen + b < TimeModulus /\ TimeModulus \in Nat /\ TimeModulus > 1
  BY NowType, TimeModulusAssumption DEF UInt64, INVALID_TIME
<1>2. CASE seen + a < TimeModulus
  <2>1. (seen + a) % TimeModulus = seen + a
    BY <1>1, <1>2, NoWrap
  <2>2. ((seen + a) % TimeModulus) + b - a = seen + b
    BY <1>1, <2>1
  <2>3. QED
    BY <1>1, <2>2, NoWrap
<1>3. CASE ~(seen + a < TimeModulus)
  <2>1. (seen + a) % TimeModulus = seen + a - TimeModulus
    BY <1>1, <1>3
  <2>2. ((seen + a) % TimeModulus) + b - a = seen + b - TimeModulus
    BY <1>1, <2>1
  <2>3. (seen + b - TimeModulus) % TimeModulus = seen + b
    BY <1>1
  <2>4. QED
    BY <2>2, <2>3
<1>4. QED
  BY <1>2, <1>3

(* add_to_scheduler starts a timeout now or moves it to the new step after *)
(* the last activity.                                                      *)
LEMMA ArmCounts ==
  ASSUME NoOverflow, now \in Times, NEW t \in Timeout, NEW seen \in Times,
         CountsFrom(t, seen), NEW step \in ClockSteps
  PROVE  CountsFrom(Arm(t, step), IF t.time = INVALID_TIME THEN now ELSE seen)
<1>1. step \in Nat /\ \A x \in Times : x + step < INVALID_TIME /\ x \in Nat
  <2>1. step \in Nat /\ MaxTime + step < INVALID_TIME /\ MaxTime \in Nat
    BY ClockStepType, BoundAssumption DEF NoOverflow
  <2>2. \A x \in Times : x \in Nat /\ x <= MaxTime /\ INVALID_TIME \in Nat
    BY NowType
  <2>3. QED
    BY <2>1, <2>2
<1>2. CASE t.time = INVALID_TIME
  <2>1. /\ Arm(t, step).time = (now + step) % TimeModulus
        /\ Arm(t, step).step = step
    BY <1>2 DEF Arm, update_timeout_step
  <2>2. QED
    BY <1>2, <2>1 DEF CountsFrom
<1>3. CASE t.time # INVALID_TIME
  <2>1. t.time = (seen + t.step) % TimeModulus /\ t.step \in UInt64
    BY <1>3 DEF CountsFrom, Timeout
  <2>2. (t.time + step - t.step) % TimeModulus = seen + step
    BY <1>1, <2>1, ShiftedStep
  <2>3. seen + step \in Nat /\ seen + step < TimeModulus /\ seen + step # INVALID_TIME
    BY <1>1, NowType, TimeModulusAssumption DEF INVALID_TIME
  <2>4. update_timeout_step(t, step) = [time |-> seen + step, step |-> step]
    BY <1>3, <2>2 DEF update_timeout_step
  <2>5. Arm(t, step) = [time |-> seen + step, step |-> step]
    BY <2>3, <2>4 DEF Arm
  <2>6. (seen + step) % TimeModulus = seen + step
    BY <2>3, NoWrap
  <2>7. QED
    BY <1>3, <2>5, <2>6 DEF CountsFrom
<1>4. QED
  BY <1>2, <1>3

LEMMA SilenceInit == PollerInit => SilenceInv
<1> SUFFICES ASSUME PollerInit PROVE SilenceInv
  OBVIOUS
<1>1. 0 <= 0
  OBVIOUS
<1>2. QED
  BY <1>1 DEF PollerInit, SilenceInv, NewContext, NoTimeout, NotSeen, CountsFrom

(* Nobody's timeouts change, and the clock does not go back. *)
LEMMA SilenceFrame ==
  ASSUME PollerTypeOK, SilenceInv, UNCHANGED <<active, context, lastSeen>>,
         now' = now \/ now' = now + 1
  PROVE  SilenceInv'
<1>1. \A s \in Sockets : lastSeen[s].read \in Nat /\ lastSeen[s].write \in Nat
  BY NowType DEF PollerTypeOK
<1>2. now \in Nat
  BY NowType DEF PollerTypeOK
<1>3. QED
  BY <1>1, <1>2 DEF SilenceInv, CountsFrom

LEMMA SilenceUpdateSocket ==
  ASSUME NoOverflow, PollerTypeOK, SilenceInv, NEW t, NEW s \in Sockets,
         NEW mask \in Masks, NEW step \in Steps, update_socket(t, s, mask, step)
  PROVE  SilenceInv'
<1>1. CASE ScheduleFails(s, mask, step)
  BY <1>1, SilenceFrame DEF update_socket, Abort, tableVars
<1>2. CASE ~ScheduleFails(s, mask, step)
  <2>1. Schedule(s, mask, step) /\ active \subseteq active' /\ now' = now
    BY <1>2 DEF update_socket
  <2>2. CASE step = INVALID_TIME
    <3>1. UNCHANGED <<context, lastSeen>>
      BY <2>1, <2>2 DEF Schedule
    <3>2. QED
      BY <2>1, <3>1 DEF SilenceInv, CountsFrom
  <2>3. CASE step # INVALID_TIME
    <3> DEFINE real == IF step = 0 THEN DEFAULT_TIMEOUT_MS ELSE step
               c == ArmedContext(context[s], mask, real)
               l == SeenAfterUpdate(s, mask)
    <3>1. real \in ClockSteps
      BY <2>3 DEF ClockSteps
    <3>2. /\ context' = [context EXCEPT ![s] = c]
          /\ lastSeen' = [lastSeen EXCEPT ![s] = l]
      BY <2>1, <2>3 DEF Schedule
    <3>3. /\ context[s].read \in Timeout /\ context[s].write \in Timeout
          /\ lastSeen[s].read \in Times /\ lastSeen[s].write \in Times /\ now \in Times
      BY DEF PollerTypeOK, Context
    <3>4. /\ CountsFrom(context[s].read, lastSeen[s].read)
          /\ CountsFrom(context[s].write, lastSeen[s].write)
      BY DEF SilenceInv
    <3> HIDE DEF real
    <3>5. /\ c.read = IF "EPOLLIN" \in mask THEN Arm(context[s].read, real) ELSE context[s].read
          /\ c.write = IF "EPOLLOUT" \in mask THEN Arm(context[s].write, real)
                       ELSE context[s].write
      BY DEF ArmedContext
    <3>6. /\ l.read = IF "EPOLLIN" \in mask /\ context[s].read.time = INVALID_TIME
                      THEN now ELSE lastSeen[s].read
          /\ l.write = IF "EPOLLOUT" \in mask /\ context[s].write.time = INVALID_TIME
                       THEN now ELSE lastSeen[s].write
      BY DEF SeenAfterUpdate
    <3>7. CountsFrom(c.read, l.read)
      <4>1. CASE "EPOLLIN" \in mask
        BY <3>1, <3>3, <3>4, <3>5, <3>6, <4>1, ArmCounts
      <4>2. CASE "EPOLLIN" \notin mask
        BY <3>4, <3>5, <3>6, <4>2
      <4>3. QED
        BY <4>1, <4>2
    <3>8. CountsFrom(c.write, l.write)
      <4>1. CASE "EPOLLOUT" \in mask
        BY <3>1, <3>3, <3>4, <3>5, <3>6, <4>1, ArmCounts
      <4>2. CASE "EPOLLOUT" \notin mask
        BY <3>4, <3>5, <3>6, <4>2
      <4>3. QED
        BY <4>1, <4>2
    <3>9. l.read <= now /\ l.write <= now
      BY <3>3, <3>6, NowType DEF SilenceInv
    <3> HIDE DEF c, l
    <3>10. /\ context'[s] = c /\ lastSeen'[s] = l
           /\ \A p \in Sockets \ {s} : context'[p] = context[p] /\ lastSeen'[p] = lastSeen[p]
      BY <3>2 DEF PollerTypeOK
    <3>11. s \in active'
      BY <1>2 DEF update_socket
    <3>12. QED
      BY <2>1, <3>7, <3>8, <3>9, <3>10, <3>11 DEF SilenceInv, CountsFrom
  <2>4. QED
    BY <2>2, <2>3
<1>3. QED
  BY <1>1, <1>2

LEMMA SilenceRemoveSocket ==
  ASSUME PollerTypeOK, SilenceInv, NEW t, NEW s \in Sockets, remove_socket(t, s)
  PROVE  SilenceInv'
<1>1. CASE s \in active
  <2>1. /\ context'[s] = NewContext /\ lastSeen'[s] = NotSeen
        /\ \A p \in Sockets \ {s} : context'[p] = context[p] /\ lastSeen'[p] = lastSeen[p]
        /\ active' = active \ {s} /\ now' = now
    BY <1>1 DEF remove_socket, PollerTypeOK
  <2>2. 0 <= now
    BY NowType DEF PollerTypeOK
  <2>3. CountsFrom(NewContext.read, 0)' /\ CountsFrom(NewContext.write, 0)'
    BY DEF CountsFrom, NewContext, NoTimeout
  <2>4. QED
    BY <2>1, <2>2, <2>3 DEF SilenceInv, CountsFrom, NotSeen
<1>2. CASE s \notin active
  BY <1>2, SilenceFrame DEF remove_socket, tableVars
<1>3. QED
  BY <1>1, <1>2

(* A report restarts the timeouts of its directions. *)
LEMMA RefreshedCounts ==
  ASSUME PollerTypeOK, SilenceInv, NEW s \in Sockets
  PROVE  /\ CountsFrom(RefreshedContext(s).read,
                       IF "EPOLLIN" \in batch[s] THEN now ELSE lastSeen[s].read)
         /\ CountsFrom(RefreshedContext(s).write,
                       IF "EPOLLOUT" \in batch[s] THEN now ELSE lastSeen[s].write)
<1>1. /\ context[s].read \in Timeout /\ context[s].write \in Timeout
      /\ CountsFrom(context[s].read, lastSeen[s].read)
      /\ CountsFrom(context[s].write, lastSeen[s].write)
  BY DEF PollerTypeOK, Context, SilenceInv
<1>2. ASSUME NEW t \in Timeout, NEW seen, CountsFrom(t, seen)
      PROVE  CountsFrom(update_timeout(t, now), now)
  BY <1>2 DEF CountsFrom, update_timeout, Timeout
<1>3. QED
  BY <1>1, <1>2 DEF RefreshedContext

LEMMA SilenceProcessEpollEvents ==
  ASSUME PollerTypeOK, SilenceInv, process_epoll_events
  PROVE  SilenceInv'
<1>1. now \in Nat /\ 0 <= now /\ now <= now
  BY NowType DEF PollerTypeOK
<1>2. ASSUME NEW a, Abort(a) PROVE SilenceInv'
  BY <1>2, SilenceFrame DEF Abort, tableVars
<1>3. ASSUME NEW S, HarvestAndStop(S), now' = now PROVE SilenceInv'
  BY <1>1, <1>3
     DEF HarvestAndStop, SilenceInv, CountsFrom, NewContext, NoTimeout, NotSeen
<1>4. ASSUME NEW S, S \subseteq active, Harvest(S), UNCHANGED active, now' = now
      PROVE  SilenceInv'
  <2> SUFFICES ASSUME NEW s \in Sockets
               PROVE  /\ s \notin active' => context'[s] = NewContext
                      /\ lastSeen'[s].read <= now' /\ lastSeen'[s].write <= now'
                      /\ CountsFrom(context'[s].read, lastSeen'[s].read)
                      /\ CountsFrom(context'[s].write, lastSeen'[s].write)
    BY DEF SilenceInv, CountsFrom
  <2>1. CASE s \in S
    <3>1. /\ context'[s] = RefreshedContext(s)
          /\ lastSeen'[s].read = IF "EPOLLIN" \in batch[s] THEN now ELSE lastSeen[s].read
          /\ lastSeen'[s].write = IF "EPOLLOUT" \in batch[s] THEN now ELSE lastSeen[s].write
      BY <1>4, <2>1 DEF Harvest
    <3>2. QED
      BY <1>1, <1>4, <2>1, <3>1, RefreshedCounts DEF SilenceInv
  <2>2. CASE s \notin S
    <3>1. /\ context'[s] = context[s]
          /\ lastSeen'[s].read = lastSeen[s].read /\ lastSeen'[s].write = lastSeen[s].write
      BY <1>4, <2>2 DEF Harvest
    <3>2. QED
      BY <1>4, <3>1 DEF SilenceInv
  <2>3. QED
    BY <2>1, <2>2
<1>5. QED
  BY <1>2, <1>3, <1>4 DEF process_epoll_events

LEMMA SilenceNext ==
  ASSUME NoOverflow, PollerTypeOK, SilenceInv, [PollerNext]_pollerVars
  PROVE  SilenceInv'
<1>1. CASE \E t \in Threads, op \in {"update_socket", "remove_socket"} : lock_for(t, op)
  BY <1>1, SilenceFrame DEF lock_for, tableVars
<1>2. CASE \E kind \in {"UPDATE", "STOP"} : signal(kind)
  BY <1>2, SilenceFrame DEF signal, tableVars
<1>3. CASE \/ start_poll \/ get_wait_time \/ epoll_wait_return \/ epoll_wait_interrupted
          \/ process_failure \/ process_scheduler \/ Tick
  BY <1>3, SilenceFrame
     DEF start_poll, get_wait_time, epoll_wait_return, epoll_wait_interrupted, process_failure,
         process_scheduler, Abort, Tick, tableVars
<1>4. CASE UNCHANGED pollerVars
  BY <1>4, SilenceFrame DEF pollerVars, tableVars
<1>5. CASE \E s \in Sockets : get_next_event(s)
  BY <1>5, SilenceFrame DEF get_next_event, Abort, tableVars
<1>6. QED
  BY <1>1, <1>2, <1>3, <1>4, <1>5, SilenceUpdateSocket, SilenceRemoveSocket,
     SilenceProcessEpollEvents
     DEF PollerNext, PollStep, Aborted

LEMMA SilenceAlways ==
  ASSUME NoOverflow
  PROVE  PollerSpec => [](PollerTypeOK /\ SilenceInv)
<1>1. PollerInit => PollerTypeOK /\ SilenceInv
  BY TypeInit, SilenceInit
<1>2. PollerTypeOK /\ SilenceInv /\ [PollerNext]_pollerVars => (PollerTypeOK /\ SilenceInv)'
  BY TypeNext, SilenceNext
<1>3. QED
  BY <1>1, <1>2, PTL DEF PollerSpec

(* However often the step of a running timeout is replaced, in unsigned    *)
(* arithmetic and by smaller or larger ones, it ends one step after the    *)
(* last activity, and a report moves it; whoever removes, registers and    *)
(* stops in between.                                                       *)
THEOREM TimeoutsFollowActivity ==
  ASSUME NoOverflow
  PROVE  PollerSpec => []TimeoutsCountFromActivity
<1>1. PollerTypeOK /\ SilenceInv => TimeoutsCountFromActivity
  BY DEF PollerTypeOK, SilenceInv, CountsFrom, TimeoutsCountFromActivity
<1>2. QED
  BY <1>1, SilenceAlways, PTL

-----------------------------------------------------------------------------
(* Nobody is timed out early. *)

(* Only process_scheduler gives an event a timeout for a reason. *)
LEMMA ReasonsOfSteps ==
  ASSUME PollerTypeOK, PollerNext, ~process_scheduler, NEW s \in Sockets
  PROVE  out'[s] \in {out[s], NoEvent, EventOf(batch[s])}
<1>1. CASE \E t \in Threads, op \in {"update_socket", "remove_socket"} : lock_for(t, op)
  BY <1>1 DEF lock_for, tableVars
<1>2. CASE \E kind \in {"UPDATE", "STOP"} : signal(kind)
  BY <1>2 DEF signal, tableVars
<1>3. CASE \/ start_poll \/ get_wait_time \/ epoll_wait_return \/ epoll_wait_interrupted
          \/ process_failure \/ Tick
  BY <1>3
     DEF start_poll, get_wait_time, epoll_wait_return, epoll_wait_interrupted, process_failure,
         Abort, Tick, tableVars
<1>4. CASE Aborted
  BY <1>4 DEF Aborted, pollerVars, tableVars
<1>5. CASE \E p \in Sockets : get_next_event(p)
  BY <1>5 DEF get_next_event, Abort, tableVars, PollerTypeOK
<1>6. CASE \E t \in Threads, p \in Sockets, mask \in Masks, step \in Steps :
            update_socket(t, p, mask, step)
  BY <1>6 DEF update_socket, Abort, tableVars
<1>7. CASE \E t \in Threads, p \in Sockets : remove_socket(t, p)
  BY <1>7 DEF remove_socket, OutEventErased, tableVars, PollerTypeOK
<1>8. CASE process_epoll_events
  BY <1>8 DEF process_epoll_events, Abort, tableVars, Harvest, HarvestAndStop
<1>9. QED
  BY <1>1, <1>2, <1>3, <1>4, <1>5, <1>6, <1>7, <1>8 DEF PollerNext, PollStep

(* A timeout that has come has run for its whole step. *)
LEMMA WholeStep ==
  ASSUME NoOverflow, NEW t, NEW seen \in Times, NEW at \in Times, CountsFrom(t, seen),
         at >= t.time
  PROVE  t.step = INVALID_TIME \/ at >= seen + t.step
<1>1. t.time # INVALID_TIME /\ t.time = (seen + t.step) % TimeModulus
  BY NowType DEF CountsFrom
<1>2. CASE t.step \in ClockSteps
  <2>1. MaxTime + t.step < INVALID_TIME /\ t.step \in Nat /\ MaxTime \in Nat
    BY <1>2, ClockStepType, BoundAssumption DEF NoOverflow
  <2>2. seen + t.step \in Nat /\ seen + t.step < TimeModulus
    BY <2>1, NowType, TimeModulusAssumption DEF INVALID_TIME
  <2>3. t.time = seen + t.step
    BY <1>1, <2>2, NoWrap
  <2>4. QED
    BY <2>3
<1>3. QED
  BY <1>2 DEF CountsFrom

LEMMA SilenceOfTimedOut ==
  ASSUME NoOverflow, PollerTypeOK, SilenceInv, process_scheduler, NEW s \in Sockets
  PROVE  /\ "TIMEOUT_READ" \in out'[s].reason \ out[s].reason =>
              \/ context[s].read.step = INVALID_TIME
              \/ now >= lastSeen[s].read + context[s].read.step
         /\ "TIMEOUT_WRITE" \in out'[s].reason \ out[s].reason =>
              \/ context[s].write.step = INVALID_TIME
              \/ now >= lastSeen[s].write + context[s].write.step
<1>1. out'[s].reason \ out[s].reason \subseteq get_timeout_type(context[s], now)
  BY DEF process_scheduler, EventAfterTimeout, TimedOut
<1>2. /\ CountsFrom(context[s].read, lastSeen[s].read)
      /\ CountsFrom(context[s].write, lastSeen[s].write)
      /\ lastSeen[s].read \in Times /\ lastSeen[s].write \in Times /\ now \in Times
  BY DEF SilenceInv, PollerTypeOK
<1>3. /\ "TIMEOUT_READ" \in get_timeout_type(context[s], now) => now >= context[s].read.time
      /\ "TIMEOUT_WRITE" \in get_timeout_type(context[s], now) => now >= context[s].write.time
  BY DEF get_timeout_type
<1>4. QED
  BY <1>1, <1>2, <1>3, WholeStep

(* A socket is reported timed out only after a whole step without activity *)
(* in that direction, whatever happened to its timeouts before and whatever*)
(* order reports, updates, removals and a STOP came in.                    *)
THEOREM NobodyTimesOutEarly ==
  ASSUME NoOverflow
  PROVE  PollerSpec => CloseOnlyAfterSilence
<1> DEFINE Silent ==
      \A s \in Sockets :
        /\ "TIMEOUT_READ" \in out'[s].reason \ out[s].reason =>
             \/ context[s].read.step = INVALID_TIME
             \/ now >= lastSeen[s].read + context[s].read.step
        /\ "TIMEOUT_WRITE" \in out'[s].reason \ out[s].reason =>
             \/ context[s].write.step = INVALID_TIME
             \/ now >= lastSeen[s].write + context[s].write.step
<1>1. ASSUME PollerTypeOK, SilenceInv, PollerNext PROVE Silent
  <2>1. CASE process_scheduler
    BY <1>1, <2>1, SilenceOfTimedOut
  <2>2. CASE ~process_scheduler
    <3>1. ASSUME NEW s \in Sockets
          PROVE  /\ "TIMEOUT_READ" \notin out'[s].reason \ out[s].reason
                 /\ "TIMEOUT_WRITE" \notin out'[s].reason \ out[s].reason
      BY <1>1, <2>2, ReasonsOfSteps, EventOfHasNoTimeout DEF NoEvent
    <3>2. QED
      BY <3>1
  <2>3. QED
    BY <2>1, <2>2
<1>2. PollerTypeOK /\ SilenceInv /\ [PollerNext]_pollerVars => [Silent]_pollerVars
  BY <1>1
<1>3. QED
  BY <1>2, SilenceAlways, PTL DEF PollerSpec, CloseOnlyAfterSilence

-----------------------------------------------------------------------------
(* The length of the wait. *)

(* The timeout of epoll_wait is an int: no step is as long as its positive *)
(* half, which added to the clock is still a uint64_t.                     *)
IntWaits ==
  /\ \A step \in ClockSteps : 2 * step < IntModulus
  /\ MaxTime + (IntModulus \div 2) <= INVALID_TIME

(* No deadline is too far away for an int, and the loop thread holds the   *)
(* lock only in a call of its own and while it processes what it has read. *)
WaitInv ==
  /\ \A s \in Sockets : deadline[s] # INVALID_TIME => 2 * (deadline[s] - now) < IntModulus
  /\ lock = LoopThread => pollPc \in {"idle", "schedule"}

OversleepInv == PollerTypeOK /\ SilenceInv /\ WaitInv

LEMMA TimeoutNearby ==
  ASSUME NoOverflow, IntWaits, now \in Times, NEW t \in Timeout, NEW seen \in Times,
         seen <= now, CountsFrom(t, seen), t.time # INVALID_TIME
  PROVE  2 * (t.time - now) < IntModulus
<1>1. /\ now \in Nat /\ seen \in Nat /\ seen < INVALID_TIME /\ INVALID_TIME \in Nat
      /\ IntModulus \in Nat /\ IntModulus > 0
      /\ TimeModulus = INVALID_TIME + 1 /\ TimeModulus \in Nat
  BY NowType, BoundAssumption, TimeModulusAssumption DEF INVALID_TIME
<1>2. t.time = (seen + t.step) % TimeModulus
  BY DEF CountsFrom
<1>3. CASE t.step \in ClockSteps
  <2>1. t.step \in Nat /\ MaxTime + t.step < INVALID_TIME /\ MaxTime \in Nat /\ seen <= MaxTime
    BY <1>3, ClockStepType, NowType, BoundAssumption DEF NoOverflow
  <2>2. seen + t.step \in Nat /\ seen + t.step < TimeModulus
    BY <1>1, <2>1
  <2>3. t.time = seen + t.step
    BY <1>2, <2>2, NoWrap
  <2>4. 2 * t.step < IntModulus
    BY <1>3 DEF IntWaits
  <2>5. QED
    BY <1>1, <2>1, <2>3, <2>4
<1>4. CASE t.step = INVALID_TIME
  <2>1. CASE seen = 0
    <3>1. t.time = INVALID_TIME
      BY <1>1, <1>2, <1>4, <2>1, NoWrap
    <3>2. QED
      BY <3>1
  <2>2. CASE seen # 0
    <3>1. (seen + INVALID_TIME) % TimeModulus = seen - 1
      BY <1>1, <2>2
    <3>2. t.time = seen - 1
      BY <1>2, <1>4, <3>1
    <3>3. QED
      BY <1>1, <3>2
  <2>3. QED
    BY <2>1, <2>2
<1>5. QED
  BY <1>3, <1>4 DEF CountsFrom

LEMMA NearestNearby ==
  ASSUME NoOverflow, IntWaits, now \in Times, NEW c \in Context,
         NEW r \in Times, NEW w \in Times, r <= now, w <= now,
         CountsFrom(c.read, r), CountsFrom(c.write, w),
         get_nearest_timeout(c) # INVALID_TIME
  PROVE  2 * (get_nearest_timeout(c) - now) < IntModulus
<1>1. c.read \in Timeout /\ c.write \in Timeout
  BY DEF Context
<1>2. get_nearest_timeout(c) = c.read.time \/ get_nearest_timeout(c) = c.write.time
  BY NearestIsSet
<1>3. QED
  BY <1>1, <1>2, TimeoutNearby

LEMMA WaitInit == PollerInit => WaitInv
  BY ThreadAssumption DEF PollerInit, WaitInv, Threads

(* Deadlines come nearer, or go. *)
LEMMA DeadlinesNearby ==
  ASSUME PollerTypeOK, WaitInv, now' = now \/ now' = now + 1,
         \A s \in Sockets : deadline'[s] \in {deadline[s], INVALID_TIME}
  PROVE  \A s \in Sockets : deadline'[s] # INVALID_TIME => 2 * (deadline'[s] - now') < IntModulus
<1>1. now \in Nat /\ IntModulus \in Nat /\ \A s \in Sockets : deadline[s] \in Nat
  BY NowType, InvalidTimeType, BoundAssumption DEF PollerTypeOK
<1>2. QED
  BY <1>1 DEF WaitInv

LEMMA WaitUpdateSocket ==
  ASSUME NoOverflow, IntWaits, OversleepInv, PollerTypeOK', SilenceInv',
         NEW t \in Threads, NEW s \in Sockets, NEW mask \in Masks, NEW step \in Steps,
         update_socket(t, s, mask, step)
  PROVE  WaitInv'
<1>1. CASE ScheduleFails(s, mask, step)
  BY <1>1 DEF update_socket, Abort, tableVars, callVars, pollVars, OversleepInv, WaitInv
<1>2. CASE ~ScheduleFails(s, mask, step)
  <2>1. /\ Schedule(s, mask, step) /\ now' = now
        /\ lock' = NoThread
    BY <1>2 DEF update_socket
  <2>2. ASSUME NEW p \in Sockets, deadline'[p] # INVALID_TIME
        PROVE  2 * (deadline'[p] - now') < IntModulus
    <3>1. CASE deadline'[p] = deadline[p]
      BY <2>1, <2>2, <3>1 DEF OversleepInv, WaitInv
    <3>2. CASE deadline'[p] # deadline[p]
      <4>1. deadline'[p] = get_nearest_timeout(context'[p])
        BY <2>1, <3>2 DEF Schedule, Sched!Set, OversleepInv, PollerTypeOK
      <4>2. /\ now' \in Times /\ context'[p] \in Context
            /\ lastSeen'[p].read \in Times /\ lastSeen'[p].write \in Times
        BY DEF PollerTypeOK
      <4>3. /\ lastSeen'[p].read <= now' /\ lastSeen'[p].write <= now'
            /\ CountsFrom(context'[p].read, lastSeen'[p].read)
            /\ CountsFrom(context'[p].write, lastSeen'[p].write)
        BY DEF SilenceInv, CountsFrom
      <4>4. QED
        BY <2>1, <2>2, <4>1, <4>2, <4>3, NearestNearby
    <3>3. QED
      BY <3>1, <3>2
  <2>3. QED
    BY <2>1, <2>2, ThreadAssumption DEF WaitInv, Threads
<1>3. QED
  BY <1>1, <1>2

LEMMA WaitProcessEpollEvents ==
  ASSUME NoOverflow, IntWaits, OversleepInv, process_epoll_events
  PROVE  WaitInv'
<1>1. ASSUME NEW a, Abort(a) PROVE WaitInv'
  BY <1>1 DEF Abort, tableVars, callVars, pollVars, OversleepInv, WaitInv
<1>2. ASSUME NEW S, deadline' = Reschedule(S), now' = now, pollPc' = "schedule"
      PROVE  WaitInv'
  <2>1. ASSUME NEW p \in Sockets, deadline'[p] # INVALID_TIME
        PROVE  2 * (deadline'[p] - now') < IntModulus
    <3>1. CASE p \notin S
      BY <1>2, <2>1, <3>1 DEF Reschedule, OversleepInv, WaitInv
    <3>2. CASE p \in S
      <4> DEFINE c == RefreshedContext(p)
                 r == IF "EPOLLIN" \in batch[p] THEN now ELSE lastSeen[p].read
                 w == IF "EPOLLOUT" \in batch[p] THEN now ELSE lastSeen[p].write
      <4>1. deadline'[p] = get_nearest_timeout(c)
        BY <1>2, <3>2 DEF Reschedule, DeadlineAfter
      <4>2. now \in Times /\ c \in Context /\ r \in Times /\ w \in Times
        BY RefreshedContextType DEF OversleepInv, PollerTypeOK
      <4>3. r <= now /\ w <= now
        BY <4>2, NowType DEF OversleepInv, SilenceInv
      <4>4. CountsFrom(c.read, r) /\ CountsFrom(c.write, w)
        BY RefreshedCounts DEF OversleepInv
      <4> HIDE DEF c, r, w
      <4>5. QED
        BY <1>2, <2>1, <4>1, <4>2, <4>3, <4>4, NearestNearby
    <3>3. QED
      BY <3>1, <3>2
  <2>2. QED
    BY <1>2, <2>1 DEF WaitInv
<1>3. QED
  BY <1>1, <1>2 DEF process_epoll_events, Harvest, HarvestAndStop

LEMMA WaitNext ==
  ASSUME NoOverflow, IntWaits, OversleepInv, PollerTypeOK', SilenceInv',
         [PollerNext]_pollerVars
  PROVE  WaitInv'
<1> USE ThreadAssumption DEF Threads
<1>1. CASE \E t \in Threads, op \in {"update_socket", "remove_socket"} :
             (t = LoopThread => LoopIsFree) /\ lock_for(t, op)
  BY <1>1 DEF lock_for, tableVars, pollVars, LoopIsFree, OversleepInv, WaitInv
<1>2. CASE \E kind \in {"UPDATE", "STOP"} : signal(kind)
  BY <1>2 DEF signal, tableVars, callVars, pollVars, OversleepInv, WaitInv
<1>3. CASE LoopIsFree /\ (start_poll \/ \E s \in Sockets : get_next_event(s))
  BY <1>3 DEF LoopIsFree, start_poll, get_next_event, Abort, tableVars, callVars, pollVars,
              OversleepInv, WaitInv
<1>4. CASE get_wait_time \/ epoll_wait_return \/ epoll_wait_interrupted
  BY <1>4 DEF get_wait_time, epoll_wait_return, epoll_wait_interrupted, tableVars, callVars,
              OversleepInv, WaitInv
<1>5. CASE process_failure \/ Aborted \/ UNCHANGED pollerVars
  BY <1>5 DEF process_failure, Aborted, Abort, pollerVars, tableVars, callVars, pollVars,
              OversleepInv, WaitInv
<1>6. CASE process_scheduler
  <2>1. /\ \A s \in Sockets : deadline'[s] \in {deadline[s], INVALID_TIME}
        /\ now' = now /\ pollPc' = "idle"
    BY <1>6 DEF process_scheduler
  <2>2. QED
    BY <2>1, DeadlinesNearby DEF OversleepInv, WaitInv
<1>7. CASE Tick
  <2>1. now' = now + 1 /\ UNCHANGED <<deadline, lock, pollPc>>
    BY <1>7 DEF Tick, callVars, tableVars
  <2>2. QED
    BY <2>1, DeadlinesNearby DEF OversleepInv, WaitInv
<1>8. CASE \E t \in Threads, s \in Sockets : remove_socket(t, s)
  <2>1. /\ \A s \in Sockets : deadline'[s] \in {deadline[s], INVALID_TIME}
        /\ now' = now /\ lock' = NoThread
    BY <1>8 DEF remove_socket, DeadlineDeleted, Sched!Clear, tableVars, OversleepInv, PollerTypeOK
  <2>2. QED
    BY <2>1, DeadlinesNearby DEF OversleepInv, WaitInv
<1>9. QED
  BY <1>1, <1>2, <1>3, <1>4, <1>5, <1>6, <1>7, <1>8, WaitUpdateSocket, WaitProcessEpollEvents
     DEF PollerNext, PollStep

LEMMA ShortWait ==
  ASSUME NEW ms \in Nat, 2 * ms < IntModulus
  PROVE  GiveUpTime(ms) = now + ms
<1>1. ms < IntModulus /\ IntModulus \in Nat /\ IntModulus > 0
  BY BoundAssumption
<1>2. ms % IntModulus = ms
  BY <1>1
<1>3. QED
  BY <1>1, <1>2 DEF GiveUpTime

(* A wait the loop computed without another thread in m_scheduler ends by  *)
(* the first deadline.                                                     *)
LEMMA WaitEndsInTime ==
  ASSUME NoOverflow, IntWaits, OversleepInv, get_wait_time, pollPc' = "epoll_wait",
         lock \notin Clients, NEW s \in Sockets
  PROVE  wakeAt' <= deadline[s]
<1>1. PICK ms \in ms_to_next_event : ms # 0 /\ wakeAt' = GiveUpTime(ms)
  BY DEF get_wait_time
<1>2. PICK p \in Sockets :
        /\ \A q \in Sockets : deadline[p] <= deadline[q]
        /\ ms = IF deadline[p] = INVALID_TIME THEN INVALID_TIME
                ELSE IF deadline[p] <= now THEN 0 ELSE deadline[p] - now
  BY <1>1 DEF ms_to_next_event, Sched!IsEarliest
<1>3. /\ \A q \in Sockets : deadline[q] \in Nat /\ deadline[q] <= INVALID_TIME
      /\ now \in Nat /\ INVALID_TIME \in Nat
  BY NowType, InvalidTimeType DEF OversleepInv, PollerTypeOK
<1>4. CASE deadline[p] = INVALID_TIME
  <2>1. deadline[s] = INVALID_TIME
    BY <1>2, <1>3, <1>4
  <2>2. wakeAt' \in (0 .. MaxTime + (IntModulus \div 2)) \cup {INVALID_TIME}
    BY <1>1, <1>2, <1>3, <1>4, GiveUpTimeType DEF OversleepInv
  <2>3. MaxTime + (IntModulus \div 2) \in Nat
    BY BoundAssumption
  <2>4. QED
    BY <1>3, <2>1, <2>2, <2>3 DEF IntWaits
<1>5. CASE deadline[p] # INVALID_TIME
  <2>1. ms = deadline[p] - now /\ ms \in Nat
    BY <1>1, <1>2, <1>3, <1>5
  <2>2. 2 * ms < IntModulus
    BY <1>5, <2>1 DEF OversleepInv, WaitInv
  <2>3. wakeAt' = deadline[p]
    BY <1>1, <1>3, <2>1, <2>2, ShortWait
  <2>4. QED
    BY <1>2, <2>3
<1>6. QED
  BY <1>4, <1>5

(* Who can make the loop oversleep. *)
LEMMA QuietCalls ==
  ASSUME NoOverflow, IntWaits, OversleepInv, PollerNext, ~Oversleeps, Oversleeps'
  PROVE  lock \in Clients /\ ~(call = "update_socket" /\ active' # active)
<1> USE ThreadAssumption DEF Threads
<1>1. CASE \E t \in Threads, s \in Sockets, mask \in Masks, step \in Steps :
             update_socket(t, s, mask, step)
  <2>1. PICK t \in Threads, s \in Sockets, mask \in Masks, step \in Steps :
          update_socket(t, s, mask, step)
    BY <1>1
  <2>2. lock = t /\ pollPc' = pollPc
    BY <2>1 DEF update_socket, Abort, pollVars
  <2>3. t \in Clients
    BY <2>2 DEF Oversleeps, OversleepInv, WaitInv
  <2>4. CASE ScheduleFails(s, mask, step)
    BY <2>1, <2>2, <2>3, <2>4 DEF update_socket, Abort, callVars, Oversleeps
  <2>5. CASE ~ScheduleFails(s, mask, step)
    <3>1. active' # active => eventfd' = Signalled("UPDATE")
      BY <2>1, <2>5 DEF update_socket
    <3>2. active' = active
      BY <3>1 DEF Signalled, Oversleeps
    <3>3. QED
      BY <2>2, <2>3, <3>2
  <2>6. QED
    BY <2>4, <2>5
<1>2. CASE \E t \in Threads, s \in Sockets : remove_socket(t, s)
  BY <1>2 DEF remove_socket, pollVars, Oversleeps, OversleepInv, WaitInv
<1>3. CASE \E t \in Threads, op \in {"update_socket", "remove_socket"} :
             (t = LoopThread => LoopIsFree) /\ lock_for(t, op)
  BY <1>3 DEF lock_for, tableVars, kernelVars, pollVars, Oversleeps
<1>4. CASE \E kind \in {"UPDATE", "STOP"} : signal(kind)
  BY <1>4 DEF signal, Signalled, Oversleeps
<1>5. CASE LoopIsFree /\ (start_poll \/ \E s \in Sockets : get_next_event(s))
  BY <1>5 DEF LoopIsFree, start_poll, get_next_event, Abort, pollVars, Oversleeps
<1>6. CASE get_wait_time
  <2>1. lock' = lock /\ deadline' = deadline /\ pollPc' = "epoll_wait" /\ lock \notin Clients
    BY <1>6 DEF get_wait_time, callVars, tableVars, Oversleeps
  <2>2. wakeAt' \in Nat /\ \A s \in Sockets : deadline[s] \in Nat
    <3>1. wakeAt' \in (0 .. MaxTime + (IntModulus \div 2)) \cup {INVALID_TIME}
      BY <1>6, TypeGetWaitTime DEF OversleepInv, PollerTypeOK
    <3>2. QED
      BY <3>1, InvalidTimeType, BoundAssumption DEF OversleepInv, PollerTypeOK
  <2>3. \A s \in Sockets : ~(deadline'[s] < wakeAt')
    BY <1>6, <2>1, <2>2, WaitEndsInTime
  <2>4. QED
    BY <2>3 DEF Oversleeps
<1>7. CASE epoll_wait_return \/ epoll_wait_interrupted \/ process_scheduler
  BY <1>7 DEF epoll_wait_return, epoll_wait_interrupted, process_scheduler, Oversleeps
<1>8. CASE process_epoll_events \/ process_failure
  BY <1>8 DEF process_epoll_events, process_failure, Abort, pollVars, Oversleeps
<1>9. CASE Tick
  BY <1>9 DEF Tick, callVars, tableVars, kernelVars, Oversleeps
<1>10. CASE Aborted
  BY <1>10 DEF Aborted, pollerVars, callVars, tableVars, kernelVars, pollVars, Oversleeps
<1>11. QED
  BY <1>1, <1>2, <1>3, <1>4, <1>5, <1>6, <1>7, <1>8, <1>9, <1>10 DEF PollerNext, PollStep

(* The loop oversleeps only because another thread changed the deadlines   *)
(* while it waited or was about to, by a call that writes no eventfd: the  *)
(* wait itself is computed from the nearest deadline, as an int, and a new *)
(* registration always wakes the loop up.                                  *)
THEOREM OnlyQuietCallsOversleep ==
  ASSUME NoOverflow, IntWaits
  PROVE  PollerSpec => OversleepsOnlyAfterQuietCall
<1>1. PollerInit => OversleepInv
  BY TypeInit, SilenceInit, WaitInit DEF OversleepInv
<1>2. OversleepInv /\ [PollerNext]_pollerVars => OversleepInv'
  <2>1. OversleepInv /\ [PollerNext]_pollerVars => PollerTypeOK' /\ SilenceInv'
    BY TypeNext, SilenceNext DEF OversleepInv
  <2>2. QED
    BY <2>1, WaitNext DEF OversleepInv
<1>3. OversleepInv /\ [PollerNext]_pollerVars =>
        [~Oversleeps /\ Oversleeps' =>
           lock \in Clients /\ ~(call = "update_socket" /\ active' # active)]_pollerVars
  BY QuietCalls
<1>4. QED
  BY <1>1, <1>2, <1>3, PTL DEF PollerSpec, OversleepsOnlyAfterQuietCall
=============================================================================
