------------------------------ MODULE Scheduler ------------------------------
(***************************************************************************)
(* poller/scheduler.cpp: the multimap m_events from deadlines to payloads  *)
(* and the index m_timeouts from payloads to iterators into it.            *)
(*                                                                         *)
(* A node of the multimap is an address out of Nodes. An erased node's     *)
(* address may be handed out again, so an iterator that outlives its node  *)
(* dangles or points at somebody else's event. The multimap hands out some *)
(* node with the smallest deadline; which one of several equal deadlines   *)
(* comes first is left open.                                               *)
(***************************************************************************)
EXTENDS Integers

CONSTANTS
  Payloads,     \* EventPayload values: descriptors
  Nodes,        \* addresses of multimap nodes
  End,          \* m_timeouts has no entry for the payload
  INVALID_TIME, \* uint64_t(-1), greater than every time
  MaxTime       \* bound on the clock; deadlines go up to MaxTime + 1

ASSUME EndAssumption == End \notin Nodes
ASSUME TimeAssumption == /\ INVALID_TIME \in Nat
                         /\ MaxTime \in Nat
                         /\ MaxTime + 1 < INVALID_TIME

VARIABLES
  now,          \* m_timer.milliseconds_from_epoch()
  live,         \* the nodes that are in m_events
  event,        \* event[n]: the key and the value stored at node n
  m_timeouts,   \* m_timeouts[p]: the iterator kept for p, or End
  handed        \* the payload the last call handed out, if it did

schedulerVars == <<now, live, event, m_timeouts, handed>>

Times == 0 .. INVALID_TIME - 1

SchedulerTypeOK ==
  /\ now \in 0 .. MaxTime
  /\ live \subseteq Nodes
  /\ event \in [Nodes -> [time : Times, payload : Payloads]]
  /\ m_timeouts \in [Payloads -> Nodes \cup {End}]
  /\ handed \subseteq Payloads

SchedulerInit ==
  /\ now = 0
  /\ live = {}
  /\ event \in [Nodes -> [time : {0}, payload : Payloads]]
  /\ m_timeouts = [p \in Payloads |-> End]
  /\ handed = {}

-----------------------------------------------------------------------------
(* A definition under "Mistake" is the next one with a slip of the kind a  *)
(* programmer makes; no action uses it. It shows what the properties see.  *)

(* Mistake: the events are taken to be unordered, as in a list. *)
IsAny(n) == n \in live

(* m_events.begin(), for every order of equal keys. *)
IsBegin(n) == /\ n \in live
              /\ \A m \in live : event[n].time <= event[m].time

(* Mistake: the old event is not erased. *)
add_event_twice(new_timeout, payload) ==
  /\ new_timeout # INVALID_TIME
  /\ \E n \in Nodes \ live :
       /\ live' = live \cup {n}
       /\ event' = [event EXCEPT ![n] = [time |-> new_timeout, payload |-> payload]]
       /\ m_timeouts' = [m_timeouts EXCEPT ![payload] = n]
  /\ handed' = {}
  /\ UNCHANGED now

add_event(new_timeout, payload) ==
  /\ new_timeout # INVALID_TIME
  /\ LET kept == live \ {m_timeouts[payload]}
     IN \E n \in Nodes \ kept :
          /\ live' = kept \cup {n}
          /\ event' = [event EXCEPT ![n] = [time |-> new_timeout, payload |-> payload]]
          /\ m_timeouts' = [m_timeouts EXCEPT ![payload] = n]
  /\ handed' = {}
  /\ UNCHANGED now

(* Mistakes: the iterator stays in m_timeouts; the time is not looked at. *)
get_next_event_dangling(current_time) ==
  \E n \in Nodes :
    /\ IsBegin(n)
    /\ event[n].time <= current_time
    /\ live' = live \ {n}
    /\ handed' = {event[n].payload}
    /\ UNCHANGED <<now, event, m_timeouts>>

get_next_event_early(current_time) ==
  \E n \in Nodes :
    /\ IsBegin(n)
    /\ live' = live \ {n}
    /\ m_timeouts' = [m_timeouts EXCEPT ![event[n].payload] = End]
    /\ handed' = {event[n].payload}
    /\ UNCHANGED <<now, event>>

get_next_event(current_time) ==
  \E n \in Nodes :
    /\ IsBegin(n)
    /\ event[n].time <= current_time
    /\ live' = live \ {n}
    /\ m_timeouts' = [m_timeouts EXCEPT ![event[n].payload] = End]
    /\ handed' = {event[n].payload}
    /\ UNCHANGED <<now, event>>

delete_event(payload) ==
  /\ m_timeouts[payload] # End
  /\ live' = live \ {m_timeouts[payload]}
  /\ m_timeouts' = [m_timeouts EXCEPT ![payload] = End]
  /\ handed' = {}
  /\ UNCHANGED <<now, event>>

(* -1: no events, 0: an event is due, > 0: milliseconds until the next. *)
ms_to_next_event(current_time) ==
  IF live = {} THEN -1
  ELSE LET first == CHOOSE n \in Nodes : IsBegin(n)
       IN IF event[first].time <= current_time THEN 0
          ELSE event[first].time - current_time

(* The callers read the clock once and use that value afterwards. *)
Tick ==
  /\ now < MaxTime
  /\ now' = now + 1
  /\ UNCHANGED <<live, event, m_timeouts, handed>>

SchedulerNext ==
  \/ \E p \in Payloads, t \in (0 .. MaxTime + 1) \cup {INVALID_TIME} : add_event(t, p)
  \/ \E t \in 0 .. now : get_next_event(t)
  \/ \E p \in Payloads : delete_event(p)
  \/ Tick

SchedulerSpec == SchedulerInit /\ [][SchedulerNext]_schedulerVars

-----------------------------------------------------------------------------
(* Every iterator kept in m_timeouts points at a live node that carries    *)
(* its payload: m_events.erase(timeout->second) in add_event and           *)
(* delete_event never erases a dangling iterator or another socket's event.*)
IteratorsValid ==
  \A p \in Payloads :
    m_timeouts[p] # End => /\ m_timeouts[p] \in live
                           /\ event[m_timeouts[p]].payload = p

(* No event is left in the multimap that m_timeouts does not know: such an *)
(* event could never be cancelled and would fire after its socket is gone. *)
NoOrphanEvent == \A n \in live : m_timeouts[event[n].payload] = n

(* The two containers agree, whatever order the calls come in and whichever*)
(* freed addresses are handed out again: no call erases a wrong event, and *)
(* none leaves one behind.                                                 *)
ContainersAgree == IteratorsValid /\ NoOrphanEvent

(* The time the poller sleeps is exact: when ms_to_next_event says w > 0   *)
(* no event is due before w milliseconds have passed and one is due then;  *)
(* 0 means one is due now, -1 that no socket has a deadline.               *)
SleepIsExact ==
  LET w == ms_to_next_event(now)
      Due(t) == \E p \in Payloads : /\ m_timeouts[p] # End
                                    /\ event[m_timeouts[p]].time <= t
  IN /\ w = -1 => \A p \in Payloads : m_timeouts[p] = End
     /\ w >= 0 => Due(now + w)
     /\ w > 0 => ~Due(now + w - 1)

-----------------------------------------------------------------------------
(* The containers implement one deadline per payload. *)
Deadline ==
  [p \in Payloads |-> IF m_timeouts[p] = End THEN INVALID_TIME
                      ELSE event[m_timeouts[p]].time]

Table == INSTANCE Deadlines WITH deadline <- Deadline, NoDeadline <- INVALID_TIME

(* Every call of the scheduler is one step of Deadlines: add_event replaces*)
(* the payload's only deadline, delete_event removes it, get_next_event    *)
(* hands out a payload whose deadline is an earliest one and has come, and *)
(* that payload has no deadline any more.                                  *)
ImplementsDeadlines == Table!Spec
=============================================================================
