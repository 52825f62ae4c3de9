------------------------------ MODULE Deadlines ------------------------------
(***************************************************************************)
(* What the poller's scheduler promises, without its containers: every     *)
(* payload has at most one deadline, and the payload handed out is one     *)
(* with the earliest deadline, never before that deadline has come, and    *)
(* not again until it is given a new one.                                  *)
(***************************************************************************)
EXTENDS DeadlineTable

CONSTANT
  MaxTime       \* the clock stops here

VARIABLES
  now,          \* the clock
  deadline,     \* deadline[p]: when p is due, or NoDeadline
  handed        \* what the last call handed out: one payload or none

vars == <<now, deadline, handed>>

Init ==
  /\ now = 0
  /\ deadline = [p \in Payloads |-> NoDeadline]
  /\ handed = {}

Arm(p, t) ==
  /\ deadline' = Set(deadline, p, t)
  /\ handed' = {}
  /\ UNCHANGED now

Cancel(p) ==
  /\ deadline' = Clear(deadline, p)
  /\ handed' = {}
  /\ UNCHANGED now

Expire(p) ==
  /\ deadline[p] <= now
  /\ IsEarliest(deadline, p)
  /\ deadline' = Clear(deadline, p)
  /\ handed' = {p}
  /\ UNCHANGED now

Tick ==
  /\ now < MaxTime
  /\ now' = now + 1
  /\ UNCHANGED <<deadline, handed>>

Next ==
  \/ \E p \in Payloads : \/ \E t \in 0 .. NoDeadline : Arm(p, t)
                         \/ Cancel(p)
                         \/ Expire(p)
  \/ Tick

Spec == Init /\ [][Next]_vars
=============================================================================
