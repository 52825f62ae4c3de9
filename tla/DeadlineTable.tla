---------------------------- MODULE DeadlineTable ----------------------------
(***************************************************************************)
(* A table of deadlines, at most one for each payload: the view of the     *)
(* scheduler that Poller calls and Deadlines specifies.                    *)
(***************************************************************************)
EXTENDS Integers

CONSTANTS
  Payloads,     \* what a deadline belongs to: the descriptors of the sockets
  NoDeadline    \* greater than every time: the absence of a deadline

(* A deadline is replaced, never added twice; NoDeadline changes nothing.  *)
Set(d, p, t) == IF t = NoDeadline THEN d ELSE [d EXCEPT ![p] = t]

Clear(d, p) == [d EXCEPT ![p] = NoDeadline]

(* No payload is due before p. *)
IsEarliest(d, p) == \A q \in Payloads : d[p] <= d[q]
=============================================================================
