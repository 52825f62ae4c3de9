---------------------------- MODULE BoundedQueue ----------------------------
(***************************************************************************)
(* What the queues of memory/ promise: values come out in the order in     *)
(* which they went in, each once, and never more than MaxSize are inside.  *)
(***************************************************************************)
EXTENDS Naturals, Sequences

CONSTANTS
  Values,
  MaxSize

VARIABLES
  items,   \* what was pushed and not popped
  last     \* what the last pop returned

vars == <<items, last>>

Init == items = <<>> /\ last \in Values

Put(v) ==
  /\ Len(items) < MaxSize
  /\ items' = Append(items, v)
  /\ UNCHANGED last

Take ==
  /\ items # <<>>
  /\ last' = Head(items)
  /\ items' = Tail(items)

Next == Take \/ \E v \in Values : Put(v)

Spec == Init /\ [][Next]_vars
=============================================================================
