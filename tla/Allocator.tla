----------------------------- MODULE Allocator -----------------------------
(***************************************************************************)
(* What the allocators of memory/ promise: a block is handed out to one    *)
(* owner at a time, and a request fails only when there is none left.      *)
(***************************************************************************)
CONSTANTS
  Blocks,
  None       \* a request failed

VARIABLES
  used,      \* the blocks somebody owns
  given      \* what the last request returned

vars == <<used, given>>

Init == used = {} /\ given = None

Give(b) ==
  /\ b \notin used
  /\ used' = used \cup {b}
  /\ given' = b

Refuse ==
  /\ used = Blocks
  /\ given' = None
  /\ UNCHANGED used

Return(b) ==
  /\ b \in used
  /\ used' = used \ {b}
  /\ UNCHANGED given

Next == Refuse \/ \E b \in Blocks : Give(b) \/ Return(b)

Spec == Init /\ [][Next]_vars
=============================================================================
