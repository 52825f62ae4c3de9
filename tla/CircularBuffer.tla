--------------------------- MODULE CircularBuffer ---------------------------
(***************************************************************************)
(* common/circular_buffer.cpp: a ring without a spare slot. m_head and     *)
(* m_tail are equal both when it is empty and when it is full; m_overlap,  *)
(* set while m_head is a round ahead, tells the two apart. A pointer is the*)
(* distance from m_begin, and m_end is at m_size.                          *)
(***************************************************************************)
EXTENDS Integers, Sequences

CONSTANT m_size

ASSUME SizeAssumption == m_size \in Nat \ {0}

VARIABLES
  m_head,      \* where the next byte is written
  m_tail,      \* where the next byte is read
  m_overlap

bufferVars == <<m_head, m_tail, m_overlap>>

BufferTypeOK ==
  /\ m_head \in 0 .. m_size - 1
  /\ m_tail \in 0 .. m_size - 1
  /\ m_overlap \in BOOLEAN

reset ==
  /\ m_head = 0
  /\ m_tail = 0
  /\ m_overlap = FALSE

-----------------------------------------------------------------------------
(* A definition under "Mistake" is the next one with a slip of the kind a  *)
(* programmer makes; no action uses it. It shows what the properties see.  *)

size == IF m_overlap THEN m_size - m_tail + m_head ELSE m_head - m_tail
available_read == IF m_overlap THEN m_size - m_tail ELSE m_head - m_tail

(* Mistake: the room behind m_head may belong to unread bytes. *)
RoomToEnd == m_size - m_head
available_write == IF m_overlap THEN m_tail - m_head ELSE m_size - m_head

(* Mistake: a pointer stays at m_end. *)
AdvanceUnwrapped(ptr, n) == ptr + n
Advance(ptr, n) == IF ptr + n = m_size THEN 0 ELSE ptr + n

(* Mistake: m_overlap is set and never reset. *)
OverlapAfterSet(ptr, n) == m_overlap \/ ptr + n = m_size
OverlapAfter(ptr, n) == IF ptr + n = m_size THEN ~m_overlap ELSE m_overlap

buffer_write(n) ==
  /\ n <= available_write
  /\ m_head' = Advance(m_head, n)
  /\ m_overlap' = OverlapAfter(m_head, n)
  /\ UNCHANGED m_tail

buffer_read(n) ==
  /\ n <= available_read
  /\ m_tail' = Advance(m_tail, n)
  /\ m_overlap' = OverlapAfter(m_tail, n)
  /\ UNCHANGED m_head
=============================================================================
