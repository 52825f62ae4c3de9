------------------------------ MODULE Chunker ------------------------------
(***************************************************************************)
(* memory/chunker.hpp and chunker.tpp: max_chunks blocks in one array, the *)
(* free ones in a list that is threaded through them. A block is its index.*)
(*                                                                         *)
(* The list ends in two ways: m_next is nullptr when it is empty, and the  *)
(* next of its last block is max_chunks.                                   *)
(***************************************************************************)
EXTENDS Integers, Sequences

CONSTANT max_chunks

ASSUME ChunksAssumption == max_chunks \in Nat \ {0}

Blocks == 0 .. max_chunks - 1
nullptr == -1

VARIABLES
  m_next,     \* the first free block
  next,       \* Block::next of every block
  freed       \* history: the free blocks, the one returned last in front

chunkerVars == <<m_next, next, freed>>

ChunkerTypeOK ==
  /\ m_next \in Blocks \cup {nullptr}
  /\ next \in [Blocks -> Blocks \cup {max_chunks}]
  /\ freed \in Seq(Blocks)

ChunkerInit ==
  /\ m_next = 0
  /\ next = [b \in Blocks |-> b + 1]
  /\ freed = [i \in 1 .. max_chunks |-> i - 1]

-----------------------------------------------------------------------------
(* A definition under "Mistake" is the next one with a slip of the kind a  *)
(* programmer makes; no action uses it. It shows what the properties see.  *)

(* Mistakes: the end mark is taken for a block, and the last block for the *)
(* end mark.                                                               *)
SuccessorUnchecked(b) == next[b]
SuccessorOffByOne(b) == IF next[b] >= max_chunks - 1 THEN nullptr ELSE next[b]
Successor(b) == IF next[b] = max_chunks THEN nullptr ELSE next[b]

create(b) ==
  /\ m_next # nullptr
  /\ b = m_next
  /\ m_next' = Successor(b)
  /\ freed' = Tail(freed)
  /\ UNCHANGED next

(* Mistake: the old link is left in the block that comes back to an empty  *)
(* list.                                                                   *)
LinkKept(b) == IF m_next = nullptr THEN next[b] ELSE m_next
Link(b) == IF m_next = nullptr THEN max_chunks ELSE m_next

destroy(b) ==
  /\ next' = [next EXCEPT ![b] = Link(b)]
  /\ m_next' = b
  /\ freed' = <<b>> \o freed

-----------------------------------------------------------------------------
Range(s) == {s[i] : i \in 1 .. Len(s)}
Distinct(s) == \A i, j \in 1 .. Len(s) : s[i] = s[j] => i = j

(* The list goes through the blocks in `freed', each once, and ends there. *)
ListIsLinked ==
  /\ m_next = IF freed = <<>> THEN nullptr ELSE freed[1]
  /\ \A i \in 1 .. Len(freed) :
       next[freed[i]] = IF i = Len(freed) THEN max_chunks ELSE freed[i + 1]
  /\ Distinct(freed)
=============================================================================
