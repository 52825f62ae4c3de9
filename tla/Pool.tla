------------------------------- MODULE Pool -------------------------------
(***************************************************************************)
(* memory/pool.hpp on top of Chunker: objects constructed in chunks and    *)
(* owned by shared_ptr. The deleter of an object destructs it when the last*)
(* shared_ptr goes, and it holds the chunk; the deleter itself dies with   *)
(* the control block, which waits for the last weak_ptr.                   *)
(*                                                                         *)
(* One thread uses a pool, but constructors and destructors may use it too *)
(* (the nodes of a tree): `calls' is that thread's stack of them. The pool *)
(* outlives its objects.                                                   *)
(***************************************************************************)
EXTENDS Chunker

VARIABLES
  phase,    \* of the block and the object in it
  weak,     \* whether weak_ptrs to the object exist
  calls,    \* the constructors and destructors that are running
  given     \* history: the block the last get_shared got, or None

objectVars == <<phase, weak, calls, given>>
vars == <<chunkerVars, objectVars>>

CONSTANT None

ASSUME NoneAssumption == None \notin Blocks

Phases == {"free", "constructing", "alive", "destructing", "expired"}

TypeOK ==
  /\ ChunkerTypeOK
  /\ phase \in [Blocks -> Phases]
  /\ weak \in [Blocks -> BOOLEAN]
  /\ calls \in Seq(Blocks)
  /\ given \in Blocks \cup {None}

Init ==
  /\ ChunkerInit
  /\ phase = [b \in Blocks |-> "free"]
  /\ weak = [b \in Blocks |-> FALSE]
  /\ calls = <<>>
  /\ given = None

Becomes(b, p) == phase' = [phase EXCEPT ![b] = p]
Running(b, p) == calls # <<>> /\ Head(calls) = b /\ phase[b] = p

(* Chunker::get_shared in Pool::get_shared, up to T's constructor. *)
get_shared(b) ==
  /\ create(b)
  /\ Becomes(b, "constructing")
  /\ calls' = <<b>> \o calls
  /\ given' = b
  /\ UNCHANGED weak

(* Chunker::get_shared throws. *)
get_shared_throws ==
  /\ m_next = nullptr
  /\ given' = None
  /\ UNCHANGED <<chunkerVars, phase, weak, calls>>

constructed(b) ==
  /\ Running(b, "constructing")
  /\ Becomes(b, "alive")
  /\ calls' = Tail(calls)
  /\ UNCHANGED <<chunkerVars, weak, given>>

(* T's constructor throws: `out' goes, and the chunk with it.              *)
constructor_throws(b) ==
  /\ Running(b, "constructing")
  /\ Becomes(b, "free")
  /\ calls' = Tail(calls)
  /\ destroy(b)
  /\ UNCHANGED <<weak, given>>

-----------------------------------------------------------------------------
take_weak(b) ==
  /\ phase[b] = "alive"
  /\ weak' = [weak EXCEPT ![b] = TRUE]
  /\ UNCHANGED <<chunkerVars, phase, calls, given>>

(* The last shared_ptr goes and the deleter calls ~T. *)
drop_shared(b) ==
  /\ phase[b] = "alive"
  /\ Becomes(b, "destructing")
  /\ calls' = <<b>> \o calls
  /\ UNCHANGED <<chunkerVars, weak, given>>

(* Mistake: the chunk is returned without regard to the weak_ptrs. *)
ControlBlockDiesAtOnce(b) == TRUE
ControlBlockDies(b) == ~weak[b]

(* ~T returns. Without weak_ptrs the deleter goes, and the chunk with it.  *)
destructed(b) ==
  /\ Running(b, "destructing")
  /\ calls' = Tail(calls)
  /\ IF ControlBlockDies(b)
     THEN Becomes(b, "free") /\ destroy(b)
     ELSE Becomes(b, "expired") /\ UNCHANGED chunkerVars
  /\ UNCHANGED <<weak, given>>

(* The last weak_ptr goes; after the object it takes the chunk with it.    *)
drop_weak(b) ==
  /\ weak[b]
  /\ weak' = [weak EXCEPT ![b] = FALSE]
  /\ IF phase[b] = "expired"
     THEN Becomes(b, "free") /\ destroy(b)
     ELSE UNCHANGED <<phase, chunkerVars>>
  /\ UNCHANGED <<calls, given>>

-----------------------------------------------------------------------------
Next ==
  \/ get_shared_throws
  \/ \E b \in Blocks :
       \/ get_shared(b) \/ constructed(b) \/ constructor_throws(b)
       \/ take_weak(b) \/ drop_shared(b) \/ destructed(b) \/ drop_weak(b)

Spec == Init /\ [][Next]_vars

-----------------------------------------------------------------------------
Free == {b \in Blocks : phase[b] = "free"}

(* The list is intact and holds exactly the blocks without an object: none *)
(* is lost and none is handed out twice, in whatever order objects come    *)
(* and go, throwing and nested constructors included.                      *)
FreeListIsExact == ListIsLinked /\ Range(freed) = Free

(* A chunk stays out of the list while anything refers to it, its control  *)
(* block included, and comes back when nothing does: an expired object is  *)
(* kept by weak_ptrs only, a free block has none, and the objects whose    *)
(* constructor or destructor runs are the ones on the stack.               *)
ChunkHeldByReferences ==
  /\ \A b \in Blocks : phase[b] = "expired" => weak[b]
  /\ \A b \in Blocks : weak[b] => phase[b] \in {"alive", "destructing", "expired"}
  /\ Range(calls) = {b \in Blocks : phase[b] \in {"constructing", "destructing"}}

Abstract == INSTANCE Allocator WITH used <- Blocks \ Free

(* get_shared never gives a block that is owned, and throws only when all  *)
(* of them are.                                                            *)
ImplementsAllocator == Abstract!Spec
=============================================================================
