-------------------------------- MODULE Queue --------------------------------
(***************************************************************************)
(* memory/spsc_queue.hpp and memory/mpsc_queue.hpp: a ring of max_size + 1 *)
(* slots between producers and one consumer, synchronised by two atomic    *)
(* indices. The slots themselves are plain memory.                         *)
(*                                                                         *)
(* Three classes come out of the two templates: SPSCQueue that returns     *)
(* false when it cannot go on, SPSCQueue that waits instead, and MPSCQueue,*)
(* whose push holds a lock (it compiles only without waiting). SPSCQueue   *)
(* has one producer: that is what its callers owe it.                      *)
(*                                                                         *)
(* An atomic access is a step. Only the producer stores m_head and only    *)
(* the consumer m_tail, so a thread's load of its own index is merged with *)
(* the load of the other's.                                                *)
(***************************************************************************)
EXTENDS Integers, Sequences

CONSTANTS
  Producers,
  Consumer,
  NoThread,     \* nobody holds the lock of MPSCQueue
  Values,
  MaxSize       \* the argument of the constructor

Threads == Producers \cup {Consumer}

ASSUME ThreadAssumption == Producers # {} /\ Consumer \notin Producers /\ NoThread \notin Threads
ASSUME SizeAssumption == MaxSize \in Nat \ {0} /\ Values # {}

VARIABLES
  class,      \* which of the three classes this queue is
  m_data,
  m_head,     \* where the producer puts the next value
  m_tail,     \* where the consumer finds the next value
  m_lock,
  pc,         \* where each thread is in push or pop
  head,       \* push: the producer's copy of m_head
  pushed,     \* push: the argument
  value,      \* pop: the result
  missed      \* history: who was notified before it slept, not woken since

vars == <<class, m_data, m_head, m_tail, m_lock, pc, head, pushed, value, missed>>

Classes == {"SPSC", "SPSC_waiting", "MPSC"}
m_size == MaxSize + 1
Slots == 0 .. m_size - 1

Waits == {"lock", "check", "block", "asleep"}

TypeOK ==
  /\ class \in Classes
  /\ m_data \in [Slots -> Values]
  /\ m_head \in Slots
  /\ m_tail \in Slots
  /\ m_lock \in Producers \cup {NoThread}
  /\ pc \in [Threads -> {"idle", "load", "store", "publish", "read", "release", "notify"} \cup Waits]
  /\ head \in [Producers -> Slots]
  /\ pushed \in [Producers -> Values]
  /\ value \in Values
  /\ missed \subseteq Threads

Init ==
  /\ class \in Classes
  /\ m_data \in {[i \in Slots |-> v] : v \in Values}
  /\ m_head = 0
  /\ m_tail = 0
  /\ m_lock = NoThread
  /\ pc = [t \in Threads |-> "idle"]
  /\ head = [p \in Producers |-> 0]
  /\ pushed \in [Producers -> Values]
  /\ value \in Values
  /\ missed = {}

-----------------------------------------------------------------------------
(* A definition under "Mistake" is the next one with a slip of the kind a  *)
(* programmer makes; no action uses it. It shows what the properties see.  *)

(* Mistake: the index runs off the end. *)
increment_unwrapped(i) == i + 1

increment(i) == (i + 1) % m_size

full == increment(m_head) = m_tail
empty == m_head = m_tail

Goto(t, at) == pc' = [pc EXCEPT ![t] = at]

Sole == CHOOSE p \in Producers : TRUE

(* Mistake: the lock of MPSCQueue is not asked. *)
PushAllowedUnlocked(p) == class = "MPSC" \/ p = Sole

PushAllowed(p) == IF class = "MPSC" THEN m_lock = NoThread ELSE p = Sole

Unlocked(p) == IF m_lock = p THEN NoThread ELSE m_lock

-----------------------------------------------------------------------------
(* push *)

push(p, v) ==
  /\ pc[p] = "idle"
  /\ PushAllowed(p)
  /\ m_lock' = IF class = "MPSC" THEN p ELSE m_lock
  /\ pushed' = [pushed EXCEPT ![p] = v]
  /\ Goto(p, "load")
  /\ UNCHANGED <<class, m_data, m_head, m_tail, head, value, missed>>

push_load(p) ==
  /\ pc[p] = "load"
  /\ head' = [head EXCEPT ![p] = m_head]
  /\ \/ ~full /\ Goto(p, "store") /\ UNCHANGED m_lock
     \/ full /\ class = "SPSC_waiting" /\ Goto(p, "lock") /\ UNCHANGED m_lock
     \/ full /\ class # "SPSC_waiting" /\ Goto(p, "idle") /\ m_lock' = Unlocked(p)
  /\ UNCHANGED <<class, m_data, m_head, m_tail, pushed, value, missed>>

push_store(p) ==
  /\ pc[p] = "store"
  /\ m_data' = [m_data EXCEPT ![head[p]] = pushed[p]]
  /\ Goto(p, "publish")
  /\ UNCHANGED <<class, m_head, m_tail, m_lock, head, pushed, value, missed>>

push_publish(p) ==
  /\ pc[p] = "publish"
  /\ m_head' = increment(head[p])
  /\ Goto(p, "notify")
  /\ UNCHANGED <<class, m_data, m_tail, m_lock, head, pushed, value, missed>>

(* Mistake: nobody is woken. *)
WokenNobody(t, at, sleepers) == [pc EXCEPT ![t] = at]

(* notify_one wakes the other side if it is asleep already. *)
Woken(t, at, sleepers) ==
  [s \in Threads |-> IF s = t THEN at
                     ELSE IF s \in sleepers /\ pc[s] = "asleep" THEN "lock" ELSE pc[s]]

(* history *)
MissedAfterNotify(sleepers) ==
  (missed \ {t \in sleepers : pc[t] = "asleep"}) \cup {t \in sleepers : pc[t] = "block"}

push_notify(p) ==
  /\ pc[p] = "notify"
  /\ pc' = Woken(p, "idle", {Consumer})
  /\ missed' = MissedAfterNotify({Consumer})
  /\ m_lock' = Unlocked(p)
  /\ UNCHANGED <<class, m_data, m_head, m_tail, head, pushed, value>>

-----------------------------------------------------------------------------
(* pop *)

(* Mistake: the slot behind the front. *)
FrontSkipped == m_data[increment(m_tail)]
Front == m_data[m_tail]

pop ==
  /\ pc[Consumer] = "idle"
  /\ \/ ~empty /\ Goto(Consumer, "read")
     \/ empty /\ class = "SPSC_waiting" /\ Goto(Consumer, "lock")
     \/ empty /\ class # "SPSC_waiting" /\ UNCHANGED pc
  /\ UNCHANGED <<class, m_data, m_head, m_tail, m_lock, head, pushed, value, missed>>

pop_read ==
  /\ pc[Consumer] = "read"
  /\ value' = Front
  /\ Goto(Consumer, "release")
  /\ UNCHANGED <<class, m_data, m_head, m_tail, m_lock, head, pushed, missed>>

pop_release ==
  /\ pc[Consumer] = "release"
  /\ m_tail' = increment(m_tail)
  /\ Goto(Consumer, "notify")
  /\ UNCHANGED <<class, m_data, m_head, m_lock, head, pushed, value, missed>>

pop_notify ==
  /\ pc[Consumer] = "notify"
  /\ pc' = Woken(Consumer, "idle", Producers)
  /\ missed' = MissedAfterNotify(Producers)
  /\ UNCHANGED <<class, m_data, m_head, m_tail, m_lock, head, pushed, value>>

-----------------------------------------------------------------------------
(* condition_variable::wait with m_mutex and a predicate: the predicate is *)
(* looked at with the mutex held, and falling asleep releases the mutex.   *)
(* notify_one does not take it.                                            *)

MutexIsFree == \A t \in Threads : pc[t] \notin {"check", "block"}

wait_lock(t) ==
  /\ pc[t] = "lock"
  /\ MutexIsFree
  /\ Goto(t, "check")
  /\ UNCHANGED <<class, m_data, m_head, m_tail, m_lock, head, pushed, value, missed>>

wait_check(t) ==
  /\ pc[t] = "check"
  /\ Goto(t, IF t = Consumer THEN IF empty THEN "block" ELSE "read"
             ELSE IF full THEN "block" ELSE "store")
  /\ UNCHANGED <<class, m_data, m_head, m_tail, m_lock, head, pushed, value, missed>>

wait_block(t) ==
  /\ pc[t] = "block"
  /\ Goto(t, "asleep")
  /\ UNCHANGED <<class, m_data, m_head, m_tail, m_lock, head, pushed, value, missed>>

(* A condition variable may wake up without a reason. *)
wake_up(t) ==
  /\ pc[t] = "asleep"
  /\ Goto(t, "lock")
  /\ missed' = missed \ {t}
  /\ UNCHANGED <<class, m_data, m_head, m_tail, m_lock, head, pushed, value>>

-----------------------------------------------------------------------------
Next ==
  \/ \E p \in Producers : \/ \E v \in Values : push(p, v)
                          \/ push_load(p) \/ push_store(p)
                          \/ push_publish(p) \/ push_notify(p)
  \/ pop \/ pop_read \/ pop_release \/ pop_notify
  \/ \E t \in Threads : wait_lock(t) \/ wait_check(t) \/ wait_block(t) \/ wake_up(t)

Spec == Init /\ [][Next]_vars

-----------------------------------------------------------------------------
(* No slot is written while it is read or written by somebody else: the    *)
(* plain memory is ordered by the two indices and the lock alone.          *)
NoDataRace ==
  \A p \in Producers :
    pc[p] = "store" => /\ pc[Consumer] = "read" => head[p] # m_tail
                       /\ \A q \in Producers \ {p} : pc[q] # "store"

(* A side sleeps while it has something to do only until the other side    *)
(* comes to its notify_one, unless the notify came between the predicate   *)
(* and the sleep, which notify_one without the mutex allows.               *)
SleepersAreNotified ==
  /\ pc[Consumer] = "asleep" /\ ~empty => Consumer \in missed \/ pc[Sole] = "notify"
  /\ pc[Sole] = "asleep" /\ ~full => Sole \in missed \/ pc[Consumer] = "notify"

(* The values between the indices; pop_read has taken the first already.   *)
First == IF pc[Consumer] = "release" THEN increment(m_tail) ELSE m_tail
Length == (m_head - First) % m_size
Slot(i) == (First + i - 1) % m_size
Items == [i \in 1 .. Length |-> m_data[Slot(i)]]

Abstract == INSTANCE BoundedQueue WITH items <- Items, last <- value

(* Every class is a bounded first-in first-out queue, although values and  *)
(* indices are moved in separate steps and the ring wraps.                 *)
ImplementsBoundedQueue == Abstract!Spec
=============================================================================
