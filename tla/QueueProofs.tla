----------------------------- MODULE QueueProofs -----------------------------
(***************************************************************************)
(* Proofs about Queue, for every size and every set of producers.          *)
(***************************************************************************)
EXTENDS Queue, SequenceTheorems, TLAPS

(* Arithmetic of the ring. *)

LEMMA SizeType == m_size \in Nat /\ m_size > 1 /\ 0 \in Slots
  BY SizeAssumption DEF m_size, Slots

LEMMA WrapSmall ==
  ASSUME NEW x \in 0 .. m_size - 1
  PROVE  x % m_size = x
  BY SizeType

LEMMA WrapOnce ==
  ASSUME NEW x \in m_size .. 2 * m_size - 1
  PROVE  x % m_size = x - m_size
  BY SizeType

LEMMA WrapNegative ==
  ASSUME NEW x \in -m_size .. -1
  PROVE  x % m_size = x + m_size
  BY SizeType

(* The distance from one slot to another, and the slot at a distance. *)
LEMMA DistanceValue ==
  ASSUME NEW h \in Slots, NEW f \in Slots
  PROVE  /\ (h - f) % m_size = IF f <= h THEN h - f ELSE h - f + m_size
         /\ (h - f) % m_size \in 0 .. MaxSize
<1>1. m_size = MaxSize + 1 /\ MaxSize \in Nat
  BY SizeAssumption DEF m_size
<1>2. CASE f <= h
  BY <1>1, <1>2, SizeType, WrapSmall DEF Slots
<1>3. CASE f > h
  BY <1>1, <1>3, SizeType, WrapNegative DEF Slots
<1>4. QED
  BY <1>1, <1>2, <1>3, SizeType DEF Slots

LEMMA PositionValue ==
  ASSUME NEW f \in Slots, NEW i \in 1 .. m_size
  PROVE  /\ (f + i - 1) % m_size = IF f + i - 1 < m_size THEN f + i - 1 ELSE f + i - 1 - m_size
         /\ (f + i - 1) % m_size \in Slots
<1>1. CASE f + i - 1 < m_size
  BY <1>1, SizeType, WrapSmall DEF Slots
<1>2. CASE f + i - 1 >= m_size
  BY <1>2, SizeType, WrapOnce DEF Slots
<1>3. QED
  BY <1>1, <1>2, SizeType DEF Slots

LEMMA IncrementValue ==
  ASSUME NEW i \in Slots
  PROVE  increment(i) = IF i = m_size - 1 THEN 0 ELSE i + 1
  BY SizeType, WrapSmall, WrapOnce DEF Slots, increment

LEMMA IncrementType ==
  ASSUME NEW i \in Slots
  PROVE  increment(i) \in Slots
  BY SizeType, IncrementValue DEF Slots

LEMMA IncrementInjective ==
  ASSUME NEW i \in Slots, NEW j \in Slots, increment(i) = increment(j)
  PROVE  i = j
  BY SizeType, IncrementValue DEF Slots

-----------------------------------------------------------------------------
(* NoDataRace says where the two sides are, not why: a producer in the     *)
(* middle of push is alone and has a free slot in front of it, a consumer  *)
(* in the middle of pop has a value in front of it.                        *)

ProducerPcs == {"idle", "load", "store", "publish", "notify"} \cup Waits
ConsumerPcs == {"idle", "read", "release", "notify"} \cup Waits

PcsFit == pc[Consumer] \in ConsumerPcs /\ \A p \in Producers : pc[p] \in ProducerPcs

OneProducer ==
  \A p \in Producers : pc[p] # "idle" => IF class = "MPSC" THEN m_lock = p ELSE p = Sole

SlotIsFree ==
  \A p \in Producers : /\ pc[p] \in {"store", "publish"} \cup Waits => head[p] = m_head
                       /\ pc[p] \in {"store", "publish"} => ~full
                       /\ pc[p] = "publish" => m_data[head[p]] = pushed[p]

ValueIsThere == pc[Consumer] \in {"read", "release"} => ~empty

IInv == TypeOK /\ PcsFit /\ OneProducer /\ SlotIsFree /\ ValueIsThere

LEMMA AloneInPush ==
  ASSUME IInv, NEW p \in Producers, NEW q \in Producers, pc[p] # "idle", pc[q] # "idle"
  PROVE  p = q
  BY ThreadAssumption DEF IInv, OneProducer

LEMMA InitInv == Init => IInv
  BY SizeType, ThreadAssumption
     DEF Init, IInv, TypeOK, PcsFit, OneProducer, SlotIsFree, ValueIsThere, Threads,
         ProducerPcs, ConsumerPcs, Waits

LEMMA PushInv ==
  ASSUME IInv, NEW p \in Producers, NEW v \in Values, push(p, v)
  PROVE  IInv'
<1>1. /\ \A t \in Threads \ {p} : pc'[t] = pc[t]
      /\ pc[p] = "idle" /\ pc'[p] = "load"
  BY DEF push, Goto, IInv, TypeOK, Threads
<1>2. TypeOK'
  BY <1>1 DEF push, Goto, IInv, TypeOK, Threads
<1>3. \A q \in Producers : q # p => pc[q] = "idle" \/ class # "MPSC"
  BY ThreadAssumption DEF push, PushAllowed, IInv, OneProducer, Threads
<1>4. OneProducer'
  BY <1>1, <1>3 DEF push, PushAllowed, IInv, OneProducer, Threads
<1>5. PcsFit' /\ SlotIsFree' /\ ValueIsThere'
  BY <1>1, ThreadAssumption
     DEF push, IInv, PcsFit, SlotIsFree, ValueIsThere, Threads, ProducerPcs, full, empty, Waits
<1>6. QED
  BY <1>2, <1>4, <1>5 DEF IInv

LEMMA PushLoadInv ==
  ASSUME IInv, NEW p \in Producers, push_load(p)
  PROVE  IInv'
<1>1. /\ \A t \in Threads \ {p} : pc'[t] = pc[t]
      /\ pc[p] = "load" /\ pc'[p] \in {"store", "lock", "idle"}
      /\ pc'[p] = "store" => ~full
      /\ pc'[p] # "idle" => m_lock' = m_lock
      /\ m_lock' \in {m_lock, Unlocked(p)}
  BY DEF push_load, Goto, IInv, TypeOK, Threads
<1>2. /\ \A q \in Producers \ {p} : head'[q] = head[q]
      /\ head'[p] = m_head
      /\ UNCHANGED <<class, m_data, m_head, m_tail, pushed, value, missed>>
  BY DEF push_load, IInv, TypeOK
<1>3. TypeOK'
  <2>1. m_lock' \in Producers \cup {NoThread}
    BY <1>1 DEF IInv, TypeOK, Unlocked
  <2>2. head' \in [Producers -> Slots]
    BY DEF push_load, IInv, TypeOK
  <2>3. pc' \in [Threads -> {"idle", "load", "store", "publish", "read", "release", "notify"} \cup Waits]
    BY DEF push_load, Goto, IInv, TypeOK, Waits, Threads
  <2>4. QED
    BY <1>2, <2>1, <2>2, <2>3 DEF IInv, TypeOK
<1>4. OneProducer'
  <2>1. \A q \in Producers \ {p} : pc[q] = "idle"
    BY <1>1, AloneInPush
  <2>2. QED
    BY <1>1, <1>2, <2>1 DEF IInv, OneProducer, Threads
<1>5. PcsFit' /\ SlotIsFree' /\ ValueIsThere'
  BY <1>1, <1>2, ThreadAssumption
     DEF IInv, PcsFit, SlotIsFree, ValueIsThere, Threads, ProducerPcs, full, empty, Waits
<1>6. QED
  BY <1>3, <1>4, <1>5 DEF IInv

LEMMA PushStoreInv ==
  ASSUME IInv, NEW p \in Producers, push_store(p)
  PROVE  IInv'
<1>1. /\ \A t \in Threads \ {p} : pc'[t] = pc[t]
      /\ pc[p] = "store" /\ pc'[p] = "publish"
  BY DEF push_store, Goto, IInv, TypeOK, Threads
<1>2. TypeOK'
  BY DEF push_store, Goto, IInv, TypeOK
<1>3. /\ \A q \in Producers \ {p} : pc[q] = "idle"
      /\ m_data'[head[p]] = pushed[p]
  BY <1>1, AloneInPush DEF push_store, IInv, TypeOK
<1>4. OneProducer' /\ PcsFit' /\ SlotIsFree' /\ ValueIsThere'
  BY <1>1, <1>3, ThreadAssumption
     DEF push_store, IInv, PcsFit, OneProducer, SlotIsFree, ValueIsThere, Threads, ProducerPcs,
         full, empty, Waits
<1>5. QED
  BY <1>2, <1>4 DEF IInv

LEMMA PushPublishInv ==
  ASSUME IInv, NEW p \in Producers, push_publish(p)
  PROVE  IInv'
<1>1. /\ \A t \in Threads \ {p} : pc'[t] = pc[t]
      /\ pc[p] = "publish" /\ pc'[p] = "notify"
  BY DEF push_publish, Goto, IInv, TypeOK, Threads
<1>2. \A q \in Producers \ {p} : pc[q] = "idle"
  BY <1>1, AloneInPush
<1>3. head[p] = m_head /\ m_head' = increment(m_head) /\ m_head' # m_tail
  BY <1>1 DEF push_publish, IInv, SlotIsFree, full
<1>4. TypeOK'
  BY <1>3, IncrementType DEF push_publish, Goto, IInv, TypeOK
<1>5. OneProducer' /\ PcsFit' /\ SlotIsFree'
  BY <1>1, <1>2, ThreadAssumption
     DEF push_publish, IInv, PcsFit, OneProducer, SlotIsFree, Threads, ProducerPcs, Waits
<1>6. ValueIsThere'
  BY <1>3 DEF push_publish, ValueIsThere, empty
<1>7. QED
  BY <1>4, <1>5, <1>6 DEF IInv

(* The waiting side of a notify is not in a step that the invariant is about. *)
LEMMA WokenPcs ==
  ASSUME IInv, NEW t \in Threads, NEW sleepers, pc[t] = "notify",
         pc' = Woken(t, "idle", sleepers)
  PROVE  /\ pc' \in [Threads -> {"idle", "load", "store", "publish", "read", "release", "notify"} \cup Waits]
         /\ pc'[t] = "idle"
         /\ \A s \in Threads \ {t} : pc'[s] = pc[s] \/ (pc[s] = "asleep" /\ pc'[s] = "lock")
  BY DEF IInv, TypeOK, Woken, Waits

LEMMA PushNotifyInv ==
  ASSUME IInv, NEW p \in Producers, push_notify(p)
  PROVE  IInv'
<1>1. p \in Threads /\ pc[p] = "notify" /\ pc' = Woken(p, "idle", {Consumer})
  BY DEF push_notify, Threads
<1>2. /\ pc' \in [Threads -> {"idle", "load", "store", "publish", "read", "release", "notify"} \cup Waits]
      /\ pc'[p] = "idle"
      /\ \A s \in Threads \ {p} : pc'[s] = pc[s] \/ (pc[s] = "asleep" /\ pc'[s] = "lock")
  BY <1>1, WokenPcs
<1>3. \A q \in Producers \ {p} : pc[q] = "idle" /\ pc'[q] = "idle"
  BY <1>1, <1>2, AloneInPush DEF Threads
<1>4. TypeOK'
  BY <1>2, ThreadAssumption DEF push_notify, MissedAfterNotify, IInv, TypeOK, Unlocked, Threads
<1>5. OneProducer' /\ PcsFit' /\ SlotIsFree' /\ ValueIsThere'
  BY <1>2, <1>3, ThreadAssumption
     DEF push_notify, IInv, PcsFit, OneProducer, SlotIsFree, ValueIsThere, Threads, ProducerPcs,
         ConsumerPcs, full, empty, Waits
<1>6. QED
  BY <1>4, <1>5 DEF IInv

-----------------------------------------------------------------------------
LEMMA PopInv ==
  ASSUME IInv, pop
  PROVE  IInv'
<1>1. /\ \A t \in Producers : pc'[t] = pc[t]
      /\ pc'[Consumer] \in {"read", "lock", "idle"}
      /\ pc'[Consumer] = "read" => ~empty
  BY ThreadAssumption DEF pop, Goto, IInv, TypeOK, Threads
<1>2. pc' \in [Threads -> {"idle", "load", "store", "publish", "read", "release", "notify"} \cup Waits]
  BY DEF pop, Goto, IInv, TypeOK, Waits
<1>3. TypeOK'
  BY <1>2 DEF pop, IInv, TypeOK
<1>4. OneProducer' /\ PcsFit' /\ SlotIsFree' /\ ValueIsThere'
  BY <1>1 DEF pop, IInv, PcsFit, OneProducer, SlotIsFree, ValueIsThere, ConsumerPcs, full, empty, Waits
<1>5. QED
  BY <1>3, <1>4 DEF IInv

LEMMA PopReadInv ==
  ASSUME IInv, pop_read
  PROVE  IInv'
<1>1. /\ \A t \in Producers : pc'[t] = pc[t]
      /\ pc[Consumer] = "read" /\ pc'[Consumer] = "release"
  BY ThreadAssumption DEF pop_read, Goto, IInv, TypeOK, Threads
<1>2. TypeOK'
  BY DEF pop_read, Goto, IInv, TypeOK, Front
<1>3. OneProducer' /\ PcsFit' /\ SlotIsFree' /\ ValueIsThere'
  BY <1>1 DEF pop_read, IInv, PcsFit, OneProducer, SlotIsFree, ValueIsThere, ConsumerPcs, full, empty
<1>4. QED
  BY <1>2, <1>3 DEF IInv

LEMMA PopReleaseInv ==
  ASSUME IInv, pop_release
  PROVE  IInv'
<1>1. /\ \A t \in Producers : pc'[t] = pc[t]
      /\ pc[Consumer] = "release" /\ pc'[Consumer] = "notify"
  BY ThreadAssumption DEF pop_release, Goto, IInv, TypeOK, Threads
<1>2. m_tail' = increment(m_tail) /\ m_head' = m_head
  BY DEF pop_release
<1>3. increment(m_head) # increment(m_tail)
  BY <1>1, IncrementInjective DEF IInv, TypeOK, ValueIsThere, empty
<1>4. TypeOK'
  BY <1>2, IncrementType DEF pop_release, Goto, IInv, TypeOK
<1>5. increment(m_head)' = increment(m_head)
  BY <1>2 DEF increment
<1>6. OneProducer' /\ PcsFit' /\ SlotIsFree' /\ ValueIsThere'
  BY <1>1, <1>2, <1>3, <1>5
     DEF pop_release, IInv, PcsFit, OneProducer, SlotIsFree, ValueIsThere, ConsumerPcs, full
<1>7. QED
  BY <1>4, <1>6 DEF IInv

LEMMA PopNotifyInv ==
  ASSUME IInv, pop_notify
  PROVE  IInv'
<1>1. Consumer \in Threads /\ pc[Consumer] = "notify" /\ pc' = Woken(Consumer, "idle", Producers)
  BY DEF pop_notify, Threads
<1>2. /\ pc' \in [Threads -> {"idle", "load", "store", "publish", "read", "release", "notify"} \cup Waits]
      /\ pc'[Consumer] = "idle"
      /\ \A s \in Threads \ {Consumer} : pc'[s] = pc[s] \/ (pc[s] = "asleep" /\ pc'[s] = "lock")
  BY <1>1, WokenPcs
<1>3. \A p \in Producers : pc'[p] = pc[p] \/ (pc[p] = "asleep" /\ pc'[p] = "lock")
  BY <1>2, ThreadAssumption DEF Threads
<1>4. TypeOK'
  BY <1>2 DEF pop_notify, MissedAfterNotify, IInv, TypeOK, Threads
<1>5. OneProducer' /\ PcsFit' /\ SlotIsFree' /\ ValueIsThere'
  BY <1>2, <1>3
     DEF pop_notify, IInv, PcsFit, OneProducer, SlotIsFree, ValueIsThere, ProducerPcs,
         ConsumerPcs, full, empty, Waits
<1>6. QED
  BY <1>4, <1>5 DEF IInv

-----------------------------------------------------------------------------
LEMMA WaitInv ==
  ASSUME IInv, NEW t \in Threads,
         wait_lock(t) \/ wait_check(t) \/ wait_block(t) \/ wake_up(t)
  PROVE  IInv'
<1>1. /\ UNCHANGED <<class, m_data, m_head, m_tail, m_lock, head, pushed, value>>
      /\ pc[t] \in Waits
  BY DEF wait_lock, wait_check, wait_block, wake_up, Waits
<1>2. /\ \A s \in Threads \ {t} : pc'[s] = pc[s]
      /\ pc'[t] \in Waits \cup (IF t = Consumer THEN {"read"} ELSE {"store"})
      /\ pc'[t] = "read" => ~empty
      /\ pc'[t] = "store" => ~full
  BY DEF wait_lock, wait_check, wait_block, wake_up, Goto, IInv, TypeOK, Waits
<1>3. pc' \in [Threads -> {"idle", "load", "store", "publish", "read", "release", "notify"} \cup Waits]
  BY DEF wait_lock, wait_check, wait_block, wake_up, Goto, IInv, TypeOK, Waits
<1>4. missed' \subseteq Threads
  BY DEF wait_lock, wait_check, wait_block, wake_up, IInv, TypeOK
<1>5. TypeOK'
  BY <1>1, <1>3, <1>4 DEF IInv, TypeOK
<1>6. OneProducer' /\ PcsFit' /\ SlotIsFree' /\ ValueIsThere'
  BY <1>1, <1>2, ThreadAssumption
     DEF IInv, PcsFit, OneProducer, SlotIsFree, ValueIsThere, Threads, ProducerPcs,
         ConsumerPcs, full, empty, Waits
<1>7. QED
  BY <1>5, <1>6 DEF IInv

LEMMA StutterInv ==
  ASSUME IInv, UNCHANGED vars
  PROVE  IInv'
  BY DEF IInv, TypeOK, PcsFit, OneProducer, SlotIsFree, ValueIsThere, full, empty, increment, vars

LEMMA NextInv ==
  ASSUME IInv, [Next]_vars
  PROVE  IInv'
  BY PushInv, PushLoadInv, PushStoreInv, PushPublishInv, PushNotifyInv,
     PopInv, PopReadInv, PopReleaseInv, PopNotifyInv, WaitInv, StutterInv
     DEF Next

LEMMA AlwaysInv == Spec => []IInv
<1>1. IInv /\ [Next]_vars => IInv'
  BY NextInv
<1>2. QED
  BY InitInv, <1>1, PTL DEF Spec

(* Type correctness: the indices stay inside the ring.                     *)
THEOREM QueueTypeCorrect == Spec => []TypeOK
<1>1. IInv => TypeOK
  BY DEF IInv
<1>2. QED
  BY AlwaysInv, <1>1, PTL

(* Of all classes, sizes and numbers of producers, the plain slots of the  *)
(* ring are never accessed by two threads at once: SPSCQueue with one      *)
(* producer and MPSCQueue with any number need no other synchronisation    *)
(* than the two indices and m_lock.                                        *)
THEOREM SlotsAreNeverShared == Spec => []NoDataRace
<1>1. IInv => NoDataRace
  <2> SUFFICES ASSUME IInv, NEW p \in Producers, pc[p] = "store"
               PROVE  /\ pc[Consumer] = "read" => head[p] # m_tail
                      /\ \A q \in Producers \ {p} : pc[q] # "store"
    BY DEF NoDataRace
  <2>1. pc[Consumer] = "read" => head[p] # m_tail
    BY DEF IInv, SlotIsFree, ValueIsThere, empty
  <2>2. \A q \in Producers \ {p} : pc[q] # "store"
    BY AloneInPush
  <2>3. QED
    BY <2>1, <2>2
<1>2. QED
  BY AlwaysInv, <1>1, PTL

-----------------------------------------------------------------------------
(* SleepersAreNotified is inductive once it speaks of a side that is about *)
(* to sleep as well: such a side has found nothing to do, and what changes *)
(* that brings the other side to its notify_one.                           *)

SleepInv ==
  /\ \A t \in Threads : pc[t] \in Waits => class = "SPSC_waiting"
  /\ pc[Consumer] \in {"block", "asleep"} /\ ~empty => Consumer \in missed \/ pc[Sole] = "notify"
  /\ pc[Sole] \in {"block", "asleep"} /\ ~full => Sole \in missed \/ pc[Consumer] = "notify"

LEMMA SoleType == Sole \in Producers /\ Sole # Consumer
  BY ThreadAssumption DEF Sole

LEMMA InitSleep == Init => SleepInv
  BY SoleType, ThreadAssumption DEF Init, SleepInv, Threads, Waits

LEMMA PushSleep ==
  ASSUME IInv, SleepInv, NEW p \in Producers,
         (\E v \in Values : push(p, v)) \/ push_load(p) \/ push_store(p)
  PROVE  SleepInv'
<1>1. /\ \A t \in Threads \ {p} : pc'[t] = pc[t]
      /\ pc[p] \in {"idle", "load", "store"}
      /\ pc'[p] \in {"idle", "load", "lock", "store", "publish"}
      /\ pc'[p] = "lock" => class = "SPSC_waiting"
      /\ UNCHANGED <<class, m_head, m_tail, missed>>
  BY DEF push, push_load, push_store, Goto, IInv, TypeOK, Threads
<1>2. QED
  BY <1>1, SoleType, ThreadAssumption DEF SleepInv, Threads, Waits, full, empty, increment

LEMMA PublishSleep ==
  ASSUME IInv, SleepInv, NEW p \in Producers, push_publish(p)
  PROVE  SleepInv'
<1>1. /\ \A t \in Threads \ {p} : pc'[t] = pc[t]
      /\ pc'[p] = "notify" /\ pc[p] = "publish"
      /\ UNCHANGED <<class, missed>>
  BY DEF push_publish, Goto, IInv, TypeOK, Threads
<1>2. class = "SPSC_waiting" => p = Sole
  BY <1>1 DEF IInv, OneProducer
<1>3. QED
  BY <1>1, <1>2, SoleType, ThreadAssumption DEF SleepInv, Threads, Waits

LEMMA PushNotifySleep ==
  ASSUME IInv, SleepInv, NEW p \in Producers, push_notify(p)
  PROVE  SleepInv'
<1>1. /\ pc'[p] = "idle"
      /\ pc'[Consumer] = IF pc[Consumer] = "asleep" THEN "lock" ELSE pc[Consumer]
      /\ \A t \in Producers \ {p} : pc'[t] = pc[t]
  BY ThreadAssumption DEF push_notify, Woken, Threads
<1>2. /\ pc[Consumer] = "block" => Consumer \in missed'
      /\ missed \ {Consumer} \subseteq missed'
      /\ UNCHANGED <<class, m_head, m_tail>>
  BY DEF push_notify, MissedAfterNotify
<1>3. QED
  BY <1>1, <1>2, SoleType, ThreadAssumption DEF SleepInv, Threads, Waits, full, empty, increment

LEMMA PopSleep ==
  ASSUME IInv, SleepInv, pop \/ pop_read \/ pop_release
  PROVE  SleepInv'
<1>1. /\ \A t \in Producers : pc'[t] = pc[t]
      /\ pc[Consumer] \in {"idle", "read", "release"}
      /\ pc'[Consumer] \in {"idle", "lock", "read", "release", "notify"}
      /\ pc'[Consumer] = "lock" => class = "SPSC_waiting"
      /\ UNCHANGED <<class, m_head, missed>>
      /\ pc'[Consumer] # "notify" => m_tail' = m_tail
  BY ThreadAssumption DEF pop, pop_read, pop_release, Goto, IInv, TypeOK, Threads
<1>2. QED
  BY <1>1, SoleType, ThreadAssumption DEF SleepInv, Threads, Waits, full, empty, increment

LEMMA PopNotifySleep ==
  ASSUME IInv, SleepInv, pop_notify
  PROVE  SleepInv'
<1>1. /\ pc'[Consumer] = "idle"
      /\ \A t \in Producers : pc'[t] = IF pc[t] = "asleep" THEN "lock" ELSE pc[t]
  BY ThreadAssumption DEF pop_notify, Woken, Threads
<1>2. /\ \A t \in Producers : pc[t] = "block" => t \in missed'
      /\ UNCHANGED <<class, m_head, m_tail>>
  BY DEF pop_notify, MissedAfterNotify
<1>3. QED
  BY <1>1, <1>2, SoleType, ThreadAssumption DEF SleepInv, Threads, Waits, full, empty, increment

LEMMA WaitSleep ==
  ASSUME IInv, SleepInv, NEW t \in Threads,
         wait_lock(t) \/ wait_check(t) \/ wait_block(t) \/ wake_up(t)
  PROVE  SleepInv'
<1>1. /\ \A s \in Threads \ {t} : pc'[s] = pc[s]
      /\ pc[t] \in Waits
      /\ UNCHANGED <<class, m_head, m_tail>>
      /\ missed \ {t} \subseteq missed'
  BY DEF wait_lock, wait_check, wait_block, wake_up, Goto, IInv, TypeOK, Waits
<1>2. CASE wait_check(t)
  <2>1. /\ missed' = missed
        /\ t = Consumer /\ pc'[t] = "block" => empty
        /\ t # Consumer /\ pc'[t] = "block" => full
        /\ pc'[t] \in {"block", "read", "store"}
    BY <1>2 DEF wait_check, Goto, IInv, TypeOK
  <2>2. QED
    BY <1>1, <2>1, SoleType, ThreadAssumption DEF SleepInv, Threads, Waits, full, empty, increment
<1>3. CASE wait_lock(t) \/ wake_up(t)
  <2>1. pc'[t] \in {"check", "lock"}
    BY <1>3 DEF wait_lock, wake_up, Goto, IInv, TypeOK
  <2>2. QED
    BY <1>1, <2>1, SoleType, ThreadAssumption DEF SleepInv, Threads, Waits, full, empty, increment
<1>4. CASE wait_block(t)
  <2>1. missed' = missed /\ pc[t] = "block" /\ pc'[t] = "asleep"
    BY <1>4 DEF wait_block, Goto, IInv, TypeOK
  <2>2. QED
    BY <1>1, <2>1, SoleType, ThreadAssumption DEF SleepInv, Threads, Waits, full, empty, increment
<1>5. QED
  BY <1>2, <1>3, <1>4

LEMMA NextSleep ==
  ASSUME IInv, SleepInv, [Next]_vars
  PROVE  SleepInv'
<1>1. CASE UNCHANGED vars
  BY <1>1 DEF SleepInv, full, empty, increment, vars
<1>2. QED
  BY <1>1, PushSleep, PublishSleep, PushNotifySleep, PopSleep, PopNotifySleep, WaitSleep DEF Next

(* For every size: a waiting push or pop sleeps while it could go on only  *)
(* until the other side's notify_one, or because that came too early.      *)
THEOREM SleepersGetTheirNotify == Spec => []SleepersAreNotified
<1>1. IInv /\ SleepInv /\ [Next]_vars => SleepInv'
  BY NextSleep
<1>2. SleepInv => SleepersAreNotified
  BY DEF SleepInv, SleepersAreNotified
<1>3. QED
  BY InitSleep, AlwaysInv, <1>1, <1>2, PTL DEF Spec

-----------------------------------------------------------------------------
(* The ring is a sequence. *)

LEMMA FirstType == IInv => First \in Slots
  BY IncrementType DEF First, IInv, TypeOK

LEMMA LengthValue ==
  ASSUME IInv
  PROVE  /\ Length = IF First <= m_head THEN m_head - First ELSE m_head - First + m_size
         /\ Length \in 0 .. MaxSize
<1>1. First \in Slots /\ m_head \in Slots
  BY FirstType DEF IInv, TypeOK
<1>2. QED
  BY <1>1, DistanceValue DEF Length

LEMMA SlotValue ==
  ASSUME IInv, NEW i \in 1 .. m_size
  PROVE  /\ Slot(i) = IF First + i - 1 < m_size THEN First + i - 1 ELSE First + i - 1 - m_size
         /\ Slot(i) \in Slots
  BY FirstType, PositionValue DEF Slot

(* The slot behind the last value is the one m_head points at, and no other. *)
LEMMA SlotOfHead ==
  ASSUME IInv, NEW i \in 1 .. m_size
  PROVE  Slot(i) = m_head <=> i = Length + 1
<1>1. First \in 0 .. m_size - 1 /\ m_head \in 0 .. m_size - 1 /\ m_size \in Nat
  BY FirstType, SizeType DEF IInv, TypeOK, Slots
<1>2. CASE First <= m_head
  <2>1. Length = m_head - First
    BY <1>2, LengthValue
  <2>2. QED
    BY <1>1, <1>2, <2>1, SlotValue
<1>3. CASE First > m_head
  <2>1. Length = m_head - First + m_size
    BY <1>1, <1>3, LengthValue
  <2>2. QED
    BY <1>1, <1>3, <2>1, SlotValue
<1>4. QED
  BY <1>1, <1>2, <1>3

LEMMA ItemsType == IInv => Items \in Seq(Values) /\ Len(Items) = Length
<1> SUFFICES ASSUME IInv PROVE Items \in Seq(Values) /\ Len(Items) = Length
  OBVIOUS
<1>1. Length \in Nat /\ Length <= m_size
  BY LengthValue, SizeAssumption DEF m_size
<1>2. \A i \in 1 .. Length : m_data[Slot(i)] \in Values
  BY <1>1, SlotValue, SizeType DEF IInv, TypeOK
<1>3. QED
  BY <1>1, <1>2 DEF Items

LEMMA ItemsFrame ==
  ASSUME UNCHANGED <<m_data, m_head, m_tail>>,
         pc[Consumer] = "release" <=> pc'[Consumer] = "release"
  PROVE  Items' = Items
  BY DEF Items, First, Length, Slot, increment

LEMMA StoreIsInvisible ==
  ASSUME IInv, NEW p \in Producers, push_store(p)
  PROVE  Items' = Items
<1>1. pc'[Consumer] = pc[Consumer]
  BY ThreadAssumption DEF push_store, Goto, IInv, TypeOK, Threads
<1>2. First' = First /\ Length' = Length /\ \A i : Slot(i)' = Slot(i)
  BY <1>1 DEF push_store, First, Length, Slot, increment
<1>3. head[p] = m_head /\ m_data' = [m_data EXCEPT ![m_head] = pushed[p]]
  BY DEF push_store, IInv, SlotIsFree
<1>4. \A i \in 1 .. Length : i \in 1 .. m_size /\ Slot(i) \in Slots /\ Slot(i) # m_head
  BY LengthValue, SlotValue, SlotOfHead, SizeAssumption DEF m_size
<1>5. \A i \in 1 .. Length : m_data'[Slot(i)] = m_data[Slot(i)]
  BY <1>3, <1>4 DEF IInv, TypeOK
<1>6. QED
  BY <1>2, <1>5 DEF Items

LEMMA PublishIsPut ==
  ASSUME IInv, NEW p \in Producers, push_publish(p)
  PROVE  Abstract!Put(pushed[p])
<1>1. pc'[Consumer] = pc[Consumer] /\ UNCHANGED <<m_data, m_tail, value>>
  BY ThreadAssumption DEF push_publish, Goto, IInv, TypeOK, Threads
<1>2. First' = First /\ \A i : Slot(i)' = Slot(i)
  BY <1>1 DEF First, Slot, increment
<1>3. head[p] = m_head /\ m_head' = increment(m_head) /\ m_data[m_head] = pushed[p] /\ ~full
  BY DEF push_publish, IInv, SlotIsFree
<1>4. increment(m_head) # First
  <2>1. CASE pc[Consumer] = "release"
    BY <2>1, IncrementInjective DEF First, IInv, TypeOK, ValueIsThere, empty
  <2>2. CASE pc[Consumer] # "release"
    BY <2>2, <1>3 DEF First, full
  <2>3. QED
    BY <2>1, <2>2
<1>5. IInv'
  BY PushPublishInv
<1>6. Length' = Length + 1 /\ Length' \in 0 .. MaxSize
  <2>1. First \in 0 .. m_size - 1 /\ m_head \in 0 .. m_size - 1 /\ m_size \in Nat
    BY FirstType, SizeType DEF IInv, TypeOK, Slots
  <2>2. m_head' = IF m_head = m_size - 1 THEN 0 ELSE m_head + 1
    BY <1>3, <2>1, IncrementValue DEF Slots
  <2>3. m_head' \in Slots /\ First \in Slots /\ m_head' # First
    BY <1>3, <1>4, <1>5, FirstType DEF IInv, TypeOK
  <2>4. Length' = (m_head' - First) % m_size
    BY <1>2 DEF Length, m_size
  <2>5. /\ Length' = IF First <= m_head' THEN m_head' - First ELSE m_head' - First + m_size
        /\ Length' \in 0 .. MaxSize
    BY <2>3, <2>4, DistanceValue
  <2>6. QED
    BY <2>1, <2>2, <2>3, <2>5, LengthValue
<1>7. Length \in Nat /\ Length < MaxSize /\ Length + 1 \in 1 .. m_size
  BY <1>6, LengthValue, SizeAssumption DEF m_size
<1>8. Slot(Length + 1) = m_head
  BY <1>7, SlotOfHead
<1>9. Items' = [i \in 1 .. Length + 1 |-> m_data[Slot(i)]]
  BY <1>1, <1>2, <1>6 DEF Items
<1>10. Items' = Append(Items, pushed[p])
  <2>1. Items \in Seq(Values) /\ Len(Items) = Length /\ pushed[p] \in Values
    BY ItemsType DEF IInv, TypeOK
  <2>2. \A i \in 1 .. Length : Items[i] = m_data[Slot(i)]
    BY DEF Items
  <2>3. m_data[Slot(Length + 1)] = pushed[p]
    BY <1>3, <1>8
  <2>4. Append(Items, pushed[p]) =
          [i \in 1 .. Length + 1 |-> IF i = Length + 1 THEN pushed[p] ELSE Items[i]]
    BY <1>7, <2>1
  <2>5. QED
    BY <1>7, <1>9, <2>2, <2>3, <2>4
<1>11. QED
  BY <1>1, <1>7, <1>10, ItemsType DEF Abstract!Put

LEMMA ReadIsTake ==
  ASSUME IInv, pop_read
  PROVE  Abstract!Take
<1>1. /\ First = m_tail /\ First' = increment(m_tail)
      /\ UNCHANGED <<m_data, m_head, m_tail>>
  BY DEF pop_read, Goto, IInv, TypeOK, First, increment, Threads
<1>2. First # m_head /\ value' = m_data[First]
  BY <1>1 DEF pop_read, Front, IInv, ValueIsThere, empty
<1>3. IInv'
  BY PopReadInv
<1>4. First' = IF First = m_size - 1 THEN 0 ELSE First + 1
  BY <1>1, IncrementValue DEF IInv, TypeOK
<1>5. First \in 0 .. m_size - 1 /\ m_head \in 0 .. m_size - 1 /\ m_size \in Nat
      /\ First' \in Slots
  BY <1>1, FirstType, IncrementType, SizeType DEF IInv, TypeOK, Slots
<1>6. Length' = Length - 1 /\ Length \in 1 .. MaxSize
  <2>1. Length' = (m_head - First') % m_size
    BY <1>1 DEF Length, m_size
  <2>2. /\ Length' = IF First' <= m_head THEN m_head - First' ELSE m_head - First' + m_size
        /\ Length' \in 0 .. MaxSize
    BY <1>5, <2>1, DistanceValue DEF Slots
  <2>3. Length' = Length - 1
    BY <1>2, <1>4, <1>5, <2>2, LengthValue
  <2>4. QED
    BY <2>2, <2>3, LengthValue, SizeAssumption
<1>7. \A i \in 1 .. Length - 1 : Slot(i)' = Slot(i + 1)
  <2> SUFFICES ASSUME NEW i \in 1 .. Length - 1 PROVE Slot(i)' = Slot(i + 1)
    OBVIOUS
  <2>1. i \in 1 .. m_size /\ i + 1 \in 1 .. m_size
    BY <1>6, SizeAssumption DEF m_size
  <2>2. Slot(i)' = (First' + i - 1) % m_size
    BY DEF Slot, m_size
  <2>3. Slot(i)' = IF First' + i - 1 < m_size THEN First' + i - 1 ELSE First' + i - 1 - m_size
    BY <1>5, <2>1, <2>2, PositionValue
  <2>4. Slot(i + 1) = IF First + i < m_size THEN First + i ELSE First + i - m_size
    BY <1>5, <2>1, SlotValue
  <2>5. QED
    BY <1>4, <1>5, <2>1, <2>3, <2>4
<1>8. Slot(1) = First
  BY SlotValue, FirstType, SizeType DEF Slots
<1>9. Items' = [i \in 1 .. Length - 1 |-> m_data[Slot(i + 1)]]
  BY <1>1, <1>6, <1>7 DEF Items
<1>10. Items \in Seq(Values) /\ Len(Items) = Length /\ Items # <<>>
  BY <1>6, ItemsType
<1>11. Items' = Tail(Items)
  <2>1. Tail(Items) = [i \in 1 .. Length - 1 |-> Items[i + 1]]
    <3> DEFINE rest == [i \in 1 .. Length - 1 |-> Items[i + 1]]
    <3>1. /\ Tail(Items) \in Seq(Values)
          /\ Len(Tail(Items)) = Length - 1
          /\ \A i \in 1 .. Length - 1 : Tail(Items)[i] = Items[i + 1]
      BY <1>6, <1>10, HeadTailProperties
    <3>2. /\ rest \in Seq(Values)
          /\ Len(rest) = Length - 1
          /\ \A i \in 1 .. Length - 1 : rest[i] = Items[i + 1]
      BY <1>6, <1>10
    <3> HIDE DEF rest
    <3>3. Tail(Items) = rest
      BY <3>1, <3>2, SeqEqual
    <3>4. QED
      BY <3>3 DEF rest
  <2>2. \A i \in 1 .. Length - 1 : Items[i + 1] = m_data[Slot(i + 1)]
    BY <1>6 DEF Items
  <2>3. QED
    BY <1>9, <2>1, <2>2
<1>12. value' = Head(Items)
  BY <1>2, <1>6, <1>8, <1>10 DEF Items
<1>13. QED
  BY <1>10, <1>11, <1>12 DEF Abstract!Take

LEMMA ReleaseIsInvisible ==
  ASSUME IInv, pop_release
  PROVE  Items' = Items
<1>1. First' = First /\ UNCHANGED <<m_data, m_head>>
  BY DEF pop_release, Goto, IInv, TypeOK, First, increment, Threads
<1>2. QED
  BY <1>1 DEF Items, Length, Slot

LEMMA NextIsAbstract ==
  ASSUME IInv, [Next]_vars
  PROVE  [Abstract!Next]_<<Items, value>>
<1>1. CASE \E p \in Producers : push_publish(p)
  <2>1. PICK p \in Producers : push_publish(p)
    BY <1>1
  <2>2. pushed[p] \in Values
    BY DEF IInv, TypeOK
  <2>3. QED
    BY <2>1, <2>2, PublishIsPut DEF Abstract!Next
<1>2. CASE pop_read
  BY <1>2, ReadIsTake DEF Abstract!Next
<1>3. CASE \E p \in Producers : push_store(p)
  BY <1>3, StoreIsInvisible DEF push_store
<1>4. CASE pop_release
  BY <1>4, ReleaseIsInvisible DEF pop_release
<1>5. CASE \E p \in Producers : (\E v \in Values : push(p, v)) \/ push_load(p) \/ push_notify(p)
  <2>1. /\ UNCHANGED <<m_data, m_head, m_tail, value>>
        /\ pc[Consumer] = "release" <=> pc'[Consumer] = "release"
    BY <1>5, ThreadAssumption
       DEF push, push_load, push_notify, Goto, Woken, IInv, TypeOK, Threads
  <2>2. QED
    BY <2>1, ItemsFrame
<1>6. CASE pop \/ pop_notify
  <2>1. /\ UNCHANGED <<m_data, m_head, m_tail, value>>
        /\ pc[Consumer] = "release" <=> pc'[Consumer] = "release"
    BY <1>6 DEF pop, pop_notify, Goto, Woken, IInv, TypeOK, Threads
  <2>2. QED
    BY <2>1, ItemsFrame
<1>7. CASE \E t \in Threads : wait_lock(t) \/ wait_check(t) \/ wait_block(t) \/ wake_up(t)
  <2>1. /\ UNCHANGED <<m_data, m_head, m_tail, value>>
        /\ pc[Consumer] = "release" <=> pc'[Consumer] = "release"
    BY <1>7 DEF wait_lock, wait_check, wait_block, wake_up, Goto, IInv, TypeOK, Threads
  <2>2. QED
    BY <2>1, ItemsFrame
<1>8. CASE UNCHANGED vars
  BY <1>8, ItemsFrame DEF vars
<1>9. QED
  BY <1>1, <1>2, <1>3, <1>4, <1>5, <1>6, <1>7, <1>8 DEF Next

(* Every queue is a bounded first-in first-out queue: a value is there from*)
(* the store of m_head on, and gone with the consumer's read of its slot.  *)
THEOREM QueueImplementsBoundedQueue == Spec => ImplementsBoundedQueue
<1>1. Init => Abstract!Init
  <2> SUFFICES ASSUME Init PROVE Abstract!Init
    OBVIOUS
  <2>1. IInv
    BY InitInv
  <2>2. First = 0 /\ m_head = 0
    BY ThreadAssumption DEF Init, First, Threads
  <2>3. Length = 0
    BY <2>1, <2>2, LengthValue
  <2>4. Items = <<>> /\ value \in Values
    BY <2>1, <2>3, ItemsType DEF IInv, TypeOK
  <2>5. QED
    BY <2>4 DEF Abstract!Init
<1>2. IInv /\ [Next]_vars => [Abstract!Next]_Abstract!vars
  BY NextIsAbstract DEF Abstract!vars
<1>3. QED
  BY <1>1, <1>2, AlwaysInv, PTL DEF Spec, ImplementsBoundedQueue, Abstract!Spec
=============================================================================
