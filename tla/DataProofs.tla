----------------------------- MODULE DataProofs -----------------------------
(***************************************************************************)
(* Proofs about what one thread uses alone: the containers of Scheduler,   *)
(* the packed bytes of BitSet and the parser of Url. They share nothing but*)
(* this module; the names of what each specifies begin with its own.       *)
(***************************************************************************)
EXTENDS Scheduler, BitSet, Url, SequenceTheorems, WellFoundedInduction, TLAPS

-----------------------------------------------------------------------------
(***************************************************************************)
(* Scheduler, for every set of payloads and every supply of nodes: no      *)
(* iterator dangles, no event is orphaned, the time to sleep is exact, and *)
(* the containers implement Deadlines.                                     *)
(***************************************************************************)

(* IteratorsValid alone is not inductive: erasing the node of one payload  *)
(* could take away another's, were the node not known to belong to one     *)
(* payload only. NoOrphanEvent says whose it is.                           *)
SchedulerInv == SchedulerTypeOK /\ IteratorsValid /\ NoOrphanEvent

LEMMA SchedulerInitInv == SchedulerInit => SchedulerInv
  BY TimeAssumption, EndAssumption
     DEF SchedulerInit, SchedulerInv, SchedulerTypeOK, IteratorsValid, NoOrphanEvent, Times

-----------------------------------------------------------------------------
(* One lemma per operation. *)

LEMMA AddEventInv ==
  ASSUME SchedulerInv, NEW p \in Payloads, NEW t \in (0 .. MaxTime + 1) \cup {INVALID_TIME},
         add_event(t, p)
  PROVE  SchedulerInv'
<1>1. t \in Times
  BY TimeAssumption DEF add_event, Times
<1>2. PICK n \in Nodes \ (live \ {m_timeouts[p]}) :
        /\ live' = (live \ {m_timeouts[p]}) \cup {n}
        /\ event' = [event EXCEPT ![n] = [time |-> t, payload |-> p]]
        /\ m_timeouts' = [m_timeouts EXCEPT ![p] = n]
  BY DEF add_event
<1>3. now' = now /\ handed' = {}
  BY DEF add_event
<1>4. SchedulerTypeOK'
  BY <1>1, <1>2, <1>3 DEF SchedulerInv, SchedulerTypeOK
<1>5. IteratorsValid'
  BY <1>2, EndAssumption DEF SchedulerInv, SchedulerTypeOK, IteratorsValid, NoOrphanEvent
<1>6. NoOrphanEvent'
  BY <1>2, EndAssumption DEF SchedulerInv, SchedulerTypeOK, IteratorsValid, NoOrphanEvent
<1>7. QED
  BY <1>4, <1>5, <1>6 DEF SchedulerInv

LEMMA GetNextEventInv ==
  ASSUME SchedulerInv, NEW t \in 0 .. now, get_next_event(t)
  PROVE  SchedulerInv'
<1>1. PICK n \in Nodes :
        /\ IsBegin(n)
        /\ live' = live \ {n}
        /\ m_timeouts' = [m_timeouts EXCEPT ![event[n].payload] = End]
        /\ handed' = {event[n].payload}
        /\ UNCHANGED <<now, event>>
  BY DEF get_next_event
<1>2. SchedulerTypeOK'
  BY <1>1 DEF SchedulerInv, SchedulerTypeOK
<1>3. IteratorsValid'
  BY <1>1, EndAssumption
  DEF SchedulerInv, SchedulerTypeOK, IteratorsValid, NoOrphanEvent, IsBegin
<1>4. NoOrphanEvent'
  BY <1>1, EndAssumption
  DEF SchedulerInv, SchedulerTypeOK, IteratorsValid, NoOrphanEvent, IsBegin
<1>5. QED
  BY <1>2, <1>3, <1>4 DEF SchedulerInv

LEMMA DeleteEventInv ==
  ASSUME SchedulerInv, NEW p \in Payloads, delete_event(p)
  PROVE  SchedulerInv'
<1>1. SchedulerTypeOK'
  BY DEF SchedulerInv, SchedulerTypeOK, delete_event
<1>2. IteratorsValid'
  BY EndAssumption DEF SchedulerInv, SchedulerTypeOK, IteratorsValid, NoOrphanEvent, delete_event
<1>3. NoOrphanEvent'
  BY EndAssumption DEF SchedulerInv, SchedulerTypeOK, IteratorsValid, NoOrphanEvent, delete_event
<1>4. QED
  BY <1>1, <1>2, <1>3 DEF SchedulerInv

LEMMA TickInv ==
  ASSUME SchedulerInv, Tick
  PROVE  SchedulerInv'
  BY TimeAssumption DEF SchedulerInv, SchedulerTypeOK, IteratorsValid, NoOrphanEvent, Tick

LEMMA SchedulerNextInv == SchedulerInv /\ [SchedulerNext]_schedulerVars => SchedulerInv'
<1> SUFFICES ASSUME SchedulerInv, [SchedulerNext]_schedulerVars PROVE SchedulerInv'
  OBVIOUS
<1>1. ASSUME NEW p \in Payloads, NEW t \in (0 .. MaxTime + 1) \cup {INVALID_TIME},
             add_event(t, p)
      PROVE  SchedulerInv'
  BY <1>1, AddEventInv
<1>2. ASSUME NEW t \in 0 .. now, get_next_event(t) PROVE SchedulerInv'
  BY <1>2, GetNextEventInv
<1>3. ASSUME NEW p \in Payloads, delete_event(p) PROVE SchedulerInv'
  BY <1>3, DeleteEventInv
<1>4. CASE Tick
  BY <1>4, TickInv
<1>5. CASE UNCHANGED schedulerVars
  BY <1>5 DEF schedulerVars, SchedulerInv, SchedulerTypeOK, IteratorsValid, NoOrphanEvent
<1>6. QED
  BY <1>1, <1>2, <1>3, <1>4, <1>5 DEF SchedulerNext

-----------------------------------------------------------------------------
LEMMA SchedulerInvariance == SchedulerSpec => []SchedulerInv
<1>1. QED
  BY SchedulerInitInv, SchedulerNextInv, PTL DEF SchedulerSpec

(* add_event never stores the key -1, and the containers keep their types. *)
THEOREM SchedulerTypeCorrect == SchedulerSpec => []SchedulerTypeOK
<1>1. SchedulerInv => SchedulerTypeOK
  BY DEF SchedulerInv
<1>2. QED
  BY <1>1, SchedulerInvariance, PTL

(* No iterator kept in m_timeouts dangles or belongs to another payload,   *)
(* and every event in the multimap can be found, and so cancelled, through *)
(* m_timeouts: one half cannot be proved without the other.                *)
THEOREM ContainersStayConsistent == SchedulerSpec => []ContainersAgree
<1>1. SchedulerInv => ContainersAgree
  BY DEF SchedulerInv, ContainersAgree
<1>2. QED
  BY <1>1, SchedulerInvariance, PTL

-----------------------------------------------------------------------------
(* The multimap has a first event unless it is empty, however many events  *)
(* it has: their times are natural numbers, and one of them is the least.  *)

LEMMA LeastNumber ==
  ASSUME NEW T, T \subseteq Nat, T # {}
  PROVE  \E x \in T : \A y \in T : x <= y
<1>1. \E x \in T : \A y \in T : <<y, x>> \notin OpToRel(<, Nat)
  BY WFMin, NatLessThanWellFounded, Zenon
<1>2. \E x \in T : \A y \in T : ~(y < x)
  BY <1>1, Zenon DEF OpToRel
<1>3. QED
  BY <1>2

LEMMA FirstEvent ==
  ASSUME SchedulerTypeOK, live # {}
  PROVE  IsBegin(CHOOSE n \in Nodes : IsBegin(n))
<1> DEFINE T == {event[n].time : n \in live}
<1>1. T \subseteq Nat /\ T # {}
  BY TimeAssumption DEF SchedulerTypeOK, Times
<1>2. PICK x \in T : \A y \in T : x <= y
  BY <1>1, LeastNumber
<1>3. PICK n \in live : x = event[n].time
  BY <1>2
<1>4. IsBegin(n)
  BY <1>2, <1>3 DEF IsBegin
<1>5. n \in Nodes
  BY <1>3 DEF SchedulerTypeOK
<1>6. QED
  BY <1>4, <1>5

(* An event of the multimap is due by time t iff the deadline of some      *)
(* payload is: m_timeouts finds each of them.                              *)
LEMMA DueByNode ==
  ASSUME SchedulerInv, NEW t \in Int
  PROVE  (\E p \in Payloads : m_timeouts[p] # End /\ event[m_timeouts[p]].time <= t)
           <=> (\E n \in live : event[n].time <= t)
<1>1. ASSUME NEW n \in live
      PROVE  /\ event[n].payload \in Payloads
             /\ m_timeouts[event[n].payload] = n
             /\ n # End
  BY EndAssumption DEF SchedulerInv, SchedulerTypeOK, NoOrphanEvent
<1>2. \A p \in Payloads : m_timeouts[p] # End => m_timeouts[p] \in live
  BY DEF SchedulerInv, IteratorsValid
<1>3. QED
  BY <1>1, <1>2

LEMMA ExactInv == SchedulerInv => SleepIsExact
<1> SUFFICES ASSUME SchedulerInv PROVE SleepIsExact
  OBVIOUS
<1> DEFINE w == ms_to_next_event(now)
           Due(t) == \E n \in live : event[n].time <= t
<1>1. now \in Nat /\ \A n \in live : n \in Nodes /\ event[n].time \in Nat
  BY TimeAssumption DEF SchedulerInv, SchedulerTypeOK, Times
<1>2. CASE live = {}
  <2>1. w = -1
    BY <1>2 DEF ms_to_next_event
  <2>2. \A p \in Payloads : m_timeouts[p] = End
    BY <1>2 DEF SchedulerInv, IteratorsValid
  <2>3. QED
    BY <2>1, <2>2 DEF SleepIsExact
<1>3. CASE live # {}
  <2>1. PICK first \in live :
          /\ \A other \in live : event[first].time <= event[other].time
          /\ w = IF event[first].time <= now THEN 0 ELSE event[first].time - now
    BY <1>3, FirstEvent DEF SchedulerInv, IsBegin, ms_to_next_event
  <2>2. event[first].time \in Nat
    BY <1>1
  <2>3. w \in Nat /\ Due(now + w) /\ (w > 0 => ~Due(now + w - 1))
    <3>1. CASE event[first].time <= now
      BY <1>1, <2>1, <2>2, <3>1
    <3>2. CASE ~(event[first].time <= now)
      <4>1. w = event[first].time - now
        BY <2>1, <3>2
      <4> HIDE DEF w
      <4>2. w \in Nat /\ now + w = event[first].time
        BY <1>1, <2>2, <3>2, <4>1
      <4>3. ASSUME NEW other \in live PROVE ~(event[other].time <= now + w - 1)
        BY <1>1, <2>1, <2>2, <4>2, <4>3
      <4>4. QED
        BY <2>1, <2>2, <4>2, <4>3
    <3>3. QED
      BY <3>1, <3>2
  <2> HIDE DEF w
  <2>4. w # -1 /\ now + w \in Int /\ now + w - 1 \in Int
    BY <1>1, <2>3
  <2>5. QED
    BY <2>3, <2>4, DueByNode DEF SleepIsExact, w
<1>4. QED
  BY <1>2, <1>3

(* The poller sleeps neither too long nor too short: ms_to_next_event looks*)
(* at the first node of the multimap only, and that is the nearest of all  *)
(* the deadlines m_timeouts knows, because the two agree.                  *)
THEOREM SleepStaysExact == SchedulerSpec => []SleepIsExact
<1>1. QED
  BY ExactInv, SchedulerInvariance, PTL

-----------------------------------------------------------------------------
(* The refinement: each operation is the step of Deadlines of its name.    *)

LEMMA SchedulerInitRefines == SchedulerInit => Table!Init
  BY EndAssumption DEF SchedulerInit, Table!Init, Deadline

LEMMA AddEventRefines ==
  ASSUME SchedulerInv, NEW p \in Payloads, NEW t \in (0 .. MaxTime + 1) \cup {INVALID_TIME},
         add_event(t, p)
  PROVE  Table!Arm(p, t)
<1>1. t # INVALID_TIME
  BY DEF add_event
<1>2. PICK n \in Nodes \ (live \ {m_timeouts[p]}) :
        /\ event' = [event EXCEPT ![n] = [time |-> t, payload |-> p]]
        /\ m_timeouts' = [m_timeouts EXCEPT ![p] = n]
        /\ handed' = {}
        /\ UNCHANGED now
  BY DEF add_event
<1>3. ASSUME NEW q \in Payloads
      PROVE  Deadline'[q] = [Deadline EXCEPT ![p] = t][q]
  <2>1. CASE q = p
    BY <1>2, <2>1, EndAssumption DEF Deadline, SchedulerInv, SchedulerTypeOK
  <2>2. CASE q # p
    <3>1. m_timeouts'[q] = m_timeouts[q]
      BY <1>2, <2>2 DEF SchedulerInv, SchedulerTypeOK
    <3>2. m_timeouts[q] # End => m_timeouts[q] # n
      BY <1>2, <2>2 DEF SchedulerInv, SchedulerTypeOK, IteratorsValid, NoOrphanEvent
    <3>3. m_timeouts[q] # End => event'[m_timeouts[q]] = event[m_timeouts[q]]
      BY <1>2, <3>2 DEF SchedulerInv, SchedulerTypeOK
    <3>4. QED
      BY <2>2, <3>1, <3>3 DEF Deadline
  <2>3. QED
    BY <2>1, <2>2
<1>4. Deadline' = [Deadline EXCEPT ![p] = t]
  BY <1>3 DEF Deadline
<1>5. QED
  BY <1>1, <1>2, <1>4 DEF Table!Arm, Table!Set

LEMMA ClearedDeadline ==
  ASSUME NEW p \in Payloads, SchedulerTypeOK,
         m_timeouts' = [m_timeouts EXCEPT ![p] = End], UNCHANGED event
  PROVE  Deadline' = [Deadline EXCEPT ![p] = INVALID_TIME]
  BY DEF Deadline, SchedulerTypeOK

LEMMA DeleteEventRefines ==
  ASSUME SchedulerInv, NEW p \in Payloads, delete_event(p)
  PROVE  Table!Cancel(p)
<1>1. Deadline' = [Deadline EXCEPT ![p] = INVALID_TIME]
  BY ClearedDeadline DEF delete_event, SchedulerInv
<1>2. QED
  BY <1>1 DEF Table!Cancel, Table!Clear, delete_event

LEMMA GetNextEventRefines ==
  ASSUME SchedulerInv, NEW t \in 0 .. now, get_next_event(t)
  PROVE  \E p \in Payloads : Table!Expire(p)
<1>1. PICK n \in Nodes :
        /\ IsBegin(n)
        /\ event[n].time <= t
        /\ m_timeouts' = [m_timeouts EXCEPT ![event[n].payload] = End]
        /\ handed' = {event[n].payload}
        /\ UNCHANGED <<now, event>>
  BY DEF get_next_event
<1> DEFINE p == event[n].payload
<1>2. p \in Payloads
  BY <1>1 DEF SchedulerInv, SchedulerTypeOK
<1>3. Deadline[p] = event[n].time
  BY <1>1, <1>2, EndAssumption
  DEF Deadline, SchedulerInv, SchedulerTypeOK, NoOrphanEvent, IsBegin
<1>4. Deadline[p] <= now
  BY <1>1, <1>3, TimeAssumption DEF SchedulerInv, SchedulerTypeOK, Times
<1>5. ASSUME NEW q \in Payloads PROVE Deadline[p] <= Deadline[q]
  <2>1. CASE m_timeouts[q] = End
    BY <1>1, <1>3, <2>1, TimeAssumption DEF Deadline, SchedulerInv, SchedulerTypeOK, Times
  <2>2. CASE m_timeouts[q] # End
    BY <1>1, <1>3, <2>2 DEF Deadline, SchedulerInv, IteratorsValid, IsBegin
  <2>3. QED
    BY <2>1, <2>2
<1>6. Deadline' = [Deadline EXCEPT ![p] = INVALID_TIME]
  BY <1>1, <1>2, ClearedDeadline DEF SchedulerInv
<1>7. Table!Expire(p)
  BY <1>1, <1>4, <1>5, <1>6 DEF Table!Expire, Table!IsEarliest, Table!Clear
<1>8. QED
  BY <1>2, <1>7

LEMMA SchedulerNextRefines ==
  SchedulerInv /\ [SchedulerNext]_schedulerVars => [Table!Next]_(Table!vars)
<1> SUFFICES ASSUME SchedulerInv, [SchedulerNext]_schedulerVars PROVE [Table!Next]_(Table!vars)
  OBVIOUS
<1>1. ASSUME NEW p \in Payloads, NEW t \in (0 .. MaxTime + 1) \cup {INVALID_TIME},
             add_event(t, p)
      PROVE  Table!Next
  <2>1. t \in 0 .. INVALID_TIME
    BY TimeAssumption
  <2>2. QED
    BY <1>1, <2>1, AddEventRefines DEF Table!Next
<1>2. ASSUME NEW t \in 0 .. now, get_next_event(t) PROVE Table!Next
  BY <1>2, GetNextEventRefines DEF Table!Next
<1>3. ASSUME NEW p \in Payloads, delete_event(p) PROVE Table!Next
  BY <1>3, DeleteEventRefines DEF Table!Next
<1>4. CASE Tick
  <2>1. Table!Tick
    BY <1>4 DEF Tick, Table!Tick, Deadline
  <2>2. QED
    BY <2>1 DEF Table!Next
<1>5. CASE UNCHANGED schedulerVars
  BY <1>5 DEF schedulerVars, Table!vars, Deadline
<1>6. QED
  BY <1>1, <1>2, <1>3, <1>4, <1>5 DEF SchedulerNext

(* The two containers implement one deadline per payload: every operation  *)
(* of the scheduler is the step of Deadlines it stands for.                *)
THEOREM SchedulerImplementsDeadlines == SchedulerSpec => ImplementsDeadlines
<1>1. QED
  BY SchedulerInitRefines, SchedulerNextRefines, SchedulerInvariance, PTL
  DEF SchedulerSpec, ImplementsDeadlines, Table!Spec

-----------------------------------------------------------------------------
(***************************************************************************)
(* BitSet, for every number of bits in a byte and every size: packed bytes *)
(* implement BitArray.                                                     *)
(***************************************************************************)

(* The array of bits that lies in a row of bytes. *)
Unpacked(bytes) ==
  [n \in 1 .. Len(bytes) * ByteBits |-> Position[n].bit \in bytes[Position[n].byte]]

-----------------------------------------------------------------------------
(* Arithmetic of offsets *)

LEMMA DivMod ==
  ASSUME NEW i \in Nat
  PROVE  /\ i \div ByteBits \in Nat /\ i % ByteBits \in 0 .. ByteBits - 1
         /\ i = (i \div ByteBits) * ByteBits + (i % ByteBits)
  BY ByteBitsAssumption

(* The bits of a byte are fewer than those between two bytes. *)
LEMMA BytesApart ==
  ASSUME NEW c \in Int, NEW d \in Int, NEW j \in Int, NEW k \in Int,
         c < d, j < k + ByteBits
  PROVE  c * ByteBits + j < d * ByteBits + k
<1>1. PICK e \in Nat : d = c + e /\ e >= 1
  <2>1. d - c \in Nat /\ d = c + (d - c) /\ d - c >= 1
    OBVIOUS
  <2> QED
    BY <2>1
<1>2. d * ByteBits = c * ByteBits + e * ByteBits
  BY <1>1, ByteBitsAssumption
<1>3. e * ByteBits >= ByteBits
  BY <1>1, ByteBitsAssumption
<1>4. c * ByteBits \in Int /\ e * ByteBits \in Int /\ ByteBits \in Int
  BY <1>1, ByteBitsAssumption
<1> QED
  BY <1>2, <1>3, <1>4

(* A bit is inside iff its index is less than the number of bits. *)
LEMMA InsideIff ==
  ASSUME NEW size \in Nat, NEW i \in Nat
  PROVE  i \div ByteBits < size <=> i < size * ByteBits
<1> DEFINE q == i \div ByteBits
           r == i % ByteBits
<1>1. q \in Nat /\ r \in 0 .. ByteBits - 1 /\ i = q * ByteBits + r
  BY DivMod
<1> HIDE DEF q, r
<1>2. ByteBits \in Nat \ {0} /\ q * ByteBits \in Int /\ size * ByteBits \in Int
  BY <1>1, ByteBitsAssumption
<1>3. ASSUME q < size PROVE i < size * ByteBits
  <2>1. q * ByteBits + r < size * ByteBits + 0
    BY <1>1, <1>2, <1>3, BytesApart
  <2> QED
    BY <1>1, <1>2, <2>1
<1>4. ASSUME ~(q < size) PROVE ~(i < size * ByteBits)
  <2>1. CASE q = size
    BY <1>1, <1>2, <2>1
  <2>2. CASE size < q
    <3>1. size * ByteBits + 0 < q * ByteBits + r
      BY <1>1, <1>2, <2>2, BytesApart
    <3> QED
      BY <1>1, <1>2, <3>1
  <2> QED
    BY <1>1, <1>4, <2>1, <2>2
<1> QED
  BY <1>3, <1>4 DEF q

(* Where calc_offset finds bit i, no other bit lies. *)
LEMMA OffsetIsInjective ==
  ASSUME NEW i \in Nat, NEW j \in Nat, calc_offset(i) = calc_offset(j)
  PROVE  i = j
<1>1. i \div ByteBits = j \div ByteBits /\ i % ByteBits = j % ByteBits
  <2>1. calc_offset(i).byte = calc_offset(j).byte /\ calc_offset(i).bit = calc_offset(j).bit
    OBVIOUS
  <2> QED
    BY <2>1, DivMod, ByteBitsAssumption DEF calc_offset
<1> QED
  BY <1>1, DivMod

LEMMA OffsetTyped ==
  ASSUME NEW size \in Nat, NEW i \in Nat, i < size * ByteBits
  PROVE  /\ calc_offset(i).byte \in 0 .. size - 1
         /\ calc_offset(i).byte + 1 \in 1 .. size
         /\ calc_offset(i).bit \in 0 .. ByteBits - 1
<1>1. i \div ByteBits \in 0 .. size - 1
  BY InsideIff, DivMod
<1> QED
  BY <1>1, DivMod, ByteBitsAssumption DEF calc_offset

(* What calc_offset computes is the position of the bit. *)
LEMMA OffsetIsPosition ==
  ASSUME NEW i \in Nat, i < MaxSize * ByteBits
  PROVE  /\ Position[i + 1].byte = calc_offset(i).byte + 1
         /\ Position[i + 1].bit = calc_offset(i).bit
<1> DEFINE Positions == [byte : 1 .. MaxSize, bit : 0 .. ByteBits - 1]
           here == [byte |-> calc_offset(i).byte + 1, bit |-> calc_offset(i).bit]
<1>1. here \in Positions
  BY OffsetTyped, MaxSizeAssumption
<1>2. i + 1 = here.byte * ByteBits - here.bit
  <2>1. PICK q \in Nat, r \in 0 .. ByteBits - 1 :
          q = i \div ByteBits /\ r = i % ByteBits /\ i = q * ByteBits + r
    BY DivMod
  <2>2. here.byte = q + 1 /\ here.bit = ByteBits - 1 - r
    BY <2>1 DEF calc_offset
  <2>3. (q + 1) * ByteBits = q * ByteBits + ByteBits /\ q * ByteBits \in Int
    BY <2>1, ByteBitsAssumption
  <2> HIDE DEF here
  <2>4. here.byte * ByteBits = q * ByteBits + ByteBits
    BY <2>2, <2>3
  <2>5. ByteBits \in Int
    BY ByteBitsAssumption
  <2> QED
    BY <2>1, <2>2, <2>3, <2>4, <2>5
<1>3. ASSUME NEW p \in Positions, i + 1 = p.byte * ByteBits - p.bit
      PROVE  p = here
  <2> HIDE DEF here
  <2>1. p.byte \in Int /\ p.bit \in 0 .. ByteBits - 1 /\ here.byte \in Int
        /\ here.bit \in 0 .. ByteBits - 1
    BY <1>1
  <2>2. p.byte * ByteBits \in Int /\ here.byte * ByteBits \in Int /\ ByteBits \in Nat
    BY <2>1, ByteBitsAssumption
  <2>3. ~(p.byte < here.byte)
    <3> SUFFICES ASSUME p.byte < here.byte PROVE FALSE
      OBVIOUS
    <3>1. - p.bit \in Int /\ - here.bit \in Int /\ - p.bit < (- here.bit) + ByteBits
      BY <2>1, <2>2
    <3>2. p.byte * ByteBits + (- p.bit) < here.byte * ByteBits + (- here.bit)
      BY <2>1, <3>1, BytesApart
    <3> QED
      BY <1>2, <1>3, <2>1, <2>2, <3>2
  <2>4. ~(here.byte < p.byte)
    <3> SUFFICES ASSUME here.byte < p.byte PROVE FALSE
      OBVIOUS
    <3>1. - here.bit \in Int /\ - p.bit \in Int /\ - here.bit < (- p.bit) + ByteBits
      BY <2>1, <2>2
    <3>2. here.byte * ByteBits + (- here.bit) < p.byte * ByteBits + (- p.bit)
      BY <2>1, <3>1, BytesApart
    <3> QED
      BY <1>2, <1>3, <2>1, <2>2, <3>2
  <2>5. p.byte = here.byte
    BY <2>1, <2>3, <2>4
  <2>6. p.bit = here.bit
    BY <1>2, <1>3, <2>1, <2>2, <2>5
  <2> QED
    BY <1>1, <2>5, <2>6
<1>4. i + 1 \in 1 .. MaxSize * ByteBits
  BY ByteBitsAssumption, MaxSizeAssumption
<1>5. Position[i + 1] = CHOOSE p \in Positions : i + 1 = p.byte * ByteBits - p.bit
  BY <1>4 DEF Position
<1>6. Position[i + 1] = here
  <2> HIDE DEF here, Positions
  <2> QED
    BY <1>1, <1>2, <1>3, <1>5
<1> QED
  BY <1>6

-----------------------------------------------------------------------------
(* Bytes and the array of bits that lies in them *)

LEMMA BuffersTyped ==
  ASSUME NEW size \in Nat, NEW bytes \in Buffers(size)
  PROVE  /\ Len(bytes) = size
         /\ bytes = <<>> <=> size = 0
         /\ bytes \in Seq(Bytes)
<1>1. bytes \in [1 .. size -> Bytes] /\ bytes \in Seq(Bytes)
  BY SeqDef DEF Buffers
<1>2. Len(bytes) = size
  BY <1>1
<1>3. bytes = <<>> <=> Len(bytes) = 0
  BY <1>1, EmptySeq
<1> QED
  BY <1>1, <1>2, <1>3

LEMMA UnpackedTyped ==
  ASSUME NEW size \in Nat, NEW bytes \in Buffers(size)
  PROVE  /\ size * ByteBits \in Nat
         /\ Unpacked(bytes) \in [1 .. size * ByteBits -> BOOLEAN]
         /\ Unpacked(bytes) \in Seq(BOOLEAN)
         /\ Len(Unpacked(bytes)) = size * ByteBits
         /\ Unpacked(bytes) = <<>> <=> bytes = <<>>
<1>1. size * ByteBits \in Nat /\ (size * ByteBits = 0 <=> size = 0)
  BY ByteBitsAssumption
<1>2. PICK n \in Nat : n = size * ByteBits
  BY <1>1
<1>3. PICK bits : bits = Unpacked(bytes)
  OBVIOUS
<1>4. bits \in [1 .. n -> BOOLEAN]
  BY <1>2, <1>3, BuffersTyped DEF Unpacked
<1>5. bits \in Seq(BOOLEAN) /\ Len(bits) = n
  BY <1>4, SeqDef
<1>6. bits = <<>> <=> n = 0
  BY <1>5, EmptySeq
<1> QED
  BY <1>1, <1>2, <1>3, <1>4, <1>5, <1>6, BuffersTyped

(* Bit i of the array is the bit that calc_offset finds. *)
LEMMA UnpackedBit ==
  ASSUME NEW size \in 0 .. MaxSize, NEW bytes \in Buffers(size),
         NEW i \in Nat, i < size * ByteBits
  PROVE  Unpacked(bytes)[i + 1] = (calc_offset(i).bit \in bytes[calc_offset(i).byte + 1])
<1>1. i < MaxSize * ByteBits
  <2>1. size * ByteBits <= MaxSize * ByteBits
    BY ByteBitsAssumption, MaxSizeAssumption
  <2>2. size * ByteBits \in Int /\ MaxSize * ByteBits \in Int
    BY ByteBitsAssumption, MaxSizeAssumption
  <2> QED
    BY <2>1, <2>2
<1>2. PICK n \in Nat : n = Len(bytes) * ByteBits
  BY BuffersTyped, UnpackedTyped, MaxSizeAssumption
<1>3. i + 1 \in 1 .. n
  BY <1>2, BuffersTyped
<1>4. Unpacked(bytes)[i + 1] = (Position[i + 1].bit \in bytes[Position[i + 1].byte])
  BY <1>2, <1>3 DEF Unpacked
<1> QED
  BY <1>1, <1>4, OffsetIsPosition

LEMMA UnpackedFilled ==
  ASSUME NEW size \in 0 .. MaxSize, NEW val \in BOOLEAN
  PROVE  /\ Filled(size, val) \in Buffers(size)
         /\ Unpacked(Filled(size, val)) = [n \in 1 .. size * ByteBits |-> val]
<1>1. Filled(size, val) \in Buffers(size)
  BY DEF Filled, Buffers, Bytes
<1>2. PICK n \in Nat : n = size * ByteBits
  BY UnpackedTyped, <1>1
<1>3. Unpacked(Filled(size, val)) \in [1 .. n -> BOOLEAN]
  BY <1>1, <1>2, UnpackedTyped
<1>4. ASSUME NEW k \in 1 .. n PROVE Unpacked(Filled(size, val))[k] = val
  <2>1. PICK i \in Nat : k = i + 1 /\ i < n
    BY <1>4
  <2>2. Unpacked(Filled(size, val))[k]
          = (calc_offset(i).bit \in Filled(size, val)[calc_offset(i).byte + 1])
    BY <1>1, <1>2, <2>1, UnpackedBit
  <2>3. calc_offset(i).byte + 1 \in 1 .. size /\ calc_offset(i).bit \in 0 .. ByteBits - 1
    BY <1>2, <2>1, OffsetTyped
  <2>4. Filled(size, val)[calc_offset(i).byte + 1] = IF val THEN 0 .. ByteBits - 1 ELSE {}
    BY <2>3 DEF Filled
  <2>5. CASE val = TRUE
    BY <2>2, <2>3, <2>4, <2>5
  <2>6. CASE val = FALSE
    BY <2>2, <2>4, <2>6
  <2> QED
    BY <2>5, <2>6
<1> QED
  BY <1>1, <1>2, <1>3, <1>4

Changed(bytes, i, val) ==
  [bytes EXCEPT ![calc_offset(i).byte + 1] =
     IF val THEN @ \cup {calc_offset(i).bit} ELSE @ \ {calc_offset(i).bit}]

(* Setting or clearing a bit in its byte changes that bit of the array and *)
(* no other.                                                               *)
LEMMA UnpackedAssigned ==
  ASSUME NEW size \in 0 .. MaxSize, NEW bytes \in Buffers(size),
         NEW i \in Nat, i < size * ByteBits, NEW val \in BOOLEAN
  PROVE  /\ Changed(bytes, i, val) \in Buffers(size)
         /\ Unpacked(Changed(bytes, i, val)) = [Unpacked(bytes) EXCEPT ![i + 1] = val]
<1> DEFINE here == calc_offset(i)
           changed == Changed(bytes, i, val)
<1>1. here.byte + 1 \in 1 .. size /\ here.bit \in 0 .. ByteBits - 1
  BY OffsetTyped
<1> HIDE DEF here, changed
<1>2. changed =
        [bytes EXCEPT ![here.byte + 1] = IF val THEN @ \cup {here.bit} ELSE @ \ {here.bit}]
  BY DEF here, changed, Changed
<1>3. bytes \in [1 .. size -> Bytes]
  BY DEF Buffers
<1>4. changed \in Buffers(size)
  <2>1. PICK c : c = here.byte + 1
    OBVIOUS
  <2>2. bytes[c] \cup {here.bit} \in Bytes /\ bytes[c] \ {here.bit} \in Bytes
    BY <1>1, <1>3, <2>1 DEF Bytes
  <2>3. changed = [bytes EXCEPT ![c] = bytes[c] \cup {here.bit}]
        \/ changed = [bytes EXCEPT ![c] = bytes[c] \ {here.bit}]
    BY <1>2, <2>1
  <2> QED
    BY <1>1, <1>3, <2>1, <2>2, <2>3 DEF Buffers
<1>5. PICK n \in Nat : n = size * ByteBits
  BY UnpackedTyped
<1>6. Unpacked(bytes) \in [1 .. n -> BOOLEAN] /\ Unpacked(changed) \in [1 .. n -> BOOLEAN]
  <2>1. size \in Nat
    OBVIOUS
  <2> QED
    BY <1>4, <1>5, <2>1, UnpackedTyped
<1>7. ASSUME NEW k \in 1 .. n
      PROVE  Unpacked(changed)[k] = IF k = i + 1 THEN val ELSE Unpacked(bytes)[k]
  <2>1. PICK j \in Nat : k = j + 1 /\ j < n
    BY <1>7
  <2> DEFINE there == calc_offset(j)
  <2>2. /\ Unpacked(changed)[k] = (there.bit \in changed[there.byte + 1])
        /\ Unpacked(bytes)[k] = (there.bit \in bytes[there.byte + 1])
    BY <1>4, <1>5, <2>1, UnpackedBit
  <2>3. there.byte + 1 \in 1 .. size /\ there.byte \in Int /\ here.byte \in Int
    BY <1>5, <2>1, OffsetTyped DEF here
  <2>4. CASE j = i
    <3>1. there = here
      BY <2>4 DEF here
    <3>2. changed[here.byte + 1] =
            IF val THEN bytes[here.byte + 1] \cup {here.bit}
            ELSE bytes[here.byte + 1] \ {here.bit}
      BY <1>1, <1>2, <1>3
    <3> HIDE DEF there
    <3> QED
      BY <2>1, <2>2, <2>4, <3>1, <3>2
  <2>5. CASE j # i
    <3>1. there.byte # here.byte \/ there.bit # here.bit
      <4>1. there # here
        BY <2>5, OffsetIsInjective DEF here
      <4>2. /\ there = [byte |-> there.byte, bit |-> there.bit]
            /\ here = [byte |-> here.byte, bit |-> here.bit]
        BY DEF here, calc_offset
      <4> HIDE DEF there
      <4> QED
        BY <4>1, <4>2
    <3> HIDE DEF there
    <3>2. there.bit \in changed[there.byte + 1] <=> there.bit \in bytes[there.byte + 1]
      <4>1. CASE there.byte = here.byte
        <5>1. changed[there.byte + 1] =
                IF val THEN bytes[there.byte + 1] \cup {here.bit}
                ELSE bytes[there.byte + 1] \ {here.bit}
          BY <1>2, <1>3, <2>3, <4>1
        <5> QED
          BY <3>1, <4>1, <5>1
      <4>2. CASE there.byte # here.byte
        <5>1. changed[there.byte + 1] = bytes[there.byte + 1]
          BY <1>2, <1>3, <2>3, <4>2
        <5> QED
          BY <5>1
      <4> QED
        BY <4>1, <4>2
    <3>3. k # i + 1
      BY <2>1, <2>5
    <3> QED
      BY <2>2, <3>2, <3>3
  <2> QED
    BY <2>4, <2>5
<1>8. i + 1 \in 1 .. n
  BY <1>5
<1>9. Unpacked(changed) = [Unpacked(bytes) EXCEPT ![i + 1] = val]
  BY <1>6, <1>7, <1>8
<1> QED
  BY <1>4, <1>9 DEF changed

-----------------------------------------------------------------------------
(* What the state is made of. *)

LEMMA DataFacts ==
  ASSUME BitSetTypeOK, NEW b \in BitSets
  PROVE  /\ Len(m_data[b]) \in 0 .. MaxSize
         /\ m_data[b] \in Buffers(Len(m_data[b]))
         /\ m_data[b] = <<>> <=> Len(m_data[b]) = 0
         /\ m_number_of_bits(b) \in 0 .. MaxSize * ByteBits
<1>1. PICK size \in 0 .. MaxSize : m_data[b] \in Buffers(size)
  <2>1. m_data[b] \in UNION {Buffers(size) : size \in 0 .. MaxSize}
    BY DEF BitSetTypeOK
  <2> QED
    BY <2>1
<1>2. Len(m_data[b]) = size /\ (m_data[b] = <<>> <=> size = 0)
  BY <1>1, BuffersTyped, MaxSizeAssumption
<1>3. size * ByteBits \in 0 .. MaxSize * ByteBits
  BY MaxSizeAssumption, ByteBitsAssumption
<1> QED
  BY <1>1, <1>2, <1>3 DEF m_number_of_bits

(* The bits of the BitSets after some have got other bytes. *)
LEMMA BitsOfIsUnpacked ==
  ASSUME BitSetTypeOK, NEW b \in BitSets
  PROVE  /\ BitsOf(b) = Unpacked(m_data[b])
         /\ BitsOf(b) \in [1 .. m_number_of_bits(b) -> BOOLEAN]
         /\ BitsOf(b) \in Seq(BOOLEAN)
         /\ Len(BitsOf(b)) = m_number_of_bits(b)
         /\ BitsOf(b) = <<>> <=> m_data[b] = <<>>
         /\ \A i \in 0 .. m_number_of_bits(b) - 1 : BitsOf(b)[i + 1] = get(b, i)
<1>1. PICK size \in 0 .. MaxSize : size = Len(m_data[b]) /\ m_data[b] \in Buffers(size)
  BY DataFacts
<1>2. BitsOf(b) = Unpacked(m_data[b])
  BY DEF BitsOf, Unpacked, m_number_of_bits
<1>3. m_number_of_bits(b) = size * ByteBits
  BY <1>1 DEF m_number_of_bits
<1>4. size \in Nat /\ size * ByteBits \in Nat
  BY <1>1, <1>3, DataFacts, UnpackedTyped
<1>5. ASSUME NEW i \in 0 .. m_number_of_bits(b) - 1 PROVE BitsOf(b)[i + 1] = get(b, i)
  <2>1. i \in Nat /\ i < size * ByteBits
    BY <1>3, <1>4, <1>5
  <2>2. Unpacked(m_data[b])[i + 1]
          = (calc_offset(i).bit \in m_data[b][calc_offset(i).byte + 1])
    BY <1>1, <2>1, UnpackedBit
  <2> QED
    BY <1>2, <2>2 DEF get
<1> QED
  BY <1>1, <1>2, <1>3, <1>4, <1>5, UnpackedTyped

LEMMA BitFacts ==
  ASSUME BitSetTypeOK, NEW x \in Existing
  PROVE  /\ bit[x].m_bitset \in BitSets
         /\ bit[x].m_index \in Nat
         /\ InsideOf(x) <=> bit[x].m_index < m_number_of_bits(bit[x].m_bitset)
<1>1. bit[x] \in [m_bitset : BitSets, m_index : 0 .. MaxSize * ByteBits]
  BY DEF BitSetTypeOK, Existing
<1>2. bit[x].m_bitset \in BitSets /\ bit[x].m_index \in Nat
  BY <1>1, MaxSizeAssumption, ByteBitsAssumption
<1>3. PICK size \in Nat : size = Len(m_data[bit[x].m_bitset])
  BY <1>2, DataFacts
<1> QED
  BY <1>2, <1>3, InsideIff DEF InsideOf, Inside, calc_offset, m_number_of_bits

(* BitSet b gets the bytes source; what it is an array of then. *)
LEMMA BytesChange ==
  ASSUME BitSetTypeOK, NEW b \in BitSets, NEW size \in 0 .. MaxSize,
         NEW source \in Buffers(size), m_data' = [m_data EXCEPT ![b] = source]
  PROVE  /\ m_data' \in [BitSets -> UNION {Buffers(n) : n \in 0 .. MaxSize}]
         /\ Values' = [Values EXCEPT ![b] = Unpacked(source)]
<1>1. \A c \in BitSets : m_data'[c] = IF c = b THEN source ELSE m_data[c]
  BY DEF BitSetTypeOK
<1>2. m_data' \in [BitSets -> UNION {Buffers(n) : n \in 0 .. MaxSize}]
  BY DEF BitSetTypeOK
<1>3. \A c \in BitSets : BitsOf(c)' = IF c = b THEN Unpacked(source) ELSE BitsOf(c)
  <2> SUFFICES ASSUME NEW c \in BitSets
      PROVE  BitsOf(c)' = IF c = b THEN Unpacked(source) ELSE BitsOf(c)
    OBVIOUS
  <2>1. BitsOf(c) = Unpacked(m_data[c])
    BY DEF BitsOf, Unpacked, m_number_of_bits
  <2>2. BitsOf(c)' = Unpacked(m_data'[c])
    BY DEF BitsOf, Unpacked, m_number_of_bits
  <2> QED
    BY <1>1, <2>1, <2>2
<1> QED
  BY <1>2, <1>3 DEF Values

(* A bit of b is set or cleared. *)
LEMMA BitChanges ==
  ASSUME BitSetTypeOK, NEW x \in Existing, NEW val \in BOOLEAN, bit_assign(x, val)
  PROVE  /\ m_data' \in [BitSets -> UNION {Buffers(n) : n \in 0 .. MaxSize}]
         /\ bit' = bit
         /\ Array!Write(x, val)
<1>1. PICK b \in BitSets, i \in Nat : b = bit[x].m_bitset /\ i = bit[x].m_index
  BY BitFacts
<1>2. i < m_number_of_bits(b)
  BY <1>1, BitFacts DEF bit_assign
<1>3. PICK size \in 0 .. MaxSize : size = Len(m_data[b]) /\ m_data[b] \in Buffers(size)
  BY DataFacts
<1>4. i < size * ByteBits
  BY <1>2, <1>3 DEF m_number_of_bits
<1>5. PICK changed : /\ changed = Changed(m_data[b], i, val)
                      /\ m_data' = [m_data EXCEPT ![b] = changed] /\ bit' = bit
  BY <1>1 DEF bit_assign, Assigned, Changed, BitSetTypeOK
<1>6. /\ changed \in Buffers(size)
      /\ Unpacked(changed) = [Unpacked(m_data[b]) EXCEPT ![i + 1] = val]
  BY <1>3, <1>4, <1>5, UnpackedAssigned
<1>7. /\ m_data' \in [BitSets -> UNION {Buffers(n) : n \in 0 .. MaxSize}]
      /\ Values' = [Values EXCEPT ![b] = Unpacked(changed)]
  BY <1>5, <1>6, BytesChange
<1>8. Values[b] = Unpacked(m_data[b]) /\ Len(Values[b]) = m_number_of_bits(b)
  BY BitsOfIsUnpacked DEF Values
<1>9. Values' = [Values EXCEPT ![b][i + 1] = val]
  BY <1>6, <1>7, <1>8 DEF Values
<1>10. Names[x].array = b /\ Names[x].index = i
  BY <1>1 DEF Existing, Names
<1>11. Names' = Names
  BY <1>5 DEF Names
<1> QED
  BY <1>2, <1>5, <1>7, <1>8, <1>9, <1>10, <1>11 DEF Array!Write, Array!Usable

LEMMA SameBits ==
  /\ UNCHANGED m_data => Values' = Values
  /\ UNCHANGED bit => Names' = Names
<1>1. ASSUME UNCHANGED m_data PROVE Values' = Values
  <2>1. ASSUME NEW b \in BitSets PROVE BitsOf(b)' = BitsOf(b)
    BY <1>1 DEF BitsOf, m_number_of_bits
  <2> QED
    BY <2>1 DEF Values
<1>2. ASSUME UNCHANGED bit PROVE Names' = Names
  BY <1>2 DEF Names
<1> QED
  BY <1>1, <1>2

(* A Bit stands for the bit its conversion reads. *)
LEMMA BitStandsFor ==
  ASSUME BitSetTypeOK, NEW x \in Existing
  PROVE  /\ x \in Array!Named
         /\ Array!Usable(x) <=> InsideOf(x)
         /\ InsideOf(x) => Array!Bit(x) = Value(x)
<1>1. PICK b \in BitSets, i \in Nat : b = bit[x].m_bitset /\ i = bit[x].m_index
  BY BitFacts
<1>2. Names[x] = [array |-> b, index |-> i]
  BY <1>1 DEF Names, Existing
<1>3. x \in Array!Named
  <2>1. i \in 0 .. MaxSize * ByteBits
    BY <1>1 DEF BitSetTypeOK, Existing
  <2> QED
    BY <1>2, <2>1, NullAssumption DEF Array!Named, Existing
<1>4. Values[b] = BitsOf(b) /\ Len(Values[b]) = m_number_of_bits(b)
  BY BitsOfIsUnpacked DEF Values
<1>5. Array!Usable(x) <=> InsideOf(x)
  BY <1>1, <1>2, <1>4, BitFacts DEF Array!Usable
<1>6. ASSUME InsideOf(x) PROVE Array!Bit(x) = Value(x)
  <2>1. i \in 0 .. m_number_of_bits(b) - 1
    BY <1>1, <1>6, BitFacts, DataFacts
  <2> QED
    BY <1>1, <1>2, <1>4, <2>1, BitsOfIsUnpacked DEF Array!Bit, Value
<1> QED
  BY <1>3, <1>5, <1>6

Results == UNION {[1 .. n -> BOOLEAN] : n \in 0 .. MaxSize * ByteBits}

LEMMA ResultsTyped ==
  /\ <<>> \in Results
  /\ \A v \in BOOLEAN : <<v>> \in Results
  /\ BitSetTypeOK => \A b \in BitSets : BitsOf(b) \in Results
<1>1. 0 \in 0 .. MaxSize * ByteBits /\ 1 \in 0 .. MaxSize * ByteBits
  BY MaxSizeAssumption, ByteBitsAssumption
<1>2. <<>> \in [1 .. 0 -> BOOLEAN] /\ \A v \in BOOLEAN : <<v>> \in [1 .. 1 -> BOOLEAN]
  OBVIOUS
<1>3. ASSUME BitSetTypeOK, NEW b \in BitSets
      PROVE  BitsOf(b) \in [1 .. m_number_of_bits(b) -> BOOLEAN]
             /\ m_number_of_bits(b) \in 0 .. MaxSize * ByteBits
  BY <1>3, BitsOfIsUnpacked, DataFacts
<1> QED
  BY <1>1, <1>2, <1>3, Zenon DEF Results

(* The type invariant, part by part. *)
Typed ==
  /\ m_data \in [BitSets -> UNION {Buffers(size) : size \in 0 .. MaxSize}]
  /\ bit \in [Bits -> [m_bitset : BitSets, m_index : 0 .. MaxSize * ByteBits] \cup {Null}]

LEMMA TypeFrom ==
  /\ BitSetTypeOK => Typed /\ result \in Results
  /\ /\ Typed' /\ result' \in Results
     /\ outcome' \in {"returned", "invalid size", "uninitialized", "invalid index", "undefined"}
     => BitSetTypeOK'
  BY DEF BitSetTypeOK, Typed, Results

LEMMA ThrowsType ==
  ASSUME BitSetTypeOK,
         NEW what \in {"invalid size", "uninitialized", "invalid index", "undefined"},
         throws(what)
  PROVE  BitSetTypeOK' /\ Values' = Values /\ Names' = Names
<1>1. result' = <<>> /\ outcome' = what /\ UNCHANGED <<m_data, bit>>
  BY DEF throws
<1>2. Typed'
  BY <1>1, TypeFrom DEF Typed
<1> QED
  BY <1>1, <1>2, ResultsTyped, SameBits, TypeFrom

LEMMA BindStep ==
  ASSUME BitSetTypeOK, NEW b \in BitSets, NEW size \in 1 .. MaxSize, NEW source,
         source = Null \/ source \in Buffers(size), bind(b, size, source)
  PROVE  /\ BitSetTypeOK'
         /\ Array!Bind(b)
         /\ source # Null => Values' = [Values EXCEPT ![b] = Unpacked(source)]
<1> DEFINE bytes == IF source = Null THEN Filled(size, FALSE) ELSE source
<1>1. /\ m_data' = [m_data EXCEPT ![b] = bytes]
      /\ result' = <<>> /\ outcome' = "returned" /\ bit' = bit
  BY DEF bind, returned
<1>2. size \in 0 .. MaxSize /\ size \in Nat /\ bytes \in Buffers(size)
  <2>1. size \in 0 .. MaxSize /\ size \in Nat
    BY MaxSizeAssumption
  <2>2. Filled(size, FALSE) \in Buffers(size)
    BY <2>1, UnpackedFilled
  <2> QED
    BY <2>1, <2>2
<1> HIDE DEF bytes
<1>3. /\ m_data' \in [BitSets -> UNION {Buffers(n) : n \in 0 .. MaxSize}]
      /\ Values' = [Values EXCEPT ![b] = Unpacked(bytes)]
  BY <1>1, <1>2, BytesChange
<1>4. Unpacked(bytes) \in [1 .. size * ByteBits -> BOOLEAN]
  BY <1>2, UnpackedTyped
<1>5. Values'[b] = Unpacked(bytes)
  BY <1>3 DEF Values
<1>6. Typed'
  BY <1>1, <1>3, TypeFrom DEF Typed
<1>7. BitSetTypeOK'
  BY <1>1, <1>6, ResultsTyped, TypeFrom
<1>8. Array!Bind(b)
  <2>1. size * ByteBits \in {n * ByteBits : n \in 1 .. MaxSize}
    OBVIOUS
  <2>2. Values'[b] \in [1 .. size * ByteBits -> BOOLEAN]
    BY <1>4, <1>5
  <2>3. Values' = [Values EXCEPT ![b] = Values'[b]]
    BY <1>3, <1>5
  <2>4. Names' = Names
    BY <1>1, SameBits
  <2> QED
    BY <1>1, <2>1, <2>2, <2>3, <2>4 DEF Array!Bind, Array!Return
<1> QED
  BY <1>3, <1>7, <1>8 DEF bytes

-----------------------------------------------------------------------------
(* The refinement: one lemma per operation that is more than a throw. *)

LEMMA AssignStep ==
  ASSUME BitSetTypeOK, NEW b \in BitSets, NEW right \in BitSets, assign(b, right)
  PROVE  BitSetTypeOK' /\ (Array!Refuse \/ Array!Assign(b, right))
<1>1. CASE m_data[right] = <<>>
  <2>1. throws("invalid size")
    BY <1>1 DEF assign, bind_throws
  <2>2. Array!Refuse
    BY <2>1, ThrowsType DEF throws, Array!Refuse
  <2> QED
    BY <2>1, <2>2, ThrowsType
<1>2. CASE m_data[right] # <<>>
  <2>1. PICK size \in 1 .. MaxSize : size = Len(m_data[right]) /\ m_data[right] \in Buffers(size)
    BY <1>2, DataFacts, MaxSizeAssumption
  <2>2. PICK source \in Buffers(size) :
          /\ b # right => source = m_data[right]
          /\ bind(b, Len(source), source)
    BY <1>2, <2>1 DEF assign
  <2>3. Len(source) = size /\ size \in Nat
    BY <2>1, <2>2, BuffersTyped
  <2>4. source # Null
    BY <2>2, NullAssumption DEF Buffers, Bytes
  <2>5. BitSetTypeOK' /\ Array!Bind(b) /\ Values' = [Values EXCEPT ![b] = Unpacked(source)]
    BY <2>2, <2>3, <2>4, BindStep
  <2>6. Values'[b] = Unpacked(source) /\ Values[right] = Unpacked(m_data[right])
    BY <2>5, BitsOfIsUnpacked DEF Values
  <2>7. Values[right] # <<>>
    BY <1>2, <2>6, BitsOfIsUnpacked DEF Values
  <2>8. b = right => Values'[b] \in [DOMAIN Values[right] -> BOOLEAN]
    <3>1. PICK n \in Nat : n = size * ByteBits
      BY <2>3, <2>2, UnpackedTyped
    <3>2. /\ Unpacked(source) \in [1 .. n -> BOOLEAN]
          /\ Unpacked(m_data[right]) \in [1 .. n -> BOOLEAN]
      BY <2>1, <2>2, <2>3, <3>1, UnpackedTyped
    <3> QED
      BY <2>6, <3>2
  <2>9. b # right => Values'[b] = Values[right]
    BY <2>2, <2>6
  <2>10. Array!Assign(b, right)
    BY <2>5, <2>7, <2>8, <2>9 DEF Array!Assign, Array!Bind
  <2> QED
    BY <2>5, <2>10
<1> QED
  BY <1>1, <1>2

LEMMA SetAllStep ==
  ASSUME BitSetTypeOK, NEW b \in BitSets, NEW val \in BOOLEAN, set_all(b, val)
  PROVE  BitSetTypeOK' /\ (Array!Refuse \/ Array!Fill(b, val))
<1>1. CASE m_data[b] = <<>>
  <2>1. throws("uninitialized")
    BY <1>1 DEF set_all
  <2>2. Values[b] = <<>>
    BY <1>1, BitsOfIsUnpacked DEF Values
  <2>3. Array!Refuse
    BY <2>1, <2>2, ThrowsType DEF throws, Array!Refuse
  <2> QED
    BY <2>1, <2>3, ThrowsType
<1>2. CASE m_data[b] # <<>>
  <2>1. PICK size \in 0 .. MaxSize : size = Len(m_data[b]) /\ m_data[b] \in Buffers(size)
    BY DataFacts
  <2>2. /\ m_data' = [m_data EXCEPT ![b] = Filled(size, val)]
        /\ result' = <<>> /\ outcome' = "returned" /\ bit' = bit
    BY <1>2, <2>1 DEF set_all, returned
  <2>3. PICK n \in Nat : n = size * ByteBits
    BY <2>1, UnpackedTyped
  <2>4. /\ Filled(size, val) \in Buffers(size)
        /\ Unpacked(Filled(size, val)) = [k \in 1 .. n |-> val]
    BY <2>3, UnpackedFilled
  <2>5. /\ m_data' \in [BitSets -> UNION {Buffers(k) : k \in 0 .. MaxSize}]
        /\ Values' = [Values EXCEPT ![b] = [k \in 1 .. n |-> val]]
    BY <2>2, <2>4, BytesChange
  <2>6. DOMAIN Values[b] = 1 .. n /\ Values[b] # <<>>
    <3>1. Values[b] = Unpacked(m_data[b]) /\ Values[b] # <<>>
      BY <1>2, BitsOfIsUnpacked DEF Values
    <3>2. Unpacked(m_data[b]) \in [1 .. n -> BOOLEAN]
      BY <2>1, <2>3, UnpackedTyped
    <3> QED
      BY <3>1, <3>2
  <2>7. Array!Fill(b, val)
    BY <2>2, <2>5, <2>6, SameBits DEF Array!Fill, Array!Return
  <2>8. BitSetTypeOK'
    BY <2>2, <2>5, ResultsTyped, TypeFrom DEF Typed
  <2> QED
    BY <2>7, <2>8
<1> QED
  BY <1>1, <1>2

LEMMA IndexStep ==
  ASSUME BitSetTypeOK, NEW x \in Bits, NEW b \in BitSets, NEW i \in Nat, index(x, b, i)
  PROVE  /\ BitSetTypeOK'
         /\ Array!Refuse \/ \E n \in 0 .. Len(Values[b]) : Array!Name(x, b, n)
<1>1. CASE i > m_number_of_bits(b)
  <2>1. throws("invalid index")
    BY <1>1 DEF index
  <2>2. Array!Refuse
    BY <2>1, ThrowsType DEF throws, Array!Refuse
  <2> QED
    BY <2>1, <2>2, ThrowsType
<1>2. CASE ~(i > m_number_of_bits(b))
  <2>1. /\ bit' = [bit EXCEPT ![x] = [m_bitset |-> b, m_index |-> i]]
        /\ result' = <<>> /\ outcome' = "returned" /\ m_data' = m_data
    BY <1>2 DEF index, returned
  <2>2. PICK n \in 0 .. MaxSize * ByteBits : n = m_number_of_bits(b)
    BY DataFacts
  <2>3. MaxSize * ByteBits \in Nat
    BY MaxSizeAssumption, ByteBitsAssumption
  <2>4. i \in 0 .. n /\ i \in 0 .. MaxSize * ByteBits
    BY <1>2, <2>2, <2>3
  <2>5. Len(Values[b]) = n
    BY <2>2, BitsOfIsUnpacked DEF Values
  <2>6. Names' = [Names EXCEPT ![x] = [array |-> b, index |-> i]]
    <3>1. [m_bitset |-> b, m_index |-> i] # Null
      BY <2>4, NullAssumption
    <3> QED
      BY <2>1, <3>1 DEF Names, BitSetTypeOK
  <2>7. Array!Name(x, b, i)
    BY <2>1, <2>6, SameBits DEF Array!Name, Array!Return
  <2>8. BitSetTypeOK'
    <3>1. Typed'
      BY <2>1, <2>4, TypeFrom DEF Typed
    <3> QED
      BY <2>1, <3>1, ResultsTyped, TypeFrom
  <2> QED
    BY <2>4, <2>5, <2>7, <2>8
<1> QED
  BY <1>1, <1>2

(* Steps that change no bit. *)
LEMMA QuietStep ==
  ASSUME BitSetTypeOK, UNCHANGED <<m_data, bit>>, result' \in Results,
         outcome' \in {"returned", "undefined"}
  PROVE  BitSetTypeOK' /\ Values' = Values /\ Names' = Names
<1>1. Typed'
  BY TypeFrom DEF Typed
<1> QED
  BY <1>1, TypeFrom, SameBits

LEMMA ToStringStep ==
  ASSUME BitSetTypeOK, NEW b \in BitSets, to_string(b)
  PROVE  BitSetTypeOK' /\ Array!Show(b)
<1>1. result' = BitsOf(b)
  <2>1. PICK n \in Nat : n = m_number_of_bits(b)
    BY DataFacts, MaxSizeAssumption, ByteBitsAssumption
  <2>2. result' = [i \in 1 .. n |-> get(b, i - 1)]
    BY <2>1 DEF to_string, returned
  <2>3. ASSUME NEW k \in 1 .. n PROVE BitsOf(b)[k] = get(b, k - 1)
    <3>1. PICK i \in 0 .. n - 1 : k = i + 1 /\ i = k - 1
      OBVIOUS
    <3>2. BitsOf(b)[i + 1] = get(b, i)
      BY <2>1, <3>1, BitsOfIsUnpacked
    <3> QED
      BY <3>1, <3>2
  <2>4. BitsOf(b) \in [1 .. n -> BOOLEAN]
    BY <2>1, BitsOfIsUnpacked
  <2> QED
    BY <2>2, <2>3, <2>4
<1>2. outcome' = "returned" /\ UNCHANGED <<m_data, bit>>
  BY DEF to_string, returned
<1>3. Values[b] = BitsOf(b)
  BY DEF Values
<1> QED
  BY <1>1, <1>2, <1>3, ResultsTyped, QuietStep DEF Array!Show, Array!Return

LEMMA BitReadStep ==
  ASSUME BitSetTypeOK, NEW x \in Existing, bit_read(x)
  PROVE  BitSetTypeOK' /\ Array!Read(x)
<1>1. /\ InsideOf(x) /\ UNCHANGED <<m_data, bit>>
      /\ result' = <<Value(x)>> /\ outcome' = "returned"
  BY DEF bit_read, returned
<1>2. Value(x) \in BOOLEAN
  BY DEF Value, get
<1> QED
  BY <1>1, <1>2, ResultsTyped, QuietStep, BitStandsFor DEF Array!Read, Array!Return

LEMMA BitOutsideStep ==
  ASSUME BitSetTypeOK, NEW x \in Existing, bit_outside(x)
  PROVE  BitSetTypeOK' /\ Array!Misuse(x)
<1>1. ~InsideOf(x) /\ throws("undefined")
  BY DEF bit_outside
<1> QED
  BY <1>1, ThrowsType, BitStandsFor DEF throws, Array!Misuse

(* Assigning through a Bit, whatever is returned. *)
LEMMA BitAssignStep ==
  ASSUME BitSetTypeOK, NEW x \in Existing, NEW val \in BOOLEAN, bit_assign(x, val),
         NEW bits \in Results, returned(bits)
  PROVE  BitSetTypeOK' /\ Array!Write(x, val) /\ Array!Return(bits)
<1>1. result' = bits /\ outcome' = "returned"
  BY DEF returned
<1>2. Typed' /\ Array!Write(x, val)
  BY BitChanges, TypeFrom DEF Typed
<1> QED
  BY <1>1, <1>2, TypeFrom DEF Array!Return

LEMMA BitCopyStep ==
  ASSUME BitSetTypeOK, NEW x \in Existing, NEW right \in Existing, bit_copy(x, right)
  PROVE  BitSetTypeOK' /\ Array!Copy(x, right)
<1>1. InsideOf(right) /\ bit_assign(x, Value(right)) /\ returned(<<>>)
  BY DEF bit_copy
<1>2. Value(right) \in BOOLEAN
  BY DEF Value, get
<1>3. BitSetTypeOK' /\ Array!Write(x, Value(right)) /\ Array!Return(<<>>)
  BY <1>1, <1>2, ResultsTyped, BitAssignStep
<1> QED
  BY <1>1, <1>3, BitStandsFor DEF Array!Copy

LEMMA FlipStep ==
  ASSUME BitSetTypeOK, NEW x \in Existing, flip(x)
  PROVE  BitSetTypeOK' /\ Array!Flip(x)
<1>1. InsideOf(x) /\ bit_assign(x, ~Value(x)) /\ returned(<<~Value(x)>>)
  BY DEF flip
<1>2. PICK v \in BOOLEAN : v = ~Value(x)
  BY DEF Value, get
<1>3. BitSetTypeOK' /\ Array!Write(x, v) /\ Array!Return(<<v>>)
  BY <1>1, <1>2, ResultsTyped, BitAssignStep
<1> QED
  BY <1>1, <1>2, <1>3, BitStandsFor DEF Array!Flip

-----------------------------------------------------------------------------
LEMMA BitSetInitTyped == BitSetInit => BitSetTypeOK
<1> SUFFICES ASSUME BitSetInit PROVE BitSetTypeOK
  OBVIOUS
<1>1. 0 \in 0 .. MaxSize
  BY MaxSizeAssumption
<1>2. <<>> \in Buffers(0)
  BY DEF Buffers
<1>3. <<>> \in UNION {Buffers(size) : size \in 0 .. MaxSize}
  BY <1>1, <1>2
<1> QED
  BY <1>3, ResultsTyped DEF BitSetInit, BitSetTypeOK, Results

LEMMA BitSetInitRefines == BitSetInit => Array!Init
<1> SUFFICES ASSUME BitSetInit PROVE Array!Init
  OBVIOUS
<1>1. ASSUME NEW b \in BitSets PROVE BitsOf(b) = <<>>
  BY BitSetInitTyped, BitsOfIsUnpacked DEF BitSetInit
<1> QED
  BY <1>1 DEF BitSetInit, Array!Init, Values, Names

LEMMA BitSetStep ==
  ASSUME BitSetTypeOK, [BitSetNext]_bitSetVars
  PROVE  BitSetTypeOK' /\ [Array!Next]_<<Values, Names, result, outcome>>
<1> DEFINE Goal == BitSetTypeOK' /\ [Array!Next]_<<Values, Names, result, outcome>>
<1>1. CASE UNCHANGED bitSetVars
  <2>1. UNCHANGED <<m_data, bit, result, outcome>>
    BY <1>1 DEF bitSetVars
  <2>2. BitSetTypeOK'
    BY <2>1, TypeFrom DEF BitSetTypeOK
  <2> QED
    BY <2>1, <2>2, SameBits
<1>2. CASE BitSetNext /\ ~(UNCHANGED bitSetVars)
  <2>0. outcome # "undefined"
    BY <1>2 DEF BitSetNext
  <2>1. CASE bind_throws
    <3>1. throws("invalid size")
      BY <2>1 DEF bind_throws
    <3>2. Array!Refuse
      BY <3>1, ThrowsType DEF throws, Array!Refuse
    <3> QED
      BY <2>0, <3>1, <3>2, ThrowsType DEF Array!Next
  <2>2. ASSUME NEW b \in BitSets, NEW size \in 1 .. MaxSize, bind(b, size, Null) PROVE Goal
    BY <2>0, <2>2, BindStep DEF Array!Next
  <2>3. ASSUME NEW b \in BitSets, NEW source \in Sources, bind(b, Len(source), source) PROVE Goal
    <3>1. PICK size \in 1 .. MaxSize : source \in Buffers(size)
      BY SourcesAssumption DEF Buffers, Bytes
    <3>2. Len(source) = size
      BY <3>1, BuffersTyped, MaxSizeAssumption
    <3> QED
      BY <2>0, <2>3, <3>1, <3>2, BindStep DEF Array!Next
  <2>4. ASSUME NEW b \in BitSets, NEW right \in BitSets, assign(b, right) PROVE Goal
    BY <2>0, <2>4, AssignStep DEF Array!Next
  <2>5. ASSUME NEW b \in BitSets, NEW val \in BOOLEAN, set_all(b, val) PROVE Goal
    BY <2>0, <2>5, SetAllStep DEF Array!Next
  <2>6. ASSUME NEW x \in Bits, NEW b \in BitSets, NEW i \in 0 .. MaxSize * ByteBits + 1,
               index(x, b, i)
        PROVE  Goal
    <3>1. i \in Nat
      BY MaxSizeAssumption, ByteBitsAssumption
    <3> QED
      BY <2>0, <2>6, <3>1, IndexStep DEF Array!Next
  <2>7. ASSUME NEW b \in BitSets, to_string(b) PROVE Goal
    BY <2>0, <2>7, ToStringStep DEF Array!Next
  <2>8. ASSUME NEW x \in Existing, bit_read(x) PROVE Goal
    BY <2>0, <2>8, BitReadStep, BitStandsFor DEF Array!Next
  <2>9. ASSUME NEW x \in Existing, flip(x) PROVE Goal
    BY <2>0, <2>9, FlipStep, BitStandsFor DEF Array!Next
  <2>10. ASSUME NEW x \in Existing, bit_outside(x) PROVE Goal
    BY <2>0, <2>10, BitOutsideStep, BitStandsFor DEF Array!Next
  <2>11. ASSUME NEW x \in Existing, NEW val \in BOOLEAN, bit_assign(x, val), returned(<<>>) PROVE Goal
    <3>1. BitSetTypeOK' /\ Array!Write(x, val) /\ Array!Return(<<>>)
      BY <2>11, ResultsTyped, BitAssignStep
    <3> QED
      BY <2>0, <3>1, BitStandsFor DEF Array!Next
  <2>12. ASSUME NEW x \in Existing, NEW right \in Existing, bit_copy(x, right) PROVE Goal
    BY <2>0, <2>12, BitCopyStep, BitStandsFor DEF Array!Next
  <2> QED
    BY <1>2, <2>1, <2>2, <2>3, <2>4, <2>5, <2>6, <2>7, <2>8, <2>9, <2>10, <2>11, <2>12
       DEF BitSetNext
<1> QED
  BY <1>1, <1>2

(* Whatever is called, undefined calls included, a BitSet keeps a row of   *)
(* whole bytes, and a Bit refers to a place in a BitSet or to nothing.     *)
THEOREM BitSetTypeCorrect == BitSetSpec => []BitSetTypeOK
<1> QED
  BY BitSetInitTyped, BitSetStep, PTL DEF BitSetSpec

(* Packed bytes are arrays of bits with value semantics, for every number  *)
(* of bits in a byte: what calc_offset, set, clear and get compute for one *)
(* index never meets the bit of another, and only a Bit behind the end     *)
(* reaches foreign memory.                                                 *)
THEOREM BitSetImplementsBitArray == BitSetSpec => ImplementsBitArray
<1> QED
  BY BitSetInitTyped, BitSetInitRefines, BitSetStep, PTL
     DEF BitSetSpec, ImplementsBitArray, Array!Spec

-----------------------------------------------------------------------------
(***************************************************************************)
(* Url, for all names, ports and tails: a new object cuts every URL into its*)
(* parts and fails no assertion, and no search leaves the text.            *)
(***************************************************************************)

(* The parts of the given URL, and the offsets at which they end in its    *)
(* text, delimiters included where the name says After.                    *)
Proto == given.proto
Login == given.user.login
Pass == given.user.pass
Host == given.host
Port == given.port
TailPart == given.tail
HasUser == given.user # NoUser

AfterProto == IF Proto = <<>> THEN 0 ELSE Len(Proto) + 3
LoginEnd == AfterProto + Len(Login)
AfterUser == IF HasUser THEN LoginEnd + 1 + Len(Pass) + 1 ELSE AfterProto
HostEndsAt == AfterUser + Len(Host)
PortEndsAt == IF Port = <<>> THEN HostEndsAt ELSE HostEndsAt + 1 + Len(Port)

-----------------------------------------------------------------------------
LEMMA TextTyped ==
  ASSUME NEW s \in Texts
  PROVE  Len(s) \in Nat /\ (s = <<>> => Len(s) = 0) /\ (s # <<>> => Len(s) > 0)
  BY EmptySeq, LenProperties DEF Texts

LEMMA PartsTyped ==
  ASSUME given \in URLs
  PROVE  /\ Proto \in Texts /\ (Proto # <<>> => IsName(Proto))
         /\ IsName(Host)
         /\ Port \in Texts /\ \A i \in 1 .. Len(Port) : Port[i] \in Digits
         /\ TailPart \in Texts /\ (TailPart # <<>> => TailPart[1] = "/")
         /\ Login \in Texts /\ Pass \in Texts
         /\ HasUser => IsName(Login) /\ IsName(Pass)
         /\ given.user = [login |-> Login, pass |-> Pass]
         /\ ~HasUser => Login = <<>> /\ Pass = <<>>
<1>1. /\ given.proto \in Protos /\ given.host \in Hosts /\ given.port \in Ports
      /\ given.tail \in Tails /\ given.user \in Users \cup {NoUser}
  BY DEF URLs
<1>2. <<>> \in Texts
  BY DEF Texts
<1>3. IsName(Host)
  BY <1>1, PartsAssumption DEF Host
<1>4. Port \in Texts /\ \A i \in 1 .. Len(Port) : Port[i] \in Digits
  BY <1>1, PartsAssumption DEF Port
<1>5. TailPart \in Texts /\ (TailPart # <<>> => TailPart[1] = "/")
  BY <1>1, PartsAssumption DEF TailPart
<1>6. Proto \in Texts /\ (Proto # <<>> => IsName(Proto))
  BY <1>1, <1>2, PartsAssumption DEF Proto, IsName
<1>7. CASE HasUser
  <2>1. given.user \in Users
    BY <1>1, <1>7 DEF HasUser
  <2>2. given.user \in [login : Texts, pass : Texts]
    BY <2>1, PartsAssumption
  <2>3. IsName(Login) /\ IsName(Pass)
    BY <2>1, PartsAssumption DEF Login, Pass
  <2> QED
    BY <1>3, <1>4, <1>5, <1>6, <1>7, <2>2, <2>3 DEF Login, Pass
<1>8. CASE ~HasUser
  <2>1. given.user = NoUser
    BY <1>8 DEF HasUser
  <2> QED
    BY <1>2, <1>3, <1>4, <1>5, <1>6, <1>8, <2>1 DEF Login, Pass, NoUser
<1> QED
  BY <1>7, <1>8

LEMMA Lengths ==
  ASSUME given \in URLs
  PROVE  /\ Len(Proto) \in Nat /\ AfterProto \in Nat
         /\ Proto = <<>> => Len(Proto) = 0 /\ AfterProto = 0
         /\ Proto # <<>> => Len(Proto) > 0 /\ AfterProto = Len(Proto) + 3
         /\ LoginEnd \in Nat /\ LoginEnd = AfterProto + Len(Login)
         /\ HasUser => /\ AfterProto < LoginEnd /\ LoginEnd + 2 < AfterUser
                       /\ AfterUser = LoginEnd + Len(Pass) + 2
         /\ ~HasUser => AfterUser = AfterProto
         /\ AfterUser \in Nat /\ HostEndsAt \in Nat /\ PortEndsAt \in Nat
         /\ AfterUser < HostEndsAt /\ HostEndsAt = AfterUser + Len(Host)
         /\ Port = <<>> => PortEndsAt = HostEndsAt
         /\ Port # <<>> => /\ HostEndsAt + 1 < PortEndsAt
                           /\ PortEndsAt = HostEndsAt + Len(Port) + 1
<1>1. /\ Len(Proto) \in Nat /\ AfterProto \in Nat
      /\ Proto = <<>> => Len(Proto) = 0 /\ AfterProto = 0
      /\ Proto # <<>> => Len(Proto) > 0 /\ AfterProto = Len(Proto) + 3
  BY TextTyped, PartsTyped DEF AfterProto
<1>2. LoginEnd \in Nat /\ LoginEnd = AfterProto + Len(Login)
  BY <1>1, TextTyped, PartsTyped DEF LoginEnd
<1>3. ASSUME HasUser
      PROVE  /\ AfterProto < LoginEnd /\ LoginEnd + 2 < AfterUser
             /\ AfterUser = LoginEnd + Len(Pass) + 2
  <2>1. Len(Login) \in Nat /\ Len(Login) > 0 /\ Len(Pass) \in Nat /\ Len(Pass) > 0
    BY <1>3, TextTyped, PartsTyped DEF IsName
  <2>2. AfterUser = LoginEnd + 1 + Len(Pass) + 1
    BY <1>3 DEF AfterUser
  <2> QED
    BY <1>1, <1>2, <2>1, <2>2
<1>4. ~HasUser => AfterUser = AfterProto
  BY DEF AfterUser
<1>5. Len(Pass) \in Nat
  BY TextTyped, PartsTyped
<1>6. AfterUser \in Nat
  BY <1>1, <1>2, <1>3, <1>4, <1>5
<1>7. HostEndsAt \in Nat /\ AfterUser < HostEndsAt /\ HostEndsAt = AfterUser + Len(Host)
  <2>1. Len(Host) \in Nat /\ Len(Host) > 0
    BY TextTyped, PartsTyped DEF IsName
  <2> QED
    BY <1>6, <2>1 DEF HostEndsAt
<1>8. /\ PortEndsAt \in Nat
      /\ Port = <<>> => PortEndsAt = HostEndsAt
      /\ Port # <<>> => HostEndsAt + 1 < PortEndsAt /\ PortEndsAt = HostEndsAt + Len(Port) + 1
  <2>1. Len(Port) \in Nat /\ (Port # <<>> => Len(Port) > 0)
    BY TextTyped, PartsTyped
  <2> QED
    BY <1>7, <2>1 DEF PortEndsAt
<1> QED
  BY <1>1, <1>2, <1>3, <1>4, <1>6, <1>7, <1>8

-----------------------------------------------------------------------------
(* What stands where in the text of a URL. *)

(* The text s has the text p at an offset. *)
Piece(s, begin, p) == begin + Len(p) <= Len(s) /\ \A i \in 1 .. Len(p) : s[begin + i] = p[i]

LEMMA Joined ==
  ASSUME NEW s \in Texts, NEW p \in Texts
  PROVE  /\ s \o p \in Texts /\ Len(s \o p) = Len(s) + Len(p)
         /\ Piece(s \o p, Len(s), p) /\ Piece(s \o p, 0, s)
<1>1. s \in Seq(Characters) /\ p \in Seq(Characters) /\ Len(s) \in Nat /\ Len(p) \in Nat
  BY TextTyped DEF Texts
<1>2. s \o p \in Seq(Characters) /\ Len(s \o p) = Len(s) + Len(p)
  BY <1>1, ConcatProperties
<1>3. \A i \in 1 .. Len(s) + Len(p) : (s \o p)[i] = IF i <= Len(s) THEN s[i] ELSE p[i - Len(s)]
  BY <1>1, ConcatProperties
<1>4. ASSUME NEW i \in 1 .. Len(p)
      PROVE  (s \o p)[Len(s) + i] = p[i]
  BY <1>1, <1>3
<1>5. ASSUME NEW i \in 1 .. Len(s)
      PROVE  (s \o p)[0 + i] = s[i]
  BY <1>1, <1>3
<1> QED
  BY <1>1, <1>2, <1>4, <1>5 DEF Piece, Texts

LEMMA JoinedTwice ==
  ASSUME NEW s \in Texts, NEW p \in Texts, NEW q \in Texts
  PROVE  (s \o p) \o q = s \o (p \o q)
<1>1. s \in Seq(Characters) /\ p \in Seq(Characters) /\ q \in Seq(Characters)
  BY DEF Texts
<1> DEFINE left == (s \o p) \o q
           right == s \o (p \o q)
<1>2. /\ left \in Seq(Characters) /\ right \in Seq(Characters)
      /\ Len(left) = Len(s) + Len(p) + Len(q) /\ Len(right) = Len(s) + Len(p) + Len(q)
  BY <1>1, ConcatProperties
<1>3. ASSUME NEW i \in 1 .. Len(left)
      PROVE  left[i] = right[i]
  BY <1>1, <1>2, ConcatProperties
<1> HIDE DEF left, right
<1>4. left = right
  BY <1>2, <1>3, SeqEqual
<1> QED
  BY <1>4 DEF left, right

LEMMA PieceKept ==
  ASSUME NEW s \in Texts, NEW q \in Texts, NEW p \in Texts, NEW begin \in Nat, Piece(s, begin, p)
  PROVE  Piece(s \o q, begin, p)
<1>1. Len(s) \in Nat /\ Len(p) \in Nat /\ Len(q) \in Nat
  BY TextTyped
<1>2. /\ Len(s \o q) = Len(s) + Len(q)
      /\ \A i \in 1 .. Len(s) : (s \o q)[0 + i] = s[i]
  BY Joined DEF Piece
<1> QED
  BY <1>1, <1>2 DEF Piece

LEMMA PieceSplit ==
  ASSUME NEW s \in Texts, NEW q \in Texts, NEW p \in Texts, NEW begin \in Nat,
         Piece(s, begin, p \o q)
  PROVE  Piece(s, begin, p) /\ Piece(s, begin + Len(p), q)
<1>1. Len(s) \in Nat /\ Len(p) \in Nat /\ Len(q) \in Nat
  BY TextTyped
<1>2. /\ Len(p \o q) = Len(p) + Len(q)
      /\ \A i \in 1 .. Len(p) : (p \o q)[0 + i] = p[i]
      /\ \A i \in 1 .. Len(q) : (p \o q)[Len(p) + i] = q[i]
  BY Joined DEF Piece
<1>3. Piece(s, begin, p)
  BY <1>1, <1>2 DEF Piece
<1>4. ASSUME NEW i \in 1 .. Len(q)
      PROVE  s[begin + Len(p) + i] = q[i]
  <2>1. Len(p) + i \in 1 .. Len(p \o q) /\ begin + (Len(p) + i) = begin + Len(p) + i
    BY <1>1, <1>2
  <2> QED
    BY <1>2, <2>1 DEF Piece
<1> QED
  BY <1>1, <1>2, <1>3, <1>4 DEF Piece

LEMMA PieceSlice ==
  ASSUME NEW s \in Texts, NEW p \in Texts, NEW begin \in Nat, Piece(s, begin, p)
  PROVE  SubSeq(s, begin + 1, begin + Len(p)) = p
<1>1. Len(s) \in Nat /\ Len(p) \in Nat /\ s \in Seq(Characters) /\ p \in Seq(Characters)
  BY TextTyped DEF Texts
<1> DEFINE slice == SubSeq(s, begin + 1, begin + Len(p))
<1>2. slice \in Seq(Characters) /\ Len(slice) = Len(p)
  <2>1. \A i \in begin + 1 .. begin + Len(p) : s[i] \in Characters
    BY <1>1, ElementOfSeq DEF Piece
  <2> QED
    BY <1>1, <2>1, SubSeqProperties DEF Piece
<1>3. ASSUME NEW i \in 1 .. Len(p)
      PROVE  slice[i] = p[i]
  <2>1. slice[i] = s[begin + 1 + i - 1]
    BY <1>1, SubSeqProperties DEF Piece
  <2> QED
    BY <1>1, <2>1 DEF Piece
<1> HIDE DEF slice
<1>4. slice = p
  BY <1>1, <1>2, <1>3, SeqEqual
<1> QED
  BY <1>4 DEF slice

(* The pieces that Text joins. *)
ProtoText == Before(Proto, <<":", "/", "/">>)
UserText == IF HasUser THEN Login \o <<":">> \o Pass \o <<"@">> ELSE <<>>
PortText == After(<<":">>, Port)

LEMMA Marks ==
  /\ <<>> \in Texts /\ Len(<<>>) = 0
  /\ <<":">> \in Texts /\ Len(<<":">>) = 1
  /\ <<"@">> \in Texts /\ Len(<<"@">>) = 1
  /\ <<"/">> \in Texts /\ Len(<<"/">>) = 1
  /\ <<":", "/", "/">> \in Texts /\ Len(<<":", "/", "/">>) = 3
<1>1. ":" \in Characters /\ "/" \in Characters /\ "@" \in Characters
  BY PartsAssumption DEF Delimiters
<1> QED
  BY <1>1 DEF Texts

LEMMA ProtoTextIs ==
  ASSUME given \in URLs
  PROVE  /\ ProtoText \in Texts /\ Len(ProtoText) = AfterProto
         /\ Proto # <<>> => ProtoText = Proto \o <<":", "/", "/">>
         /\ Piece(ProtoText, 0, Proto)
<1>1. Proto \in Texts /\ Len(Proto) \in Nat /\ (Proto = <<>> => Len(Proto) = 0)
  BY PartsTyped, TextTyped
<1>2. CASE Proto = <<>>
  <2>1. ProtoText = <<>> /\ AfterProto = 0
    BY <1>2 DEF ProtoText, Before, AfterProto
  <2> QED
    BY <1>2, <2>1, Marks DEF Piece
<1>3. CASE Proto # <<>>
  <2>1. ProtoText = Proto \o <<":", "/", "/">> /\ AfterProto = Len(Proto) + 3
    BY <1>3 DEF ProtoText, Before, AfterProto
  <2>2. /\ Proto \o <<":", "/", "/">> \in Texts
        /\ Len(Proto \o <<":", "/", "/">>) = Len(Proto) + 3
        /\ Piece(Proto \o <<":", "/", "/">>, 0, Proto)
    BY <1>1, Marks, Joined
  <2> QED
    BY <1>3, <2>1, <2>2
<1> QED
  BY <1>2, <1>3

LEMMA UserTextIs ==
  ASSUME given \in URLs
  PROVE  /\ UserText \in Texts
         /\ AfterUser = AfterProto + Len(UserText)
         /\ HasUser => /\ Piece(UserText, 0, Login) /\ Piece(UserText, Len(Login), <<":">>)
                       /\ Piece(UserText, Len(Login) + 1, Pass)
                       /\ Piece(UserText, Len(Login) + 1 + Len(Pass), <<"@">>)
<1>1. /\ Login \in Texts /\ Len(Login) \in Nat /\ Pass \in Texts /\ Len(Pass) \in Nat
      /\ AfterProto \in Nat
  BY PartsTyped, TextTyped, Lengths
<1>2. CASE ~HasUser
  BY <1>1, <1>2, Marks DEF UserText, AfterUser
<1>3. CASE HasUser
  <2> DEFINE x == Login \o <<":">>
             y == x \o Pass
             z == y \o <<"@">>
  <2>1. /\ x \in Texts /\ Len(x) = Len(Login) + 1
        /\ Piece(x, 0, Login) /\ Piece(x, Len(Login), <<":">>)
    BY <1>1, Marks, Joined
  <2> HIDE DEF x
  <2>2. /\ y \in Texts /\ Len(y) = Len(Login) + 1 + Len(Pass)
        /\ Piece(y, Len(Login) + 1, Pass)
    BY <1>1, <2>1, Joined
  <2>3. Piece(y, 0, Login) /\ Piece(y, Len(Login), <<":">>)
    BY <1>1, <2>1, Marks, PieceKept
  <2> HIDE DEF y
  <2>4. /\ z \in Texts /\ Len(z) = Len(Login) + 1 + Len(Pass) + 1
        /\ Piece(z, Len(Login) + 1 + Len(Pass), <<"@">>)
    BY <1>1, <2>2, Marks, Joined
  <2>5. /\ Piece(z, 0, Login) /\ Piece(z, Len(Login), <<":">>)
        /\ Piece(z, Len(Login) + 1, Pass)
    BY <1>1, <2>2, <2>3, Marks, PieceKept
  <2>6. UserText = z
    BY <1>3 DEF UserText, x, y
  <2>7. AfterUser = AfterProto + Len(UserText)
    <3>1. AfterUser = LoginEnd + 1 + Len(Pass) + 1 /\ LoginEnd = AfterProto + Len(Login)
      BY <1>3 DEF AfterUser, LoginEnd
    <3> QED
      BY <1>1, <2>4, <2>6, <3>1
  <2> QED
    BY <2>4, <2>5, <2>6, <2>7
<1> QED
  BY <1>2, <1>3

LEMMA PortTextIs ==
  ASSUME given \in URLs
  PROVE  /\ PortText \in Texts /\ PortEndsAt = HostEndsAt + Len(PortText)
         /\ Port # <<>> => Piece(PortText, 0, <<":">>) /\ Piece(PortText, 1, Port)
<1>1. Port \in Texts /\ Len(Port) \in Nat /\ HostEndsAt \in Nat
  BY PartsTyped, TextTyped, Lengths
<1>2. CASE Port = <<>>
  BY <1>1, <1>2, Marks DEF PortText, After, PortEndsAt
<1>3. CASE Port # <<>>
  <2>1. PortText = <<":">> \o Port /\ PortEndsAt = HostEndsAt + 1 + Len(Port)
    BY <1>3 DEF PortText, After, PortEndsAt
  <2>2. /\ <<":">> \o Port \in Texts /\ Len(<<":">> \o Port) = 1 + Len(Port)
        /\ Piece(<<":">> \o Port, 0, <<":">>) /\ Piece(<<":">> \o Port, 1, Port)
    BY <1>1, Marks, Joined
  <2> QED
    BY <1>1, <2>1, <2>2
<1> QED
  BY <1>2, <1>3

LEMMA PieceInPiece ==
  ASSUME NEW s \in Texts, NEW q \in Texts, NEW p \in Texts, NEW i \in Nat, NEW j \in Nat,
         Piece(s, i, q), Piece(q, j, p)
  PROVE  Piece(s, i + j, p)
<1>1. Len(s) \in Nat /\ Len(p) \in Nat /\ Len(q) \in Nat
  BY TextTyped
<1>2. ASSUME NEW k \in 1 .. Len(p)
      PROVE  s[i + j + k] = p[k]
  <2>1. j + k \in 1 .. Len(q) /\ i + (j + k) = i + j + k
    BY <1>1 DEF Piece
  <2> QED
    BY <2>1 DEF Piece
<1> QED
  BY <1>1, <1>2 DEF Piece

Rest == TailPart \o <<"/">>

LEMMA RestIs ==
  ASSUME given \in URLs
  PROVE  /\ Rest \in Texts /\ Len(Rest) = Len(TailPart) + 1 /\ Rest[1] = "/"
         /\ Rest = Append(TailPart, "/")
<1>1. TailPart \in Texts /\ Len(TailPart) \in Nat /\ (TailPart # <<>> => TailPart[1] = "/")
  BY PartsTyped, TextTyped
<1>2. /\ Rest \in Texts /\ Len(Rest) = Len(TailPart) + 1
      /\ Piece(Rest, 0, TailPart) /\ Piece(Rest, Len(TailPart), <<"/">>)
  BY <1>1, Marks, Joined DEF Rest
<1>3. Rest[1] = "/"
  <2>1. CASE TailPart = <<>>
    <3>1. Len(TailPart) = 0 /\ Len(<<"/">>) = 1 /\ <<"/">>[1] = "/"
      BY <2>1, Marks
    <3> QED
      BY <1>2, <3>1 DEF Piece
  <2>2. CASE TailPart # <<>>
    <3>1. Len(TailPart) > 0 /\ Rest[0 + 1] = TailPart[1]
      BY <1>1, <1>2, <2>2, TextTyped DEF Piece
    <3> QED
      BY <1>1, <2>2, <3>1
  <2> QED
    BY <2>1, <2>2
<1>4. Rest = Append(TailPart, "/")
  BY <1>1 DEF Rest, Texts
<1> QED
  BY <1>2, <1>3, <1>4

(* The text of a URL, with the "/" that parse appends, is its pieces, each *)
(* at its offset.                                                          *)
LEMMA Layout ==
  ASSUME given \in URLs, m_url = Append(Text(given), "/")
  PROVE  /\ m_url \in Texts /\ Len(m_url) = PortEndsAt + Len(TailPart) + 1
         /\ Piece(m_url, 0, ProtoText) /\ Piece(m_url, AfterProto, UserText)
         /\ Piece(m_url, AfterUser, Host) /\ Piece(m_url, HostEndsAt, PortText)
         /\ Piece(m_url, PortEndsAt, Rest)
<1> DEFINE t1 == ProtoText \o UserText
           t2 == t1 \o Host
           t3 == t2 \o PortText
           t4 == t3 \o TailPart
<1>1. /\ AfterProto \in Nat /\ AfterUser \in Nat /\ HostEndsAt \in Nat /\ PortEndsAt \in Nat
      /\ AfterUser = AfterProto + Len(UserText) /\ HostEndsAt = AfterUser + Len(Host)
      /\ PortEndsAt = HostEndsAt + Len(PortText)
  BY Lengths, UserTextIs, PortTextIs
<1>2. /\ ProtoText \in Texts /\ Len(ProtoText) = AfterProto /\ UserText \in Texts
      /\ PortText \in Texts /\ Rest \in Texts /\ Len(Rest) = Len(TailPart) + 1
  BY ProtoTextIs, UserTextIs, PortTextIs, RestIs
<1>3. /\ Host \in Texts /\ TailPart \in Texts /\ Len(UserText) \in Nat /\ Len(Host) \in Nat
      /\ Len(PortText) \in Nat /\ Len(TailPart) \in Nat
  BY <1>2, PartsTyped, TextTyped DEF IsName
<1>4. m_url = Append(t4, "/")
  <2>1. Text(given) = t4
    <3>1. given.proto = Proto /\ given.host = Host /\ given.port = Port /\ given.tail = TailPart
      BY DEF Proto, Host, Port, TailPart
    <3>2. UserText = IF given.user = NoUser THEN <<>>
                     ELSE given.user.login \o <<":">> \o given.user.pass \o <<"@">>
      BY DEF UserText, HasUser, Login, Pass
    <3> QED
      BY <3>1, <3>2 DEF Text, ProtoText, PortText
  <2> QED
    BY <2>1
<1>5. /\ t1 \in Texts /\ Len(t1) = AfterUser
      /\ Piece(t1, 0, ProtoText) /\ Piece(t1, AfterProto, UserText)
  BY <1>1, <1>2, Joined
<1> HIDE DEF t1
<1>6. /\ t2 \in Texts /\ Len(t2) = HostEndsAt
      /\ Piece(t2, AfterUser, Host) /\ Piece(t2, 0, t1)
  BY <1>1, <1>3, <1>5, Joined
<1> HIDE DEF t2
<1>7. /\ t3 \in Texts /\ Len(t3) = PortEndsAt
      /\ Piece(t3, HostEndsAt, PortText) /\ Piece(t3, 0, t2)
  <2>1. /\ t3 \in Texts /\ Len(t3) = Len(t2) + Len(PortText)
        /\ Piece(t3, Len(t2), PortText) /\ Piece(t3, 0, t2)
    BY <1>2, <1>6, Joined
  <2> QED
    BY <1>1, <1>6, <2>1
<1> HIDE DEF t3
<1>8. m_url = t3 \o Rest
  <2>1. t4 \in Texts
    BY <1>3, <1>7, Joined
  <2>2. m_url = t4 \o <<"/">>
    <3>1. t4 \in Seq(Characters) /\ "/" \in Characters
      BY <2>1, PartsAssumption DEF Texts, Delimiters
    <3> QED
      BY <1>4, <3>1, AppendIsConcat
  <2>3. (t3 \o TailPart) \o <<"/">> = t3 \o (TailPart \o <<"/">>)
    <3> DEFINE slash == <<"/">>
    <3>1. slash \in Texts
      BY Marks
    <3> HIDE DEF slash, t4
    <3>2. (t3 \o TailPart) \o slash = t3 \o (TailPart \o slash)
      BY <1>3, <1>7, <3>1, JoinedTwice
    <3> QED
      BY <3>2 DEF slash
  <2> QED
    BY <2>2, <2>3 DEF Rest
<1>9. /\ m_url \in Texts /\ Len(m_url) = PortEndsAt + Len(TailPart) + 1
      /\ Piece(m_url, PortEndsAt, Rest) /\ Piece(m_url, 0, t3)
  <2>1. /\ t3 \o Rest \in Texts /\ Len(t3 \o Rest) = Len(t3) + Len(Rest)
        /\ Piece(t3 \o Rest, Len(t3), Rest) /\ Piece(t3 \o Rest, 0, t3)
    BY <1>2, <1>7, Joined
  <2> QED
    <3> HIDE DEF t4
    <3>1. m_url \in Texts /\ Len(m_url) = PortEndsAt + (Len(TailPart) + 1)
      BY <1>2, <1>7, <1>8, <2>1
    <3>2. Piece(m_url, PortEndsAt, Rest) /\ Piece(m_url, 0, t3)
      BY <1>7, <1>8, <2>1
    <3> QED
      BY <1>1, <1>3, <3>1, <3>2
<1>10. Piece(m_url, 0 + HostEndsAt, PortText) /\ Piece(m_url, 0 + 0, t2)
  BY <1>1, <1>2, <1>6, <1>7, <1>9, PieceInPiece
<1>11. Piece(m_url, 0 + AfterUser, Host) /\ Piece(m_url, 0 + 0, t1)
  BY <1>1, <1>3, <1>5, <1>6, <1>9, <1>10, PieceInPiece
<1>12. Piece(m_url, 0 + 0, ProtoText) /\ Piece(m_url, 0 + AfterProto, UserText)
  BY <1>1, <1>2, <1>5, <1>9, <1>11, PieceInPiece
<1> QED
  BY <1>1, <1>9, <1>10, <1>11, <1>12

(* What the characters of the pieces are, and where each can be cut out.   *)
LEMMA CharactersOfPiece ==
  ASSUME NEW s \in Texts, NEW p \in Texts, NEW begin \in Nat, Piece(s, begin, p)
  PROVE  \A i \in begin .. begin + Len(p) - 1 : s[i + 1] = p[i + 1 - begin]
                                                  /\ i + 1 - begin \in 1 .. Len(p)
<1>1. Len(s) \in Nat /\ Len(p) \in Nat
  BY TextTyped
<1>2. TAKE i \in begin .. begin + Len(p) - 1
<1>3. i + 1 - begin \in 1 .. Len(p) /\ begin + (i + 1 - begin) = i + 1
  BY <1>1
<1> QED
  BY <1>3 DEF Piece

LEMMA NameIn ==
  ASSUME NEW s \in Texts, NEW p, IsName(p), NEW begin \in Nat, Piece(s, begin, p)
  PROVE  /\ \A i \in begin .. begin + Len(p) - 1 : s[i + 1] \notin Delimiters
         /\ SubSeq(s, begin + 1, begin + Len(p)) = p
<1>1. p \in Texts /\ \A i \in 1 .. Len(p) : p[i] \notin Delimiters
  BY DEF IsName
<1> QED
  BY <1>1, CharactersOfPiece, PieceSlice

LEMMA MarkIn ==
  ASSUME NEW s \in Texts, NEW begin \in Nat, NEW c, Piece(s, begin, <<c>>)
  PROVE  s[begin + 1] = c
BY DEF Piece

LEMMA ProtoIn ==
  ASSUME given \in URLs, m_url = Append(Text(given), "/"), Proto # <<>>
  PROVE  /\ \A i \in 0 .. Len(Proto) - 1 : m_url[i + 1] \notin Delimiters
         /\ m_url[Len(Proto) + 1] = ":" /\ m_url[Len(Proto) + 2] = "/"
         /\ m_url[Len(Proto) + 3] = "/"
         /\ SubSeq(m_url, 1, Len(Proto)) = Proto
<1>1. /\ m_url \in Texts /\ Piece(m_url, 0, ProtoText) /\ ProtoText = Proto \o <<":", "/", "/">>
      /\ IsName(Proto) /\ Proto \in Texts /\ Len(Proto) \in Nat
  BY Layout, ProtoTextIs, PartsTyped, TextTyped
<1>2. Piece(m_url, 0, Proto) /\ Piece(m_url, 0 + Len(Proto), <<":", "/", "/">>)
  <2> DEFINE mark == <<":", "/", "/">>
  <2>1. mark \in Texts /\ Piece(m_url, 0, Proto \o mark)
    BY <1>1, Marks
  <2> HIDE DEF mark
  <2>2. Piece(m_url, 0, Proto) /\ Piece(m_url, 0 + Len(Proto), mark)
    BY <1>1, <2>1, PieceSplit
  <2> QED
    BY <2>2 DEF mark
<1>3. /\ m_url[Len(Proto) + 1] = ":" /\ m_url[Len(Proto) + 2] = "/"
      /\ m_url[Len(Proto) + 3] = "/"
  BY <1>1, <1>2 DEF Piece
<1>4. /\ \A i \in 0 .. 0 + Len(Proto) - 1 : m_url[i + 1] \notin Delimiters
      /\ SubSeq(m_url, 0 + 1, 0 + Len(Proto)) = Proto
  BY <1>1, <1>2, NameIn
<1>5. /\ 0 + 1 = 1 /\ 0 + Len(Proto) = Len(Proto)
      /\ 0 .. 0 + Len(Proto) - 1 = 0 .. Len(Proto) - 1
  BY <1>1
<1> QED
  BY <1>3, <1>4, <1>5

LEMMA UserIn ==
  ASSUME given \in URLs, m_url = Append(Text(given), "/"), HasUser
  PROVE  /\ \A i \in AfterProto .. LoginEnd - 1 : m_url[i + 1] \notin Delimiters
         /\ m_url[LoginEnd + 1] = ":"
         /\ \A i \in LoginEnd + 1 .. AfterUser - 2 : m_url[i + 1] \notin Delimiters
         /\ m_url[AfterUser] = "@"
         /\ SubSeq(m_url, AfterProto + 1, LoginEnd) = Login
         /\ SubSeq(m_url, LoginEnd + 2, AfterUser - 1) = Pass
<1>1. /\ m_url \in Texts /\ Piece(m_url, AfterProto, UserText) /\ UserText \in Texts
      /\ Piece(UserText, 0, Login) /\ Piece(UserText, Len(Login), <<":">>)
      /\ Piece(UserText, Len(Login) + 1, Pass)
      /\ Piece(UserText, Len(Login) + 1 + Len(Pass), <<"@">>)
  BY Layout, UserTextIs
<1>2. /\ IsName(Login) /\ IsName(Pass) /\ Login \in Texts /\ Pass \in Texts
      /\ Len(Login) \in Nat /\ Len(Pass) \in Nat
      /\ AfterProto \in Nat /\ LoginEnd \in Nat /\ AfterUser \in Nat
      /\ LoginEnd = AfterProto + Len(Login) /\ AfterUser = LoginEnd + Len(Pass) + 2
  BY PartsTyped, TextTyped, Lengths
<1>3. Piece(m_url, AfterProto + 0, Login) /\ Piece(m_url, AfterProto + (Len(Login) + 1), Pass)
  BY <1>1, <1>2, PieceInPiece
<1>4. /\ Piece(m_url, AfterProto + Len(Login), <<":">>)
      /\ Piece(m_url, AfterProto + (Len(Login) + 1 + Len(Pass)), <<"@">>)
  BY <1>1, <1>2, Marks, PieceInPiece
<1>5. /\ AfterProto + (Len(Login) + 1) = LoginEnd + 1
      /\ AfterProto + (Len(Login) + 1 + Len(Pass)) = AfterUser - 1
      /\ AfterProto + 0 = AfterProto /\ AfterUser - 1 \in Nat /\ LoginEnd + 1 \in Nat
      /\ AfterUser - 1 + 1 = AfterUser /\ LoginEnd + 1 + Len(Pass) = AfterUser - 1
      /\ AfterUser - 1 - 1 = AfterUser - 2 /\ LoginEnd + 1 + 1 = LoginEnd + 2
  BY <1>2
<1>6. m_url[LoginEnd + 1] = ":" /\ m_url[AfterUser] = "@"
  <2>1. Piece(m_url, LoginEnd, <<":">>) /\ Piece(m_url, AfterUser - 1, <<"@">>)
    BY <1>2, <1>4, <1>5
  <2>2. m_url[LoginEnd + 1] = ":"
    BY <1>1, <1>2, <2>1, MarkIn
  <2>3. m_url[AfterUser - 1 + 1] = "@"
    BY <1>1, <1>5, <2>1, MarkIn
  <2> QED
    BY <1>5, <2>2, <2>3
<1>7. /\ \A i \in AfterProto .. AfterProto + Len(Login) - 1 : m_url[i + 1] \notin Delimiters
      /\ SubSeq(m_url, AfterProto + 1, AfterProto + Len(Login)) = Login
  BY <1>1, <1>2, <1>3, <1>5, NameIn
<1>8. /\ \A i \in LoginEnd + 1 .. LoginEnd + 1 + Len(Pass) - 1 : m_url[i + 1] \notin Delimiters
      /\ SubSeq(m_url, LoginEnd + 1 + 1, LoginEnd + 1 + Len(Pass)) = Pass
  BY <1>1, <1>2, <1>3, <1>5, NameIn
<1>9. /\ AfterProto .. AfterProto + Len(Login) - 1 = AfterProto .. LoginEnd - 1
      /\ LoginEnd + 1 .. LoginEnd + 1 + Len(Pass) - 1 = LoginEnd + 1 .. AfterUser - 2
      /\ AfterProto + Len(Login) = LoginEnd
  BY <1>2, <1>5
<1> QED
  BY <1>5, <1>6, <1>7, <1>8, <1>9

LEMMA HostIn ==
  ASSUME given \in URLs, m_url = Append(Text(given), "/")
  PROVE  /\ \A i \in AfterUser .. HostEndsAt - 1 : m_url[i + 1] \notin Delimiters
         /\ SubSeq(m_url, AfterUser + 1, HostEndsAt) = Host
<1>1. /\ m_url \in Texts /\ Piece(m_url, AfterUser, Host) /\ IsName(Host) /\ AfterUser \in Nat
      /\ HostEndsAt = AfterUser + Len(Host)
  BY Layout, PartsTyped, Lengths
<1>2. /\ \A i \in AfterUser .. AfterUser + Len(Host) - 1 : m_url[i + 1] \notin Delimiters
      /\ SubSeq(m_url, AfterUser + 1, AfterUser + Len(Host)) = Host
  BY <1>1, NameIn
<1>3. AfterUser .. AfterUser + Len(Host) - 1 = AfterUser .. HostEndsAt - 1
  BY <1>1
<1> QED
  BY <1>1, <1>2, <1>3

LEMMA PortIn ==
  ASSUME given \in URLs, m_url = Append(Text(given), "/"), Port # <<>>
  PROVE  /\ m_url[HostEndsAt + 1] = ":"
         /\ \A i \in HostEndsAt + 1 .. PortEndsAt - 1 : m_url[i + 1] \in Digits
         /\ SubSeq(m_url, HostEndsAt + 2, PortEndsAt) = Port
<1>1. /\ m_url \in Texts /\ Piece(m_url, HostEndsAt, PortText) /\ PortText \in Texts
      /\ Piece(PortText, 0, <<":">>) /\ Piece(PortText, 1, Port)
  BY Layout, PortTextIs
<1>2. /\ Port \in Texts /\ Len(Port) \in Nat /\ HostEndsAt \in Nat /\ HostEndsAt + 1 \in Nat
      /\ PortEndsAt = HostEndsAt + 1 + Len(Port)
      /\ \A i \in 1 .. Len(Port) : Port[i] \in Digits
      /\ HostEndsAt + 0 = HostEndsAt /\ HostEndsAt + 1 + 1 = HostEndsAt + 2
  <2>1. /\ Port \in Texts /\ Len(Port) \in Nat /\ HostEndsAt \in Nat
        /\ \A i \in 1 .. Len(Port) : Port[i] \in Digits
    BY PartsTyped, TextTyped, Lengths
  <2>2. PortEndsAt = HostEndsAt + Len(Port) + 1
    BY Lengths
  <2> QED
    BY <2>1, <2>2
<1>3. Piece(m_url, HostEndsAt + 0, <<":">>) /\ Piece(m_url, HostEndsAt + 1, Port)
  BY <1>1, <1>2, Marks, PieceInPiece
<1>4. m_url[HostEndsAt + 1] = ":"
  BY <1>1, <1>2, <1>3, MarkIn
<1>5. /\ \A i \in HostEndsAt + 1 .. HostEndsAt + 1 + Len(Port) - 1 :
           m_url[i + 1] = Port[i + 1 - (HostEndsAt + 1)]
             /\ i + 1 - (HostEndsAt + 1) \in 1 .. Len(Port)
      /\ SubSeq(m_url, HostEndsAt + 1 + 1, HostEndsAt + 1 + Len(Port)) = Port
  BY <1>1, <1>2, <1>3, CharactersOfPiece, PieceSlice
<1>6. HostEndsAt + 1 .. HostEndsAt + 1 + Len(Port) - 1 = HostEndsAt + 1 .. PortEndsAt - 1
  BY <1>2
<1>7. \A i \in HostEndsAt + 1 .. PortEndsAt - 1 : m_url[i + 1] \in Digits
  BY <1>2, <1>5, <1>6
<1>8. SubSeq(m_url, HostEndsAt + 2, PortEndsAt) = Port
  BY <1>2, <1>5
<1> QED
  BY <1>4, <1>7, <1>8

LEMMA RestIn ==
  ASSUME given \in URLs, m_url = Append(Text(given), "/")
  PROVE  /\ m_url[PortEndsAt + 1] = "/"
         /\ SubSeq(m_url, PortEndsAt + 1, Len(m_url)) = Append(TailPart, "/")
<1>1. /\ m_url \in Texts /\ Piece(m_url, PortEndsAt, Rest) /\ Rest \in Texts
      /\ Len(m_url) = PortEndsAt + Len(TailPart) + 1 /\ Len(Rest) = Len(TailPart) + 1
      /\ Rest[1] = "/" /\ Rest = Append(TailPart, "/")
      /\ PortEndsAt \in Nat /\ Len(TailPart) \in Nat
  BY Layout, RestIs, Lengths, PartsTyped, TextTyped
<1>2. SubSeq(m_url, PortEndsAt + 1, PortEndsAt + Len(Rest)) = Rest
  BY <1>1, PieceSlice
<1>3. m_url[PortEndsAt + 1] = Rest[1]
  BY <1>1 DEF Piece
<1>4. PortEndsAt + Len(Rest) = Len(m_url)
  BY <1>1
<1> QED
  BY <1>1, <1>2, <1>3, <1>4

-----------------------------------------------------------------------------
(* What the searches find. *)

LEMMA FirstIs ==
  ASSUME NEW S \in SUBSET Int, NEW k \in S, \A j \in S : k <= j
  PROVE  First(S) = k
<1>1. First(S) = CHOOSE i \in S : \A j \in S : i <= j
  BY DEF First
<1>2. \A i \in S : (\A j \in S : i <= j) => i = k
  OBVIOUS
<1> QED
  BY <1>1, <1>2

LEMMA LastIs ==
  ASSUME NEW S \in SUBSET Int, NEW k \in S, \A j \in S : j <= k
  PROVE  Last(S) = k
<1>1. Last(S) = CHOOSE i \in S : \A j \in S : j <= i
  BY DEF Last
<1>2. \A i \in S : (\A j \in S : j <= i) => i = k
  OBVIOUS
<1> QED
  BY <1>1, <1>2

LEMMA FindsFirstOf ==
  ASSUME m_url \in Texts, NEW C, NEW i \in Nat, NEW k \in Nat, i <= k, k < Len(m_url),
         m_url[k + 1] \in C, \A j \in i .. k - 1 : m_url[j + 1] \notin C
  PROVE  find_first_of(C, i) = k
<1> DEFINE S == {j \in Offsets : j >= i /\ m_url[j + 1] \in C}
<1>1. Len(m_url) \in Nat
  BY TextTyped
<1>2. S \in SUBSET Int /\ k \in S /\ \A j \in S : k <= j
  BY <1>1 DEF Offsets
<1>3. find_first_of(C, i) = First(S)
  BY DEF find_first_of
<1> HIDE DEF S
<1> QED
  BY <1>2, <1>3, FirstIs

LEMMA FindsFirstNotOf ==
  ASSUME m_url \in Texts, NEW C, NEW i \in Nat, NEW k \in Nat, i <= k, k < Len(m_url),
         m_url[k + 1] \notin C, \A j \in i .. k - 1 : m_url[j + 1] \in C
  PROVE  find_first_not_of(C, i) = k
<1> DEFINE S == {j \in Offsets : j >= i /\ m_url[j + 1] \notin C}
<1>1. Len(m_url) \in Nat
  BY TextTyped
<1>2. S \in SUBSET Int /\ k \in S /\ \A j \in S : k <= j
  BY <1>1 DEF Offsets
<1>3. find_first_not_of(C, i) = First(S)
  BY DEF find_first_not_of
<1> HIDE DEF S
<1> QED
  BY <1>2, <1>3, FirstIs

LEMMA FindsLast ==
  ASSUME m_url \in Texts, NEW c, NEW i \in Int, NEW k \in Nat, k <= i, k < Len(m_url),
         m_url[k + 1] = c, \A j \in k + 1 .. i : m_url[j + 1] # c
  PROVE  rfind(c, i) = k
<1> DEFINE S == {j \in Offsets : j <= i /\ m_url[j + 1] = c}
<1>1. Len(m_url) \in Nat
  BY TextTyped
<1>2. S \in SUBSET Int /\ k \in S /\ \A j \in S : j <= k
  BY <1>1 DEF Offsets
<1>3. rfind(c, i) = Last(S)
  BY DEF rfind
<1> HIDE DEF S
<1> QED
  BY <1>2, <1>3, LastIs

LEMMA FindsNone ==
  ASSUME m_url \in Texts, NEW c, NEW i \in Int, \A j \in 0 .. i : m_url[j + 1] # c
  PROVE  rfind(c, i) = npos
<1>1. Len(m_url) \in Nat
  BY TextTyped
<1>2. {j \in Offsets : j <= i /\ m_url[j + 1] = c} = {}
  BY <1>1 DEF Offsets
<1> QED
  BY <1>2 DEF rfind, Last

LEMMA ProtoMark ==
  ASSUME m_url \in Texts, NEW i \in Nat
  PROVE  IsProtoMark(i) <=> /\ i + 2 < Len(m_url) /\ m_url[i + 1] = ":"
                            /\ m_url[i + 2] = "/" /\ m_url[i + 3] = "/"
<1>1. Len(m_url) \in Nat /\ m_url \in Seq(Characters)
  BY TextTyped DEF Texts
<1>2. ASSUME i + 2 < Len(m_url)
      PROVE  SubSeq(m_url, i + 1, i + 3) = <<m_url[i + 1], m_url[i + 2], m_url[i + 3]>>
  <2> DEFINE slice == SubSeq(m_url, i + 1, i + 3)
             mark == <<m_url[i + 1], m_url[i + 2], m_url[i + 3]>>
  <2>1. \A j \in i + 1 .. i + 3 : m_url[j] \in Characters
    BY <1>1, <1>2, ElementOfSeq
  <2>2. slice \in Seq(Characters) /\ Len(slice) = 3 /\ \A j \in 1 .. 3 : slice[j] = m_url[i + j]
    BY <1>1, <1>2, <2>1, SubSeqProperties
  <2>3. mark \in Seq(Characters) /\ Len(mark) = 3
    BY <2>1
  <2>4. \A j \in 1 .. 3 : slice[j] = mark[j]
    BY <1>1, <2>2
  <2> HIDE DEF slice, mark
  <2>5. slice = mark
    BY <2>2, <2>3, <2>4, SeqEqual
  <2> QED
    BY <2>5 DEF slice, mark
<1> QED
  BY <1>2 DEF IsProtoMark

LEMMA ProtoMarkFound ==
  ASSUME given \in URLs, m_url = Append(Text(given), "/"), Proto # <<>>
  PROVE  IsProtoMark(Len(Proto)) /\ find_proto_mark = Len(Proto)
<1>1. /\ m_url \in Texts /\ Len(Proto) \in Nat /\ Len(m_url) \in Nat
      /\ Len(Proto) + 2 < Len(m_url)
  <2>1. /\ m_url \in Texts /\ Len(m_url) = PortEndsAt + Len(TailPart) + 1
    BY Layout
  <2>2. Len(TailPart) \in Nat
    BY TextTyped, PartsTyped
  <2>3. /\ AfterProto <= AfterUser /\ AfterUser < HostEndsAt /\ HostEndsAt <= PortEndsAt
        /\ AfterProto \in Nat /\ AfterUser \in Nat /\ HostEndsAt \in Nat /\ PortEndsAt \in Nat
        /\ AfterProto = Len(Proto) + 3 /\ Len(Proto) \in Nat
    BY Lengths
  <2> QED
    BY <2>1, <2>2, <2>3
<1>2. IsProtoMark(Len(Proto))
  BY <1>1, ProtoIn, ProtoMark
<1>3. ASSUME NEW i \in 0 .. Len(Proto) - 1
      PROVE  ~IsProtoMark(i)
  <2>1. i \in Nat /\ m_url[i + 1] # ":"
    BY <1>1, ProtoIn DEF Delimiters
  <2> QED
    BY <1>1, <2>1, ProtoMark
<1> DEFINE S == {i \in Offsets : IsProtoMark(i)}
<1>4. S \in SUBSET Int /\ Len(Proto) \in S /\ \A j \in S : Len(Proto) <= j
  <2> HIDE DEF S
  <2>1. Len(Proto) \in Offsets
    BY <1>1 DEF Offsets
  <2>2. S \in SUBSET Int
    BY <1>1 DEF Offsets, S
  <2>3. \A j \in S : j >= 0 /\ j \in Int /\ IsProtoMark(j)
    BY <1>1 DEF Offsets, S
  <2> QED
    BY <1>1, <1>2, <1>3, <2>1, <2>2, <2>3 DEF S
<1>5. find_proto_mark = First(S)
  BY DEF find_proto_mark
<1> HIDE DEF S
<1> QED
  BY <1>2, <1>4, <1>5, FirstIs

-----------------------------------------------------------------------------
(* Where the parts are in the text, and how far the pass over a first URL  *)
(* can have come: a part is found at its place, or not yet set.            *)
PartAt(begin, end) == [begin |-> begin, end |-> end]
Nowhere == PartAt(0, 0)

ProtoPart == PartAt(0, Len(Proto))
LoginPart == IF HasUser THEN PartAt(AfterProto, LoginEnd) ELSE Nowhere
PassPart == IF HasUser THEN PartAt(LoginEnd + 1, AfterUser - 1) ELSE Nowhere
HostPart == PartAt(AfterUser, HostEndsAt)
PortPart == IF Port # <<>> THEN PartAt(HostEndsAt + 1, PortEndsAt) ELSE Nowhere
TailPartAt == PartAt(PortEndsAt + 1, Len(m_url))

Cut(parts, proto, login, pass, host, port, tail) ==
  /\ parts \in [PartNames -> [begin : Int, end : Int]]
  /\ parts.proto = proto /\ parts.login = login /\ parts.pass = pass
  /\ parts.host = host /\ parts.port = port /\ parts.tail = tail

AtStart ==
  /\ Proto # <<>> /\ offset = 0
  /\ Cut(m, Nowhere, Nowhere, Nowhere, Nowhere, Nowhere, Nowhere)
BeforeUser ==
  /\ HasUser /\ offset = AfterProto
  /\ Cut(m, ProtoPart, Nowhere, Nowhere, Nowhere, Nowhere, Nowhere)
BeforePass ==
  /\ HasUser /\ offset = LoginEnd + 1
  /\ Cut(m, ProtoPart, LoginPart, Nowhere, Nowhere, Nowhere, Nowhere)
BeforeHost ==
  /\ offset = AfterUser
  /\ Cut(m, ProtoPart, LoginPart, PassPart, Nowhere, Nowhere, Nowhere)
BeforeTail ==
  /\ Port # <<>> /\ offset = PortEndsAt
  /\ Cut(m, ProtoPart, LoginPart, PassPart, HostPart, PortPart, Nowhere)
AllFound == Cut(m, ProtoPart, LoginPart, PassPart, HostPart, PortPart, TailPartAt)

OnTheWay == AtStart \/ BeforeUser \/ BeforePass \/ BeforeHost \/ BeforeTail

FirstParse ==
  \/ at = "parsing" /\ ~m_valid /\ OnTheWay
  \/ at = "ready" /\ AllFound

(* Of an object that is used again it is only known that no search has     *)
(* gone past the slash that follows the host and the port: the parts of    *)
(* the last URL lie anywhere in the new text.                              *)
AnyParse == m_url = Append(Text(given), "/") /\ offset \in 0 .. PortEndsAt

UrlInv ==
  /\ given \in URLs
  /\ parses \in Nat
  /\ parses = 0 => at = "ready" /\ ~m_valid /\ m = NoParts
  /\ parses > 0 => AnyParse
  /\ parses = 1 => FirstParse

-----------------------------------------------------------------------------
(* Where the pieces begin and end is inside of the text.                   *)
LEMMA Places ==
  ASSUME given \in URLs, m_url = Append(Text(given), "/")
  PROVE  /\ m_url \in Texts /\ Len(m_url) \in Nat /\ PortEndsAt < Len(m_url)
         /\ Len(Proto) \in Nat /\ AfterProto \in Nat /\ LoginEnd \in Nat /\ AfterUser \in Nat
         /\ HostEndsAt \in Nat /\ PortEndsAt \in Nat
         /\ AfterProto <= AfterUser /\ AfterUser < HostEndsAt /\ HostEndsAt <= PortEndsAt
         /\ Proto = <<>> => Len(Proto) = 0 /\ AfterProto = 0
         /\ Proto # <<>> => Len(Proto) > 0 /\ AfterProto = Len(Proto) + 3
         /\ HasUser => AfterProto < LoginEnd /\ LoginEnd + 2 < AfterUser
         /\ ~HasUser => AfterUser = AfterProto
         /\ Port = <<>> => PortEndsAt = HostEndsAt
         /\ Port # <<>> => HostEndsAt + 1 < PortEndsAt
<1>1. m_url \in Texts /\ Len(m_url) = PortEndsAt + Len(TailPart) + 1 /\ Len(m_url) \in Nat
  BY Layout, TextTyped
<1>2. Len(TailPart) \in Nat
  BY PartsTyped, TextTyped
<1>3. PortEndsAt \in Nat /\ PortEndsAt < Len(m_url)
  BY <1>1, <1>2, Lengths
<1>4. AfterProto <= AfterUser /\ HostEndsAt <= PortEndsAt
  <2>1. AfterProto <= AfterUser
    <3>1. AfterProto \in Nat /\ LoginEnd \in Nat /\ AfterUser \in Nat
      BY Lengths
    <3>2. HasUser => AfterProto < LoginEnd /\ LoginEnd + 2 < AfterUser
      BY Lengths
    <3>3. ~HasUser => AfterUser = AfterProto
      BY Lengths
    <3> QED
      BY <3>1, <3>2, <3>3
  <2>2. HostEndsAt <= PortEndsAt
    <3>1. HostEndsAt \in Nat /\ PortEndsAt \in Nat
      BY Lengths
    <3>2. Port = <<>> => PortEndsAt = HostEndsAt
      BY Lengths
    <3>3. Port # <<>> => HostEndsAt + 1 < PortEndsAt
      BY Lengths
    <3> QED
      BY <3>1, <3>2, <3>3
  <2> QED
    BY <2>1, <2>2
<1> QED
  BY <1>1, <1>3, <1>4, Lengths

(* The first delimiter of what is left at each stage.                      *)
LEMMA FoundAtStart ==
  ASSUME given \in URLs, m_url = Append(Text(given), "/"), Proto # <<>>, offset = 0
  PROVE  Found = Len(Proto)
<1>1. /\ m_url \in Texts /\ Len(Proto) \in Nat /\ Len(Proto) < Len(m_url)
      /\ m_url[Len(Proto) + 1] \in Delimiters
      /\ \A j \in 0 .. Len(Proto) - 1 : m_url[j + 1] \notin Delimiters
  BY Places, ProtoIn DEF Delimiters
<1>2. find_first_of(Delimiters, 0) = Len(Proto)
  BY <1>1, FindsFirstOf
<1> QED
  BY <1>2 DEF Found

LEMMA FoundBeforeUser ==
  ASSUME given \in URLs, m_url = Append(Text(given), "/"), HasUser, offset = AfterProto
  PROVE  Found = LoginEnd
<1>1. /\ m_url \in Texts /\ AfterProto \in Nat /\ LoginEnd \in Nat /\ LoginEnd < Len(m_url)
      /\ AfterProto <= LoginEnd /\ m_url[LoginEnd + 1] \in Delimiters
      /\ \A j \in AfterProto .. LoginEnd - 1 : m_url[j + 1] \notin Delimiters
  <2>1. /\ m_url \in Texts /\ AfterProto \in Nat /\ LoginEnd \in Nat /\ LoginEnd < Len(m_url)
        /\ AfterProto <= LoginEnd
    BY Places
  <2>2. m_url[LoginEnd + 1] \in Delimiters
    BY UserIn DEF Delimiters
  <2> QED
    BY <2>1, <2>2, UserIn
<1>2. find_first_of(Delimiters, AfterProto) = LoginEnd
  BY <1>1, FindsFirstOf
<1> QED
  BY <1>2 DEF Found

LEMMA FoundBeforePass ==
  ASSUME given \in URLs, m_url = Append(Text(given), "/"), HasUser, offset = LoginEnd + 1
  PROVE  Found = AfterUser - 1
<1>1. /\ m_url \in Texts /\ LoginEnd + 1 \in Nat /\ AfterUser - 1 \in Nat
      /\ AfterUser - 1 < Len(m_url) /\ LoginEnd + 1 <= AfterUser - 1
      /\ LoginEnd + 1 .. AfterUser - 1 - 1 = LoginEnd + 1 .. AfterUser - 2
      /\ AfterUser - 1 + 1 = AfterUser
  BY Places
<1>2. m_url[AfterUser - 1 + 1] \in Delimiters
  BY <1>1, UserIn DEF Delimiters
<1>3. \A j \in LoginEnd + 1 .. AfterUser - 1 - 1 : m_url[j + 1] \notin Delimiters
  BY <1>1, UserIn
<1>4. find_first_of(Delimiters, LoginEnd + 1) = AfterUser - 1
  BY <1>1, <1>2, <1>3, FindsFirstOf
<1> QED
  BY <1>4 DEF Found

LEMMA FoundBeforeHost ==
  ASSUME given \in URLs, m_url = Append(Text(given), "/"), offset = AfterUser
  PROVE  Found = HostEndsAt
<1>1. /\ m_url \in Texts /\ AfterUser \in Nat /\ HostEndsAt \in Nat
      /\ HostEndsAt < Len(m_url) /\ AfterUser <= HostEndsAt
  BY Places
<1>2. m_url[HostEndsAt + 1] \in Delimiters
  BY Places, PortIn, RestIn DEF Delimiters
<1>3. \A j \in AfterUser .. HostEndsAt - 1 : m_url[j + 1] \notin Delimiters
  BY HostIn
<1>4. find_first_of(Delimiters, AfterUser) = HostEndsAt
  BY <1>1, <1>2, <1>3, FindsFirstOf
<1> QED
  BY <1>4 DEF Found

LEMMA FoundBeforeTail ==
  ASSUME given \in URLs, m_url = Append(Text(given), "/"), offset = PortEndsAt
  PROVE  Found = PortEndsAt
<1>1. /\ m_url \in Texts /\ PortEndsAt \in Nat /\ PortEndsAt < Len(m_url)
      /\ \A j \in PortEndsAt .. PortEndsAt - 1 : m_url[j + 1] \notin Delimiters
  BY Places
<1>2. m_url[PortEndsAt + 1] \in Delimiters
  BY RestIn DEF Delimiters
<1>3. find_first_of(Delimiters, PortEndsAt) = PortEndsAt
  BY <1>1, <1>2, FindsFirstOf
<1> QED
  BY <1>3 DEF Found

(* The colon after a login begins no port and no proto, even where the     *)
(* password begins with digits or is a number: what stops the digits is a  *)
(* character of the password or the "@".                                   *)
LEMMA LoginIsNoPort ==
  ASSUME given \in URLs, m_url = Append(Text(given), "/"), HasUser
  PROVE  ~IsProtoMark(LoginEnd) /\ m_url[PortEnd(LoginEnd) + 1] # "/"
<1>1. /\ m_url \in Texts /\ Len(m_url) \in Nat /\ LoginEnd \in Nat /\ AfterUser \in Nat
      /\ LoginEnd + 2 < AfterUser /\ AfterUser < Len(m_url)
  BY Places
<1>2. ~IsProtoMark(LoginEnd)
  <2>1. m_url[LoginEnd + 1 + 1] \notin Delimiters
    BY <1>1, UserIn
  <2>2. LoginEnd + 1 + 1 = LoginEnd + 2
    BY <1>1
  <2>3. m_url[LoginEnd + 2] # "/"
    BY <2>1, <2>2 DEF Delimiters
  <2> QED
    BY <1>1, <2>3, ProtoMark
<1> DEFINE T == {j \in Nat : LoginEnd + 1 <= j /\ j < Len(m_url) /\ m_url[j + 1] \notin Digits}
<1>3. AfterUser - 1 \in T
  <2>1. m_url[AfterUser - 1 + 1] = "@"
    <3>1. AfterUser - 1 + 1 = AfterUser
      BY <1>1
    <3> QED
      BY <3>1, UserIn
  <2>2. "@" \notin Digits
    BY DEF Digits
  <2> QED
    BY <1>1, <2>1, <2>2
<1>4. PICK k \in T : \A j \in T : k <= j
  <2> HIDE DEF T
  <2>1. T \subseteq Nat /\ T # {}
    BY <1>3 DEF T
  <2> QED
    BY <2>1, LeastNumber
<1>5. /\ k \in Nat /\ LoginEnd + 1 <= k /\ k < Len(m_url) /\ m_url[k + 1] \notin Digits
      /\ k <= AfterUser - 1
      /\ \A j \in LoginEnd + 1 .. k - 1 : m_url[j + 1] \in Digits
  <2>1. /\ k \in Nat /\ LoginEnd + 1 <= k /\ k < Len(m_url) /\ m_url[k + 1] \notin Digits
        /\ k <= AfterUser - 1
    BY <1>3, <1>4
  <2>2. ASSUME NEW j \in LoginEnd + 1 .. k - 1, m_url[j + 1] \notin Digits
        PROVE  FALSE
    <3>1. j \in Nat /\ LoginEnd + 1 <= j /\ j < Len(m_url) /\ ~(k <= j)
      BY <1>1, <2>1
    <3>2. j \in T
      BY <2>2, <3>1
    <3> HIDE DEF T
    <3> QED
      BY <1>4, <3>1, <3>2
  <2> QED
    BY <2>1, <2>2
<1>6. PortEnd(LoginEnd) = k
  <2>1. LoginEnd + 1 \in Nat
    BY <1>1
  <2> QED
    BY <1>1, <1>5, <2>1, FindsFirstNotOf DEF PortEnd
<1>7. m_url[k + 1] # "/"
  <2>1. CASE k = AfterUser - 1
    <3>1. k + 1 = AfterUser
      BY <1>1, <2>1
    <3> QED
      BY <3>1, UserIn
  <2>2. CASE k # AfterUser - 1
    <3>1. k \in LoginEnd + 1 .. AfterUser - 2
      BY <1>1, <1>5, <2>2
    <3> QED
      BY <3>1, UserIn DEF Delimiters
  <2> QED
    BY <2>1, <2>2
<1> QED
  BY <1>2, <1>6, <1>7

(* The login begins behind the last slash of "://", or at the start.       *)
LEMMA SlashOfLogin ==
  ASSUME given \in URLs, m_url = Append(Text(given), "/"), HasUser
  PROVE  LET slash == rfind("/", LoginEnd)
         IN /\ slash # npos => m_url[slash] = "/"
            /\ (IF slash = npos THEN 0 ELSE slash + 1) = AfterProto
<1>1. /\ m_url \in Texts /\ Len(m_url) \in Nat /\ LoginEnd \in Nat /\ AfterProto \in Nat
      /\ AfterProto < LoginEnd /\ LoginEnd < Len(m_url) /\ Len(Proto) \in Nat
      /\ Proto # <<>> => AfterProto = Len(Proto) + 3
      /\ Proto = <<>> => AfterProto = 0
  <2>1. /\ m_url \in Texts /\ Len(m_url) \in Nat /\ LoginEnd \in Nat /\ AfterProto \in Nat
        /\ AfterProto < LoginEnd /\ LoginEnd < Len(m_url) /\ Len(Proto) \in Nat
    BY Places
  <2> QED
    BY <2>1, Places
<1>2. ASSUME NEW j \in AfterProto .. LoginEnd
      PROVE  m_url[j + 1] # "/"
  <2>1. CASE j = LoginEnd
    BY <2>1, UserIn
  <2>2. CASE j # LoginEnd
    <3>1. j \in AfterProto .. LoginEnd - 1
      BY <1>1, <2>2
    <3> QED
      BY <3>1, UserIn DEF Delimiters
  <2> QED
    BY <2>1, <2>2
<1>3. CASE Proto = <<>>
  <2>1. \A j \in 0 .. LoginEnd : m_url[j + 1] # "/"
    BY <1>1, <1>2, <1>3
  <2>2. rfind("/", LoginEnd) = npos
    BY <1>1, <2>1, FindsNone
  <2> QED
    BY <1>1, <1>3, <2>2
<1>4. CASE Proto # <<>>
  <2> DEFINE k == AfterProto - 1
  <2>1. /\ k \in Nat /\ k <= LoginEnd /\ k < Len(m_url) /\ k + 1 = Len(Proto) + 3
        /\ k = Len(Proto) + 2 /\ k + 1 = AfterProto
    BY <1>1, <1>4
  <2>2. m_url[k + 1] = "/" /\ m_url[k] = "/"
    BY <1>4, <2>1, ProtoIn
  <2> HIDE DEF k
  <2>3. \A j \in k + 1 .. LoginEnd : m_url[j + 1] # "/"
    BY <1>2, <2>1
  <2>4. rfind("/", LoginEnd) = k
    <3>1. m_url \in Texts /\ LoginEnd \in Int /\ k \in Nat /\ k <= LoginEnd /\ k < Len(m_url)
      BY <1>1, <2>1
    <3> QED
      BY <2>2, <2>3, <3>1, FindsLast
  <2> QED
    BY <2>1, <2>2, <2>4 DEF npos
<1> QED
  BY <1>3, <1>4

LEMMA ColonOfPass ==
  ASSUME given \in URLs, m_url = Append(Text(given), "/"), HasUser
  PROVE  rfind(":", AfterUser - 2) = LoginEnd
<1>1. /\ m_url \in Texts /\ Len(m_url) \in Nat /\ LoginEnd \in Nat /\ AfterUser - 2 \in Int
      /\ LoginEnd <= AfterUser - 2 /\ LoginEnd < Len(m_url)
  BY Places
<1>2. m_url[LoginEnd + 1] = ":"
  BY UserIn
<1>3. \A j \in LoginEnd + 1 .. AfterUser - 2 : m_url[j + 1] # ":"
  BY UserIn DEF Delimiters
<1> QED
  BY <1>1, <1>2, <1>3, FindsLast

LEMMA PortIsFound ==
  ASSUME given \in URLs, m_url = Append(Text(given), "/"), Port # <<>>
  PROVE  PortEnd(HostEndsAt) = PortEndsAt /\ ~IsProtoMark(HostEndsAt)
<1>1. /\ m_url \in Texts /\ HostEndsAt \in Nat /\ HostEndsAt + 1 \in Nat /\ PortEndsAt \in Nat
      /\ HostEndsAt + 1 < PortEndsAt /\ PortEndsAt < Len(m_url)
  BY Places
<1>2. /\ m_url[PortEndsAt + 1] = "/"
      /\ \A j \in HostEndsAt + 1 .. PortEndsAt - 1 : m_url[j + 1] \in Digits
  BY PortIn, RestIn
<1>3. "/" \notin Digits
  BY DEF Digits
<1>4. find_first_not_of(Digits, HostEndsAt + 1) = PortEndsAt
  BY <1>1, <1>2, <1>3, FindsFirstNotOf
<1>5. m_url[HostEndsAt + 2] # "/"
  <2>1. /\ HostEndsAt + 1 \in HostEndsAt + 1 .. PortEndsAt - 1
        /\ HostEndsAt + 1 + 1 = HostEndsAt + 2
    BY <1>1
  <2> QED
    BY <1>2, <1>3, <2>1
<1> QED
  BY <1>1, <1>4, <1>5, ProtoMark DEF PortEnd

(* Whatever ends the host, a port or the tail, fill_host is called when    *)
(* the user and the port are known, and finds both of its ends.            *)
LEMMA HostIsFound ==
  ASSUME given \in URLs, m_url = Append(Text(given), "/"),
         NEW parts, parts.proto = ProtoPart, parts.pass = PassPart, parts.port = PortPart
  PROVE  HostBegin(parts, PortEndsAt) = AfterUser /\ HostEnd(parts, PortEndsAt) = HostEndsAt
<1>1. /\ m_url \in Texts /\ Len(m_url) \in Nat
      /\ Len(Proto) \in Nat /\ AfterProto \in Nat /\ LoginEnd \in Nat /\ AfterUser \in Nat
      /\ HostEndsAt \in Nat /\ PortEndsAt \in Nat /\ PortEndsAt < Len(m_url)
      /\ AfterUser < HostEndsAt /\ HostEndsAt <= PortEndsAt
  BY Places
<1>2. /\ Proto = <<>> => Len(Proto) = 0 /\ AfterProto = 0
      /\ Proto # <<>> => Len(Proto) > 0 /\ AfterProto = Len(Proto) + 3
      /\ HasUser => LoginEnd + 2 < AfterUser
      /\ ~HasUser => AfterUser = AfterProto
      /\ Port = <<>> => PortEndsAt = HostEndsAt
      /\ Port # <<>> => HostEndsAt + 1 < PortEndsAt
  BY Places
<1>3. ASSUME NEW j \in AfterUser .. PortEndsAt - 1
      PROVE  m_url[j + 1] # "@"
  <2>1. CASE j < HostEndsAt
    <3>1. j \in AfterUser .. HostEndsAt - 1
      BY <1>1, <2>1
    <3> QED
      BY <3>1, HostIn DEF Delimiters
  <2>2. CASE j >= HostEndsAt
    <3>1. Port # <<>>
      BY <1>1, <1>2, <2>2
    <3>2. CASE j = HostEndsAt
      BY <3>1, <3>2, PortIn
    <3>3. CASE j # HostEndsAt
      <4>1. j \in HostEndsAt + 1 .. PortEndsAt - 1
        BY <1>1, <2>2, <3>3
      <4> QED
        BY <3>1, <4>1, PortIn DEF Digits
    <3> QED
      BY <3>2, <3>3
  <2> QED
    BY <1>1, <2>1, <2>2
<1>4. HostBegin(parts, PortEndsAt) = AfterUser
  <2>1. CASE HasUser
    <3>1. IsSet(parts.pass)
      BY <1>1, <1>2, <2>1 DEF IsSet, PassPart, PartAt
    <3>2. m_url[AfterUser - 1 + 1] = "@"
      <4>1. AfterUser - 1 + 1 = AfterUser
        BY <1>1
      <4> QED
        BY <2>1, <4>1, UserIn
    <3>3. /\ AfterUser - 1 \in Nat /\ AfterUser - 1 <= PortEndsAt - 1 /\ PortEndsAt - 1 \in Int
          /\ AfterUser - 1 < Len(m_url) /\ AfterUser - 1 + 1 = AfterUser
      BY <1>1, <1>2, <2>1
    <3>4. rfind("@", PortEndsAt - 1) = AfterUser - 1
      BY <1>1, <1>3, <3>2, <3>3, FindsLast
    <3> QED
      BY <3>1, <3>3, <3>4 DEF HostBegin
  <2>2. CASE ~HasUser
    <3>1. ~IsSet(parts.pass)
      BY <2>2 DEF IsSet, PassPart, PartAt, Nowhere
    <3>2. CASE Proto = <<>>
      <4>1. ~IsSet(parts.proto)
        BY <1>2, <3>2 DEF IsSet, ProtoPart, PartAt
      <4> QED
        BY <1>2, <2>2, <3>1, <3>2, <4>1 DEF HostBegin
    <3>3. CASE Proto # <<>>
      <4>1. IsSet(parts.proto)
        BY <1>1, <1>2, <3>3 DEF IsSet, ProtoPart, PartAt
      <4>2. find_proto_mark = Len(Proto)
        BY <3>3, ProtoMarkFound
      <4> QED
        BY <1>2, <2>2, <3>1, <3>3, <4>1, <4>2 DEF HostBegin
    <3> QED
      BY <3>2, <3>3
  <2> QED
    BY <2>1, <2>2
<1>5. HostEnd(parts, PortEndsAt) = HostEndsAt
  <2>1. CASE Port = <<>>
    <3>1. ~IsSet(parts.port)
      BY <2>1 DEF IsSet, PortPart, PartAt, Nowhere
    <3> QED
      BY <1>2, <2>1, <3>1 DEF HostEnd
  <2>2. CASE Port # <<>>
    <3>1. IsSet(parts.port)
      BY <1>1, <1>2, <2>2 DEF IsSet, PortPart, PartAt
    <3>2. m_url[HostEndsAt + 1] = ":" /\ HostEndsAt < Len(m_url)
      BY <1>1, <2>2, PortIn
    <3>3. ASSUME NEW j \in HostEndsAt + 1 .. PortEndsAt
          PROVE  m_url[j + 1] # ":"
      <4>1. CASE j = PortEndsAt
        BY <4>1, RestIn
      <4>2. CASE j # PortEndsAt
        <5>1. j \in HostEndsAt + 1 .. PortEndsAt - 1
          BY <1>1, <4>2
        <5> QED
          BY <2>2, <5>1, PortIn DEF Digits
      <4> QED
        BY <4>1, <4>2
    <3>4. rfind(":", PortEndsAt) = HostEndsAt
      <4>1. /\ m_url \in Texts /\ PortEndsAt \in Int /\ HostEndsAt \in Nat
            /\ HostEndsAt <= PortEndsAt /\ HostEndsAt < Len(m_url)
        BY <1>1
      <4> QED
        BY <3>2, <3>3, <4>1, FindsLast
    <3> QED
      BY <1>1, <3>1, <3>4 DEF HostEnd, npos
  <2> QED
    BY <2>1, <2>2
<1> QED
  BY <1>4, <1>5

-----------------------------------------------------------------------------
(* The steps of the parse, stage by stage.                                 *)
ParseNext ==
  fill_proto \/ fill_port \/ fill_login \/ fill_pass \/ fill_tail \/ parse_fails

LEMMA PlacesKept ==
  ASSUME UNCHANGED given
  PROVE  /\ UNCHANGED <<Proto, HasUser, Port, Text(given)>>
         /\ UNCHANGED <<AfterProto, LoginEnd, AfterUser, HostEndsAt, PortEndsAt>>
         /\ UNCHANGED <<Nowhere, ProtoPart, LoginPart, PassPart, HostPart, PortPart>>
         /\ UNCHANGED m_url => UNCHANGED TailPartAt
<1>1. UNCHANGED <<Proto, Login, Pass, HasUser, Host, Port, Text(given)>>
  BY DEF Proto, Login, Pass, HasUser, Host, Port
<1>2. AfterProto' = AfterProto
  BY <1>1 DEF AfterProto
<1>3. LoginEnd' = LoginEnd
  BY <1>1, <1>2 DEF LoginEnd
<1>4. AfterUser' = AfterUser
  BY <1>1, <1>2, <1>3 DEF AfterUser
<1>5. HostEndsAt' = HostEndsAt
  BY <1>1, <1>4 DEF HostEndsAt
<1>6. PortEndsAt' = PortEndsAt
  BY <1>1, <1>5 DEF PortEndsAt
<1>7. UNCHANGED <<Nowhere, ProtoPart, HostPart>>
  BY <1>1, <1>4, <1>5 DEF Nowhere, ProtoPart, HostPart, PartAt
<1>8. UNCHANGED <<LoginPart, PassPart, PortPart>>
  BY <1>1, <1>2, <1>3, <1>4, <1>5, <1>6, <1>7 DEF LoginPart, PassPart, PortPart, PartAt
<1>9. UNCHANGED m_url => UNCHANGED TailPartAt
  BY <1>6 DEF TailPartAt, PartAt
<1> QED
  BY <1>1, <1>2, <1>3, <1>4, <1>5, <1>6, <1>7, <1>8, <1>9

(* No assertion of SubString::set fails on a part that is found.           *)
LEMMA PlacedPart ==
  ASSUME given \in URLs, m_url = Append(Text(given), "/"),
         NEW part \in {Nowhere, ProtoPart, LoginPart, PassPart, HostPart, PortPart, TailPartAt}
  PROVE  part \in [begin : Int, end : Int] /\ Proper(part)
<1>1. /\ Len(m_url) \in Nat /\ PortEndsAt < Len(m_url)
      /\ Len(Proto) \in Nat /\ AfterProto \in Nat /\ LoginEnd \in Nat /\ AfterUser \in Nat
      /\ HostEndsAt \in Nat /\ PortEndsAt \in Nat /\ AfterUser < HostEndsAt
  BY Places
<1>2. /\ HasUser => AfterProto < LoginEnd /\ LoginEnd + 2 < AfterUser
      /\ Port # <<>> => HostEndsAt + 1 < PortEndsAt
  BY Places
<1>3. CASE part = Nowhere
  BY <1>3 DEF Nowhere, PartAt, Proper
<1>4. CASE part = ProtoPart
  BY <1>1, <1>4 DEF ProtoPart, PartAt, Proper
<1>5. CASE part = LoginPart
  BY <1>1, <1>2, <1>5 DEF LoginPart, Nowhere, PartAt, Proper
<1>6. CASE part = PassPart
  BY <1>1, <1>2, <1>6 DEF PassPart, Nowhere, PartAt, Proper
<1>7. CASE part = HostPart
  BY <1>1, <1>7 DEF HostPart, PartAt, Proper
<1>8. CASE part = PortPart
  BY <1>1, <1>2, <1>8 DEF PortPart, Nowhere, PartAt, Proper
<1>9. CASE part = TailPartAt
  BY <1>1, <1>9 DEF TailPartAt, PartAt, Proper
<1> QED
  BY <1>3, <1>4, <1>5, <1>6, <1>7, <1>8, <1>9

LEMMA CutIsProper ==
  ASSUME NEW parts, NEW proto, NEW login, NEW pass, NEW host, NEW port, NEW tail,
         Cut(parts, proto, login, pass, host, port, tail),
         Proper(proto), Proper(login), Proper(pass), Proper(host), Proper(port), Proper(tail)
  PROVE  \A p \in DOMAIN parts : Proper(parts[p])
<1>1. DOMAIN parts = PartNames
  BY DEF Cut
<1>2. /\ Proper(parts["proto"]) /\ Proper(parts["login"]) /\ Proper(parts["pass"])
      /\ Proper(parts["host"]) /\ Proper(parts["port"]) /\ Proper(parts["tail"])
  BY DEF Cut
<1> QED
  BY <1>1, <1>2 DEF PartNames

LEMMA StepAtStart ==
  ASSUME given \in URLs, m_url = Append(Text(given), "/"), at = "parsing", ~m_valid,
         AtStart, ParseNext
  PROVE  FirstParse' /\ UNCHANGED <<given, parses>>
<1>1. /\ Proto # <<>> /\ offset = 0
      /\ Cut(m, Nowhere, Nowhere, Nowhere, Nowhere, Nowhere, Nowhere)
  BY DEF AtStart
<1>2. Len(Proto) \in Nat /\ Len(Proto) > 0 /\ AfterProto = Len(Proto) + 3
  BY <1>1, Places
<1>3. Found = Len(Proto) /\ m_url[Found + 1] = ":"
  BY <1>1, FoundAtStart, ProtoIn
<1>4. IsProto
  <2>1. ~IsSet(m.proto)
    BY <1>1 DEF Cut, IsSet, Nowhere, PartAt
  <2> QED
    BY <1>1, <1>3, <2>1, ProtoMarkFound DEF IsProto
<1>5. fill_proto
  BY <1>3, <1>4
  DEF ParseNext, fill_port, fill_login, fill_pass, fill_tail, parse_fails, At
<1> DEFINE parts == [m EXCEPT !.proto = ProtoPart]
<1>6. Continue(parts, AfterProto)
  <2>1. SubString(0, Found) = ProtoPart
    BY <1>2, <1>3 DEF SubString, ProtoPart, PartAt
  <2>2. Found + 3 = AfterProto
    BY <1>2, <1>3
  <2> QED
    BY <1>5, <2>1, <2>2 DEF fill_proto
<1>7. Cut(parts, ProtoPart, Nowhere, Nowhere, Nowhere, Nowhere, Nowhere)
  BY <1>1, PlacedPart DEF Cut, PartNames
<1> HIDE DEF parts
<1>8. /\ UNCHANGED <<given, m_url, m_valid, parses>>
      /\ m' = parts /\ offset' = AfterProto /\ at' = "parsing"
  <2>1. \A p \in DOMAIN parts : Proper(parts[p])
    BY <1>7, PlacedPart, CutIsProper
  <2> QED
    BY <1>6, <2>1 DEF Continue
<1>9. OnTheWay'
  <2>1. CASE HasUser
    <3>1. BeforeUser'
      BY <1>7, <1>8, <2>1, PlacesKept DEF BeforeUser
    <3> QED
      BY <3>1 DEF OnTheWay
  <2>2. CASE ~HasUser
    <3>1. LoginPart = Nowhere /\ PassPart = Nowhere /\ AfterUser = AfterProto
      BY <2>2, Places DEF LoginPart, PassPart
    <3>2. BeforeHost'
      BY <1>7, <1>8, <3>1, PlacesKept DEF BeforeHost
    <3> QED
      BY <3>2 DEF OnTheWay
  <2> QED
    BY <2>1, <2>2
<1> QED
  BY <1>8, <1>9, PlacesKept DEF FirstParse

LEMMA StepBeforeUser ==
  ASSUME given \in URLs, m_url = Append(Text(given), "/"), at = "parsing", ~m_valid,
         BeforeUser, ParseNext
  PROVE  FirstParse' /\ UNCHANGED <<given, parses>>
<1>1. /\ HasUser /\ offset = AfterProto
      /\ Cut(m, ProtoPart, Nowhere, Nowhere, Nowhere, Nowhere, Nowhere)
  BY DEF BeforeUser
<1>2. LoginEnd \in Nat /\ AfterProto \in Nat /\ AfterProto < LoginEnd
  BY <1>1, Places
<1>3. Found = LoginEnd /\ m_url[Found + 1] = ":"
  BY <1>1, FoundBeforeUser, UserIn
<1>4. ~IsProto /\ ~IsPort
  BY <1>1, <1>3, LoginIsNoPort DEF IsProto, IsPort
<1>5. IsLogin /\ (IF Slash = npos THEN 0 ELSE Slash + 1) = AfterProto
  <2>1. ~IsSet(m.login)
    BY <1>1 DEF Cut, IsSet, Nowhere, PartAt
  <2>2. Slash = rfind("/", LoginEnd)
    BY <1>3 DEF Slash
  <2> QED
    BY <1>1, <2>1, <2>2, SlashOfLogin DEF IsLogin
<1>6. fill_login
  BY <1>3, <1>4, <1>5
  DEF ParseNext, fill_proto, fill_port, fill_pass, fill_tail, parse_fails, At
<1> DEFINE parts == [m EXCEPT !.login = LoginPart]
<1>7. Continue(parts, LoginEnd + 1)
  <2>1. SubString(AfterProto, LoginEnd) = LoginPart
    BY <1>1, <1>2 DEF SubString, LoginPart, PartAt
  <2>2. PastDelimiter(Found) = LoginEnd + 1
    BY <1>3 DEF PastDelimiter
  <2> QED
    BY <1>3, <1>5, <1>6, <2>1, <2>2 DEF fill_login
<1>8. Cut(parts, ProtoPart, LoginPart, Nowhere, Nowhere, Nowhere, Nowhere)
  BY <1>1, PlacedPart DEF Cut, PartNames
<1> HIDE DEF parts
<1>9. /\ UNCHANGED <<given, m_url, m_valid, parses>>
      /\ m' = parts /\ offset' = LoginEnd + 1 /\ at' = "parsing"
  <2>1. \A p \in DOMAIN parts : Proper(parts[p])
    BY <1>8, PlacedPart, CutIsProper
  <2> QED
    BY <1>7, <2>1 DEF Continue
<1>10. OnTheWay'
  <2>1. BeforePass'
    BY <1>1, <1>8, <1>9, PlacesKept DEF BeforePass
  <2> QED
    BY <2>1 DEF OnTheWay
<1> QED
  BY <1>9, <1>10, PlacesKept DEF FirstParse

LEMMA StepBeforePass ==
  ASSUME given \in URLs, m_url = Append(Text(given), "/"), at = "parsing", ~m_valid,
         BeforePass, ParseNext
  PROVE  FirstParse' /\ UNCHANGED <<given, parses>>
<1>1. /\ HasUser /\ offset = LoginEnd + 1
      /\ Cut(m, ProtoPart, LoginPart, Nowhere, Nowhere, Nowhere, Nowhere)
  BY DEF BeforePass
<1>2. /\ LoginEnd \in Nat /\ AfterProto \in Nat /\ AfterProto < LoginEnd /\ AfterUser \in Nat
      /\ LoginEnd + 2 < AfterUser
  BY <1>1, Places
<1>3. Found = AfterUser - 1 /\ m_url[Found + 1] = "@"
  <2>1. Found = AfterUser - 1 /\ AfterUser - 1 + 1 = AfterUser
    BY <1>1, <1>2, FoundBeforePass
  <2> QED
    BY <1>1, <2>1, UserIn
<1>4. IsPass
  BY <1>1, <1>2 DEF IsPass, Cut, IsSet, LoginPart, Nowhere, PartAt
<1>5. fill_pass
  BY <1>3, <1>4
  DEF ParseNext, fill_proto, fill_port, fill_login, fill_tail, parse_fails, At
<1> DEFINE parts == [m EXCEPT !.pass = PassPart]
<1>6. Continue(parts, AfterUser)
  <2>1. Found - 1 = AfterUser - 2 /\ rfind(":", AfterUser - 2) = LoginEnd
    BY <1>1, <1>2, <1>3, ColonOfPass
  <2>2. SubString(LoginEnd + 1, Found) = PassPart
    BY <1>1, <1>2, <1>3 DEF SubString, PassPart, PartAt
  <2>3. PastDelimiter(Found) = AfterUser
    BY <1>2, <1>3 DEF PastDelimiter
  <2> QED
    BY <1>5, <2>1, <2>2, <2>3 DEF fill_pass
<1>7. Cut(parts, ProtoPart, LoginPart, PassPart, Nowhere, Nowhere, Nowhere)
  BY <1>1, PlacedPart DEF Cut, PartNames
<1> HIDE DEF parts
<1>8. /\ UNCHANGED <<given, m_url, m_valid, parses>>
      /\ m' = parts /\ offset' = AfterUser /\ at' = "parsing"
  <2>1. \A p \in DOMAIN parts : Proper(parts[p])
    BY <1>7, PlacedPart, CutIsProper
  <2> QED
    BY <1>6, <2>1 DEF Continue
<1>9. OnTheWay'
  <2>1. BeforeHost'
    BY <1>7, <1>8, PlacesKept DEF BeforeHost
  <2> QED
    BY <2>1 DEF OnTheWay
<1> QED
  BY <1>8, <1>9, PlacesKept DEF FirstParse

(* The host ends at a port.                                                *)
LEMMA StepToPort ==
  ASSUME given \in URLs, m_url = Append(Text(given), "/"), at = "parsing", ~m_valid,
         BeforeHost, Port # <<>>, ParseNext
  PROVE  FirstParse' /\ UNCHANGED <<given, parses>>
<1>1. /\ offset = AfterUser
      /\ Cut(m, ProtoPart, LoginPart, PassPart, Nowhere, Nowhere, Nowhere)
  BY DEF BeforeHost
<1>2. /\ HostEndsAt \in Nat /\ PortEndsAt \in Nat /\ HostEndsAt + 1 < PortEndsAt
      /\ AfterUser \in Nat /\ AfterUser < HostEndsAt
  BY Places
<1>3. Found = HostEndsAt /\ m_url[Found + 1] = ":"
  BY <1>1, FoundBeforeHost, PortIn
<1>4. ~IsProto
  BY <1>3, PortIsFound DEF IsProto
<1>5. PortEnd(Found) = PortEndsAt
  BY <1>3, PortIsFound
<1>6. IsPort
  <2>1. ~IsSet(m.port)
    BY <1>1 DEF Cut, IsSet, Nowhere, PartAt
  <2>2. m_url[PortEnd(Found) + 1] = "/" /\ PortEnd(Found) - Found > 1
    BY <1>2, <1>3, <1>5, RestIn
  <2> QED
    BY <2>1, <2>2 DEF IsPort
<1>7. fill_port
  BY <1>3, <1>4, <1>6
  DEF ParseNext, fill_proto, fill_login, fill_pass, fill_tail, parse_fails, At
<1> DEFINE with_port == [m EXCEPT !.port = PortPart]
           parts == [with_port EXCEPT !.host = HostPart]
<1>8. SubString(Found + 1, PortEnd(Found)) = PortPart
  BY <1>2, <1>3, <1>5 DEF SubString, PortPart, PartAt
<1>9. Cut(with_port, ProtoPart, LoginPart, PassPart, Nowhere, PortPart, Nowhere)
  BY <1>1, PlacedPart DEF Cut, PartNames
<1> HIDE DEF with_port
<1>10. fill_host(with_port, PortEndsAt) = parts
  <2>1. /\ HostBegin(with_port, PortEndsAt) = AfterUser
        /\ HostEnd(with_port, PortEndsAt) = HostEndsAt
    BY <1>9, HostIsFound DEF Cut
  <2>2. SubString(AfterUser, HostEndsAt) = HostPart
    BY <1>2 DEF SubString, HostPart, PartAt
  <2> QED
    BY <2>1, <2>2 DEF fill_host
<1>11. Cut(parts, ProtoPart, LoginPart, PassPart, HostPart, PortPart, Nowhere)
  BY <1>9, PlacedPart DEF Cut, PartNames
<1> HIDE DEF parts
<1>12. Continue(parts, PortEndsAt)
  BY <1>5, <1>7, <1>8, <1>10 DEF fill_port, with_port
<1>13. /\ UNCHANGED <<given, m_url, m_valid, parses>>
       /\ m' = parts /\ offset' = PortEndsAt /\ at' = "parsing"
  <2>1. \A p \in DOMAIN parts : Proper(parts[p])
    BY <1>11, PlacedPart, CutIsProper
  <2> QED
    BY <1>12, <2>1 DEF Continue
<1>14. OnTheWay'
  <2>1. BeforeTail'
    BY <1>11, <1>13, PlacesKept DEF BeforeTail
  <2> QED
    BY <2>1 DEF OnTheWay
<1> QED
  BY <1>13, <1>14, PlacesKept DEF FirstParse

(* The slash of the tail ends the parse, and the host where there was no   *)
(* port.                                                                   *)
LEMMA StepToTail ==
  ASSUME given \in URLs, m_url = Append(Text(given), "/"), at = "parsing", ~m_valid,
         Found = PortEndsAt, NEW host,
         Cut(m, ProtoPart, LoginPart, PassPart, host, PortPart, Nowhere), ParseNext
  PROVE  FirstParse' /\ UNCHANGED <<given, parses>>
<1>1. /\ HostEndsAt \in Nat /\ PortEndsAt \in Nat /\ PortEndsAt < Len(m_url)
      /\ AfterUser \in Nat /\ AfterUser < HostEndsAt /\ Len(m_url) \in Nat
  BY Places
<1>2. m_url[Found + 1] = "/"
  BY RestIn
<1>3. fill_tail
  BY <1>2 DEF ParseNext, fill_proto, fill_port, fill_login, fill_pass, parse_fails, At
<1> DEFINE with_host == [m EXCEPT !.host = HostPart]
           parts == [with_host EXCEPT !.tail = TailPartAt]
<1>4. fill_host(m, Found) = with_host
  <2>1. HostBegin(m, PortEndsAt) = AfterUser /\ HostEnd(m, PortEndsAt) = HostEndsAt
    BY HostIsFound DEF Cut
  <2>2. SubString(AfterUser, HostEndsAt) = HostPart
    BY <1>1 DEF SubString, HostPart, PartAt
  <2> QED
    BY <2>1, <2>2 DEF fill_host
<1>5. Cut(with_host, ProtoPart, LoginPart, PassPart, HostPart, PortPart, Nowhere)
  BY PlacedPart DEF Cut, PartNames
<1> HIDE DEF with_host
<1>6. SubString(Found + 1, TailEnd) = TailPartAt
  BY <1>1 DEF SubString, TailEnd, TailPartAt, PartAt
<1>7. Cut(parts, ProtoPart, LoginPart, PassPart, HostPart, PortPart, TailPartAt)
  BY <1>5, PlacedPart DEF Cut, PartNames
<1> HIDE DEF parts
<1>8. \A p \in DOMAIN parts : Proper(parts[p])
  BY <1>7, PlacedPart, CutIsProper
<1>9. UNCHANGED <<given, m_url, parses>> /\ m' = parts /\ at' = "ready"
  BY <1>3, <1>4, <1>6, <1>8 DEF fill_tail, parts
<1> QED
  BY <1>7, <1>9, PlacesKept DEF FirstParse, AllFound

LEMMA ParseSteps ==
  ASSUME given \in URLs, m_url = Append(Text(given), "/"), FirstParse, ParseNext
  PROVE  FirstParse' /\ UNCHANGED <<given, parses>>
<1>1. at = "parsing" /\ ~m_valid /\ OnTheWay
  BY DEF FirstParse, ParseNext, fill_proto, fill_port, fill_login, fill_pass, fill_tail,
         parse_fails, At
<1>2. CASE BeforeHost
  <2>1. CASE Port # <<>>
    BY <1>1, <1>2, <2>1, StepToPort
  <2>2. CASE Port = <<>>
    <3>1. /\ Cut(m, ProtoPart, LoginPart, PassPart, Nowhere, PortPart, Nowhere)
          /\ offset = AfterUser
      BY <1>2, <2>2 DEF BeforeHost, PortPart
    <3>2. Found = PortEndsAt
      BY <1>1, <2>2, <3>1, FoundBeforeHost, Places
    <3> QED
      BY <1>1, <3>1, <3>2, StepToTail
  <2> QED
    BY <2>1, <2>2
<1>3. CASE BeforeTail
  <2>1. /\ Cut(m, ProtoPart, LoginPart, PassPart, HostPart, PortPart, Nowhere)
        /\ offset = PortEndsAt
    BY <1>3 DEF BeforeTail
  <2> QED
    BY <1>1, <2>1, FoundBeforeTail, StepToTail
<1> QED
  BY <1>1, <1>2, <1>3, StepAtStart, StepBeforeUser, StepBeforePass DEF OnTheWay

-----------------------------------------------------------------------------
(* Searches from anywhere before the tail, whatever parts are set.         *)

LEMMA FirstAtMost ==
  ASSUME NEW S \in SUBSET Nat, NEW k \in S
  PROVE  First(S) \in S /\ First(S) <= k
<1>1. PICK i \in S : \A j \in S : i <= j
  BY LeastNumber
<1>2. First(S) = i
  BY <1>1, FirstIs
<1> QED
  BY <1>1, <1>2

LEMMA LastIsIn ==
  ASSUME NEW S \in SUBSET Nat, NEW k \in Nat, \A j \in S : j <= k, S # {}
  PROVE  Last(S) \in S
<1> DEFINE T == {k - j : j \in S}
<1>1. T \subseteq Nat /\ T # {}
  <2>1. \A j \in S : k - j \in Nat
    OBVIOUS
  <2>2. T # {}
    OBVIOUS
  <2> QED
    BY <2>1, <2>2
<1>2. PICK x \in T : \A y \in T : x <= y
  <2> HIDE DEF T
  <2> QED
    BY <1>1, LeastNumber
<1>3. PICK i \in S : x = k - i
  BY <1>2
<1>4. ASSUME NEW j \in S
      PROVE  j <= i
  <2>1. x <= k - j
    BY <1>2
  <2>2. i \in Nat /\ j \in Nat /\ k \in Nat
    OBVIOUS
  <2> HIDE DEF T
  <2> QED
    BY <1>3, <2>1, <2>2
<1>5. S \in SUBSET Int
  OBVIOUS
<1>6. Last(S) = i
  BY <1>4, <1>5, LastIs
<1> QED
  BY <1>6

(* The text begins with a name; no delimiter stands right before the tail. *)
LEMMA NoDelimiterThere ==
  ASSUME given \in URLs, m_url = Append(Text(given), "/")
  PROVE  m_url[1] \notin Delimiters /\ m_url[PortEndsAt] \notin Delimiters
<1>1. /\ Len(Proto) \in Nat /\ AfterProto \in Nat /\ LoginEnd \in Nat /\ AfterUser \in Nat
      /\ HostEndsAt \in Nat /\ PortEndsAt \in Nat /\ AfterUser < HostEndsAt
  BY Places
<1>2. m_url[0 + 1] \notin Delimiters
  <2>1. CASE Proto # <<>>
    <3>1. 0 \in 0 .. Len(Proto) - 1
      BY <2>1, Places
    <3> QED
      BY <2>1, <3>1, ProtoIn
  <2>2. CASE Proto = <<>> /\ HasUser
    <3>1. 0 \in AfterProto .. LoginEnd - 1
      BY <1>1, <2>2, Places
    <3> QED
      BY <2>2, <3>1, UserIn
  <2>3. CASE Proto = <<>> /\ ~HasUser
    <3>1. 0 \in AfterUser .. HostEndsAt - 1
      <4>1. AfterUser = 0
        BY <2>3, Places
      <4> QED
        BY <1>1, <4>1
    <3> QED
      BY <3>1, HostIn
  <2> QED
    BY <2>1, <2>2, <2>3
<1>3. m_url[PortEndsAt - 1 + 1] \notin Delimiters
  <2>1. CASE Port = <<>>
    <3>1. PortEndsAt - 1 \in AfterUser .. HostEndsAt - 1
      BY <1>1, <2>1, Places
    <3> QED
      BY <3>1, HostIn
  <2>2. CASE Port # <<>>
    <3>1. PortEndsAt - 1 \in HostEndsAt + 1 .. PortEndsAt - 1
      BY <1>1, <2>2, Places
    <3>2. m_url[PortEndsAt - 1 + 1] \in Digits
      BY <2>2, <3>1, PortIn
    <3> QED
      BY <3>2 DEF Digits, Delimiters
  <2> QED
    BY <2>1, <2>2
<1>4. 0 + 1 = 1 /\ PortEndsAt - 1 + 1 = PortEndsAt
  BY <1>1
<1> QED
  BY <1>2, <1>3, <1>4

LEMMA FoundBeforeTheTail ==
  ASSUME given \in URLs, AnyParse
  PROVE  /\ Found \in 1 .. PortEndsAt /\ m_url[Found + 1] \in Delimiters
         /\ PortEndsAt < Len(m_url) /\ PortEndsAt \in Nat
<1>1. /\ m_url = Append(Text(given), "/") /\ offset \in 0 .. PortEndsAt
      /\ m_url \in Texts /\ Len(m_url) \in Nat
      /\ PortEndsAt \in Nat /\ PortEndsAt < Len(m_url)
  BY Places DEF AnyParse
<1> DEFINE S == {i \in Offsets : i >= offset /\ m_url[i + 1] \in Delimiters}
<1>2. S \in SUBSET Nat /\ PortEndsAt \in S
  <2>1. m_url[PortEndsAt + 1] \in Delimiters
    BY <1>1, RestIn DEF Delimiters
  <2> QED
    BY <1>1, <2>1 DEF Offsets
<1>3. Found = First(S)
  BY DEF Found, find_first_of
<1>4. Found \in S /\ Found <= PortEndsAt
  <2> HIDE DEF S
  <2> QED
    BY <1>2, <1>3, FirstAtMost
<1>5. Found # 0
  <2>1. m_url[0 + 1] \notin Delimiters
    BY <1>1, NoDelimiterThere
  <2> QED
    BY <1>4, <2>1
<1> QED
  BY <1>1, <1>4, <1>5 DEF Offsets

LEMMA ColonBeforeTheTail ==
  ASSUME given \in URLs, AnyParse, m_url[Found + 1] = ":"
  PROVE  /\ Found + 2 <= PortEndsAt
         /\ PortEnd(Found) \in Found + 1 .. PortEndsAt
         /\ IsProtoMark(Found) => Found + 3 <= PortEndsAt
<1>1. /\ Found \in 1 .. PortEndsAt /\ PortEndsAt \in Nat /\ PortEndsAt < Len(m_url)
      /\ m_url = Append(Text(given), "/") /\ m_url \in Texts /\ Len(m_url) \in Nat
  BY FoundBeforeTheTail, Places DEF AnyParse
<1>2. m_url[PortEndsAt + 1] = "/" /\ m_url[PortEndsAt] # ":" /\ m_url[PortEndsAt] # "/"
  BY <1>1, RestIn, NoDelimiterThere DEF Delimiters
<1> HIDE DEF Found
<1>3. PICK k \in 1 .. PortEndsAt : k = Found /\ m_url[k + 1] = ":"
  BY <1>1
<1>4. k + 2 <= PortEndsAt
  <2>1. k # PortEndsAt
    BY <1>2, <1>3
  <2>2. k + 1 # PortEndsAt
    BY <1>2, <1>3
  <2> QED
    BY <1>1, <1>3, <2>1, <2>2
<1>5. IsProtoMark(k) => k + 3 <= PortEndsAt
  <2>1. ASSUME IsProtoMark(k)
        PROVE  k + 2 # PortEndsAt
    <3>1. m_url[k + 2] = "/"
      BY <1>1, <1>3, <2>1, ProtoMark
    <3> QED
      BY <1>2, <3>1
  <2> QED
    BY <1>1, <1>3, <1>4, <2>1
<1>6. PortEnd(k) \in k + 1 .. PortEndsAt
  <2> DEFINE S == {i \in Offsets : i >= k + 1 /\ m_url[i + 1] \notin Digits}
  <2>1. S \in SUBSET Nat /\ PortEndsAt \in S
    <3>1. m_url[PortEndsAt + 1] \notin Digits
      BY <1>2 DEF Digits
    <3> QED
      BY <1>1, <1>3, <1>4, <3>1 DEF Offsets
  <2>2. PortEnd(k) = First(S)
    BY DEF PortEnd, find_first_not_of
  <2>3. First(S) \in S /\ First(S) <= PortEndsAt
    <3> HIDE DEF S
    <3> QED
      BY <2>1, FirstAtMost
  <2>4. \A i \in S : i \in Nat /\ i >= k + 1
    BY <1>1 DEF Offsets
  <2> HIDE DEF S
  <2> QED
    BY <1>1, <1>3, <2>2, <2>3, <2>4
<1> QED
  BY <1>3, <1>4, <1>5, <1>6

LEMMA AnyParseKept ==
  ASSUME given \in URLs, AnyParse, ParseNext
  PROVE  AnyParse' /\ UNCHANGED <<given, parses>>
<1>1. /\ Found \in 1 .. PortEndsAt /\ PortEndsAt \in Nat
      /\ m_url = Append(Text(given), "/") /\ offset \in 0 .. PortEndsAt
  BY FoundBeforeTheTail DEF AnyParse
<1>2. m_url[PortEndsAt + 1] = "/"
  BY <1>1, RestIn
<1>3. UNCHANGED <<given, m_url, parses>>
  BY DEF ParseNext, fill_proto, fill_port, fill_login, fill_pass, fill_tail, parse_fails,
         Continue
<1>4. offset' \in 0 .. PortEndsAt
  <2> HIDE DEF Found
  <2>0. m_url[Found + 1] = ":" =>
          /\ Found + 2 <= PortEndsAt /\ PortEnd(Found) \in Found + 1 .. PortEndsAt
          /\ IsProtoMark(Found) => Found + 3 <= PortEndsAt
    BY ColonBeforeTheTail
  <2>1. CASE fill_proto
    <3>1. offset' = Found + 3 /\ m_url[Found + 1] = ":" /\ IsProtoMark(Found)
      BY <2>1 DEF fill_proto, Continue, At, IsProto
    <3>2. Found + 3 <= PortEndsAt
      BY <2>0, <3>1
    <3> QED
      BY <1>1, <3>1, <3>2
  <2>2. CASE fill_port
    <3>1. offset' = PortEnd(Found) /\ m_url[Found + 1] = ":"
      BY <2>2 DEF fill_port, Continue, At
    <3>2. PortEnd(Found) \in Found + 1 .. PortEndsAt
      BY <2>0, <3>1
    <3> QED
      BY <1>1, <3>1, <3>2
  <2>3. CASE fill_login
    <3>1. offset' = Found + 1 /\ m_url[Found + 1] = ":"
      BY <2>3 DEF fill_login, Continue, At, PastDelimiter
    <3>2. Found + 2 <= PortEndsAt
      BY <2>0, <3>1
    <3> QED
      BY <1>1, <3>1, <3>2
  <2>4. CASE fill_pass
    <3>1. offset' = Found + 1 /\ m_url[Found + 1] = "@"
      BY <2>4 DEF fill_pass, Continue, At, PastDelimiter
    <3>2. Found # PortEndsAt
      BY <1>2, <3>1
    <3> QED
      BY <1>1, <3>1, <3>2
  <2>5. CASE fill_tail
    BY <1>1, <2>5 DEF fill_tail
  <2>6. CASE parse_fails
    BY <1>1, <2>6 DEF parse_fails
  <2> QED
    BY <2>1, <2>2, <2>3, <2>4, <2>5, <2>6 DEF ParseNext
<1> QED
  BY <1>1, <1>3, <1>4, PlacesKept DEF AnyParse

-----------------------------------------------------------------------------
(* The invariant is inductive.                                             *)

LEMMA UrlInitInv ==
  ASSUME UrlInit
  PROVE  UrlInv
BY DEF UrlInit, UrlInv

LEMMA NextPortEndsAt == (given \in URLs)' => (PortEndsAt \in Nat)'
<1>1. given \in URLs => PortEndsAt \in Nat
  BY Lengths
<1> QED
  BY <1>1, PTL

LEMMA NextText ==
  (given \in URLs /\ m_url = Append(Text(given), "/"))' => (m_url \in Texts)'
<1>1. given \in URLs /\ m_url = Append(Text(given), "/") => m_url \in Texts
  BY Layout
<1> QED
  BY <1>1, PTL

LEMMA ParseBegins ==
  ASSUME UrlInv, NEW u \in URLs, set(u)
  PROVE  UrlInv'
<1>1. /\ u \in URLs /\ given' = u /\ m_url' = Append(Text(u), "/") /\ offset' = 0
      /\ m_valid' = FALSE /\ at' = "parsing" /\ parses' = parses + 1 /\ m' = m
      /\ parses = 0 => u = given
      /\ given \in URLs /\ parses \in Nat
  BY DEF set, UrlInv
<1>2. given' \in URLs /\ parses' \in Nat /\ parses' # 0
  BY <1>1
<1>3. AnyParse'
  <2>1. (PortEndsAt \in Nat)'
    BY <1>2, NextPortEndsAt
  <2>2. offset' \in 0 .. PortEndsAt'
    BY <1>1, <2>1
  <2>3. m_url' = Append(Text(given'), "/")
    BY <1>1
  <2> QED
    BY <2>2, <2>3 DEF AnyParse, Text, Before, After, NoUser
<1>4. ASSUME parses' = 1
      PROVE  FirstParse'
  <2>1. given' = given /\ m = NoParts
    BY <1>1, <1>4 DEF UrlInv
  <2>2. Cut(m', Nowhere, Nowhere, Nowhere, Nowhere, Nowhere, Nowhere)
    BY <1>1, <2>1 DEF Cut, NoParts, Nowhere, PartAt, PartNames
  <2>3. CASE Proto # <<>>
    BY <1>1, <2>1, <2>2, <2>3, PlacesKept DEF AtStart, OnTheWay, FirstParse
  <2>4. CASE Proto = <<>>
    <3>1. AfterProto = 0 /\ ProtoPart = Nowhere
      BY <1>1, <2>4, Lengths DEF ProtoPart, Nowhere
    <3>2. CASE HasUser
      <4>1. BeforeUser'
        BY <1>1, <2>1, <2>2, <3>1, <3>2, PlacesKept DEF BeforeUser
      <4> QED
        BY <1>1, <4>1 DEF OnTheWay, FirstParse
    <3>3. CASE ~HasUser
      <4>1. LoginPart = Nowhere /\ PassPart = Nowhere /\ AfterUser = 0
        BY <1>1, <3>1, <3>3, Lengths DEF LoginPart, PassPart
      <4>2. BeforeHost'
        BY <1>1, <2>1, <2>2, <3>1, <4>1, PlacesKept DEF BeforeHost
      <4> QED
        BY <1>1, <4>2 DEF OnTheWay, FirstParse
    <3> QED
      BY <3>2, <3>3
  <2> QED
    BY <2>3, <2>4
<1> QED
  BY <1>2, <1>3, <1>4 DEF UrlInv

LEMMA UrlNextInv ==
  ASSUME UrlInv, [UrlNext]_urlVars
  PROVE  UrlInv'
<1>1. ASSUME NEW u \in URLs, set(u)
      PROVE  UrlInv'
  BY <1>1, ParseBegins
<1>2. ASSUME ParseNext
      PROVE  UrlInv'
  <2>1. given \in URLs /\ parses \in Nat /\ parses # 0
    BY <1>2 DEF UrlInv, ParseNext, fill_proto, fill_port, fill_login, fill_pass, fill_tail,
                parse_fails, At
  <2>2. AnyParse
    BY <2>1 DEF UrlInv
  <2>3. AnyParse' /\ UNCHANGED <<given, parses>>
    BY <1>2, <2>1, <2>2, AnyParseKept
  <2>4. parses = 1 => FirstParse'
    BY <1>2, <2>1, <2>2, ParseSteps DEF UrlInv, AnyParse
  <2> QED
    BY <2>1, <2>3, <2>4 DEF UrlInv
<1>3. ASSUME UNCHANGED urlVars
      PROVE  UrlInv'
  <2>1. UNCHANGED <<given, m_url, m, offset, m_valid, at, parses>>
    BY <1>3 DEF urlVars
  <2>2. AnyParse => AnyParse'
    BY <2>1, PlacesKept DEF AnyParse
  <2>3. OnTheWay => OnTheWay'
    BY <2>1, PlacesKept
    DEF OnTheWay, AtStart, BeforeUser, BeforePass, BeforeHost, BeforeTail, Cut
  <2>4. AllFound => AllFound'
    BY <2>1, PlacesKept DEF AllFound, Cut
  <2> QED
    BY <2>1, <2>2, <2>3, <2>4 DEF UrlInv, FirstParse, NoParts
<1> QED
  BY <1>1, <1>2, <1>3 DEF UrlNext, ParseNext

(* Where a first parse is, and what any parse keeps to.                    *)
LEMMA UrlInvariance == UrlSpec => []UrlInv
<1>1. UrlInit => UrlInv
  BY UrlInitInv
<1>2. UrlInv /\ [UrlNext]_urlVars => UrlInv'
  BY UrlNextInv
<1> QED
  BY <1>1, <1>2, PTL DEF UrlSpec

-----------------------------------------------------------------------------
(* What the parts read as.                                                 *)

LEMMA StrOfPlace ==
  ASSUME m_url \in Texts, NEW i \in Nat, NEW j \in Nat, j <= Len(m_url)
  PROVE  str(PartAt(i, j)) = SubSeq(m_url, i + 1, j)
<1>1. Len(m_url) \in Nat
  BY TextTyped
<1> QED
  BY <1>1 DEF str, PartAt

LEMMA StrOfNowhere ==
  ASSUME m_url \in Texts
  PROVE  str(Nowhere) = <<>>
<1>1. Len(m_url) \in Nat
  BY TextTyped
<1>2. str(Nowhere) = SubSeq(m_url, 0 + 1, 0)
  BY <1>1, StrOfPlace DEF Nowhere
<1> QED
  BY <1>2, SubSeqEmpty

LEMMA PartsRead ==
  ASSUME given \in URLs, m_url = Append(Text(given), "/")
  PROVE  /\ str(ProtoPart) = Proto /\ str(LoginPart) = Login /\ str(PassPart) = Pass
         /\ str(HostPart) = Host /\ str(PortPart) = Port
         /\ str(TailPartAt) = IF TailPart = <<>> THEN <<>> ELSE Append(Tail(TailPart), "/")
<1>1. /\ m_url \in Texts /\ Len(m_url) \in Nat /\ PortEndsAt < Len(m_url)
      /\ Len(Proto) \in Nat /\ AfterProto \in Nat /\ LoginEnd \in Nat /\ AfterUser \in Nat
      /\ HostEndsAt \in Nat /\ PortEndsAt \in Nat
      /\ AfterProto <= AfterUser /\ AfterUser < HostEndsAt /\ HostEndsAt <= PortEndsAt
  BY Places
<1>2. /\ Proto = <<>> => Len(Proto) = 0
      /\ Proto # <<>> => AfterProto = Len(Proto) + 3
      /\ HasUser => LoginEnd + 2 < AfterUser
  BY Places
<1>3. str(ProtoPart) = Proto
  <2>1. CASE Proto = <<>>
    BY <1>1, <1>2, <2>1, StrOfNowhere DEF ProtoPart, Nowhere
  <2>2. CASE Proto # <<>>
    <3>1. Len(Proto) <= Len(m_url) /\ 0 + 1 = 1
      BY <1>1, <1>2, <2>2
    <3>2. str(ProtoPart) = SubSeq(m_url, 0 + 1, Len(Proto))
      BY <1>1, <3>1, StrOfPlace DEF ProtoPart
    <3> QED
      BY <2>2, <3>1, <3>2, ProtoIn
  <2> QED
    BY <2>1, <2>2
<1>4. str(LoginPart) = Login /\ str(PassPart) = Pass
  <2>1. CASE HasUser
    <3>1. /\ LoginEnd <= Len(m_url) /\ AfterUser - 1 <= Len(m_url) /\ AfterUser - 1 \in Nat
          /\ LoginEnd + 1 \in Nat /\ LoginEnd + 1 + 1 = LoginEnd + 2
      BY <1>1, <1>2, <2>1
    <3>2. str(LoginPart) = SubSeq(m_url, AfterProto + 1, LoginEnd)
      BY <1>1, <2>1, <3>1, StrOfPlace DEF LoginPart
    <3>3. str(PassPart) = SubSeq(m_url, LoginEnd + 1 + 1, AfterUser - 1)
      BY <1>1, <2>1, <3>1, StrOfPlace DEF PassPart
    <3> QED
      BY <2>1, <3>1, <3>2, <3>3, UserIn
  <2>2. CASE ~HasUser
    BY <1>1, <2>2, StrOfNowhere, PartsTyped DEF LoginPart, PassPart
  <2> QED
    BY <2>1, <2>2
<1>5. str(HostPart) = Host
  <2>1. HostEndsAt <= Len(m_url)
    BY <1>1
  <2>2. str(HostPart) = SubSeq(m_url, AfterUser + 1, HostEndsAt)
    BY <1>1, <2>1, StrOfPlace DEF HostPart
  <2> QED
    BY <2>2, HostIn
<1>6. str(PortPart) = Port
  <2>1. CASE Port = <<>>
    BY <1>1, <2>1, StrOfNowhere DEF PortPart
  <2>2. CASE Port # <<>>
    <3>1. /\ PortEndsAt <= Len(m_url) /\ HostEndsAt + 1 \in Nat
          /\ HostEndsAt + 1 + 1 = HostEndsAt + 2
      BY <1>1
    <3>2. str(PortPart) = SubSeq(m_url, HostEndsAt + 1 + 1, PortEndsAt)
      BY <1>1, <2>2, <3>1, StrOfPlace DEF PortPart
    <3> QED
      BY <2>2, <3>1, <3>2, PortIn
  <2> QED
    BY <2>1, <2>2
<1>7. str(TailPartAt) = IF TailPart = <<>> THEN <<>> ELSE Append(Tail(TailPart), "/")
  <2>1. /\ PortEndsAt + 1 \in Nat /\ m_url \in Seq(Characters)
        /\ PortEndsAt + 1 \in 1 .. Len(m_url) /\ Len(m_url) \in PortEndsAt + 1 .. Len(m_url)
    BY <1>1 DEF Texts
  <2>2. str(TailPartAt) = SubSeq(m_url, PortEndsAt + 1 + 1, Len(m_url))
    <3>1. m_url \in Texts /\ Len(m_url) \in Nat /\ Len(m_url) <= Len(m_url)
      BY <1>1
    <3> QED
      BY <2>1, <3>1, StrOfPlace DEF TailPartAt
  <2>3. Tail(SubSeq(m_url, PortEndsAt + 1, Len(m_url)))
          = SubSeq(m_url, PortEndsAt + 1 + 1, Len(m_url))
    BY <2>1, HeadTailOfSubSeq
  <2>4. SubSeq(m_url, PortEndsAt + 1, Len(m_url)) = Append(TailPart, "/")
    BY RestIn
  <2>5. TailPart \in Seq(Characters)
    BY PartsTyped DEF Texts
  <2>6. Tail(Append(TailPart, "/")) =
          IF TailPart = <<>> THEN <<>> ELSE Append(Tail(TailPart), "/")
    BY <2>5, HeadTailAppend
  <2> QED
    BY <2>2, <2>3, <2>4, <2>6
<1> QED
  BY <1>3, <1>4, <1>5, <1>6, <1>7

-----------------------------------------------------------------------------
(* A new Url cuts every URL into the parts it was made of, however long    *)
(* they are and whatever the password and the tail are made of.            *)
THEOREM UrlFindsParts == UrlSpec => []PartsAreFound
<1>1. UrlInv => PartsAreFound
  <2> SUFFICES ASSUME UrlInv, m_valid, parses = 1
               PROVE  PartsAreFound
    BY DEF PartsAreFound
  <2>1. given \in URLs /\ m_url = Append(Text(given), "/") /\ AllFound
    BY DEF UrlInv, FirstParse, AnyParse
  <2>2. /\ str(m.proto) = Proto /\ str(m.login) = Login /\ str(m.pass) = Pass
        /\ str(m.host) = Host /\ str(m.port) = Port
        /\ str(m.tail) = IF TailPart = <<>> THEN <<>> ELSE Append(Tail(TailPart), "/")
    BY <2>1, PartsRead DEF AllFound, Cut
  <2>3. given.user = [login |-> Login, pass |-> Pass]
    BY <2>1, PartsTyped
  <2> QED
    BY <2>2, <2>3 DEF PartsAreFound, Proto, Host, Port, TailPart
<1> QED
  BY <1>1, UrlInvariance, PTL

(* No URL makes the first parse of an object fail an assertion.            *)
THEOREM UrlAbortsOnReuseOnly == UrlSpec => []AbortsOnlyOnReuse
<1>1. UrlInv => AbortsOnlyOnReuse
  BY DEF UrlInv, FirstParse, AbortsOnlyOnReuse
<1> QED
  BY <1>1, UrlInvariance, PTL

(* The slash that parse appends ends every search, in an object that is    *)
(* used again as well: the loop never runs off the text, the end of a port *)
(* is a character, and offset - 1 and delim - 1 do not wrap around. So the *)
(* branches of the code for a search that finds nothing are never taken.   *)
SearchesStayInside ==
  at = "parsing" =>
    /\ Found \in Offsets \ {0}
    /\ m_url[Found + 1] = ":" => PortEnd(Found) \in Offsets /\ Slash # 0

THEOREM UrlSearchesStayInside == UrlSpec => []SearchesStayInside
<1>1. UrlInv => SearchesStayInside
  <2> SUFFICES ASSUME UrlInv, at = "parsing"
               PROVE  SearchesStayInside
    BY DEF SearchesStayInside
  <2>1. given \in URLs /\ AnyParse
    BY DEF UrlInv
  <2>2. /\ Found \in 1 .. PortEndsAt /\ PortEndsAt < Len(m_url) /\ PortEndsAt \in Nat
        /\ m_url = Append(Text(given), "/") /\ Len(m_url) \in Nat
    BY <2>1, FoundBeforeTheTail, Places DEF AnyParse
  <2>3. Found \in Offsets \ {0}
    BY <2>2 DEF Offsets
  <2>4. ASSUME m_url[Found + 1] = ":"
        PROVE  PortEnd(Found) \in Offsets
    <3>1. PortEnd(Found) \in Found + 1 .. PortEndsAt
      BY <2>1, <2>4, ColonBeforeTheTail
    <3> QED
      BY <2>2, <3>1 DEF Offsets
  <2>5. Slash # 0
    <3> DEFINE S == {i \in Offsets : i <= Found /\ m_url[i + 1] = "/"}
    <3>1. S \in SUBSET Nat /\ Found \in Nat /\ \A i \in S : i <= Found
      BY <2>2 DEF Offsets
    <3>2. 0 \notin S
      <4>1. m_url[0 + 1] # "/"
        BY <2>1, <2>2, NoDelimiterThere DEF Delimiters
      <4> QED
        BY <4>1
    <3>3. Slash = Last(S)
      BY DEF Slash, rfind
    <3> HIDE DEF S
    <3>4. CASE S = {}
      BY <3>3, <3>4 DEF Last, npos
    <3>5. CASE S # {}
      BY <3>1, <3>2, <3>3, <3>5, LastIsIn
    <3> QED
      BY <3>4, <3>5
  <2> QED
    BY <2>3, <2>4, <2>5 DEF SearchesStayInside
<1> QED
  BY <1>1, UrlInvariance, PTL

-----------------------------------------------------------------------------
(* Types, of used objects as well.                                         *)

LEMMA SearchTypes ==
  ASSUME m_url \in Texts
  PROVE  /\ \A c : \A i : rfind(c, i) \in Nat \cup {npos}
         /\ find_proto_mark \in Nat \cup {npos}
<1>1. Len(m_url) \in Nat
  BY TextTyped
<1>2. ASSUME NEW c, NEW i
      PROVE  rfind(c, i) \in Nat \cup {npos}
  <2> DEFINE S == {j \in Offsets : j <= i /\ m_url[j + 1] = c}
  <2>1. S \in SUBSET Nat /\ \A j \in S : j <= Len(m_url)
    BY <1>1 DEF Offsets
  <2>2. rfind(c, i) = Last(S)
    BY DEF rfind
  <2> HIDE DEF S
  <2>3. CASE S = {}
    BY <2>2, <2>3 DEF Last
  <2>4. CASE S # {}
    BY <1>1, <2>1, <2>2, <2>4, LastIsIn
  <2> QED
    BY <2>3, <2>4
<1>3. find_proto_mark \in Nat \cup {npos}
  <2> DEFINE S == {j \in Offsets : IsProtoMark(j)}
  <2>1. S \in SUBSET Nat
    BY <1>1 DEF Offsets
  <2>2. find_proto_mark = First(S)
    BY DEF find_proto_mark
  <2> HIDE DEF S
  <2>3. CASE S = {}
    BY <2>2, <2>3 DEF First
  <2>4. CASE S # {}
    <3>1. PICK k \in S : TRUE
      BY <2>4
    <3> QED
      BY <2>1, <2>2, <3>1, FirstAtMost
  <2> QED
    BY <2>3, <2>4
<1> QED
  BY <1>2, <1>3

LEMMA HostTyped ==
  ASSUME m_url \in Texts, NEW parts \in [PartNames -> [begin : Nat, end : Nat]], NEW i \in Nat
  PROVE  fill_host(parts, i) \in [PartNames -> [begin : Nat, end : Nat]]
<1>1. Len(m_url) \in Nat
  BY TextTyped
<1>2. HostBegin(parts, i) \in Nat
  <2>1. rfind("@", i - 1) \in Nat \cup {npos} /\ find_proto_mark \in Nat \cup {npos}
    BY SearchTypes
  <2>2. rfind("@", i - 1) + 1 \in Nat /\ find_proto_mark + 3 \in Nat
    BY <2>1 DEF npos
  <2> QED
    BY <2>2 DEF HostBegin
<1>3. HostEnd(parts, i) \in Nat
  <2>1. rfind(":", i) \in Nat \cup {npos}
    BY SearchTypes
  <2> QED
    BY <1>1, <2>1 DEF HostEnd, Beyond
<1>4. SubString(HostBegin(parts, i), HostEnd(parts, i)) \in [begin : Nat, end : Nat]
  BY <1>2, <1>3 DEF SubString
<1> QED
  BY <1>4 DEF fill_host

LEMMA UrlTypes ==
  ASSUME UrlTypeOK, UrlInv, [UrlNext]_urlVars
  PROVE  UrlTypeOK'
<1>1. /\ given \in URLs /\ m_url \in Texts /\ m \in [PartNames -> [begin : Nat, end : Nat]]
      /\ offset \in 0 .. Len(m_url) /\ m_valid \in BOOLEAN
      /\ at \in {"ready", "parsing", "aborted"} /\ parses \in 0 .. Parses /\ Parses \in Nat
  BY ParsesAssumption DEF UrlTypeOK
<1>2. UrlInv'
  BY UrlNextInv
<1>3. ASSUME NEW u \in URLs, set(u)
      PROVE  UrlTypeOK'
  <2>1. given' \in URLs /\ parses' > 0
    BY <1>1, <1>3 DEF set
  <2>2. AnyParse'
    BY <1>2, <2>1 DEF UrlInv
  <2>3. m_url' \in Texts /\ Len(m_url') \in Nat
    BY <2>1, <2>2, NextText, TextTyped DEF AnyParse
  <2>4. /\ parses' \in 0 .. Parses /\ offset' = 0 /\ m_valid' = FALSE
        /\ at' = "parsing" /\ m' = m
    BY <1>1, <1>3 DEF set
  <2>5. m' \in [PartNames -> [begin : Nat, end : Nat]] /\ offset' \in 0 .. Len(m_url')
    BY <1>1, <2>3, <2>4
  <2> QED
    BY <2>1, <2>3, <2>4, <2>5 DEF UrlTypeOK
<1>4. ASSUME ParseNext
      PROVE  UrlTypeOK'
  <2>1. parses > 0 /\ AnyParse /\ UNCHANGED <<given, m_url, parses>>
    <3>1. at = "parsing" /\ UNCHANGED <<given, m_url, parses>>
      BY <1>4
      DEF ParseNext, fill_proto, fill_port, fill_login, fill_pass, fill_tail, parse_fails, At,
          Continue
    <3>2. parses > 0
      BY <1>1, <3>1 DEF UrlInv
    <3> QED
      BY <3>1, <3>2 DEF UrlInv
  <2>2. offset' \in 0 .. Len(m_url)
    <3>1. (offset \in 0 .. PortEndsAt)' /\ PortEndsAt' = PortEndsAt
      BY <1>1, <1>4, <2>1, AnyParseKept, PlacesKept DEF AnyParse
    <3>2. PortEndsAt \in Nat /\ PortEndsAt < Len(m_url) /\ Len(m_url) \in Nat
      BY <1>1, <2>1, Places DEF AnyParse
    <3> QED
      BY <3>1, <3>2
  <2>3. /\ Found \in 1 .. PortEndsAt /\ PortEndsAt \in Nat
        /\ m_url[Found + 1] = ":" => PortEnd(Found) \in Found + 1 .. PortEndsAt
    BY <1>1, <2>1, FoundBeforeTheTail, ColonBeforeTheTail
  <2> HIDE DEF Found
  <2>4. PICK k \in Nat : k = Found
    BY <2>3
  <2>5. m_url[k + 1] = ":" => PortEnd(k) \in Nat
    BY <2>3, <2>4
  <2>6. m' \in [PartNames -> [begin : Nat, end : Nat]]
    <3>1. CASE fill_proto
      <4>1. m' = [m EXCEPT !.proto = SubString(0, k)]
        BY <2>4, <3>1 DEF fill_proto, Continue
      <4> QED
        BY <1>1, <4>1 DEF SubString
    <3>2. CASE fill_port
      <4> DEFINE part == SubString(k + 1, PortEnd(k))
                 parts == [m EXCEPT !.port = part]
      <4>1. m' = fill_host(parts, PortEnd(k)) /\ PortEnd(k) \in Nat
        BY <2>4, <2>5, <3>2 DEF fill_port, Continue, At
      <4>2. part \in [begin : Nat, end : Nat]
        BY <4>1 DEF SubString
      <4> HIDE DEF part
      <4>3. parts \in [PartNames -> [begin : Nat, end : Nat]]
        BY <1>1, <4>2
      <4> HIDE DEF parts
      <4> QED
        BY <1>1, <4>1, <4>3, HostTyped
    <3>3. CASE fill_login
      <4> DEFINE begin == IF Slash = npos THEN 0 ELSE Slash + 1
      <4>1. m' = [m EXCEPT !.login = SubString(begin, k)]
        BY <2>4, <3>3 DEF fill_login, Continue
      <4>2. begin \in Nat
        <5>1. Slash \in Nat \cup {npos}
          BY <1>1, SearchTypes DEF Slash
        <5> QED
          BY <5>1
      <4> HIDE DEF begin
      <4> QED
        BY <1>1, <4>1, <4>2 DEF SubString
    <3>4. CASE fill_pass
      <4> DEFINE begin == rfind(":", k - 1) + 1
      <4>1. m' = [m EXCEPT !.pass = SubString(begin, k)]
        BY <2>4, <3>4 DEF fill_pass, Continue
      <4>2. begin \in Nat
        <5>1. rfind(":", k - 1) \in Nat \cup {npos}
          BY <1>1, SearchTypes
        <5> QED
          BY <5>1 DEF npos
      <4> HIDE DEF begin
      <4> QED
        BY <1>1, <4>1, <4>2 DEF SubString
    <3>5. CASE fill_tail
      <4>1. m' = [fill_host(m, k) EXCEPT !.tail = SubString(k + 1, TailEnd)]
        BY <2>4, <3>5 DEF fill_tail
      <4>2. fill_host(m, k) \in [PartNames -> [begin : Nat, end : Nat]]
        BY <1>1, HostTyped
      <4>3. SubString(k + 1, TailEnd) \in [begin : Nat, end : Nat]
        BY <1>1, TextTyped DEF SubString, TailEnd
      <4> QED
        BY <4>1, <4>2, <4>3
    <3>6. CASE parse_fails
      BY <1>1, <3>6 DEF parse_fails
    <3> QED
      BY <1>4, <3>1, <3>2, <3>3, <3>4, <3>5, <3>6 DEF ParseNext
  <2>7. m_valid' \in BOOLEAN /\ at' \in {"ready", "parsing", "aborted"}
    BY <1>1, <1>4
    DEF ParseNext, fill_proto, fill_port, fill_login, fill_pass, fill_tail, parse_fails, Continue
  <2> QED
    BY <1>1, <2>1, <2>2, <2>6, <2>7 DEF UrlTypeOK
<1>5. ASSUME UNCHANGED urlVars
      PROVE  UrlTypeOK'
  BY <1>1, <1>5 DEF UrlTypeOK, urlVars
<1> QED
  BY <1>3, <1>4, <1>5 DEF UrlNext, ParseNext

(* Every part stays a stretch of offsets that are no negative numbers, and *)
(* the search goes on inside of the text, whatever the used object held.   *)
THEOREM UrlTypeCorrect == UrlSpec => []UrlTypeOK
<1>1. ASSUME UrlInit
      PROVE  UrlTypeOK
  <2>1. m_url \in Texts /\ Len(m_url) = 0
    BY <1>1, Marks DEF UrlInit
  <2>2. m \in [PartNames -> [begin : Nat, end : Nat]]
    BY <1>1 DEF UrlInit, NoParts
  <2> QED
    <3>1. /\ given \in URLs /\ offset = 0 /\ m_valid = FALSE /\ at = "ready" /\ parses = 0
          /\ Parses \in Nat
      BY <1>1, ParsesAssumption DEF UrlInit
    <3>2. offset \in 0 .. Len(m_url) /\ parses \in 0 .. Parses
      BY <2>1, <3>1
    <3> QED
      BY <2>1, <2>2, <3>1, <3>2 DEF UrlTypeOK
<1>2. UrlTypeOK /\ UrlInv /\ [UrlNext]_urlVars => UrlTypeOK'
  BY UrlTypes
<1> QED
  BY <1>1, <1>2, UrlInvariance, PTL DEF UrlSpec
=============================================================================
