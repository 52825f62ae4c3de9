----------------------------- MODULE PoolProofs -----------------------------
(* Theorems about Pool. ListIsLinked and CallsOnce are what makes the      *)
(* properties inductive: a list that starts and ends right could still     *)
(* visit a block twice, and a block that is on the stack twice would stay  *)
(* on it when one of its calls returns.                                    *)
EXTENDS Pool, TLAPS

(* No constructor or destructor of an object runs twice at a time.         *)
CallsOnce == Distinct(calls)

(* Taking the first element off a sequence.                                *)
LEMMA TailElements ==
  ASSUME NEW S, NEW s \in Seq(S), s # <<>>
  PROVE  /\ Tail(s) \in Seq(S)
         /\ Len(s) \in Nat \ {0}
         /\ Len(Tail(s)) = Len(s) - 1
         /\ Head(s) = s[1]
         /\ s[1] \in S
         /\ \A i \in 1 .. Len(s) - 1 : Tail(s)[i] = s[i + 1]
OBVIOUS

(* Putting an element in front of a sequence.                              *)
LEMMA ConsElements ==
  ASSUME NEW S, NEW s \in Seq(S), NEW e \in S
  PROVE  /\ <<e>> \o s \in Seq(S)
         /\ Len(<<e>> \o s) = Len(s) + 1
         /\ Len(s) \in Nat
         /\ (<<e>> \o s)[1] = e
         /\ \A i \in 2 .. Len(s) + 1 : (<<e>> \o s)[i] = s[i - 1]
OBVIOUS

(* Taking the first element off a sequence without repetitions takes it out*)
(* of the range.                                                           *)
LEMMA TailDistinct ==
  ASSUME NEW S, NEW s \in Seq(S), s # <<>>, Distinct(s)
  PROVE  Distinct(Tail(s)) /\ Range(Tail(s)) = Range(s) \ {Head(s)}
<1>1. Distinct(Tail(s))
  BY TailElements, SMT DEF Distinct
<1>2. ASSUME NEW x PROVE x \in Range(Tail(s)) <=> x \in Range(s) \ {Head(s)}
  <2>1. ASSUME x \in Range(Tail(s)) PROVE x \in Range(s) /\ x # Head(s)
    <3>1. PICK i \in 1 .. Len(Tail(s)) : x = Tail(s)[i]
      BY <2>1 DEF Range
    <3>2. i + 1 \in 1 .. Len(s) /\ x = s[i + 1] /\ 1 \in 1 .. Len(s)
      BY <3>1, TailElements, SMT
    <3>3. i + 1 # 1
      BY <3>1, TailElements, SMT
    <3>4. QED BY <3>2, <3>3, TailElements, SMT DEF Range, Distinct
  <2>2. ASSUME x \in Range(s), x # Head(s) PROVE x \in Range(Tail(s))
    <3>1. PICK i \in 1 .. Len(s) : x = s[i]
      BY <2>2 DEF Range
    <3>2. i - 1 \in 1 .. Len(Tail(s)) /\ x = Tail(s)[i - 1]
      BY <3>1, <2>2, TailElements, SMT
    <3>3. QED BY <3>2 DEF Range
  <2>3. QED BY <2>1, <2>2
<1>3. QED BY <1>1, <1>2

(* Putting a new element in front keeps a sequence without repetitions.    *)
LEMMA ConsDistinct ==
  ASSUME NEW S, NEW s \in Seq(S), NEW e \in S, Distinct(s), e \notin Range(s)
  PROVE  Distinct(<<e>> \o s) /\ Range(<<e>> \o s) = Range(s) \cup {e}
<1> DEFINE t == <<e>> \o s
<1>0. /\ Len(t) = Len(s) + 1
      /\ Len(s) \in Nat
      /\ t[1] = e
      /\ \A i \in 2 .. Len(s) + 1 : t[i] = s[i - 1]
  BY ConsElements
<1> HIDE DEF t
<1>1. Distinct(t)
  <2> SUFFICES ASSUME NEW i \in 1 .. Len(t), NEW j \in 1 .. Len(t), t[i] = t[j]
               PROVE  i = j
    BY DEF Distinct
  <2>1. CASE i = 1 /\ j # 1
    <3>1. j - 1 \in 1 .. Len(s) /\ e = s[j - 1] BY <1>0, <2>1, SMT
    <3>2. QED BY <3>1 DEF Range
  <2>2. CASE i # 1 /\ j = 1
    <3>1. i - 1 \in 1 .. Len(s) /\ e = s[i - 1] BY <1>0, <2>2, SMT
    <3>2. QED BY <3>1 DEF Range
  <2>3. CASE i # 1 /\ j # 1
    <3>1. /\ i - 1 \in 1 .. Len(s)
          /\ j - 1 \in 1 .. Len(s)
          /\ s[i - 1] = s[j - 1]
      BY <1>0, <2>3, SMT
    <3>2. i - 1 = j - 1 BY <3>1 DEF Distinct
    <3>3. QED BY <3>2, <1>0, SMT
  <2>4. QED BY <2>1, <2>2, <2>3
<1>2. ASSUME NEW x PROVE x \in Range(t) <=> x \in Range(s) \cup {e}
  <2>1. ASSUME x \in Range(t) PROVE x \in Range(s) \cup {e}
    <3>1. PICK i \in 1 .. Len(t) : x = t[i] BY <2>1 DEF Range
    <3>2. i = 1 \/ (i - 1 \in 1 .. Len(s) /\ x = s[i - 1]) BY <3>1, <1>0, SMT
    <3>3. QED BY <3>1, <3>2, <1>0 DEF Range
  <2>2. ASSUME x \in Range(s) PROVE x \in Range(t)
    <3>1. PICK i \in 1 .. Len(s) : x = s[i] BY <2>2 DEF Range
    <3>2. i + 1 \in 1 .. Len(t) /\ x = t[i + 1] BY <3>1, <1>0, SMT
    <3>3. QED BY <3>2 DEF Range
  <2>3. e \in Range(t)
    <3>1. 1 \in 1 .. Len(t) BY <1>0, SMT
    <3>2. QED BY <3>1, <1>0 DEF Range
  <2>4. QED BY <2>1, <2>2, <2>3
<1>3. QED BY <1>1, <1>2 DEF t

-----------------------------------------------------------------------------
IInv == TypeOK /\ FreeListIsExact /\ ChunkHeldByReferences /\ CallsOnce

LEMMA InitEstablishesIInv == Init => IInv
<1> SUFFICES ASSUME Init PROVE IInv
  OBVIOUS
<1> USE ChunksAssumption DEF Init, ChunkerInit, Blocks
<1>1. /\ Len(freed) = max_chunks
      /\ freed \in Seq(Blocks)
      /\ \A i \in 1 .. Len(freed) : freed[i] = i - 1
  OBVIOUS
<1>2. TypeOK
  BY <1>1 DEF TypeOK, ChunkerTypeOK, Phases
<1>3. ListIsLinked
  <2>1. freed # <<>> /\ m_next = freed[1]
    BY <1>1
  <2>2. ASSUME NEW i \in 1 .. Len(freed)
        PROVE  next[freed[i]] = IF i = Len(freed) THEN max_chunks ELSE freed[i + 1]
    BY <1>1
  <2>3. Distinct(freed)
    BY <1>1 DEF Distinct
  <2>4. QED BY <2>1, <2>2, <2>3 DEF ListIsLinked
<1>4. Range(freed) = Free
  <2>1. Free = Blocks
    BY DEF Free
  <2>2. ASSUME NEW b \in Blocks PROVE b \in Range(freed)
    <3>1. b + 1 \in 1 .. Len(freed) /\ freed[b + 1] = b
      BY <1>1
    <3>2. QED BY <3>1 DEF Range
  <2>3. Range(freed) \subseteq Blocks
    BY <1>1 DEF Range
  <2>4. QED BY <2>1, <2>2, <2>3
<1>5. Range(calls) = {} /\ Distinct(calls)
  BY DEF Range, Distinct
<1>6. ChunkHeldByReferences
  BY <1>5 DEF ChunkHeldByReferences
<1>7. QED BY <1>2, <1>3, <1>4, <1>5, <1>6 DEF IInv, FreeListIsExact, CallsOnce

(* create takes a free block out of the list.                              *)
LEMMA CreateTakesOne ==
  ASSUME IInv, NEW b \in Blocks, create(b)
  PROVE  /\ ChunkerTypeOK'
         /\ ListIsLinked'
         /\ b \in Free
         /\ Range(freed') = Free \ {b}
<1> USE DEF IInv, TypeOK, ChunkerTypeOK, FreeListIsExact
<1>1. freed # <<>> /\ Head(freed) = b /\ freed[1] = b
  BY TailElements DEF create, ListIsLinked
<1>2. Distinct(freed') /\ Range(freed') = Range(freed) \ {b}
  BY <1>1, TailDistinct DEF create, ListIsLinked
<1>3. b \in Free
  <2>1. 1 \in 1 .. Len(freed) BY <1>1, TailElements
  <2>2. QED BY <1>1, <2>1 DEF Range
<1>4. /\ freed' \in Seq(Blocks)
      /\ Len(freed) \in Nat \ {0}
      /\ Len(freed') = Len(freed) - 1
      /\ \A i \in 1 .. Len(freed) - 1 : freed'[i] = freed[i + 1]
  BY <1>1, TailElements DEF create
<1>5. next[b] = IF Len(freed) = 1 THEN max_chunks ELSE freed[2]
  BY <1>1, <1>4 DEF ListIsLinked
<1>6. m_next' = IF freed' = <<>> THEN nullptr ELSE freed'[1]
  <2>1. CASE Len(freed) = 1
    <3>1. freed' = <<>> BY <2>1, <1>4
    <3>2. QED BY <3>1, <2>1, <1>5 DEF create, Successor
  <2>2. CASE Len(freed) # 1
    <3>1. freed' # <<>> /\ freed'[1] = freed[2] BY <2>2, <1>4
    <3>2. freed[2] \in Blocks BY <2>2, <1>4
    <3>3. freed[2] # max_chunks BY <3>2, ChunksAssumption DEF Blocks
    <3>4. QED BY <3>1, <3>3, <2>2, <1>5 DEF create, Successor
  <2>3. QED BY <2>1, <2>2
<1>7. ASSUME NEW i \in 1 .. Len(freed')
      PROVE  next'[freed'[i]] = IF i = Len(freed') THEN max_chunks ELSE freed'[i + 1]
  <2>1. i + 1 \in 1 .. Len(freed) /\ freed'[i] = freed[i + 1] BY <1>4
  <2>2. next[freed[i + 1]] = IF i + 1 = Len(freed) THEN max_chunks ELSE freed[i + 1 + 1]
    BY <2>1 DEF ListIsLinked
  <2>3. i # Len(freed') => freed'[i + 1] = freed[i + 1 + 1] BY <1>4
  <2>4. i + 1 = Len(freed) <=> i = Len(freed') BY <1>4
  <2>5. next' = next BY DEF create
  <2>6. QED BY <2>1, <2>2, <2>3, <2>4, <2>5
<1>8. ListIsLinked' BY <1>2, <1>6, <1>7 DEF ListIsLinked
<1>9. m_next' \in Blocks \cup {nullptr}
  <2>1. freed' # <<>> => freed'[1] \in Blocks BY <1>4, TailElements
  <2>2. QED BY <1>6, <2>1
<1>10. QED BY <1>2, <1>3, <1>4, <1>8, <1>9 DEF create

(* destroy puts a block that is not free in front of the list.             *)
LEMMA DestroyPutsOne ==
  ASSUME IInv, NEW b \in Blocks, b \notin Free, destroy(b)
  PROVE  /\ ChunkerTypeOK'
         /\ ListIsLinked'
         /\ Range(freed') = Free \cup {b}
<1> USE DEF IInv, TypeOK, ChunkerTypeOK, FreeListIsExact
<1>1. Distinct(freed') /\ Range(freed') = Range(freed) \cup {b}
  BY ConsDistinct DEF destroy, ListIsLinked
<1>2. /\ freed' \in Seq(Blocks)
      /\ Len(freed) \in Nat
      /\ Len(freed') = Len(freed) + 1
      /\ freed'[1] = b
      /\ \A i \in 2 .. Len(freed) + 1 : freed'[i] = freed[i - 1]
  BY ConsElements DEF destroy
<1>3. m_next = nullptr <=> freed = <<>>
  <2>1. freed # <<>> => freed[1] \in Blocks BY TailElements
  <2>2. QED BY <2>1 DEF ListIsLinked, nullptr, Blocks
<1>4. Link(b) = IF Len(freed) = 0 THEN max_chunks ELSE freed[1]
  BY <1>3 DEF Link, ListIsLinked
<1>5. ASSUME NEW i \in 1 .. Len(freed')
      PROVE  next'[freed'[i]] = IF i = Len(freed') THEN max_chunks ELSE freed'[i + 1]
  <2>1. CASE i = 1
    <3>1. next'[freed'[1]] = Link(b) BY <1>2 DEF destroy
    <3>2. Len(freed) # 0 => freed'[2] = freed[1] BY <1>2
    <3>3. QED BY <3>1, <3>2, <2>1, <1>2, <1>4
  <2>2. CASE i # 1
    <3>1. i - 1 \in 1 .. Len(freed) /\ freed'[i] = freed[i - 1] BY <2>2, <1>2
    <3>2. freed[i - 1] # b /\ freed[i - 1] \in Blocks
      BY <3>1 DEF Range
    <3>3. next'[freed[i - 1]] = next[freed[i - 1]] BY <3>2 DEF destroy
    <3>4. next[freed[i - 1]] = IF i - 1 = Len(freed) THEN max_chunks ELSE freed[i - 1 + 1]
      BY <3>1 DEF ListIsLinked
    <3>5. i # Len(freed') => freed'[i + 1] = freed[i] BY <2>2, <1>2
    <3>6. i - 1 + 1 = i BY <1>2
    <3>7. QED BY <3>1, <3>3, <3>4, <3>5, <3>6, <1>2
  <2>3. QED BY <2>1, <2>2
<1>6. m_next' = IF freed' = <<>> THEN nullptr ELSE freed'[1]
  <2>1. freed' # <<>> BY <1>2
  <2>2. QED BY <2>1, <1>2 DEF destroy
<1>7. ListIsLinked' BY <1>1, <1>5, <1>6 DEF ListIsLinked
<1>8. next' \in [Blocks -> Blocks \cup {max_chunks}]
  BY DEF destroy, Link
<1>9. QED BY <1>1, <1>2, <1>7, <1>8 DEF destroy

-----------------------------------------------------------------------------
(* What the stack of calls does when a call starts and when one returns.   *)
LEMMA CallStarts ==
  ASSUME IInv, NEW b \in Blocks, b \notin Range(calls), calls' = <<b>> \o calls
  PROVE  calls' \in Seq(Blocks) /\ Distinct(calls)' /\ Range(calls)' = Range(calls) \cup {b}
BY ConsElements, ConsDistinct DEF IInv, TypeOK, CallsOnce

LEMMA CallReturns ==
  ASSUME IInv, NEW b \in Blocks, NEW p, Running(b, p), calls' = Tail(calls)
  PROVE  /\ calls' \in Seq(Blocks)
         /\ Distinct(calls)'
         /\ Range(calls)' = Range(calls) \ {b}
         /\ phase[b] = p
BY TailElements, TailDistinct DEF IInv, TypeOK, CallsOnce, Running

LEMMA StepPreservesIInv == IInv /\ [Next]_vars => IInv'
<1> SUFFICES ASSUME IInv, [Next]_vars PROVE IInv'
  OBVIOUS
<1>t. /\ phase \in [Blocks -> Phases]
      /\ weak \in [Blocks -> BOOLEAN]
      /\ given \in Blocks \cup {None}
      /\ calls \in Seq(Blocks)
  BY DEF IInv, TypeOK
<1>l. ChunkerTypeOK /\ ListIsLinked /\ Range(freed) = Free
  BY DEF IInv, TypeOK, FreeListIsExact
<1>h. ChunkHeldByReferences /\ CallsOnce
  BY DEF IInv
<1>k. UNCHANGED chunkerVars =>
        ChunkerTypeOK' /\ ListIsLinked' /\ Range(freed') = Range(freed)
  BY <1>l DEF chunkerVars, ChunkerTypeOK, ListIsLinked, Range, Distinct
<1>q. UNCHANGED calls => calls' \in Seq(Blocks) /\ Distinct(calls)' /\ Range(calls)' = Range(calls)
  BY <1>t, <1>h DEF CallsOnce, Distinct, Range
<1> DEFINE Goal == /\ ChunkerTypeOK' /\ ListIsLinked' /\ Range(freed') = Free'
                   /\ phase' \in [Blocks -> Phases]
                   /\ weak' \in [Blocks -> BOOLEAN]
                   /\ given' \in Blocks \cup {None}
                   /\ calls' \in Seq(Blocks)
                   /\ Distinct(calls)'
                   /\ ChunkHeldByReferences'
<1>g. Goal => IInv'
  BY DEF IInv, TypeOK, FreeListIsExact, CallsOnce, Range
<1>1. CASE get_shared_throws
  <2>1. Range(freed') = Free' BY <1>1, <1>k, <1>l DEF get_shared_throws, Free
  <2>2. ChunkHeldByReferences'
    BY <1>1, <1>h, <1>q DEF get_shared_throws, ChunkHeldByReferences
  <2>3. QED BY <1>1, <1>t, <1>k, <1>q, <1>g, <2>1, <2>2 DEF get_shared_throws
<1>2. ASSUME NEW b \in Blocks, get_shared(b) PROVE IInv'
  <2>1. /\ ChunkerTypeOK'
        /\ ListIsLinked'
        /\ b \in Free
        /\ Range(freed') = Free \ {b}
    BY <1>2, CreateTakesOne DEF get_shared
  <2>2. phase' = [phase EXCEPT ![b] = "constructing"] /\ phase[b] = "free"
    BY <1>2, <2>1 DEF get_shared, Becomes, Free
  <2>3. Range(freed') = Free' BY <2>1, <2>2, <1>t DEF Free
  <2>4. b \notin Range(calls) BY <2>2, <1>h DEF ChunkHeldByReferences
  <2>5. calls' \in Seq(Blocks) /\ Distinct(calls)' /\ Range(calls)' = Range(calls) \cup {b}
    BY <2>4, <1>2, CallStarts DEF get_shared
  <2>6. ChunkHeldByReferences'
    BY <1>2, <1>t, <1>h, <2>2, <2>5 DEF get_shared, ChunkHeldByReferences
  <2>7. QED BY <1>2, <1>t, <1>g, <2>1, <2>2, <2>3, <2>5, <2>6 DEF get_shared, Phases
<1>3. ASSUME NEW b \in Blocks, constructed(b) PROVE IInv'
  <2>1. /\ calls' \in Seq(Blocks)
        /\ Distinct(calls)'
        /\ Range(calls)' = Range(calls) \ {b}
        /\ phase[b] = "constructing"
    BY <1>3, CallReturns DEF constructed
  <2>2. phase' = [phase EXCEPT ![b] = "alive"]
    BY <1>3 DEF constructed, Becomes
  <2>3. Free' = Free BY <2>1, <2>2, <1>t DEF Free
  <2>4. ChunkHeldByReferences'
    BY <1>3, <1>t, <1>h, <2>1, <2>2 DEF constructed, ChunkHeldByReferences
  <2>5. QED BY <1>3, <1>t, <1>l, <1>k, <1>g, <2>1, <2>2, <2>3, <2>4 DEF constructed, Phases
<1>4. ASSUME NEW b \in Blocks, constructor_throws(b) PROVE IInv'
  <2>1. /\ calls' \in Seq(Blocks)
        /\ Distinct(calls)'
        /\ Range(calls)' = Range(calls) \ {b}
        /\ phase[b] = "constructing"
    BY <1>4, CallReturns DEF constructor_throws
  <2>2. phase' = [phase EXCEPT ![b] = "free"]
    BY <1>4 DEF constructor_throws, Becomes
  <2>3. ChunkerTypeOK' /\ ListIsLinked' /\ Range(freed') = Free \cup {b}
    BY <1>4, <2>1, DestroyPutsOne DEF constructor_throws, Free
  <2>4. Free' = Free \cup {b} BY <2>2, <1>t DEF Free
  <2>5. ChunkHeldByReferences'
    BY <1>4, <1>t, <1>h, <2>1, <2>2 DEF constructor_throws, ChunkHeldByReferences
  <2>6. QED BY <1>4, <1>t, <1>g, <2>1, <2>2, <2>3, <2>4, <2>5 DEF constructor_throws, Phases
<1>5. ASSUME NEW b \in Blocks, take_weak(b) PROVE IInv'
  <2>1. Free' = Free BY <1>5 DEF take_weak, Free
  <2>2. ChunkHeldByReferences'
    BY <1>5, <1>t, <1>h, <1>q DEF take_weak, ChunkHeldByReferences
  <2>3. QED BY <1>5, <1>t, <1>l, <1>k, <1>q, <1>g, <2>1, <2>2 DEF take_weak
<1>6. ASSUME NEW b \in Blocks, drop_shared(b) PROVE IInv'
  <2>1. phase' = [phase EXCEPT ![b] = "destructing"] /\ phase[b] = "alive"
    BY <1>6 DEF drop_shared, Becomes
  <2>2. Free' = Free BY <2>1, <1>t DEF Free
  <2>3. b \notin Range(calls) BY <2>1, <1>h DEF ChunkHeldByReferences
  <2>4. calls' \in Seq(Blocks) /\ Distinct(calls)' /\ Range(calls)' = Range(calls) \cup {b}
    BY <2>3, <1>6, CallStarts DEF drop_shared
  <2>5. ChunkHeldByReferences'
    BY <1>6, <1>t, <1>h, <2>1, <2>4 DEF drop_shared, ChunkHeldByReferences
  <2>6. QED BY <1>6, <1>t, <1>l, <1>k, <1>g, <2>1, <2>2, <2>4, <2>5 DEF drop_shared, Phases
<1>7. ASSUME NEW b \in Blocks, destructed(b) PROVE IInv'
  <2>1. /\ calls' \in Seq(Blocks)
        /\ Distinct(calls)'
        /\ Range(calls)' = Range(calls) \ {b}
        /\ phase[b] = "destructing"
    BY <1>7, CallReturns DEF destructed
  <2>2. CASE ControlBlockDies(b)
    <3>1. phase' = [phase EXCEPT ![b] = "free"] /\ destroy(b)
      BY <1>7, <2>2 DEF destructed, Becomes
    <3>2. ChunkerTypeOK' /\ ListIsLinked' /\ Range(freed') = Free \cup {b}
      BY <3>1, <2>1, DestroyPutsOne DEF Free
    <3>3. Free' = Free \cup {b} BY <3>1, <1>t DEF Free
    <3>4. ChunkHeldByReferences'
      BY <1>7, <1>t, <1>h, <2>1, <2>2, <3>1 DEF destructed, ChunkHeldByReferences, ControlBlockDies
    <3>5. QED BY <1>7, <1>t, <1>g, <2>1, <3>1, <3>2, <3>3, <3>4 DEF destructed, Phases
  <2>3. CASE ~ControlBlockDies(b)
    <3>1. phase' = [phase EXCEPT ![b] = "expired"] /\ UNCHANGED chunkerVars
      BY <1>7, <2>3 DEF destructed, Becomes
    <3>2. Free' = Free BY <3>1, <2>1, <1>t DEF Free
    <3>3. ChunkHeldByReferences'
      BY <1>7, <1>t, <1>h, <2>1, <2>3, <3>1 DEF destructed, ChunkHeldByReferences, ControlBlockDies
    <3>4. QED BY <1>7, <1>t, <1>l, <1>k, <1>g, <2>1, <3>1, <3>2, <3>3 DEF destructed, Phases
  <2>4. QED BY <2>2, <2>3
<1>8. ASSUME NEW b \in Blocks, drop_weak(b) PROVE IInv'
  <2>1. CASE phase[b] = "expired"
    <3>1. phase' = [phase EXCEPT ![b] = "free"] /\ destroy(b)
      BY <1>8, <2>1 DEF drop_weak, Becomes
    <3>2. ChunkerTypeOK' /\ ListIsLinked' /\ Range(freed') = Free \cup {b}
      BY <3>1, <2>1, DestroyPutsOne DEF Free
    <3>3. Free' = Free \cup {b} BY <3>1, <1>t DEF Free
    <3>4. ChunkHeldByReferences'
      BY <1>8, <1>t, <1>h, <1>q, <2>1, <3>1 DEF drop_weak, ChunkHeldByReferences
    <3>5. QED BY <1>8, <1>t, <1>q, <1>g, <3>1, <3>2, <3>3, <3>4 DEF drop_weak, Phases
  <2>2. CASE phase[b] # "expired"
    <3>1. UNCHANGED <<phase, chunkerVars>> BY <1>8, <2>2 DEF drop_weak
    <3>2. Free' = Free BY <3>1 DEF Free
    <3>3. ChunkHeldByReferences'
      BY <1>8, <1>t, <1>h, <1>q, <2>2, <3>1 DEF drop_weak, ChunkHeldByReferences
    <3>4. QED BY <1>8, <1>t, <1>l, <1>k, <1>q, <1>g, <3>1, <3>2, <3>3 DEF drop_weak
  <2>3. QED BY <2>1, <2>2
<1>9. CASE UNCHANGED vars
  <2>1. Free' = Free BY <1>9 DEF vars, objectVars, Free
  <2>2. ChunkHeldByReferences'
    BY <1>9, <1>h, <1>q DEF vars, objectVars, ChunkHeldByReferences
  <2>3. QED BY <1>9, <1>t, <1>l, <1>k, <1>q, <1>g, <2>1, <2>2 DEF vars, objectVars
<1>10. QED
  BY <1>1, <1>2, <1>3, <1>4, <1>5, <1>6, <1>7, <1>8, <1>9 DEF Next

-----------------------------------------------------------------------------
(* The strengthened invariant holds in every reachable state.              *)
LEMMA PoolInvariance == Spec => []IInv
<1>1. QED BY InitEstablishesIInv, StepPreservesIInv, PTL DEF Spec

(* The links of the free list stay inside the array.                       *)
THEOREM PoolTypeCorrect == Spec => []TypeOK
<1>1. IInv => TypeOK BY DEF IInv
<1>2. QED BY <1>1, PoolInvariance, PTL

(* For any number of blocks the free list holds exactly the blocks without *)
(* an object, each once.                                                   *)
THEOREM FreeListStaysExact == Spec => []FreeListIsExact
<1>1. IInv => FreeListIsExact BY DEF IInv
<1>2. QED BY <1>1, PoolInvariance, PTL

(* A chunk is out of the list exactly as long as something refers to it.   *)
THEOREM ChunksAreHeldByReferences == Spec => []ChunkHeldByReferences
<1>1. IInv => ChunkHeldByReferences BY DEF IInv
<1>2. QED BY <1>1, PoolInvariance, PTL

-----------------------------------------------------------------------------
LEMMA InitImplementsAllocator == Init => Abstract!Init
BY ChunksAssumption DEF Init, Abstract!Init, Free

LEMMA StepImplementsAllocator == IInv /\ [Next]_vars => [Abstract!Next]_(Abstract!vars)
<1> SUFFICES ASSUME IInv, [Next]_vars PROVE [Abstract!Next]_(Abstract!vars)
  OBVIOUS
<1> USE DEF Abstract!Next, Abstract!vars
<1>t. phase \in [Blocks -> Phases]
  BY DEF IInv, TypeOK
<1>1. CASE get_shared_throws
  <2>1. freed = <<>>
    <3>1. freed # <<>> => freed[1] \in Blocks
      BY TailElements DEF IInv, TypeOK, ChunkerTypeOK
    <3>2. QED
      BY <1>1, <3>1 DEF get_shared_throws, IInv, FreeListIsExact, ListIsLinked, nullptr, Blocks
  <2>2. Free = {} BY <2>1 DEF IInv, FreeListIsExact, Range
  <2>3. Free' = Free BY <1>1 DEF get_shared_throws, Free
  <2>4. QED BY <1>1, <2>2, <2>3 DEF get_shared_throws, Abstract!Refuse
<1>2. ASSUME NEW b \in Blocks, get_shared(b) PROVE Abstract!Give(b)
  <2>1. b \in Free BY <1>2, CreateTakesOne DEF get_shared
  <2>2. Free' = Free \ {b} BY <1>2, <1>t DEF get_shared, Becomes, Free
  <2>3. Free \subseteq Blocks BY DEF Free
  <2>4. QED BY <1>2, <2>1, <2>2, <2>3 DEF get_shared, Abstract!Give
<1>3. ASSUME NEW b \in Blocks, phase[b] # "free", Becomes(b, "free"), UNCHANGED given
      PROVE  Abstract!Return(b)
  <2>1. b \notin Free /\ Free' = Free \cup {b} BY <1>3, <1>t DEF Becomes, Free
  <2>2. QED BY <1>3, <2>1 DEF Abstract!Return
<1>4. ASSUME NEW b \in Blocks, NEW p \in Phases \ {"free"},
             phase[b] # "free", Becomes(b, p), UNCHANGED given
      PROVE  UNCHANGED Abstract!vars
  <2>1. Free' = Free BY <1>4, <1>t DEF Becomes, Free
  <2>2. QED BY <1>4, <2>1
<1>5. ASSUME UNCHANGED <<phase, given>> PROVE UNCHANGED Abstract!vars
  BY <1>5 DEF Free
<1>6. ASSUME NEW b \in Blocks, constructed(b) PROVE UNCHANGED Abstract!vars
  BY <1>4, <1>6 DEF constructed, Running, Phases
<1>7. ASSUME NEW b \in Blocks, constructor_throws(b) PROVE Abstract!Return(b)
  BY <1>3, <1>7 DEF constructor_throws, Running
<1>8. ASSUME NEW b \in Blocks, take_weak(b) PROVE UNCHANGED Abstract!vars
  BY <1>5, <1>8 DEF take_weak
<1>9. ASSUME NEW b \in Blocks, drop_shared(b) PROVE UNCHANGED Abstract!vars
  BY <1>4, <1>9 DEF drop_shared, Phases
<1>10. ASSUME NEW b \in Blocks, destructed(b)
       PROVE  Abstract!Return(b) \/ UNCHANGED Abstract!vars
  BY <1>3, <1>4, <1>10 DEF destructed, Running, Phases
<1>11. ASSUME NEW b \in Blocks, drop_weak(b)
       PROVE  Abstract!Return(b) \/ UNCHANGED Abstract!vars
  BY <1>3, <1>5, <1>11 DEF drop_weak
<1>12. CASE UNCHANGED vars
  BY <1>5, <1>12 DEF vars, objectVars
<1>13. QED
  BY <1>1, <1>2, <1>6, <1>7, <1>8, <1>9, <1>10, <1>11, <1>12 DEF Next

(* The pool is an allocator: one owner for a block, and a request throws   *)
(* only when all blocks are owned.                                         *)
THEOREM PoolImplementsAllocator == Spec => ImplementsAllocator
<1>1. QED
  BY InitImplementsAllocator, StepImplementsAllocator, PoolInvariance, PTL
  DEF Spec, Abstract!Spec, ImplementsAllocator
=============================================================================
