---------------------------- MODULE StreamProofs ----------------------------
(***************************************************************************)
(* What Stream keeps for any size of the ring, of the connection and of    *)
(* what is sent: the bytes arrive as they were written, and eof is said    *)
(* only after the last of them, unless the connection was reset.           *)
(*                                                                         *)
(* The invariant speaks of single cells, because what is proved is of      *)
(* numbers: the received bytes are 1 .. r, the cells of the ring continue  *)
(* at r + 1 on either side of its end, the cells that the call of read has *)
(* filled continue behind them, and the connection behind those. That a    *)
(* call is for no more than the ring has room for keeps the cells apart.   *)
(***************************************************************************)
EXTENDS Stream, SequenceTheorems, TLAPS

(* m_overlap tells on which side of the tail the head is. *)
RingInv == IF m_overlap THEN m_head <= m_tail ELSE m_tail <= m_head

(* A call in progress has bytes to go, and room or bytes for all of them;  *)
(* nobody writes after the close or reads after eof.                       *)
CallsInv ==
  /\ reading # NoCall =>
       reading.offset < reading.data_size /\ reading.data_size <= available_write
  /\ writing # NoCall =>
       writing.offset < writing.data_size /\ sent + writing.data_size <= Total
  /\ closed => writing = NoCall
  /\ eof => reading = NoCall

BasicInv == TypeOK /\ RingInv /\ CallsInv

ArrivedSoFar == Len(received) + size + reading.offset
WrittenSoFar == sent + writing.offset

(* The elements of s count up from the number behind n. *)
CountsFrom(s, n) == \A i \in 1 .. Len(s) : s[i] = n + i

(* The cells from the tail hold the numbers behind the received ones, up to*)
(* the head or the end, and go on at the beginning of the ring.            *)
UnreadInv ==
  \A c \in 0 .. m_size - 1 :
    /\ c \in m_tail .. m_tail + available_read - 1 => m_data[c] = Len(received) + (c - m_tail) + 1
    /\ m_overlap /\ c < m_head => m_data[c] = Len(received) + (m_size - m_tail) + c + 1

(* The cells the call of read has filled hold the next ones. *)
JustReadInv ==
  \A c \in 0 .. m_size - 1 :
    c \in m_head .. m_head + reading.offset - 1 =>
      m_data[c] = Len(received) + size + (c - m_head) + 1

(* What is in the connection is what was written and has not arrived.      *)
PipeInv ==
  /\ connection = "open" =>
       ArrivedSoFar + Len(pipe) = WrittenSoFar /\ CountsFrom(pipe, ArrivedSoFar)
  /\ connection # "open" => ArrivedSoFar <= WrittenSoFar /\ pipe = <<>>

(* Nothing can follow eof. *)
EofInv == eof /\ connection = "open" => closed /\ pipe = <<>>

DataInv ==
  /\ CountsFrom(received, 0)
  /\ UnreadInv
  /\ JustReadInv
  /\ PipeInv
  /\ EofInv

IInv == BasicInv /\ DataInv

-----------------------------------------------------------------------------
(* Sequences that count up *)

(* One that goes on where the other ends can be put behind it. *)
LEMMA CountsOn ==
  ASSUME NEW n \in Int, NEW s \in Seq(Int), NEW t \in Seq(Int),
         CountsFrom(s, n), CountsFrom(t, n + Len(s))
  PROVE  /\ s \o t \in Seq(Int)
         /\ Len(s \o t) = Len(s) + Len(t)
         /\ CountsFrom(s \o t, n)
<1>1. /\ s \o t \in Seq(Int)
      /\ Len(s \o t) = Len(s) + Len(t)
      /\ \A i \in 1 .. Len(s) + Len(t) : (s \o t)[i] = IF i <= Len(s) THEN s[i] ELSE t[i - Len(s)]
  BY ConcatProperties
<1>2. Len(s) \in Nat /\ Len(t) \in Nat
  OBVIOUS
<1>3. ASSUME NEW i \in 1 .. Len(s) + Len(t) PROVE (s \o t)[i] = n + i
  <2>1. CASE i <= Len(s)
    BY <1>1, <1>2, <2>1 DEF CountsFrom
  <2>2. CASE i > Len(s)
    <3>1. i - Len(s) \in 1 .. Len(t)
      BY <1>2, <2>2
    <3>2. t[i - Len(s)] = n + Len(s) + (i - Len(s))
      BY <3>1 DEF CountsFrom
    <3> QED
      BY <1>1, <1>2, <2>2, <3>2
  <2> QED
    BY <1>2, <2>1, <2>2
<1> QED
  BY <1>1, <1>3 DEF CountsFrom

LEMMA CountsOnFromOne ==
  ASSUME NEW s \in Seq(Int), NEW t \in Seq(Int), CountsFrom(s, 0), CountsFrom(t, Len(s))
  PROVE  /\ s \o t \in Seq(Int)
         /\ Len(s \o t) = Len(s) + Len(t)
         /\ CountsFrom(s \o t, 0)
<1>1. 0 + Len(s) = Len(s) /\ 0 \in Int
  OBVIOUS
<1>2. CountsFrom(t, 0 + Len(s))
  BY <1>1
<1> HIDE DEF CountsFrom
<1> QED
  BY <1>1, <1>2, CountsOn

(* Its length and where it starts say all of it. *)
LEMMA CountsAreEqual ==
  ASSUME NEW n, NEW s \in Seq(Int), NEW t \in Seq(Int), Len(s) = Len(t),
         CountsFrom(s, n), CountsFrom(t, n)
  PROVE  s = t
<1>1. \A i \in 1 .. Len(s) : s[i] = t[i]
  BY DEF CountsFrom
<1> QED
  BY <1>1, SeqEqual

(* Numbers counts up. *)
LEMMA NumbersCount ==
  ASSUME NEW from \in Nat, NEW to \in Int, from <= to + 1
  PROVE  /\ Numbers(from, to) \in Seq(from .. to)
         /\ Numbers(from, to) \in Seq(Int)
         /\ Len(Numbers(from, to)) = to - from + 1
         /\ CountsFrom(Numbers(from, to), from - 1)
<1>1. to - from + 1 \in Nat
  OBVIOUS
<1>2. \A i \in 1 .. to - from + 1 : from + i - 1 \in from .. to
  OBVIOUS
<1>3. Numbers(from, to) \in [1 .. to - from + 1 -> from .. to]
  BY <1>2 DEF Numbers
<1>4. Numbers(from, to) \in Seq(from .. to) /\ Len(Numbers(from, to)) = to - from + 1
  BY <1>1, <1>3
<1>5. Numbers(from, to) \in Seq(Int)
  <2>1. from .. to \subseteq Int
    OBVIOUS
  <2> QED
    BY <1>4, <2>1, SeqMonotonic
<1>6. \A i \in 1 .. to - from + 1 : Numbers(from, to)[i] = from - 1 + i
  BY DEF Numbers
<1> QED
  BY <1>4, <1>5, <1>6 DEF CountsFrom

(* The beginning and the rest of a sequence. *)
LEMMA SubSeqElements ==
  ASSUME NEW S, NEW s \in Seq(S), NEW m \in 1 .. Len(s) + 1, NEW n \in Nat,
         n <= Len(s), m <= n + 1
  PROVE  /\ SubSeq(s, m, n) \in Seq(S)
         /\ Len(SubSeq(s, m, n)) = n - m + 1
         /\ \A i \in 1 .. n - m + 1 : SubSeq(s, m, n)[i] = s[m + i - 1]
<1>1. \A i \in m .. n : s[i] \in S
  BY ElementOfSeq
<1>2. m \in Int /\ n \in Int
  OBVIOUS
<1>3. /\ SubSeq(s, m, n) \in Seq(S)
      /\ Len(SubSeq(s, m, n)) = IF m <= n THEN n - m + 1 ELSE 0
      /\ \A i \in 1 .. n - m + 1 : SubSeq(s, m, n)[i] = s[m + i - 1]
  BY <1>1, <1>2, SubSeqProperties
<1> QED
  BY <1>2, <1>3

(* A function on 1 .. n is a sequence. *)
LEMMA FunctionIsSequence ==
  ASSUME NEW n \in Nat, NEW S, NEW f \in [1 .. n -> S]
  PROVE  f \in Seq(S) /\ Len(f) = n
  OBVIOUS

-----------------------------------------------------------------------------
(* The ring *)

LEMMA SizeType == m_size \in Nat /\ m_size > 0 /\ Total \in Nat /\ Capacity \in Nat
  BY SizeAssumption, StreamAssumption

LEMMA RingSizes ==
  ASSUME BufferTypeOK, RingInv
  PROVE  /\ size \in 0 .. m_size
         /\ available_read \in 0 .. size
         /\ available_write \in 0 .. m_size - m_head
         /\ m_head \in Nat /\ m_tail \in Nat /\ m_head < m_size /\ m_tail < m_size
  BY SizeType DEF BufferTypeOK, RingInv, size, available_read, available_write

(* buffer_write moves the head over bytes that were free. *)
LEMMA BufferWritten ==
  ASSUME BufferTypeOK, RingInv, NEW n \in Nat, n <= available_write, buffer_write(n)
  PROVE  /\ BufferTypeOK' /\ RingInv'
         /\ size' = size + n
         /\ m_tail' = m_tail
         /\ \/ m_head' = m_head + n /\ m_overlap' = m_overlap
            \/ m_head + n = m_size /\ m_head' = 0 /\ m_overlap' = TRUE /\ m_overlap = FALSE
<1>1. /\ m_head' = IF m_head + n = m_size THEN 0 ELSE m_head + n
      /\ m_overlap' = IF m_head + n = m_size THEN ~m_overlap ELSE m_overlap
      /\ m_tail' = m_tail
  BY DEF buffer_write, Advance, OverlapAfter
<1>2. m_head \in 0 .. m_size - 1 /\ m_tail \in 0 .. m_size - 1 /\ m_overlap \in BOOLEAN
  BY DEF BufferTypeOK
<1>3. CASE m_overlap = FALSE
  <2>1. m_tail <= m_head /\ m_head + n <= m_size /\ size = m_head - m_tail
    BY <1>2, <1>3, SizeType DEF RingInv, available_write, size
  <2>2. CASE m_head + n = m_size
    <3>1. m_head' = 0 /\ m_overlap' = TRUE
      BY <1>1, <1>3, <2>2
    <3>2. size' = m_size - m_tail
      BY <1>1, <1>2, <3>1, SizeType DEF size
    <3>3. BufferTypeOK' /\ RingInv'
      <4>0. 0 \in 0 .. m_size - 1
        BY SizeType
      <4>1. BufferTypeOK'
        BY <1>1, <1>2, <3>1, <4>0 DEF BufferTypeOK
      <4>2. 0 <= m_head /\ 0 <= m_tail
        BY <1>2, SizeType
      <4> QED
        BY <1>1, <3>1, <4>1, <4>2 DEF RingInv
    <3>4. size' = size + n
      BY <1>2, <2>1, <2>2, <3>2, SizeType
    <3> QED
      BY <1>1, <1>3, <2>2, <3>1, <3>3, <3>4
  <2>3. CASE m_head + n # m_size
    <3>1. m_head' = m_head + n /\ m_overlap' = m_overlap
      BY <1>1, <2>3
    <3>2. BufferTypeOK' /\ RingInv' /\ size' = size + n
      BY <1>1, <1>2, <1>3, <2>1, <2>3, <3>1, SizeType DEF BufferTypeOK, RingInv, size
    <3> QED
      BY <1>1, <3>1, <3>2
  <2> QED
    BY <2>2, <2>3
<1>4. CASE m_overlap = TRUE
  <2>1. m_head + n <= m_tail /\ m_head + n # m_size
    BY <1>2, <1>4, SizeType DEF available_write
  <2>2. m_head' = m_head + n /\ m_overlap' = m_overlap
    BY <1>1, <2>1
  <2>3. BufferTypeOK' /\ RingInv' /\ size' = size + n
    BY <1>1, <1>2, <1>4, <2>1, <2>2, SizeType DEF BufferTypeOK, RingInv, size
  <2> QED
    BY <1>1, <2>2, <2>3
<1> QED
  BY <1>2, <1>3, <1>4

(* buffer_read moves the tail over unread bytes. *)
LEMMA BufferTaken ==
  ASSUME BufferTypeOK, RingInv, NEW n \in Nat, n <= available_read, buffer_read(n)
  PROVE  /\ BufferTypeOK' /\ RingInv'
         /\ size' = size - n
         /\ m_head' = m_head
         /\ \/ m_tail' = m_tail + n /\ m_overlap' = m_overlap
            \/ m_tail + n = m_size /\ m_tail' = 0 /\ m_overlap' = FALSE /\ m_overlap = TRUE
<1>1. /\ m_tail' = IF m_tail + n = m_size THEN 0 ELSE m_tail + n
      /\ m_overlap' = IF m_tail + n = m_size THEN ~m_overlap ELSE m_overlap
      /\ m_head' = m_head
  BY DEF buffer_read, Advance, OverlapAfter
<1>2. m_head \in 0 .. m_size - 1 /\ m_tail \in 0 .. m_size - 1 /\ m_overlap \in BOOLEAN
  BY DEF BufferTypeOK
<1>3. CASE m_overlap = TRUE
  <2>1. m_head <= m_tail /\ m_tail + n <= m_size /\ size = m_size - m_tail + m_head
    BY <1>2, <1>3, SizeType DEF RingInv, available_read, size
  <2>2. CASE m_tail + n = m_size
    <3>1. m_tail' = 0 /\ m_overlap' = FALSE
      BY <1>1, <1>3, <2>2
    <3>2. size' = m_head
      BY <1>1, <1>2, <3>1, SizeType DEF size
    <3>3. BufferTypeOK' /\ RingInv'
      <4>0. 0 \in 0 .. m_size - 1
        BY SizeType
      <4>1. BufferTypeOK'
        BY <1>1, <1>2, <3>1, <4>0 DEF BufferTypeOK
      <4>2. 0 <= m_head /\ 0 <= m_tail
        BY <1>2, SizeType
      <4> QED
        BY <1>1, <3>1, <4>1, <4>2 DEF RingInv
    <3>4. size' = size - n
      BY <1>2, <2>1, <2>2, <3>2, SizeType
    <3> QED
      BY <1>1, <1>3, <2>2, <3>1, <3>3, <3>4
  <2>3. CASE m_tail + n # m_size
    <3>1. m_tail' = m_tail + n /\ m_overlap' = m_overlap
      BY <1>1, <2>3
    <3>2. BufferTypeOK' /\ RingInv' /\ size' = size - n
      BY <1>1, <1>2, <1>3, <2>1, <2>3, <3>1, SizeType DEF BufferTypeOK, RingInv, size
    <3> QED
      BY <1>1, <3>1, <3>2
  <2> QED
    BY <2>2, <2>3
<1>4. CASE m_overlap = FALSE
  <2>1. m_tail + n <= m_head /\ m_tail + n # m_size
    BY <1>2, <1>4, SizeType DEF available_read
  <2>2. m_tail' = m_tail + n /\ m_overlap' = m_overlap
    BY <1>1, <2>1
  <2>3. BufferTypeOK' /\ RingInv' /\ size' = size - n
    BY <1>1, <1>2, <1>4, <2>1, <2>2, SizeType DEF BufferTypeOK, RingInv, size
  <2> QED
    BY <1>1, <2>2, <2>3
<1> QED
  BY <1>2, <1>3, <1>4

-----------------------------------------------------------------------------
(* What the actions do, and BasicInv *)

(* The parts of BasicInv that the bytes have no say in. *)
LEMMA BasicFacts ==
  ASSUME BasicInv
  PROVE  /\ BufferTypeOK /\ RingInv
         /\ m_data \in [0 .. m_size - 1 -> Bytes]
         /\ pipe \in Seq(Bytes) /\ pipe \in Seq(Int) /\ Len(pipe) \in Nat
         /\ received \in Seq(Bytes) /\ received \in Seq(Int) /\ Len(received) \in Nat
         /\ sent \in Nat /\ writing.offset \in Nat /\ writing.data_size \in Nat
         /\ sent + writing.data_size <= Total /\ writing.offset <= writing.data_size
         /\ reading.offset \in Nat /\ reading.data_size \in Nat
         /\ reading.offset <= reading.data_size /\ reading.data_size <= available_write
<1>1. TypeOK /\ RingInv /\ CallsInv
  BY DEF BasicInv
<1>2. Bytes \subseteq Int
  BY DEF Bytes
<1>3. pipe \in Seq(Int) /\ received \in Seq(Int)
  BY <1>1, <1>2, SeqMonotonic DEF TypeOK
<1>4. available_write \in Nat
  BY <1>1, RingSizes, SizeType DEF TypeOK
<1>5. /\ sent \in 0 .. Total
      /\ writing \in [data_size : 0 .. Total, offset : 0 .. Total]
      /\ reading \in [data_size : 0 .. m_size, offset : 0 .. m_size]
  BY <1>1 DEF TypeOK
<1>6. /\ sent + writing.data_size <= Total /\ writing.offset <= writing.data_size
      /\ sent \in Nat /\ writing.offset \in Nat /\ writing.data_size \in Nat
  <2>1. CASE writing = NoCall
    BY <1>5, <2>1, SizeType DEF NoCall
  <2>2. CASE writing # NoCall
    BY <1>1, <1>5, <2>2, SizeType DEF CallsInv
  <2> QED
    BY <2>1, <2>2
<1>7. /\ reading.offset <= reading.data_size /\ reading.data_size <= available_write
      /\ reading.offset \in Nat /\ reading.data_size \in Nat
  <2>1. CASE reading = NoCall
    BY <1>4, <2>1 DEF NoCall
  <2>2. CASE reading # NoCall
    BY <1>1, <1>5, <2>2, SizeType DEF CallsInv
  <2> QED
    BY <2>1, <2>2
<1> QED
  BY <1>1, <1>3, <1>6, <1>7 DEF TypeOK

LEMMA WriteFacts ==
  ASSUME BasicInv, NEW n \in 1 .. Total - sent, write(n)
  PROVE  /\ BasicInv'
         /\ UNCHANGED <<closed, sent, readerVars, pipe, connection, received>>
         /\ WrittenSoFar' = WrittenSoFar
         /\ ~closed
<1>1. /\ writing = NoCall /\ ~closed /\ writing' = [data_size |-> n, offset |-> 0]
      /\ UNCHANGED <<closed, sent, readerVars, pipe, connection, received>>
  BY DEF write, Idle
<1>2. TypeOK /\ RingInv /\ CallsInv /\ sent \in 0 .. Total
  BY DEF BasicInv, TypeOK
<1>3. n \in 0 .. Total /\ 0 < n /\ sent + n <= Total
  BY <1>2, SizeType
<1>4. TypeOK'
  BY <1>1, <1>2, <1>3, SizeType DEF TypeOK, readerVars, bufferVars, BufferTypeOK
<1>5. RingInv' /\ CallsInv'
  <2>1. RingInv' /\ available_write' = available_write
    BY <1>1, <1>2 DEF RingInv, readerVars, bufferVars, available_write
  <2> QED
    BY <1>1, <1>2, <1>3, <2>1 DEF CallsInv, readerVars
<1>6. WrittenSoFar' = WrittenSoFar
  BY <1>1, <1>2 DEF WrittenSoFar, NoCall
<1> QED
  BY <1>1, <1>4, <1>5, <1>6 DEF BasicInv

(* The end of a call of write, or a part of it: k more bytes are written. *)
LEMMA SysWriteFacts ==
  ASSUME BasicInv,
         NEW k \in 1 .. Smaller(writing.data_size - writing.offset, Capacity - Len(pipe)),
         sys_write(k)
  PROVE  /\ BasicInv'
         /\ UNCHANGED <<closed, readerVars, connection, received>>
         /\ connection = "open" /\ writing # NoCall
         /\ pipe' = pipe \o Numbers(WrittenSoFar + 1, WrittenSoFar + k)
         /\ WrittenSoFar' = WrittenSoFar + k
<1>1. /\ TypeOK /\ RingInv /\ CallsInv /\ sent \in 0 .. Total
      /\ writing \in [data_size : 0 .. Total, offset : 0 .. Total]
  BY DEF BasicInv, TypeOK
<1>2. /\ UNCHANGED <<closed, readerVars, connection, received>>
      /\ connection = "open" /\ writing # NoCall
  BY DEF sys_write, Idle
<1>3. /\ k \in Nat /\ 1 <= k /\ writing.offset + k <= writing.data_size
      /\ Len(pipe) \in Nat /\ Len(pipe) + k <= Capacity
      /\ sent \in Nat /\ writing.offset \in Nat /\ writing.data_size \in Nat
      /\ sent + writing.data_size <= Total
  <2>1. /\ Len(pipe) \in Nat /\ sent \in Nat
        /\ writing.offset \in Nat /\ writing.data_size \in Nat
        /\ sent + writing.data_size <= Total
    BY BasicFacts
  <2>2. writing.data_size - writing.offset \in Int /\ Capacity - Len(pipe) \in Int
    BY <2>1, SizeType
  <2>3. k \in Nat /\ 1 <= k /\ k <= writing.data_size - writing.offset /\ k <= Capacity - Len(pipe)
    BY <2>2 DEF Smaller
  <2> QED
    BY <2>1, <2>3, SizeType
<1>4. WrittenSoFar + 1 = sent + writing.offset + 1
      /\ WrittenSoFar + k = (sent + writing.offset + 1) + k - 1
  BY <1>3 DEF WrittenSoFar
<1>5. pipe' = pipe \o Numbers(WrittenSoFar + 1, WrittenSoFar + k)
  BY <1>4 DEF sys_write
<1>6. pipe' \in Seq(Bytes) /\ Len(pipe') <= Capacity
  <2>1. /\ WrittenSoFar + 1 \in Nat /\ WrittenSoFar + k \in Int
        /\ WrittenSoFar + 1 <= (WrittenSoFar + k) + 1
        /\ WrittenSoFar + k <= Total
    <3>1. WrittenSoFar \in Nat
      BY <1>3 DEF WrittenSoFar
    <3>2. WrittenSoFar + k <= sent + writing.data_size
      BY <1>3 DEF WrittenSoFar
    <3>3. WrittenSoFar + k <= Total
      BY <1>3, <3>1, <3>2, SizeType
    <3> QED
      BY <1>3, <3>1, <3>3
  <2>2. /\ Numbers(WrittenSoFar + 1, WrittenSoFar + k) \in Seq(WrittenSoFar + 1 .. WrittenSoFar + k)
        /\ Len(Numbers(WrittenSoFar + 1, WrittenSoFar + k)) = (WrittenSoFar + k) - (WrittenSoFar + 1) + 1
    BY <2>1, NumbersCount
  <2>3. WrittenSoFar + 1 .. WrittenSoFar + k \subseteq Bytes
    BY <2>1, SizeType DEF Bytes
  <2>4. Numbers(WrittenSoFar + 1, WrittenSoFar + k) \in Seq(Bytes)
    BY <2>2, <2>3, SeqMonotonic
  <2>5. Len(Numbers(WrittenSoFar + 1, WrittenSoFar + k)) = k
    BY <1>3, <2>2 DEF WrittenSoFar
  <2>6. pipe \in Seq(Bytes)
    BY <1>1 DEF TypeOK
  <2>7. pipe' \in Seq(Bytes) /\ Len(pipe') = Len(pipe) + k
    BY <1>5, <2>4, <2>5, <2>6, ConcatProperties
  <2> QED
    BY <1>3, <2>7
<1>7. \/ /\ writing' = [writing EXCEPT !.offset = writing.offset + k] /\ sent' = sent
         /\ writing.offset + k < writing.data_size
      \/ writing' = NoCall /\ sent' = sent + (writing.offset + k)
  BY DEF sys_write, WriteReturns
<1>8. /\ sent' \in 0 .. Total
      /\ writing' \in [data_size : 0 .. Total, offset : 0 .. Total]
      /\ WrittenSoFar' = WrittenSoFar + k
      /\ writing' # NoCall =>
           writing'.offset < writing'.data_size /\ sent' + writing'.data_size <= Total
  <2>1. CASE /\ writing' = [writing EXCEPT !.offset = writing.offset + k] /\ sent' = sent
             /\ writing.offset + k < writing.data_size
    <3>1. writing'.offset = writing.offset + k /\ writing'.data_size = writing.data_size
      BY <1>1, <2>1
    <3>2. writing.offset + k \in 0 .. Total
      BY <1>1, <1>3, <2>1, SizeType
    <3>3. writing' \in [data_size : 0 .. Total, offset : 0 .. Total]
      BY <1>1, <2>1, <3>2
    <3>4. WrittenSoFar' = WrittenSoFar + k
      BY <1>3, <2>1, <3>1 DEF WrittenSoFar
    <3> QED
      BY <1>1, <1>3, <2>1, <3>1, <3>3, <3>4
  <2>2. CASE writing' = NoCall /\ sent' = sent + (writing.offset + k)
    BY <1>1, <1>3, <2>2, SizeType DEF NoCall, WrittenSoFar
  <2> QED
    BY <1>7, <2>1, <2>2
<1>9. TypeOK'
  BY <1>1, <1>2, <1>6, <1>8 DEF TypeOK, readerVars, bufferVars, BufferTypeOK
<1>10. RingInv' /\ CallsInv'
  <2>1. RingInv' /\ available_write' = available_write
    BY <1>1, <1>2 DEF RingInv, readerVars, bufferVars, available_write
  <2>2. ~closed
    BY <1>1, <1>2 DEF CallsInv
  <2> QED
    BY <1>1, <1>2, <1>8, <2>1, <2>2 DEF CallsInv, readerVars
<1> QED
  BY <1>2, <1>5, <1>8, <1>9, <1>10 DEF BasicInv

LEMMA SysWriteFailsFacts ==
  ASSUME BasicInv, sys_write_fails
  PROVE  /\ BasicInv'
         /\ UNCHANGED <<closed, readerVars, pipe, connection, received>>
         /\ WrittenSoFar' = WrittenSoFar
         /\ writing # NoCall
<1>1. /\ TypeOK /\ RingInv /\ CallsInv
      /\ UNCHANGED <<closed, readerVars, pipe, connection, received>>
      /\ writing # NoCall /\ writing' = NoCall /\ sent' = sent + writing.offset
  BY DEF BasicInv, sys_write_fails, WriteReturns, Idle
<1>2. sent \in Nat /\ writing.offset \in Nat /\ sent + writing.offset <= Total
  BY BasicFacts, SizeType
<1>3. /\ sent' \in 0 .. Total
      /\ writing' \in [data_size : 0 .. Total, offset : 0 .. Total]
      /\ WrittenSoFar' = WrittenSoFar
  BY <1>1, <1>2, SizeType DEF NoCall, WrittenSoFar
<1>4. TypeOK'
  BY <1>1, <1>3 DEF TypeOK, readerVars, bufferVars, BufferTypeOK
<1>5. RingInv' /\ available_write' = available_write
  BY <1>1 DEF RingInv, readerVars, bufferVars, available_write
<1>6. CallsInv'
  BY <1>1, <1>5 DEF CallsInv, readerVars
<1> QED
  BY <1>1, <1>3, <1>4, <1>5, <1>6 DEF BasicInv

LEMMA CloseFacts ==
  ASSUME BasicInv, close
  PROVE  /\ BasicInv'
         /\ UNCHANGED <<sent, writing, readerVars, pipe, connection, received>>
         /\ closed'
<1>1. /\ TypeOK /\ RingInv /\ CallsInv
      /\ UNCHANGED <<sent, writing, readerVars, pipe, connection, received>>
      /\ writing = NoCall /\ closed' = TRUE
  BY DEF BasicInv, close, Idle
<1>2. TypeOK'
  BY <1>1 DEF TypeOK, readerVars, bufferVars, BufferTypeOK
<1>3. RingInv' /\ CallsInv'
  BY <1>1 DEF RingInv, CallsInv, readerVars, bufferVars, available_write
<1> QED
  BY <1>1, <1>2, <1>3 DEF BasicInv

LEMMA BreakFacts ==
  ASSUME BasicInv, break
  PROVE  /\ BasicInv'
         /\ UNCHANGED <<writerVars, readerVars, received>>
         /\ connection = "open" /\ connection' = "reset" /\ pipe' = <<>>
<1>1. /\ TypeOK /\ RingInv /\ CallsInv
      /\ UNCHANGED <<writerVars, readerVars, received>>
      /\ connection = "open" /\ connection' = "reset" /\ pipe' = <<>>
  BY DEF BasicInv, break
<1>2. pipe' \in Seq(Bytes) /\ Len(pipe') <= Capacity
  BY <1>1, SizeType
<1>3. TypeOK'
  BY <1>1, <1>2 DEF TypeOK, writerVars, readerVars, bufferVars, BufferTypeOK
<1>4. RingInv' /\ CallsInv'
  BY <1>1 DEF RingInv, CallsInv, writerVars, readerVars, bufferVars, available_write
<1> QED
  BY <1>1, <1>3, <1>4 DEF BasicInv

(* The next call of read: it clears the cells it is for. *)
LEMMA ReadFacts ==
  ASSUME BasicInv, NEW n \in 1 .. available_write, read(n)
  PROVE  /\ BasicInv'
         /\ UNCHANGED <<bufferVars, eof, writerVars, pipe, connection, received>>
         /\ reading.offset = 0 /\ reading'.offset = 0 /\ ~eof
         /\ \A c \in 0 .. m_size - 1 :
              m_data'[c] = IF c \in m_head .. m_head + n - 1 THEN 0 ELSE m_data[c]
<1>1. /\ TypeOK /\ RingInv /\ CallsInv
      /\ UNCHANGED <<bufferVars, eof, writerVars, pipe, connection, received>>
      /\ reading = NoCall /\ ~eof /\ reading' = [data_size |-> n, offset |-> 0]
      /\ m_data' = [i \in DOMAIN m_data |-> IF i \in m_head .. m_head + n - 1 THEN 0 ELSE m_data[i]]
  BY DEF BasicInv, read, Idle
<1>2. /\ m_data \in [0 .. m_size - 1 -> Bytes] /\ 0 \in Bytes
      /\ available_write \in 0 .. m_size
  <2>1. available_write \in 0 .. m_size - m_head /\ m_head \in Nat
    BY BasicFacts, RingSizes
  <2>2. available_write \in 0 .. m_size
    BY <2>1, SizeType
  <2> QED
    BY <2>2, BasicFacts, SizeType DEF Bytes
<1>3. n \in 0 .. m_size /\ 0 < n /\ n <= available_write
  BY <1>2, SizeType
<1>4. m_data' \in [0 .. m_size - 1 -> Bytes]
  BY <1>1, <1>2
<1>5. TypeOK'
  BY <1>1, <1>3, <1>4, SizeType DEF TypeOK, bufferVars, writerVars, BufferTypeOK
<1>6. RingInv' /\ CallsInv'
  <2>1. RingInv' /\ available_write' = available_write
    BY <1>1 DEF RingInv, bufferVars, available_write
  <2> QED
    BY <1>1, <1>3, <2>1 DEF CallsInv, writerVars
<1>7. \A c \in 0 .. m_size - 1 :
        m_data'[c] = IF c \in m_head .. m_head + n - 1 THEN 0 ELSE m_data[c]
  BY <1>1, <1>2
<1> QED
  BY <1>1, <1>5, <1>6, <1>7 DEF BasicInv, NoCall

(* What a call of read leaves when it returns n bytes. *)
LEMMA ReturnFacts ==
  ASSUME BasicInv, NEW n_bytes \in Int, NEW n \in Nat, n <= available_write,
         ReadReturns(n_bytes, n)
  PROVE  /\ BufferTypeOK' /\ RingInv'
         /\ reading' = NoCall /\ (eof' <=> n_bytes = 0) /\ eof' \in BOOLEAN
         /\ reading' \in [data_size : 0 .. m_size, offset : 0 .. m_size]
         /\ size' = size + n
         /\ m_tail' = m_tail
         /\ \/ m_head' = m_head + n /\ m_overlap' = m_overlap
            \/ m_head + n = m_size /\ m_head' = 0 /\ m_overlap' = TRUE /\ m_overlap = FALSE
<1>1. reading' = NoCall /\ eof' = (n_bytes = 0) /\ buffer_write(n)
  BY DEF ReadReturns, IsEof
<1>2. BufferTypeOK /\ RingInv
  BY BasicFacts
<1>3. NoCall \in [data_size : 0 .. m_size, offset : 0 .. m_size]
  BY SizeType DEF NoCall
<1> QED
  BY <1>1, <1>2, <1>3, BufferWritten

LEMMA SysReadFacts ==
  ASSUME BasicInv,
         NEW k \in 1 .. Smaller(reading.data_size - reading.offset, Len(pipe)), sys_read(k)
  PROVE  /\ BasicInv'
         /\ UNCHANGED <<writerVars, connection, received>>
         /\ k \in Nat /\ 1 <= k /\ k <= Len(pipe) /\ reading.offset + k <= available_write
         /\ \A c \in 0 .. m_size - 1 :
              m_data'[c] = IF c \in m_head + reading.offset .. m_head + reading.offset + k - 1
                           THEN pipe[c - (m_head + reading.offset) + 1] ELSE m_data[c]
         /\ Len(pipe') = Len(pipe) - k
         /\ \A i \in 1 .. Len(pipe) - k : pipe'[i] = pipe[k + i]
         /\ ~eof'
         /\ m_tail' = m_tail
         /\ \/ /\ UNCHANGED bufferVars
               /\ reading'.offset = reading.offset + k
            \/ /\ reading'.offset = 0 /\ size' = size + (reading.offset + k)
               /\ \/ m_head' = m_head + (reading.offset + k) /\ m_overlap' = m_overlap
                  \/ /\ m_head + (reading.offset + k) = m_size /\ m_head' = 0
                     /\ m_overlap' = TRUE /\ m_overlap = FALSE
<1> DEFINE at == m_head + reading.offset
<1>1. /\ TypeOK /\ RingInv /\ CallsInv
      /\ UNCHANGED <<writerVars, connection, received>>
      /\ reading # NoCall
      /\ m_data' = [i \in DOMAIN m_data |->
                      IF i \in at .. at + k - 1 THEN pipe[i - at + 1] ELSE m_data[i]]
      /\ pipe' = SubSeq(pipe, k + 1, Len(pipe))
  BY DEF BasicInv, sys_read, Idle
<1>2. /\ k \in Nat /\ 1 <= k /\ k <= Len(pipe) /\ Len(pipe) \in Nat
      /\ reading.offset + k <= reading.data_size /\ reading.data_size <= available_write
      /\ reading.offset \in Nat /\ reading.data_size \in Nat
  BY BasicFacts DEF Smaller
<1>3. /\ available_write \in 0 .. m_size - m_head /\ available_write \in Nat
      /\ m_head \in Nat /\ m_head < m_size /\ m_size \in Nat
  BY BasicFacts, RingSizes, SizeType
<1>4. reading.offset + k <= available_write
  BY <1>2, <1>3
<1>5. /\ pipe \in Seq(Bytes)
      /\ m_data \in [0 .. m_size - 1 -> Bytes]
  BY BasicFacts
<1>6. /\ pipe' \in Seq(Bytes)
      /\ Len(pipe') = Len(pipe) - k
      /\ \A i \in 1 .. Len(pipe) - k : pipe'[i] = pipe[k + i]
  <2>1. k + 1 \in 1 .. Len(pipe) + 1 /\ k + 1 <= Len(pipe) + 1
    BY <1>2
  <2>2. /\ pipe' \in Seq(Bytes)
        /\ Len(pipe') = Len(pipe) - (k + 1) + 1
        /\ \A i \in 1 .. Len(pipe) - (k + 1) + 1 : pipe'[i] = pipe[(k + 1) + i - 1]
    BY <1>1, <1>2, <1>5, <2>1, SubSeqElements
  <2>3. Len(pipe) - (k + 1) + 1 = Len(pipe) - k
    BY <1>2
  <2>4. \A i \in 1 .. Len(pipe) - k : (k + 1) + i - 1 = k + i
    BY <1>2
  <2> QED
    BY <2>2, <2>3, <2>4
<1>7. \A c \in 0 .. m_size - 1 :
        m_data'[c] = IF c \in at .. at + k - 1 THEN pipe[c - at + 1] ELSE m_data[c]
  BY <1>1, <1>5
<1>8. m_data' \in [0 .. m_size - 1 -> Bytes]
  <2>1. ASSUME NEW c \in 0 .. m_size - 1, c \in at .. at + k - 1 PROVE pipe[c - at + 1] \in Bytes
    <3>1. at \in Nat /\ c \in Int /\ k \in Nat /\ k <= Len(pipe) /\ Len(pipe) \in Nat
      BY <1>2, <1>3
    <3>2. at <= c /\ c <= at + k - 1
      BY <2>1, <3>1
    <3> HIDE DEF at
    <3>3. c - at + 1 \in 1 .. Len(pipe)
      BY <3>1, <3>2
    <3> QED
      BY <1>5, <3>3, ElementOfSeq
  <2>2. \A c \in 0 .. m_size - 1 : m_data'[c] \in Bytes
    <3>1. \A c \in 0 .. m_size - 1 : m_data[c] \in Bytes
      BY <1>5
    <3> HIDE DEF at
    <3> QED
      BY <1>7, <2>1, <3>1
  <2>3. DOMAIN m_data = 0 .. m_size - 1
    BY <1>5
  <2> HIDE DEF at
  <2>4. m_data' = [c \in 0 .. m_size - 1 |-> m_data'[c]]
    BY <1>1, <2>3
  <2> QED
    BY <2>2, <2>4
<1>9. Len(pipe') <= Capacity
  BY <1>1, <1>2, <1>6, SizeType DEF TypeOK
<1>10. ~eof
  BY <1>1 DEF CallsInv
<1>11. CASE reading.offset + k < reading.data_size
  <2>1. UNCHANGED <<bufferVars, eof>> /\ reading' = [reading EXCEPT !.offset = reading.offset + k]
    BY <1>11 DEF sys_read
  <2>2. /\ reading \in [data_size : 0 .. m_size, offset : 0 .. m_size]
        /\ reading.offset + k \in 0 .. m_size
    BY <1>1, <1>2, <1>3, <1>4 DEF TypeOK
  <2>3. /\ reading' \in [data_size : 0 .. m_size, offset : 0 .. m_size]
        /\ reading'.offset = reading.offset + k /\ reading'.data_size = reading.data_size
    BY <2>1, <2>2
  <2>4. TypeOK'
    BY <1>1, <1>6, <1>8, <1>9, <2>1, <2>3 DEF TypeOK, bufferVars, writerVars, BufferTypeOK
  <2>5. RingInv' /\ available_write' = available_write /\ m_tail' = m_tail
    BY <1>1, <2>1 DEF RingInv, bufferVars, available_write
  <2>6. CallsInv'
    BY <1>1, <1>2, <1>10, <1>11, <2>1, <2>3, <2>5 DEF CallsInv, writerVars
  <2> QED
    BY <1>1, <1>2, <1>4, <1>6, <1>7, <1>10, <2>1, <2>3, <2>4, <2>5, <2>6 DEF BasicInv
<1>12. CASE ~(reading.offset + k < reading.data_size)
  <2>1. ReadReturns(k, reading.offset + k)
    BY <1>12 DEF sys_read
  <2>0. reading.offset + k \in Nat /\ k \in Int /\ k # 0
    BY <1>2
  <2>2. /\ BufferTypeOK' /\ RingInv'
        /\ reading' = NoCall /\ ~eof' /\ eof' \in BOOLEAN
        /\ reading' \in [data_size : 0 .. m_size, offset : 0 .. m_size]
        /\ size' = size + (reading.offset + k)
        /\ m_tail' = m_tail
        /\ \/ m_head' = m_head + (reading.offset + k) /\ m_overlap' = m_overlap
           \/ /\ m_head + (reading.offset + k) = m_size /\ m_head' = 0
              /\ m_overlap' = TRUE /\ m_overlap = FALSE
    BY <1>4, <2>0, <2>1, ReturnFacts
  <2>3. TypeOK'
    BY <1>1, <1>6, <1>8, <1>9, <2>2 DEF TypeOK, writerVars
  <2>4. CallsInv'
    BY <1>1, <2>2 DEF CallsInv, writerVars
  <2>5. reading'.offset = 0
    BY <2>2 DEF NoCall
  <2> QED
    BY <1>1, <1>2, <1>4, <1>6, <1>7, <2>2, <2>3, <2>4, <2>5 DEF BasicInv
<1> QED
  BY <1>11, <1>12

LEMMA SysReadNothingFacts ==
  ASSUME BasicInv, sys_read_nothing
  PROVE  /\ BasicInv'
         /\ UNCHANGED <<m_data, writerVars, pipe, received>>
         /\ pipe = <<>>
         /\ connection' = IF connection = "reset" THEN "dead" ELSE connection
         /\ eof' => connection = "dead" \/ (closed /\ connection = "open")
         /\ reading'.offset = 0 /\ size' = size + reading.offset
         /\ m_tail' = m_tail
         /\ \/ m_head' = m_head + reading.offset /\ m_overlap' = m_overlap
            \/ /\ m_head + reading.offset = m_size /\ m_head' = 0
               /\ m_overlap' = TRUE /\ m_overlap = FALSE
<1> DEFINE atEnd == connection = "dead" \/ (closed /\ connection = "open")
           n_bytes == IF atEnd THEN 0 ELSE -1
<1>1. /\ TypeOK /\ RingInv /\ CallsInv
      /\ UNCHANGED <<m_data, writerVars, pipe, received>>
      /\ pipe = <<>>
      /\ connection' = IF connection = "reset" THEN "dead" ELSE connection
      /\ ReadReturns(n_bytes, reading.offset)
  BY DEF BasicInv, sys_read_nothing
<1>2. n_bytes \in Int /\ (n_bytes = 0 => atEnd)
  OBVIOUS
<1>3. reading.offset \in Nat /\ reading.offset <= available_write
  <2>1. available_write \in Nat
    BY BasicFacts, RingSizes, SizeType
  <2> QED
    BY <2>1, BasicFacts
<1> HIDE DEF n_bytes
<1>4. /\ BufferTypeOK' /\ RingInv'
      /\ reading' = NoCall /\ (eof' <=> n_bytes = 0) /\ eof' \in BOOLEAN
      /\ reading' \in [data_size : 0 .. m_size, offset : 0 .. m_size]
      /\ size' = size + reading.offset
      /\ m_tail' = m_tail
      /\ \/ m_head' = m_head + reading.offset /\ m_overlap' = m_overlap
         \/ /\ m_head + reading.offset = m_size /\ m_head' = 0
            /\ m_overlap' = TRUE /\ m_overlap = FALSE
  BY <1>1, <1>2, <1>3, ReturnFacts
<1>5. TypeOK'
  BY <1>1, <1>4 DEF TypeOK, writerVars
<1>6. CallsInv'
  BY <1>1, <1>4 DEF CallsInv, writerVars
<1>7. reading'.offset = 0
  BY <1>4 DEF NoCall
<1> QED
  BY <1>1, <1>2, <1>4, <1>5, <1>6, <1>7 DEF BasicInv

(* The program takes the n bytes from the tail on. *)
LEMMA ConsumeFacts ==
  ASSUME BasicInv, NEW n \in 1 .. available_read, consume(n)
  PROVE  /\ BasicInv'
         /\ UNCHANGED <<m_data, reading, eof, writerVars, pipe, connection>>
         /\ n \in Nat /\ n <= available_read
         /\ reading.offset = 0
         /\ received' = received \o [i \in 1 .. n |-> m_data[m_tail + i - 1]]
         /\ [i \in 1 .. n |-> m_data[m_tail + i - 1]] \in Seq(Bytes)
         /\ [i \in 1 .. n |-> m_data[m_tail + i - 1]] \in Seq(Int)
         /\ Len([i \in 1 .. n |-> m_data[m_tail + i - 1]]) = n
         /\ Len(received') = Len(received) + n
         /\ size' = size - n
         /\ m_head' = m_head
         /\ \/ m_tail' = m_tail + n /\ m_overlap' = m_overlap
            \/ m_tail + n = m_size /\ m_tail' = 0 /\ m_overlap' = FALSE /\ m_overlap = TRUE
<1> DEFINE taken == [i \in 1 .. n |-> m_data[m_tail + i - 1]]
<1>1. /\ TypeOK /\ RingInv /\ CallsInv
      /\ UNCHANGED <<m_data, reading, eof, writerVars, pipe, connection>>
      /\ reading = NoCall
      /\ buffer_read(n)
      /\ received' = received \o taken
  BY DEF BasicInv, consume, Idle
<1>2. /\ available_read \in Nat /\ m_tail \in Nat /\ m_size \in Nat
      /\ m_tail + available_read <= m_size
  <2>1. BufferTypeOK /\ RingInv /\ m_overlap \in BOOLEAN
    BY BasicFacts DEF BufferTypeOK
  <2>2. available_read \in 0 .. size /\ size \in 0 .. m_size /\ m_tail \in Nat /\ m_head \in Nat
        /\ m_head < m_size /\ m_tail < m_size
    BY <2>1, RingSizes
  <2>3. m_tail + available_read <= m_size
    BY <2>1, <2>2, SizeType DEF available_read
  <2> QED
    BY <2>2, <2>3, SizeType
<1>3. n \in Nat /\ n <= available_read
  BY <1>2
<1>4. /\ BufferTypeOK' /\ RingInv'
      /\ size' = size - n
      /\ m_head' = m_head
      /\ \/ m_tail' = m_tail + n /\ m_overlap' = m_overlap
         \/ m_tail + n = m_size /\ m_tail' = 0 /\ m_overlap' = FALSE /\ m_overlap = TRUE
  BY <1>1, <1>3, BasicFacts, BufferTaken
<1>5. taken \in Seq(Bytes) /\ Len(taken) = n
  <2>1. \A i \in 1 .. n : m_tail + i - 1 \in 0 .. m_size - 1
    BY <1>2, <1>3
  <2>2. taken \in [1 .. n -> Bytes]
    BY <2>1, BasicFacts
  <2> HIDE DEF taken
  <2> QED
    BY <1>3, <2>2, FunctionIsSequence
<1>6. taken \in Seq(Int)
  <2>1. Bytes \subseteq Int
    BY DEF Bytes
  <2> QED
    BY <1>5, <2>1, SeqMonotonic
<1>7. received' \in Seq(Bytes) /\ Len(received') = Len(received) + n
  <2> HIDE DEF taken
  <2> QED
    BY <1>1, <1>5, BasicFacts, ConcatProperties
<1>8. TypeOK'
  BY <1>1, <1>4, <1>7 DEF TypeOK, writerVars
<1>9. CallsInv' /\ reading.offset = 0
  BY <1>1 DEF CallsInv, writerVars, NoCall
<1> QED
  BY <1>1, <1>3, <1>4, <1>5, <1>6, <1>7, <1>8, <1>9 DEF BasicInv

-----------------------------------------------------------------------------
(* The cells of the ring *)

(* Cells filled from the head on with the next numbers count as unread when*)
(* the head has moved over them.                                           *)
LEMMA FilledBecomeUnread ==
  ASSUME BasicInv, NEW n \in Nat, n <= available_write,
         Len(received') = Len(received), m_tail' = m_tail,
         \/ m_head' = m_head + n /\ m_overlap' = m_overlap
         \/ m_head + n = m_size /\ m_head' = 0 /\ m_overlap' = TRUE /\ m_overlap = FALSE,
         \A c \in 0 .. m_size - 1 :
           /\ c \in m_tail .. m_tail + available_read - 1 =>
                m_data'[c] = Len(received) + (c - m_tail) + 1
           /\ m_overlap /\ c < m_head => m_data'[c] = Len(received) + (m_size - m_tail) + c + 1,
         \A c \in 0 .. m_size - 1 :
           c \in m_head .. m_head + n - 1 => m_data'[c] = Len(received) + size + (c - m_head) + 1
  PROVE  UnreadInv'
<1>1. /\ m_head \in Nat /\ m_tail \in Nat /\ m_size \in Nat /\ Len(received) \in Nat
      /\ m_head < m_size /\ m_tail < m_size /\ m_overlap \in BOOLEAN
  BY BasicFacts, RingSizes, SizeType DEF BufferTypeOK
<1>2. SUFFICES ASSUME NEW c \in 0 .. m_size - 1
      PROVE  /\ c \in m_tail' .. m_tail' + available_read' - 1 =>
                  m_data'[c] = Len(received') + (c - m_tail') + 1
             /\ m_overlap' /\ c < m_head' =>
                  m_data'[c] = Len(received') + (m_size - m_tail') + c + 1
  BY DEF UnreadInv
<1>3. c \in Nat /\ c < m_size
  BY <1>1
<1>4. CASE m_overlap = TRUE
  <2>1. m_head' = m_head + n /\ m_overlap' = TRUE
    BY <1>4
  <2>2. available_read = m_size - m_tail /\ available_read' = m_size - m_tail
    BY <1>4, <2>1 DEF available_read
  <2>3. size = m_size - m_tail + m_head
    BY <1>4 DEF size
  <2>4. c < m_head => m_data'[c] = Len(received) + (m_size - m_tail) + c + 1
    BY <1>4
  <2>5. ASSUME c < m_head + n, ~(c < m_head)
        PROVE  m_data'[c] = Len(received) + (m_size - m_tail) + c + 1
    <3>1. c \in m_head .. m_head + n - 1
      BY <1>1, <1>3, <2>5
    <3>2. m_data'[c] = Len(received) + size + (c - m_head) + 1
      BY <3>1
    <3> QED
      BY <1>1, <1>3, <2>3, <3>2
  <2> QED
    BY <2>1, <2>2, <2>4, <2>5
<1>5. CASE m_overlap = FALSE
  <2>1. available_read = m_head - m_tail /\ size = m_head - m_tail
    BY <1>5 DEF available_read, size
  <2>2. m_tail <= m_head
    BY <1>5, BasicFacts DEF RingInv
  <2>3. ASSUME m_tail <= c, c < m_head + n PROVE m_data'[c] = Len(received) + (c - m_tail) + 1
    <3>1. CASE c < m_head
      <4>1. c \in m_tail .. m_tail + available_read - 1
        BY <1>1, <1>3, <2>1, <2>3, <3>1
      <4> QED
        BY <4>1
    <3>2. CASE ~(c < m_head)
      <4>1. c \in m_head .. m_head + n - 1
        BY <1>1, <1>3, <2>3, <3>2
      <4>2. m_data'[c] = Len(received) + size + (c - m_head) + 1
        BY <4>1
      <4> QED
        BY <1>1, <1>3, <2>1, <4>2
    <3> QED
      BY <3>1, <3>2
  <2>4. CASE m_head' = m_head + n /\ m_overlap' = m_overlap
    <3>1. m_overlap' = FALSE
      BY <1>5, <2>4
    <3>2. available_read' = m_head' - m_tail'
      BY <3>1 DEF available_read
    <3>3. available_read' = m_head + n - m_tail
      BY <1>1, <2>4, <3>2
    <3>4. c \in m_tail .. m_tail + available_read' - 1 => m_tail <= c /\ c < m_head + n
      BY <1>1, <1>3, <3>3
    <3> QED
      BY <1>5, <2>3, <2>4, <3>4
  <2>5. CASE m_head + n = m_size /\ m_head' = 0 /\ m_overlap' = TRUE /\ m_overlap = FALSE
    <3>1. available_read' = m_size - m_tail
      BY <2>5 DEF available_read
    <3>2. c \in m_tail .. m_tail + available_read' - 1 => m_tail <= c /\ c < m_head + n
      BY <1>1, <1>3, <2>5, <3>1
    <3>3. ~(c < m_head')
      BY <1>3, <2>5
    <3> QED
      BY <2>3, <3>2, <3>3
  <2> QED
    BY <2>4, <2>5
<1> QED
  BY <1>1, <1>4, <1>5

(* The cells behind those that were taken are still unread. *)
LEMMA RestIsUnread ==
  ASSUME BasicInv, UnreadInv, NEW n \in Nat, n <= available_read,
         Len(received') = Len(received) + n, m_head' = m_head, m_data' = m_data,
         \/ m_tail' = m_tail + n /\ m_overlap' = m_overlap
         \/ m_tail + n = m_size /\ m_tail' = 0 /\ m_overlap' = FALSE /\ m_overlap = TRUE
  PROVE  UnreadInv'
<1>1. /\ m_head \in Nat /\ m_tail \in Nat /\ m_size \in Nat /\ Len(received) \in Nat
      /\ m_head < m_size /\ m_tail < m_size /\ m_overlap \in BOOLEAN
  BY BasicFacts, RingSizes, SizeType DEF BufferTypeOK
<1>2. SUFFICES ASSUME NEW c \in 0 .. m_size - 1
      PROVE  /\ c \in m_tail' .. m_tail' + available_read' - 1 =>
                  m_data'[c] = Len(received') + (c - m_tail') + 1
             /\ m_overlap' /\ c < m_head' =>
                  m_data'[c] = Len(received') + (m_size - m_tail') + c + 1
  BY DEF UnreadInv
<1>3. /\ c \in Nat /\ c < m_size
      /\ c \in m_tail .. m_tail + available_read - 1 =>
           m_data[c] = Len(received) + (c - m_tail) + 1
      /\ m_overlap /\ c < m_head => m_data[c] = Len(received) + (m_size - m_tail) + c + 1
  BY <1>1 DEF UnreadInv
<1>4. CASE m_overlap = TRUE
  <2>1. available_read = m_size - m_tail
    BY <1>4 DEF available_read
  <2>2. CASE m_tail' = m_tail + n /\ m_overlap' = m_overlap
    <3>1. available_read' = m_size - (m_tail + n)
      BY <1>4, <2>2 DEF available_read
    <3>2. ASSUME c \in m_tail' .. m_tail' + available_read' - 1
          PROVE  m_data'[c] = Len(received') + (c - m_tail') + 1
      <4>1. c \in m_tail .. m_tail + available_read - 1
        BY <1>1, <1>3, <2>1, <2>2, <3>1, <3>2
      <4>2. m_data[c] = Len(received) + (c - m_tail) + 1
        BY <1>3, <4>1
      <4> QED
        BY <1>1, <1>3, <2>2, <4>2
    <3>3. ASSUME c < m_head' PROVE m_data'[c] = Len(received') + (m_size - m_tail') + c + 1
      <4>1. m_data[c] = Len(received) + (m_size - m_tail) + c + 1
        BY <1>3, <1>4, <3>3
      <4> QED
        BY <1>1, <1>3, <2>2, <4>1
    <3> QED
      BY <3>2, <3>3
  <2>3. CASE m_tail + n = m_size /\ m_tail' = 0 /\ m_overlap' = FALSE /\ m_overlap = TRUE
    <3>1. available_read' = m_head - 0
      BY <2>3 DEF available_read
    <3>2. ASSUME c \in m_tail' .. m_tail' + available_read' - 1
          PROVE  m_data'[c] = Len(received') + (c - m_tail') + 1
      <4>1. c < m_head
        BY <1>1, <1>3, <2>3, <3>1, <3>2
      <4>2. m_data[c] = Len(received) + (m_size - m_tail) + c + 1
        BY <1>3, <1>4, <4>1
      <4>3. m_size - m_tail = n
        BY <1>1, <2>3
      <4> QED
        BY <1>1, <1>3, <2>3, <4>2, <4>3
    <3> QED
      BY <2>3, <3>2
  <2> QED
    BY <2>2, <2>3
<1>5. CASE m_overlap = FALSE
  <2>1. available_read = m_head - m_tail /\ m_tail' = m_tail + n /\ m_overlap' = FALSE
    BY <1>5 DEF available_read
  <2>2. available_read' = m_head - (m_tail + n)
    BY <2>1 DEF available_read
  <2>3. ASSUME c \in m_tail' .. m_tail' + available_read' - 1
        PROVE  m_data'[c] = Len(received') + (c - m_tail') + 1
    <3>1. c \in m_tail .. m_tail + available_read - 1
      BY <1>1, <1>3, <2>1, <2>2, <2>3
    <3>2. m_data[c] = Len(received) + (c - m_tail) + 1
      BY <1>3, <3>1
    <3> QED
      BY <1>1, <1>3, <2>1, <3>2
  <2> QED
    BY <2>1, <2>3
<1> QED
  BY <1>1, <1>4, <1>5

(* The cells from the head on that are free are none of the unread ones. *)
LEMMA FreeAreNotUnread ==
  ASSUME BasicInv, NEW c \in 0 .. m_size - 1, c \in m_head .. m_head + available_write - 1
  PROVE  /\ c \notin m_tail .. m_tail + available_read - 1
         /\ ~(m_overlap /\ c < m_head)
<1>1. /\ m_head \in Nat /\ m_tail \in Nat /\ m_size \in Nat
      /\ m_head < m_size /\ m_tail < m_size /\ m_overlap \in BOOLEAN /\ RingInv
  BY BasicFacts, RingSizes, SizeType DEF BufferTypeOK
<1>2. CASE m_overlap = TRUE
  <2>1. available_read = m_size - m_tail /\ available_write = m_tail - m_head
    BY <1>2 DEF available_read, available_write
  <2> QED
    BY <1>1, <2>1
<1>3. CASE m_overlap = FALSE
  <2>1. available_read = m_head - m_tail /\ available_write = m_size - m_head
    BY <1>3 DEF available_read, available_write
  <2> QED
    BY <1>1, <1>3, <2>1
<1> QED
  BY <1>1, <1>2, <1>3

-----------------------------------------------------------------------------
(* The bytes on their way *)

(* What a step of the other side leaves of the reader's cells.             *)
LEMMA CellsStay ==
  ASSUME UnreadInv, JustReadInv, CountsFrom(received, 0),
         UNCHANGED <<bufferVars, m_data, received>>, reading'.offset = reading.offset
  PROVE  /\ UnreadInv' /\ JustReadInv' /\ CountsFrom(received', 0)
         /\ ArrivedSoFar' = ArrivedSoFar
  BY DEF UnreadInv, JustReadInv, bufferVars, size, available_read, ArrivedSoFar

LEMMA CountsTyped ==
  ASSUME BasicInv
  PROVE  ArrivedSoFar \in Nat /\ WrittenSoFar \in Nat
<1>1. size \in Nat
  BY BasicFacts, RingSizes, SizeType
<1> QED
  BY <1>1, BasicFacts DEF ArrivedSoFar, WrittenSoFar

LEMMA WriterKeepsData ==
  ASSUME IInv, WriterStep \/ break
  PROVE  DataInv'
<1>0. BasicInv /\ CountsFrom(received, 0) /\ UnreadInv /\ JustReadInv /\ PipeInv /\ EofInv
  BY DEF IInv, DataInv
<1>1. ASSUME NEW n \in 1 .. Total - sent, write(n) PROVE DataInv'
  <2>1. /\ UNCHANGED <<closed, readerVars, pipe, connection, received>>
        /\ WrittenSoFar' = WrittenSoFar
    BY <1>0, <1>1, WriteFacts
  <2>2. UnreadInv' /\ JustReadInv' /\ CountsFrom(received', 0) /\ ArrivedSoFar' = ArrivedSoFar
    BY <1>0, <2>1, CellsStay DEF readerVars
  <2>3. PipeInv' /\ EofInv'
    BY <1>0, <2>1, <2>2 DEF PipeInv, EofInv, CountsFrom, readerVars
  <2> QED
    BY <2>2, <2>3 DEF DataInv
<1>2. ASSUME NEW k \in 1 .. Smaller(writing.data_size - writing.offset, Capacity - Len(pipe)),
             sys_write(k)
      PROVE  DataInv'
  <2>1. /\ UNCHANGED <<closed, readerVars, connection, received>>
        /\ connection = "open" /\ writing # NoCall
        /\ pipe' = pipe \o Numbers(WrittenSoFar + 1, WrittenSoFar + k)
        /\ WrittenSoFar' = WrittenSoFar + k
    BY <1>0, <1>2, SysWriteFacts
  <2>2. UnreadInv' /\ JustReadInv' /\ CountsFrom(received', 0) /\ ArrivedSoFar' = ArrivedSoFar
    BY <1>0, <2>1, CellsStay DEF readerVars
  <2>3. /\ WrittenSoFar \in Nat /\ ArrivedSoFar \in Nat /\ pipe \in Seq(Int) /\ Len(pipe) \in Nat
        /\ k \in Int /\ 1 <= k
    BY <1>0, BasicFacts, CountsTyped
  <2>4. CountsFrom(pipe, ArrivedSoFar) /\ ArrivedSoFar + Len(pipe) = WrittenSoFar
    BY <1>0, <2>1 DEF PipeInv
  <2>5. PICK a \in Nat, w \in Nat : a = ArrivedSoFar /\ w = WrittenSoFar
    BY <2>3
  <2>6. PICK more : more = Numbers(w + 1, w + k)
    OBVIOUS
  <2>7. more \in Seq(Int) /\ Len(more) = k /\ CountsFrom(more, a + Len(pipe))
    <3>1. /\ w + 1 \in Nat /\ w + k \in Int /\ w + 1 <= (w + k) + 1
          /\ (w + k) - (w + 1) + 1 = k /\ (w + 1) - 1 = a + Len(pipe)
      BY <2>3, <2>4, <2>5
    <3>2. /\ more \in Seq(Int)
          /\ Len(more) = (w + k) - (w + 1) + 1
          /\ CountsFrom(more, (w + 1) - 1)
      BY <2>6, <3>1, NumbersCount
    <3> QED
      BY <3>1, <3>2
  <2>8. ArrivedSoFar' + Len(pipe') = WrittenSoFar' /\ CountsFrom(pipe', ArrivedSoFar')
    <3>1. CountsFrom(pipe, a) /\ a \in Int
      BY <2>4, <2>5
    <3>2. Len(pipe \o more) = Len(pipe) + k /\ CountsFrom(pipe \o more, a)
      BY <2>3, <2>7, <3>1, CountsOn
    <3>3. pipe' = pipe \o more /\ ArrivedSoFar' = a /\ WrittenSoFar' = w + k
      BY <2>1, <2>2, <2>5, <2>6
    <3>4. a + Len(pipe) = w
      BY <2>4, <2>5
    <3>5. a + (Len(pipe) + k) = w + k
      BY <2>3, <3>4
    <3> QED
      BY <3>2, <3>3, <3>5
  <2>9. PipeInv'
    BY <2>1, <2>8 DEF PipeInv, CountsFrom
  <2>10. ~closed
    BY <1>0, <2>1 DEF BasicInv, CallsInv
  <2>11. EofInv'
    BY <1>0, <2>1, <2>10 DEF EofInv, readerVars
  <2> QED
    BY <2>2, <2>9, <2>11 DEF DataInv
<1>3. ASSUME sys_write_fails PROVE DataInv'
  <2>1. /\ UNCHANGED <<closed, readerVars, pipe, connection, received>>
        /\ WrittenSoFar' = WrittenSoFar
    BY <1>0, <1>3, SysWriteFailsFacts
  <2>2. UnreadInv' /\ JustReadInv' /\ CountsFrom(received', 0) /\ ArrivedSoFar' = ArrivedSoFar
    BY <1>0, <2>1, CellsStay DEF readerVars
  <2>3. PipeInv' /\ EofInv'
    BY <1>0, <2>1, <2>2 DEF PipeInv, EofInv, CountsFrom, readerVars
  <2> QED
    BY <2>2, <2>3 DEF DataInv
<1>4. ASSUME close PROVE DataInv'
  <2>1. UNCHANGED <<sent, writing, readerVars, pipe, connection, received>> /\ closed'
    BY <1>0, <1>4, CloseFacts
  <2>2. UnreadInv' /\ JustReadInv' /\ CountsFrom(received', 0) /\ ArrivedSoFar' = ArrivedSoFar
    BY <1>0, <2>1, CellsStay DEF readerVars
  <2>3. WrittenSoFar' = WrittenSoFar
    BY <2>1 DEF WrittenSoFar
  <2>4. PipeInv' /\ EofInv'
    BY <1>0, <2>1, <2>2, <2>3 DEF PipeInv, EofInv, CountsFrom, readerVars
  <2> QED
    BY <2>2, <2>4 DEF DataInv
<1>5. ASSUME break PROVE DataInv'
  <2>1. /\ UNCHANGED <<writerVars, readerVars, received>>
        /\ connection = "open" /\ connection' = "reset" /\ pipe' = <<>>
    BY <1>0, <1>5, BreakFacts
  <2>2. UnreadInv' /\ JustReadInv' /\ CountsFrom(received', 0) /\ ArrivedSoFar' = ArrivedSoFar
    BY <1>0, <2>1, CellsStay DEF readerVars
  <2>3. WrittenSoFar' = WrittenSoFar
    BY <2>1 DEF WrittenSoFar, writerVars
  <2>4. ArrivedSoFar <= WrittenSoFar
    BY <1>0, <2>1, CountsTyped, BasicFacts DEF PipeInv
  <2>5. PipeInv' /\ EofInv'
    BY <2>1, <2>2, <2>3, <2>4 DEF PipeInv, EofInv
  <2> QED
    BY <2>2, <2>5 DEF DataInv
<1> QED
  BY <1>1, <1>2, <1>3, <1>4, <1>5 DEF WriterStep

(* read clears free cells only. *)
LEMMA ReadKeepsData ==
  ASSUME IInv, NEW n \in 1 .. available_write, read(n)
  PROVE  DataInv'
<1>0. BasicInv /\ CountsFrom(received, 0) /\ UnreadInv /\ JustReadInv /\ PipeInv /\ EofInv
  BY DEF IInv, DataInv
<1>1. /\ UNCHANGED <<bufferVars, eof, writerVars, pipe, connection, received>>
      /\ reading.offset = 0 /\ reading'.offset = 0 /\ ~eof
      /\ \A c \in 0 .. m_size - 1 :
           m_data'[c] = IF c \in m_head .. m_head + n - 1 THEN 0 ELSE m_data[c]
  BY <1>0, ReadFacts
<1>2. /\ available_write \in 0 .. m_size - m_head /\ available_write \in Nat /\ m_head \in Nat
      /\ m_size \in Nat /\ n \in Nat /\ n <= available_write
  <2>1. available_write \in 0 .. m_size - m_head /\ m_head \in Nat /\ m_size \in Nat
    BY <1>0, BasicFacts, RingSizes, SizeType
  <2> QED
    BY <2>1
<1>3. /\ m_head' = m_head /\ m_tail' = m_tail /\ m_overlap' = m_overlap
      /\ size' = size /\ available_read' = available_read
  BY <1>1 DEF bufferVars, size, available_read
<1>4. UnreadInv'
  <2> SUFFICES ASSUME NEW c \in 0 .. m_size - 1
      PROVE  /\ c \in m_tail .. m_tail + available_read - 1 =>
                  m_data'[c] = Len(received) + (c - m_tail) + 1
             /\ m_overlap /\ c < m_head =>
                  m_data'[c] = Len(received) + (m_size - m_tail) + c + 1
    BY <1>1, <1>3 DEF UnreadInv
  <2>1. CASE c \in m_head .. m_head + n - 1
    <3>1. c \in m_head .. m_head + available_write - 1
      BY <1>2, <2>1
    <3> QED
      BY <1>0, <3>1, FreeAreNotUnread
  <2>2. CASE c \notin m_head .. m_head + n - 1
    <3>1. m_data'[c] = m_data[c]
      BY <1>1, <2>2
    <3> QED
      BY <1>0, <3>1 DEF UnreadInv
  <2> QED
    BY <2>1, <2>2
<1>5. JustReadInv'
  <2>1. \A c \in 0 .. m_size - 1 : c \notin m_head .. m_head + 0 - 1
    BY <1>2
  <2> QED
    BY <1>1, <1>3, <2>1 DEF JustReadInv
<1>6. CountsFrom(received, 0)'
  BY <1>0, <1>1 DEF CountsFrom
<1>7. ArrivedSoFar' = ArrivedSoFar /\ WrittenSoFar' = WrittenSoFar
  BY <1>1, <1>3 DEF ArrivedSoFar, WrittenSoFar, writerVars
<1>8. PipeInv' /\ EofInv'
  BY <1>0, <1>1, <1>7 DEF PipeInv, EofInv, CountsFrom, writerVars
<1> QED
  BY <1>4, <1>5, <1>6, <1>8 DEF DataInv

(* What ::read returns goes on where the filled cells ended. *)
LEMMA SysReadKeepsData ==
  ASSUME IInv, NEW k \in 1 .. Smaller(reading.data_size - reading.offset, Len(pipe)), sys_read(k)
  PROVE  DataInv'
<1>0. BasicInv /\ CountsFrom(received, 0) /\ UnreadInv /\ JustReadInv /\ PipeInv /\ EofInv
  BY DEF IInv, DataInv
<1> DEFINE Filled(c) == c \in m_head + reading.offset .. m_head + reading.offset + k - 1
           Moved ==
             \/ m_head' = m_head + (reading.offset + k) /\ m_overlap' = m_overlap
             \/ /\ m_head + (reading.offset + k) = m_size /\ m_head' = 0
                /\ m_overlap' = TRUE /\ m_overlap = FALSE
<1>1. /\ UNCHANGED <<writerVars, connection, received>>
      /\ k \in Nat /\ 1 <= k /\ k <= Len(pipe) /\ reading.offset + k <= available_write
      /\ \A c \in 0 .. m_size - 1 :
           m_data'[c] = IF Filled(c) THEN pipe[c - (m_head + reading.offset) + 1] ELSE m_data[c]
      /\ Len(pipe') = Len(pipe) - k
      /\ \A i \in 1 .. Len(pipe) - k : pipe'[i] = pipe[k + i]
      /\ ~eof'
      /\ m_tail' = m_tail
      /\ \/ UNCHANGED bufferVars /\ reading'.offset = reading.offset + k
         \/ reading'.offset = 0 /\ size' = size + (reading.offset + k) /\ Moved
  BY <1>0, SysReadFacts
<1>2. /\ available_write \in 0 .. m_size - m_head /\ available_write \in Nat
      /\ m_head \in Nat /\ m_tail \in Nat /\ m_size \in Nat /\ size \in Nat
      /\ Len(received) \in Nat /\ reading.offset \in Nat /\ Len(pipe) \in Nat
  <2>1. /\ available_write \in 0 .. m_size - m_head /\ m_head \in Nat /\ m_tail \in Nat
        /\ m_size \in Nat /\ size \in 0 .. m_size
    BY <1>0, BasicFacts, RingSizes, SizeType
  <2> QED
    BY <1>0, <2>1, BasicFacts
<1>3. /\ connection = "open"
      /\ ArrivedSoFar + Len(pipe) = WrittenSoFar /\ CountsFrom(pipe, ArrivedSoFar)
      /\ ArrivedSoFar = Len(received) + size + reading.offset
  <2>1. pipe # <<>>
    BY <1>1, <1>2
  <2> QED
    BY <1>0, <2>1 DEF PipeInv, ArrivedSoFar
<1>4. \A c \in 0 .. m_size - 1 :
        /\ c \in m_tail .. m_tail + available_read - 1 =>
             m_data'[c] = Len(received) + (c - m_tail) + 1
        /\ m_overlap /\ c < m_head => m_data'[c] = Len(received) + (m_size - m_tail) + c + 1
  <2> SUFFICES ASSUME NEW c \in 0 .. m_size - 1
      PROVE  /\ c \in m_tail .. m_tail + available_read - 1 =>
                  m_data'[c] = Len(received) + (c - m_tail) + 1
             /\ m_overlap /\ c < m_head =>
                  m_data'[c] = Len(received) + (m_size - m_tail) + c + 1
    OBVIOUS
  <2>1. CASE Filled(c)
    <3>1. c \in m_head .. m_head + available_write - 1
      BY <1>1, <1>2, <2>1
    <3> QED
      BY <1>0, <3>1, FreeAreNotUnread
  <2>2. CASE ~Filled(c)
    <3>1. m_data'[c] = m_data[c]
      BY <1>1, <2>2
    <3> QED
      BY <1>0, <3>1 DEF UnreadInv
  <2> QED
    BY <2>1, <2>2
<1>5. \A c \in 0 .. m_size - 1 :
        c \in m_head .. m_head + (reading.offset + k) - 1 =>
          m_data'[c] = Len(received) + size + (c - m_head) + 1
  <2> SUFFICES ASSUME NEW c \in 0 .. m_size - 1,
                      c \in m_head .. m_head + (reading.offset + k) - 1
      PROVE  m_data'[c] = Len(received) + size + (c - m_head) + 1
    OBVIOUS
  <2>1. CASE Filled(c)
    <3>1. PICK i \in 1 .. Len(pipe) : i = c - (m_head + reading.offset) + 1
      BY <1>1, <1>2, <2>1
    <3>2. m_data'[c] = pipe[i]
      BY <1>1, <2>1, <3>1
    <3>3. pipe[i] = ArrivedSoFar + i
      BY <1>3, <3>1 DEF CountsFrom
    <3>4. m_data'[c] = Len(received) + size + reading.offset + i
      BY <1>3, <3>2, <3>3
    <3>5. c \in Int /\ i \in Int
      BY <1>2
    <3>6. Len(received) + size + reading.offset + i = Len(received) + size + (c - m_head) + 1
      <4>1. \A n, h, o \in Nat : \A x, y \in Int :
              y = x - (h + o) + 1 => n + o + y = n + (x - h) + 1
        OBVIOUS
      <4>2. Len(received) + size \in Nat
        BY <1>2
      <4> QED
        BY <1>2, <3>1, <3>5, <4>1, <4>2
    <3> QED
      BY <3>4, <3>6
  <2>2. CASE ~Filled(c)
    <3>1. c \in m_head .. m_head + reading.offset - 1
      BY <1>1, <1>2, <2>2
    <3>2. m_data'[c] = m_data[c]
      BY <1>1, <2>2
    <3> QED
      BY <1>0, <3>1, <3>2 DEF JustReadInv
  <2> QED
    BY <2>1, <2>2
<1> HIDE DEF Filled
<1>6. /\ UnreadInv' /\ JustReadInv'
      /\ ArrivedSoFar' = ArrivedSoFar + k
  <2>1. CASE UNCHANGED bufferVars /\ reading'.offset = reading.offset + k
    <3>1. /\ m_head' = m_head /\ m_tail' = m_tail /\ m_overlap' = m_overlap
          /\ size' = size /\ available_read' = available_read /\ received' = received
      BY <1>1, <2>1 DEF bufferVars, size, available_read
    <3>2. UnreadInv'
      BY <1>4, <3>1 DEF UnreadInv
    <3>3. JustReadInv'
      BY <1>5, <2>1, <3>1 DEF JustReadInv
    <3>4. ArrivedSoFar' = ArrivedSoFar + k
      BY <1>1, <1>2, <2>1, <3>1 DEF ArrivedSoFar
    <3> QED
      BY <3>2, <3>3, <3>4
  <2>2. CASE reading'.offset = 0 /\ size' = size + (reading.offset + k) /\ Moved
    <3>1. PICK n \in Nat : n = reading.offset + k
      BY <1>1, <1>2
    <3>2. UnreadInv'
      <4>1. Len(received') = Len(received) /\ n <= available_write
        BY <1>1, <3>1
      <4>2. \/ m_head' = m_head + n /\ m_overlap' = m_overlap
            \/ m_head + n = m_size /\ m_head' = 0 /\ m_overlap' = TRUE /\ m_overlap = FALSE
        BY <2>2, <3>1
      <4>3. \A c \in 0 .. m_size - 1 :
              c \in m_head .. m_head + n - 1 => m_data'[c] = Len(received) + size + (c - m_head) + 1
        BY <1>5, <3>1
      <4> QED
        BY <1>0, <1>1, <1>4, <4>1, <4>2, <4>3, FilledBecomeUnread
    <3>3. JustReadInv'
      <4>1. m_head' \in Nat
        <5>1. m_head' = m_head + (reading.offset + k) \/ m_head' = 0
          BY <2>2
        <5>2. m_head + n \in Nat
          BY <1>2
        <5> QED
          BY <3>1, <5>1, <5>2
      <4>2. PICK h \in Nat : h = m_head'
        BY <4>1
      <4>3. \A c \in 0 .. m_size - 1 : c \notin h .. h + 0 - 1
        BY <1>2
      <4> QED
        BY <2>2, <4>2, <4>3 DEF JustReadInv
    <3>4. ArrivedSoFar' = ArrivedSoFar + k
      BY <1>1, <1>2, <2>2 DEF ArrivedSoFar
    <3> QED
      BY <3>2, <3>3, <3>4
  <2> QED
    BY <1>1, <2>1, <2>2
<1>7. PipeInv'
  <2>1. WrittenSoFar' = WrittenSoFar /\ connection' = "open"
    BY <1>1, <1>3 DEF WrittenSoFar, writerVars
  <2>2. PICK a \in Nat : a = ArrivedSoFar
    BY <1>0, CountsTyped
  <2>3. a + k + (Len(pipe) - k) = a + Len(pipe)
    BY <1>1, <1>2
  <2>4. ArrivedSoFar' + Len(pipe') = WrittenSoFar'
    BY <1>1, <1>3, <1>6, <2>1, <2>2, <2>3
  <2>5. ASSUME NEW i \in 1 .. Len(pipe') PROVE pipe'[i] = ArrivedSoFar' + i
    <3>1. i \in 1 .. Len(pipe) - k /\ k + i \in 1 .. Len(pipe)
      BY <1>1, <1>2
    <3>2. pipe'[i] = pipe[k + i] /\ pipe[k + i] = a + (k + i)
      BY <1>1, <1>3, <2>2, <3>1 DEF CountsFrom
    <3> QED
      BY <1>1, <1>6, <2>2, <3>1, <3>2
  <2> QED
    BY <2>1, <2>4, <2>5 DEF PipeInv, CountsFrom
<1>8. EofInv'
  BY <1>1 DEF EofInv
<1>9. CountsFrom(received, 0)'
  BY <1>0, <1>1 DEF CountsFrom
<1> QED
  BY <1>6, <1>7, <1>8, <1>9 DEF DataInv

LEMMA SysReadNothingKeepsData ==
  ASSUME IInv, sys_read_nothing
  PROVE  DataInv'
<1>0. BasicInv /\ CountsFrom(received, 0) /\ UnreadInv /\ JustReadInv /\ PipeInv /\ EofInv
  BY DEF IInv, DataInv
<1>1. /\ UNCHANGED <<m_data, writerVars, pipe, received>>
      /\ pipe = <<>>
      /\ connection' = IF connection = "reset" THEN "dead" ELSE connection
      /\ eof' => connection = "dead" \/ (closed /\ connection = "open")
      /\ reading'.offset = 0 /\ size' = size + reading.offset
      /\ m_tail' = m_tail
      /\ \/ m_head' = m_head + reading.offset /\ m_overlap' = m_overlap
         \/ /\ m_head + reading.offset = m_size /\ m_head' = 0
            /\ m_overlap' = TRUE /\ m_overlap = FALSE
  BY <1>0, SysReadNothingFacts
<1>2. /\ reading.offset \in Nat /\ reading.offset <= available_write
      /\ m_head \in Nat /\ m_size \in Nat /\ size \in Nat /\ Len(received) \in Nat
  <2>1. /\ available_write \in Nat /\ m_head \in Nat /\ m_size \in Nat /\ size \in Nat
    BY <1>0, BasicFacts, RingSizes, SizeType
  <2> QED
    BY <1>0, <2>1, BasicFacts
<1>3. PICK n \in Nat : n = reading.offset
  BY <1>2
<1>4. UnreadInv'
  <2>1. Len(received') = Len(received) /\ n <= available_write
    BY <1>1, <1>2, <1>3
  <2>2. \/ m_head' = m_head + n /\ m_overlap' = m_overlap
        \/ m_head + n = m_size /\ m_head' = 0 /\ m_overlap' = TRUE /\ m_overlap = FALSE
    BY <1>1, <1>3
  <2>3. \A c \in 0 .. m_size - 1 :
          /\ c \in m_tail .. m_tail + available_read - 1 =>
               m_data'[c] = Len(received) + (c - m_tail) + 1
          /\ m_overlap /\ c < m_head => m_data'[c] = Len(received) + (m_size - m_tail) + c + 1
    BY <1>0, <1>1 DEF UnreadInv
  <2>4. \A c \in 0 .. m_size - 1 :
          c \in m_head .. m_head + n - 1 => m_data'[c] = Len(received) + size + (c - m_head) + 1
    BY <1>0, <1>1, <1>3 DEF JustReadInv
  <2> QED
    BY <1>0, <1>1, <2>1, <2>2, <2>3, <2>4, FilledBecomeUnread
<1>5. JustReadInv'
  <2>1. m_head' \in Nat
    BY <1>1, <1>2
  <2>2. PICK h \in Nat : h = m_head'
    BY <2>1
  <2>3. \A c \in 0 .. m_size - 1 : c \notin h .. h + 0 - 1
    BY <1>2
  <2> QED
    BY <1>1, <2>2, <2>3 DEF JustReadInv
<1>6. ArrivedSoFar' = ArrivedSoFar /\ WrittenSoFar' = WrittenSoFar
  BY <1>1, <1>2 DEF ArrivedSoFar, WrittenSoFar, writerVars
<1>7. connection' = "open" <=> connection = "open"
  BY <1>1
<1>8. PipeInv'
  <2>1. CASE connection = "open"
    BY <1>0, <1>1, <1>6, <1>7, <2>1 DEF PipeInv, CountsFrom
  <2>2. CASE connection # "open"
    BY <1>0, <1>1, <1>6, <1>7, <2>2 DEF PipeInv
  <2> QED
    BY <2>1, <2>2
<1>9. EofInv'
  BY <1>1, <1>7 DEF EofInv, writerVars
<1>10. CountsFrom(received, 0)'
  BY <1>0, <1>1 DEF CountsFrom
<1> QED
  BY <1>4, <1>5, <1>8, <1>9, <1>10 DEF DataInv

(* The bytes taken are the next ones. *)
LEMMA ConsumeKeepsData ==
  ASSUME IInv, NEW n \in 1 .. available_read, consume(n)
  PROVE  DataInv'
<1>0. BasicInv /\ CountsFrom(received, 0) /\ UnreadInv /\ JustReadInv /\ PipeInv /\ EofInv
  BY DEF IInv, DataInv
<1>1. PICK taken : taken = [i \in 1 .. n |-> m_data[m_tail + i - 1]]
  OBVIOUS
<1>2. /\ UNCHANGED <<m_data, reading, eof, writerVars, pipe, connection>>
      /\ n \in Nat /\ n <= available_read
      /\ reading.offset = 0
      /\ received' = received \o taken
      /\ taken \in Seq(Int) /\ Len(taken) = n
      /\ Len(received') = Len(received) + n
      /\ size' = size - n
      /\ m_head' = m_head
      /\ \/ m_tail' = m_tail + n /\ m_overlap' = m_overlap
         \/ m_tail + n = m_size /\ m_tail' = 0 /\ m_overlap' = FALSE /\ m_overlap = TRUE
  BY <1>0, <1>1, ConsumeFacts
<1>3. /\ m_head \in Nat /\ m_tail \in Nat /\ m_size \in Nat /\ size \in Nat
      /\ Len(received) \in Nat /\ received \in Seq(Int)
      /\ available_read \in Nat /\ m_tail + available_read <= m_size
  <2>1. BufferTypeOK /\ RingInv /\ m_overlap \in BOOLEAN
    BY <1>0, BasicFacts DEF BufferTypeOK
  <2>2. /\ available_read \in 0 .. size /\ size \in 0 .. m_size /\ m_tail \in Nat /\ m_head \in Nat
        /\ m_head < m_size /\ m_tail < m_size /\ m_size \in Nat
    BY <2>1, RingSizes, SizeType
  <2>3. m_tail + available_read <= m_size
    BY <2>1, <2>2 DEF available_read
  <2> QED
    BY <1>0, <2>2, <2>3, BasicFacts
<1>4. CountsFrom(received, 0)'
  <2>1. ASSUME NEW i \in 1 .. n PROVE taken[i] = Len(received) + i
    <3>1. PICK c \in 0 .. m_size - 1 : c = m_tail + i - 1
      BY <1>2, <1>3
    <3>2. c \in m_tail .. m_tail + available_read - 1 /\ c - m_tail = i - 1
      BY <1>2, <1>3, <3>1
    <3>3. m_data[c] = Len(received) + (i - 1) + 1
      BY <1>0, <3>2 DEF UnreadInv
    <3>4. taken[i] = m_data[c]
      BY <1>1, <3>1
    <3> QED
      BY <1>3, <3>3, <3>4
  <2>2. CountsFrom(taken, 0 + Len(received))
    BY <1>2, <1>3, <2>1 DEF CountsFrom
  <2>3. CountsFrom(received \o taken, 0)
    BY <1>0, <1>2, <1>3, <2>2, CountsOn
  <2> QED
    BY <1>2, <2>3 DEF CountsFrom
<1>5. UnreadInv'
  BY <1>0, <1>2, RestIsUnread
<1>6. JustReadInv'
  <2>1. \A c \in 0 .. m_size - 1 : c \notin m_head .. m_head + 0 - 1
    BY <1>3
  <2> QED
    BY <1>2, <2>1 DEF JustReadInv
<1>7. ArrivedSoFar' = ArrivedSoFar /\ WrittenSoFar' = WrittenSoFar
  BY <1>2, <1>3 DEF ArrivedSoFar, WrittenSoFar, writerVars
<1>8. PipeInv' /\ EofInv'
  BY <1>0, <1>2, <1>7 DEF PipeInv, EofInv, CountsFrom, writerVars
<1> QED
  BY <1>4, <1>5, <1>6, <1>8 DEF DataInv

-----------------------------------------------------------------------------
(* The invariant *)

LEMMA InitInv == Init => IInv
<1> SUFFICES ASSUME Init PROVE IInv
  OBVIOUS
<1>1. /\ m_head = 0 /\ m_tail = 0 /\ m_overlap = FALSE
      /\ m_data = [i \in 0 .. m_size - 1 |-> 0]
      /\ pipe = <<>> /\ closed = FALSE /\ connection = "open" /\ sent = 0
      /\ writing = NoCall /\ reading = NoCall /\ eof = FALSE /\ received = <<>>
  BY DEF Init, reset
<1>2. 0 \in Bytes /\ 0 \in 0 .. m_size - 1 /\ 0 \in 0 .. m_size /\ 0 \in 0 .. Total
  BY SizeType DEF Bytes
<1>3. TypeOK
  <2>1. BufferTypeOK
    BY <1>1, <1>2 DEF BufferTypeOK
  <2>2. m_data \in [0 .. m_size - 1 -> Bytes]
    BY <1>1, <1>2
  <2>3. pipe \in Seq(Bytes) /\ Len(pipe) <= Capacity /\ received \in Seq(Bytes)
    BY <1>1, SizeType
  <2>4. /\ writing \in [data_size : 0 .. Total, offset : 0 .. Total]
        /\ reading \in [data_size : 0 .. m_size, offset : 0 .. m_size]
    BY <1>1, <1>2 DEF NoCall
  <2> QED
    BY <1>1, <1>2, <2>1, <2>2, <2>3, <2>4 DEF TypeOK
<1>4. RingInv /\ CallsInv
  BY <1>1 DEF RingInv, CallsInv
<1>5. size = 0 /\ available_read = 0 /\ reading.offset = 0 /\ writing.offset = 0 /\ Len(received) = 0
  BY <1>1 DEF size, available_read, NoCall
<1>6. UnreadInv
  <2>1. \A c \in 0 .. m_size - 1 : c \notin 0 .. 0 + 0 - 1
    BY SizeType
  <2> QED
    BY <1>1, <1>5, <2>1 DEF UnreadInv
<1>7. JustReadInv
  <2>1. \A c \in 0 .. m_size - 1 : c \notin 0 .. 0 + 0 - 1
    BY SizeType
  <2> QED
    BY <1>1, <1>5, <2>1 DEF JustReadInv
<1>8. CountsFrom(received, 0)
  BY <1>5 DEF CountsFrom
<1>9. PipeInv
  BY <1>1, <1>5 DEF PipeInv, ArrivedSoFar, WrittenSoFar, CountsFrom
<1>10. EofInv
  BY <1>1 DEF EofInv
<1> QED
  BY <1>3, <1>4, <1>6, <1>7, <1>8, <1>9, <1>10 DEF IInv, BasicInv, DataInv

LEMMA StepBasic == BasicInv /\ [Next]_vars => BasicInv'
<1> SUFFICES ASSUME BasicInv, [Next]_vars PROVE BasicInv'
  OBVIOUS
<1>1. CASE ReaderStep
  BY <1>1, ReadFacts, SysReadFacts, SysReadNothingFacts, ConsumeFacts DEF ReaderStep, SysRead
<1>2. CASE WriterStep
  BY <1>2, WriteFacts, SysWriteFacts, SysWriteFailsFacts, CloseFacts DEF WriterStep
<1>3. CASE break
  BY <1>3, BreakFacts
<1>4. CASE UNCHANGED vars
  BY <1>4 DEF vars, writerVars, readerVars, bufferVars, BasicInv, TypeOK, BufferTypeOK, RingInv,
     CallsInv, available_write
<1> QED
  BY <1>1, <1>2, <1>3, <1>4 DEF Next

LEMMA StepData == IInv /\ [Next]_vars => DataInv'
<1> SUFFICES ASSUME IInv, [Next]_vars PROVE DataInv'
  OBVIOUS
<1>1. CASE ReaderStep
  BY <1>1, ReadKeepsData, SysReadKeepsData, SysReadNothingKeepsData, ConsumeKeepsData
     DEF ReaderStep, SysRead
<1>2. CASE WriterStep \/ break
  BY <1>2, WriterKeepsData
<1>3. CASE UNCHANGED vars
  BY <1>3 DEF vars, writerVars, readerVars, bufferVars, IInv, DataInv, CountsFrom, UnreadInv,
     JustReadInv, PipeInv, EofInv, ArrivedSoFar, WrittenSoFar, size, available_read
<1> QED
  BY <1>1, <1>2, <1>3 DEF Next

LEMMA Invariance == Spec => []IInv
<1>1. IInv /\ [Next]_vars => IInv'
  BY StepBasic, StepData DEF IInv
<1> QED
  BY InitInv, <1>1, PTL DEF Spec

(* The connection and the ring hold no more than they have room for, a call*)
(* is for bytes there are, and every variable keeps its type.              *)
THEOREM StreamTypeCorrect == Spec => []TypeOK
<1>1. IInv => TypeOK
  BY DEF IInv, BasicInv
<1> QED
  BY Invariance, <1>1, PTL

-----------------------------------------------------------------------------
(* From the cells to the sequences *)

LEMMA WrapAround ==
  ASSUME NEW x \in Nat, x < 2 * m_size
  PROVE  x % m_size = IF x < m_size THEN x ELSE x - m_size
<1>1. CASE x < m_size
  BY <1>1, SizeType
<1>2. CASE ~(x < m_size)
  BY <1>2, SizeType
<1> QED
  BY <1>1, <1>2

LEMMA UnreadCounts ==
  ASSUME BasicInv, UnreadInv
  PROVE  Unread \in Seq(Int) /\ Len(Unread) = size /\ CountsFrom(Unread, Len(received))
<1>1. /\ m_head \in Nat /\ m_tail \in Nat /\ m_size \in Nat /\ Len(received) \in Nat
      /\ m_head < m_size /\ m_tail < m_size /\ m_overlap \in BOOLEAN /\ size \in Nat
      /\ size <= m_size /\ RingInv
  <2>1. size \in 0 .. m_size /\ m_size \in Nat
    BY BasicFacts, RingSizes, SizeType
  <2> QED
    BY <2>1, BasicFacts, RingSizes, SizeType DEF BufferTypeOK
<1>2. ASSUME NEW i \in 1 .. size
      PROVE  m_data[(m_tail + i - 1) % m_size] = Len(received) + i
  <2>1. PICK x \in Nat : x = m_tail + i - 1
    BY <1>1
  <2>2. x < 2 * m_size /\ m_tail <= x /\ x - m_tail + 1 = i
    BY <1>1, <2>1
  <2>3. x % m_size = IF x < m_size THEN x ELSE x - m_size
    BY <2>2, WrapAround
  <2>4. CASE x < m_size
    <3>1. x \in 0 .. m_size - 1
      BY <1>1, <2>4
    <3>2. x \in m_tail .. m_tail + available_read - 1
      <4>1. CASE m_overlap = TRUE
        <5>1. available_read = m_size - m_tail
          BY <4>1 DEF available_read
        <5> QED
          BY <1>1, <2>2, <2>4, <5>1
      <4>2. CASE m_overlap = FALSE
        <5>1. available_read = m_head - m_tail /\ size = m_head - m_tail
          BY <4>2 DEF available_read, size
        <5> QED
          BY <1>1, <2>1, <2>2, <5>1
      <4> QED
        BY <1>1, <4>1, <4>2
    <3>3. m_data[x] = Len(received) + (x - m_tail) + 1
      BY <3>1, <3>2 DEF UnreadInv
    <3>4. Len(received) + (x - m_tail) + 1 = Len(received) + i
      BY <1>1, <2>1
    <3> QED
      BY <2>1, <2>3, <2>4, <3>3, <3>4
  <2>5. CASE ~(x < m_size)
    <3>1. m_overlap = TRUE
      <4>1. m_overlap = FALSE => size = m_head - m_tail
        BY DEF size
      <4> QED
        BY <1>1, <2>1, <2>5, <4>1
    <3>2. size = m_size - m_tail + m_head
      BY <3>1 DEF size
    <3>3. PICK c \in 0 .. m_size - 1 : c = x - m_size
      BY <1>1, <2>2, <2>5
    <3>4. c < m_head
      BY <1>1, <2>1, <2>5, <3>2, <3>3
    <3>5. m_data[c] = Len(received) + (m_size - m_tail) + c + 1
      BY <3>1, <3>4 DEF UnreadInv
    <3>6. Len(received) + (m_size - m_tail) + c + 1 = Len(received) + i
      BY <1>1, <2>1, <3>3
    <3> QED
      BY <2>1, <2>3, <2>5, <3>3, <3>5, <3>6
  <2> QED
    BY <2>4, <2>5
<1>3. Unread \in [1 .. size -> Int]
  <2>1. \A i \in 1 .. size : Len(received) + i \in Int
    BY <1>1
  <2>2. \A i \in 1 .. size : m_data[(m_tail + i - 1) % m_size] \in Int
    BY <1>2, <2>1
  <2> QED
    BY <2>2, Zenon DEF Unread
<1>4. Unread \in Seq(Int) /\ Len(Unread) = size
  BY <1>1, <1>3, FunctionIsSequence
<1>5. \A i \in 1 .. size : Unread[i] = Len(received) + i
  BY <1>2 DEF Unread
<1> QED
  BY <1>4, <1>5 DEF CountsFrom

LEMMA JustReadCounts ==
  ASSUME BasicInv, JustReadInv
  PROVE  /\ JustRead \in Seq(Int) /\ Len(JustRead) = reading.offset
         /\ CountsFrom(JustRead, Len(received) + size)
<1>1. /\ m_head \in Nat /\ m_size \in Nat /\ Len(received) \in Nat /\ size \in Nat
      /\ reading.offset \in Nat /\ m_head + reading.offset <= m_size
  <2>1. /\ available_write \in 0 .. m_size - m_head /\ m_head \in Nat /\ m_size \in Nat
        /\ size \in 0 .. m_size
    BY BasicFacts, RingSizes, SizeType
  <2>2. /\ reading.offset \in Nat /\ reading.data_size \in Nat
        /\ reading.offset <= reading.data_size /\ reading.data_size <= available_write
    BY BasicFacts
  <2> QED
    BY <2>1, <2>2, BasicFacts
<1>2. ASSUME NEW i \in 1 .. reading.offset
      PROVE  m_data[m_head + i - 1] = Len(received) + size + i
  <2>1. PICK c \in 0 .. m_size - 1 : c = m_head + i - 1
    BY <1>1
  <2>2. c \in m_head .. m_head + reading.offset - 1
    BY <1>1, <2>1
  <2>3. m_data[c] = Len(received) + size + (c - m_head) + 1
    BY <2>2 DEF JustReadInv
  <2>4. Len(received) + size + (c - m_head) + 1 = Len(received) + size + i
    BY <1>1, <2>1
  <2> QED
    BY <2>1, <2>3, <2>4
<1>3. JustRead \in [1 .. reading.offset -> Int]
  BY <1>1, <1>2 DEF JustRead
<1>4. JustRead \in Seq(Int) /\ Len(JustRead) = reading.offset
  BY <1>1, <1>3, FunctionIsSequence
<1>5. \A i \in 1 .. reading.offset : JustRead[i] = Len(received) + size + i
  BY <1>2 DEF JustRead
<1> QED
  BY <1>4, <1>5 DEF CountsFrom

(* What arrived, and what was written. *)
LEMMA ArrivedCounts ==
  ASSUME IInv
  PROVE  /\ received \o Unread \in Seq(Int)
         /\ Len(received \o Unread) = Len(received) + size
         /\ CountsFrom(received \o Unread, 0)
         /\ Arrived \in Seq(Int) /\ Len(Arrived) = ArrivedSoFar /\ CountsFrom(Arrived, 0)
         /\ Written \in Seq(Int) /\ Len(Written) = WrittenSoFar /\ CountsFrom(Written, 0)
<1>1. BasicInv /\ UnreadInv /\ JustReadInv /\ CountsFrom(received, 0)
  BY DEF IInv, DataInv
<1>2. received \in Seq(Int) /\ Len(received) \in Nat /\ size \in Nat /\ reading.offset \in Nat
  BY <1>1, BasicFacts, RingSizes, SizeType
<1>3. /\ Unread \in Seq(Int) /\ Len(Unread) = size /\ CountsFrom(Unread, Len(received))
      /\ JustRead \in Seq(Int) /\ Len(JustRead) = reading.offset
      /\ CountsFrom(JustRead, Len(received) + size)
  BY <1>1, UnreadCounts, JustReadCounts
<1>4. PICK inRing : inRing = received \o Unread
  OBVIOUS
<1>5. inRing \in Seq(Int) /\ Len(inRing) = Len(received) + size /\ CountsFrom(inRing, 0)
  <2>1. PICK unread \in Seq(Int) : unread = Unread
    BY <1>3
  <2> QED
    BY <1>1, <1>2, <1>3, <1>4, <2>1, CountsOnFromOne
<1>6. Arrived \in Seq(Int) /\ Len(Arrived) = ArrivedSoFar /\ CountsFrom(Arrived, 0)
  <2>1. Arrived = inRing \o JustRead
    BY <1>4 DEF Arrived
  <2>2. PICK justRead \in Seq(Int) : justRead = JustRead
    BY <1>3
  <2>3. /\ inRing \o justRead \in Seq(Int)
        /\ Len(inRing \o justRead) = Len(inRing) + Len(justRead)
        /\ CountsFrom(inRing \o justRead, 0)
    BY <1>3, <1>5, <2>2, CountsOnFromOne
  <2>4. ArrivedSoFar = Len(inRing) + Len(justRead)
    BY <1>3, <1>5, <2>2 DEF ArrivedSoFar
  <2> QED
    BY <2>1, <2>2, <2>3, <2>4
<1>7. Written \in Seq(Int) /\ Len(Written) = WrittenSoFar /\ CountsFrom(Written, 0)
  <2>1. WrittenSoFar \in Nat /\ Written = Numbers(1, WrittenSoFar)
    BY <1>1, CountsTyped DEF Written, WrittenSoFar
  <2>2. PICK w \in Nat : w = WrittenSoFar
    BY <2>1
  <2>3. /\ Numbers(1, w) \in Seq(Int) /\ Len(Numbers(1, w)) = w - 1 + 1
        /\ CountsFrom(Numbers(1, w), 1 - 1)
    <3>1. w \in Int /\ 1 <= w + 1
      OBVIOUS
    <3> QED
      BY <3>1, NumbersCount
  <2> QED
    BY <2>1, <2>2, <2>3
<1> QED
  BY <1>4, <1>5, <1>6, <1>7

(* What was written is what arrived followed by what the connection holds, *)
(* through partial calls and round the end of the ring; after a reset what *)
(* arrived is a beginning of it.                                           *)
THEOREM BytesArriveAsWritten == Spec => []StreamIsIntact
<1>1. IInv => StreamIsIntact
  <2> SUFFICES ASSUME IInv PROVE StreamIsIntact
    OBVIOUS
  <2>1. BasicInv /\ PipeInv
    BY DEF IInv, DataInv
  <2>2. PICK arrived \in Seq(Int), written \in Seq(Int) : arrived = Arrived /\ written = Written
    BY ArrivedCounts
  <2>3. /\ Len(arrived) = ArrivedSoFar /\ CountsFrom(arrived, 0)
        /\ Len(written) = WrittenSoFar /\ CountsFrom(written, 0)
    BY <2>2, ArrivedCounts
  <2>4. ASSUME connection = "open" PROVE arrived \o pipe = written
    <3>1. ArrivedSoFar + Len(pipe) = WrittenSoFar /\ CountsFrom(pipe, ArrivedSoFar)
      BY <2>1, <2>4 DEF PipeInv
    <3>2. pipe \in Seq(Int)
      BY <2>1, BasicFacts
    <3>3. CountsFrom(pipe, Len(arrived))
      BY <2>3, <3>1
    <3>4. /\ arrived \o pipe \in Seq(Int) /\ Len(arrived \o pipe) = Len(arrived) + Len(pipe)
          /\ CountsFrom(arrived \o pipe, 0)
      BY <2>3, <3>2, <3>3, CountsOnFromOne
    <3>5. Len(arrived \o pipe) = Len(written)
      BY <2>3, <3>1, <3>4
    <3> QED
      BY <2>3, <3>4, <3>5, CountsAreEqual
  <2>5. ASSUME connection # "open" PROVE arrived = SubSeq(written, 1, Len(arrived))
    <3>1. Len(arrived) <= Len(written) /\ Len(arrived) \in Nat /\ Len(written) \in Nat
      BY <2>1, <2>3, <2>5 DEF PipeInv
    <3>2. 1 \in 1 .. Len(written) + 1 /\ 1 <= Len(arrived) + 1
      BY <3>1
    <3>3. /\ SubSeq(written, 1, Len(arrived)) \in Seq(Int)
          /\ Len(SubSeq(written, 1, Len(arrived))) = Len(arrived) - 1 + 1
          /\ \A i \in 1 .. Len(arrived) - 1 + 1 :
               SubSeq(written, 1, Len(arrived))[i] = written[1 + i - 1]
      BY <3>1, <3>2, SubSeqElements
    <3>4. \A i \in 1 .. Len(arrived) : arrived[i] = 0 + i /\ written[i] = 0 + i
      BY <2>3, <3>1 DEF CountsFrom
    <3>5. \A i \in 1 .. Len(arrived) : SubSeq(written, 1, Len(arrived))[i] = arrived[i]
      BY <3>1, <3>3, <3>4
    <3> QED
      BY <3>1, <3>3, <3>5, SeqEqual
  <2> QED
    BY <2>2, <2>4, <2>5 DEF StreamIsIntact
<1> QED
  BY Invariance, <1>1, PTL

(* read says eof only when the writer has closed and every byte is in the  *)
(* ring or was taken, unless the connection was reset.                     *)
THEOREM EofIsTheEnd == Spec => []EofOnlyAtEnd
<1>1. IInv => EofOnlyAtEnd
  <2> SUFFICES ASSUME IInv, eof, connection = "open"
               PROVE  closed /\ received \o Unread = Written
    BY DEF EofOnlyAtEnd
  <2>1. BasicInv /\ PipeInv /\ EofInv
    BY DEF IInv, DataInv
  <2>2. closed /\ pipe = <<>> /\ reading = NoCall
    BY <2>1 DEF EofInv, BasicInv, CallsInv
  <2>3. PICK inRing \in Seq(Int), written \in Seq(Int) :
          inRing = received \o Unread /\ written = Written
    BY ArrivedCounts
  <2>4. /\ Len(inRing) = Len(received) + size /\ CountsFrom(inRing, 0)
        /\ Len(written) = WrittenSoFar /\ CountsFrom(written, 0)
    BY <2>3, ArrivedCounts
  <2>5. Len(received) \in Nat /\ size \in Nat
    BY <2>1, BasicFacts, RingSizes, SizeType
  <2>6. Len(inRing) = Len(written)
    <3>1. ArrivedSoFar + Len(pipe) = WrittenSoFar
      BY <2>1 DEF PipeInv
    <3>2. ArrivedSoFar = Len(received) + size + 0 /\ Len(pipe) = 0
      BY <2>2 DEF ArrivedSoFar, NoCall
    <3> QED
      BY <2>4, <2>5, <3>1, <3>2
  <2>7. inRing = written
    BY <2>4, <2>6, CountsAreEqual
  <2> QED
    BY <2>2, <2>3, <2>7
<1> QED
  BY Invariance, <1>1, PTL
=============================================================================
