------------------------------- MODULE Stream -------------------------------
(***************************************************************************)
(* common/file_descriptor.cpp at both ends of a connection, with a         *)
(* CircularBuffer behind the reading end: what `operator uint8_t *' and    *)
(* available_write are there for. The connection is the kernel's; who calls*)
(* read and write, with which sizes, is up to the program.                 *)
(*                                                                         *)
(* The bytes are numbered from 1 in the order they are written; 0 is what  *)
(* memset leaves. The loops of read and write make one system call a step. *)
(* A call that fails with EINTR is repeated and changes nothing: it is no  *)
(* step here.                                                              *)
(***************************************************************************)
EXTENDS CircularBuffer

CONSTANTS
  Total,       \* bytes the writer has to send
  Capacity     \* bytes the connection holds

ASSUME StreamAssumption == Total \in Nat /\ Capacity \in Nat \ {0}

VARIABLES
  m_data,      \* the bytes of the ring
  pipe,        \* bytes in the connection
  closed,      \* the writer has closed its end
  connection,  \* "open", "reset" until a read has failed for it, then "dead"
  sent,        \* bytes that returned calls of write have sent
  writing,     \* the call of write: its data_size and offset
  reading,     \* the call of read
  eof,         \* what the last read said
  received     \* history: the bytes taken out of the ring

writerVars == <<closed, sent, writing>>
readerVars == <<bufferVars, m_data, reading, eof>>
vars == <<writerVars, readerVars, pipe, connection, received>>

NoCall == [data_size |-> 0, offset |-> 0]
Idle(call) == call = NoCall

Smaller(a, b) == IF a < b THEN a ELSE b
Numbers(from, to) == [i \in 1 .. to - from + 1 |-> from + i - 1]

Bytes == 0 .. Total

TypeOK ==
  /\ BufferTypeOK
  /\ m_data \in [0 .. m_size - 1 -> Bytes]
  /\ pipe \in Seq(Bytes) /\ Len(pipe) <= Capacity
  /\ closed \in BOOLEAN /\ eof \in BOOLEAN
  /\ connection \in {"open", "reset", "dead"}
  /\ sent \in 0 .. Total
  /\ writing \in [data_size : 0 .. Total, offset : 0 .. Total]
  /\ reading \in [data_size : 0 .. m_size, offset : 0 .. m_size]
  /\ received \in Seq(Bytes)

Init ==
  /\ reset
  /\ m_data = [i \in 0 .. m_size - 1 |-> 0]
  /\ pipe = <<>>
  /\ closed = FALSE
  /\ connection = "open"
  /\ sent = 0
  /\ writing = NoCall
  /\ reading = NoCall
  /\ eof = FALSE
  /\ received = <<>>

-----------------------------------------------------------------------------
(* FileDescriptor::write *)

write(n) ==
  /\ Idle(writing)
  /\ ~closed
  /\ writing' = [data_size |-> n, offset |-> 0]
  /\ UNCHANGED <<closed, sent, readerVars, pipe, connection, received>>

(* The caller goes on behind the bytes that write says it has sent.        *)
WriteReturns(offset) == writing' = NoCall /\ sent' = sent + offset

(* ::write takes k bytes, perhaps not all. *)
sys_write(k) ==
  /\ ~Idle(writing)
  /\ connection = "open"
  /\ LET first == sent + writing.offset + 1
         offset == writing.offset + k
     IN /\ pipe' = pipe \o Numbers(first, first + k - 1)
        /\ IF offset < writing.data_size
           THEN writing' = [writing EXCEPT !.offset = offset] /\ UNCHANGED sent
           ELSE WriteReturns(offset)
  /\ UNCHANGED <<closed, readerVars, connection, received>>

(* ::write fails: there is no room, or nobody at the other end. *)
sys_write_fails ==
  /\ ~Idle(writing)
  /\ Len(pipe) = Capacity \/ connection # "open"
  /\ WriteReturns(writing.offset)
  /\ UNCHANGED <<closed, readerVars, pipe, connection, received>>

close ==
  /\ Idle(writing)
  /\ ~closed
  /\ closed' = TRUE
  /\ UNCHANGED <<sent, writing, readerVars, pipe, connection, received>>

-----------------------------------------------------------------------------
(* FileDescriptor::read into the ring, and CircularBuffer::write of what it*)
(* returns.                                                                *)

(* Mistakes: no byte is taken for the end, and the end is not noticed when *)
(* bytes came before it in the same call.                                  *)
EofIfNothing(n_bytes, offset) == offset = 0
EofIfNothingMore(n_bytes, offset) == FALSE
IsEof(n_bytes, offset) == n_bytes = 0

ReadReturns(n_bytes, offset) ==
  /\ reading' = NoCall
  /\ eof' = IsEof(n_bytes, offset)
  /\ buffer_write(offset)

(* memset clears the whole destination first. *)
read(n) ==
  /\ Idle(reading)
  /\ ~eof
  /\ reading' = [data_size |-> n, offset |-> 0]
  /\ m_data' = [i \in DOMAIN m_data |-> IF i \in m_head .. m_head + n - 1 THEN 0 ELSE m_data[i]]
  /\ UNCHANGED <<bufferVars, eof, writerVars, pipe, connection, received>>

(* ::read returns k bytes, perhaps fewer than there are. *)
sys_read(k) ==
  /\ ~Idle(reading)
  /\ LET at == m_head + reading.offset
         offset == reading.offset + k
     IN /\ m_data' = [i \in DOMAIN m_data |->
                        IF i \in at .. at + k - 1 THEN pipe[i - at + 1] ELSE m_data[i]]
        /\ pipe' = SubSeq(pipe, k + 1, Len(pipe))
        /\ IF offset < reading.data_size
           THEN reading' = [reading EXCEPT !.offset = offset] /\ UNCHANGED <<bufferVars, eof>>
           ELSE ReadReturns(k, offset)
  /\ UNCHANGED <<writerVars, connection, received>>

(* ::read returns 0 at the end, or -1: nothing is there yet, or a reset. A *)
(* reset fails one call; those after it return 0.                          *)
sys_read_nothing ==
  /\ ~Idle(reading)
  /\ pipe = <<>>
  /\ LET atEnd == connection = "dead" \/ (closed /\ connection = "open")
     IN ReadReturns(IF atEnd THEN 0 ELSE -1, reading.offset)
  /\ connection' = IF connection = "reset" THEN "dead" ELSE connection
  /\ UNCHANGED <<m_data, writerVars, pipe, received>>

(* The program takes n bytes out of the ring. *)
consume(n) ==
  /\ Idle(reading)
  /\ buffer_read(n)
  /\ received' = received \o [i \in 1 .. n |-> m_data[m_tail + i - 1]]
  /\ UNCHANGED <<m_data, reading, eof, writerVars, pipe, connection>>

(* The connection is reset and what is in it lost. *)
break ==
  /\ connection = "open"
  /\ connection' = "reset"
  /\ pipe' = <<>>
  /\ UNCHANGED <<writerVars, readerVars, received>>

-----------------------------------------------------------------------------
SysRead ==
  \/ sys_read_nothing
  \/ \E k \in 1 .. Smaller(reading.data_size - reading.offset, Len(pipe)) : sys_read(k)

ReaderStep ==
  \/ \E n \in 1 .. available_write : read(n)
  \/ SysRead
  \/ \E n \in 1 .. available_read : consume(n)

WriterStep ==
  \/ \E n \in 1 .. Total - sent : write(n)
  \/ \E k \in 1 .. Smaller(writing.data_size - writing.offset, Capacity - Len(pipe)) : sys_write(k)
  \/ sys_write_fails
  \/ close

Next == ReaderStep \/ WriterStep \/ break

Spec == Init /\ [][Next]_vars

(* A program that reads goes on reading until it is told of the end, and   *)
(* takes the bytes out of the ring; system calls return. Nobody has to     *)
(* write or to close.                                                      *)
FairSpec == Spec /\ WF_vars(ReaderStep)

-----------------------------------------------------------------------------
Unread == [i \in 1 .. size |-> m_data[(m_tail + i - 1) % m_size]]
JustRead == [i \in 1 .. reading.offset |-> m_data[m_head + i - 1]]
Arrived == received \o Unread \o JustRead
Written == Numbers(1, sent + writing.offset)

(* No byte is lost, doubled or moved on its way through partial writes, the*)
(* connection, partial reads and the ring, and none is overwritten in the  *)
(* ring before it was taken out; after a reset what arrived is a beginning *)
(* of what was written.                                                    *)
StreamIsIntact ==
  /\ connection = "open" => Arrived \o pipe = Written
  /\ connection # "open" => Arrived = SubSeq(Written, 1, Len(Arrived))

(* Unless the connection was reset, read says eof only after the last byte *)
(* has arrived: a connection that is empty for now is not at its end.      *)
EofOnlyAtEnd == eof /\ connection = "open" => closed /\ received \o Unread = Written

(* After the writer has closed the reader gets every byte and is told of   *)
(* the end, whatever the sizes of the calls; after a reset it is told, too,*)
(* although not that it was one.                                           *)
StreamIsDelivered ==
  /\ connection # "open" ~> eof
  /\ closed ~> eof /\ (received = Written \/ connection # "open")
=============================================================================
