------------------------------- MODULE BitSet -------------------------------
(***************************************************************************)
(* common/bitset.cpp: bits packed into bytes, the first bit of a byte      *)
(* being the most significant one, and Bit objects that refer to a bit of  *)
(* a BitSet by its index. A byte is the set of its bits that are 1; bit k  *)
(* is the one of value 1 << k.                                             *)
(*                                                                         *)
(* m_size is the length of m_data and m_number_of_bits is ByteBits times   *)
(* that; m_begin is nullptr as long as m_data is empty. Objects are not    *)
(* destroyed, and the const operator [], with the same test and the same   *)
(* access, is left to the other one. Once a call has touched memory that   *)
(* is not the BitSet's, nothing can be said of the program: it ends there. *)
(***************************************************************************)
EXTENDS Integers, Sequences

CONSTANTS
  BitSets,
  Bits,        \* Bit objects
  ByteBits,    \* 8
  MaxSize,     \* bound on the size of a BitSet in bytes
  Sources,     \* buffers that callers have bytes in
  Null         \* a Bit that does not exist, a source that is not given

ASSUME ByteBitsAssumption == ByteBits \in Nat \ {0}
ASSUME MaxSizeAssumption == MaxSize \in Nat \ {0}
ASSUME SourcesAssumption ==
  Sources \subseteq UNION {[1 .. size -> SUBSET (0 .. ByteBits - 1)] : size \in 1 .. MaxSize}
ASSUME NullAssumption ==
  /\ \A size \in 1 .. MaxSize : Null \notin [1 .. size -> SUBSET (0 .. ByteBits - 1)]
  /\ Null \notin [m_bitset : BitSets, m_index : 0 .. MaxSize * ByteBits]
  /\ Null \notin [array : BitSets, index : 0 .. MaxSize * ByteBits]

VARIABLES
  m_data,      \* m_data[b]: the bytes of b
  bit,         \* bit[x]: m_bitset and m_index of the Bit x
  result,      \* the bits the last call returned
  outcome      \* "returned", what was thrown, or "undefined"

bitSetVars == <<m_data, bit, result, outcome>>

Bytes == SUBSET (0 .. ByteBits - 1)
Buffers(size) == [1 .. size -> Bytes]

m_number_of_bits(b) == Len(m_data[b]) * ByteBits

BitSetTypeOK ==
  /\ m_data \in [BitSets -> UNION {Buffers(size) : size \in 0 .. MaxSize}]
  /\ bit \in [Bits -> [m_bitset : BitSets, m_index : 0 .. MaxSize * ByteBits] \cup {Null}]
  /\ result \in UNION {[1 .. n -> BOOLEAN] : n \in 0 .. MaxSize * ByteBits}
  /\ outcome \in {"returned", "invalid size", "uninitialized", "invalid index", "undefined"}

BitSetInit ==
  /\ m_data = [b \in BitSets |-> <<>>]
  /\ bit = [x \in Bits |-> Null]
  /\ result = <<>>
  /\ outcome = "returned"

returned(bits) == result' = bits /\ outcome' = "returned"

throws(what) ==
  /\ result' = <<>>
  /\ outcome' = what
  /\ UNCHANGED <<m_data, bit>>

-----------------------------------------------------------------------------
(* A definition under "Mistake" is the next one with a slip of the kind a  *)
(* programmer makes; no action uses it. It shows what the properties see.  *)

(* Mistake: bits are counted from 8 down to 1. *)
calc_offset_high(index) == [byte |-> index \div ByteBits, bit |-> ByteBits - (index % ByteBits)]

calc_offset(index) == [byte |-> index \div ByteBits, bit |-> ByteBits - 1 - (index % ByteBits)]

(* m_begin[offset.byte] is a byte of b. *)
Inside(b, index) == calc_offset(index).byte < Len(m_data[b])

get(b, index) == calc_offset(index).bit \in m_data[b][calc_offset(index).byte + 1]

(* m_data after set, if value is TRUE, or after clear. *)
Assigned(b, index, value) ==
  LET offset == calc_offset(index)
  IN [m_data EXCEPT ![b][offset.byte + 1] = IF value THEN @ \cup {offset.bit} ELSE @ \ {offset.bit}]

Filled(size, val) == [k \in 1 .. size |-> IF val THEN 0 .. ByteBits - 1 ELSE {}]

-----------------------------------------------------------------------------
(* BitSet *)

bind(b, size, source) ==
  /\ m_data' = [m_data EXCEPT ![b] = IF source = Null THEN Filled(size, FALSE) ELSE source]
  /\ returned(<<>>)
  /\ UNCHANGED bit

bind_throws == throws("invalid size")

(* Copying and assigning bind the left side to the bytes of the right one. *)
(* If they are one, the bytes are freed before memcpy reads them.          *)
assign(b, right) ==
  IF m_data[right] = <<>> THEN bind_throws
  ELSE \E source \in Buffers(Len(m_data[right])) :
         /\ b # right => source = m_data[right]
         /\ bind(b, Len(source), source)

set_all(b, val) ==
  IF m_data[b] = <<>> THEN throws("uninitialized")
  ELSE /\ m_data' = [m_data EXCEPT ![b] = Filled(Len(@), val)]
       /\ returned(<<>>)
       /\ UNCHANGED bit

(* operator [] *)
index(x, b, i) ==
  IF i > m_number_of_bits(b) THEN throws("invalid index")
  ELSE /\ bit' = [bit EXCEPT ![x] = [m_bitset |-> b, m_index |-> i]]
       /\ returned(<<>>)
       /\ UNCHANGED m_data

to_string(b) ==
  /\ returned([i \in 1 .. m_number_of_bits(b) |-> get(b, i - 1)])
  /\ UNCHANGED <<m_data, bit>>

-----------------------------------------------------------------------------
(* Bit *)

InsideOf(x) == Inside(bit[x].m_bitset, bit[x].m_index)
Value(x) == get(bit[x].m_bitset, bit[x].m_index)

bit_read(x) ==
  /\ InsideOf(x)
  /\ returned(<<Value(x)>>)
  /\ UNCHANGED <<m_data, bit>>

bit_assign(x, value) ==
  /\ InsideOf(x)
  /\ m_data' = Assigned(bit[x].m_bitset, bit[x].m_index, value)
  /\ UNCHANGED bit

bit_copy(x, right) ==
  /\ InsideOf(right)
  /\ bit_assign(x, Value(right))
  /\ returned(<<>>)

flip(x) ==
  /\ InsideOf(x)
  /\ bit_assign(x, ~Value(x))
  /\ returned(<<~Value(x)>>)

(* Any use of a Bit that lies behind the last byte. *)
bit_outside(x) == ~InsideOf(x) /\ throws("undefined")

Existing == {x \in Bits : bit[x] # Null}

BitSetNext ==
  \/ /\ outcome # "undefined"
     /\ \/ bind_throws
        \/ \E b \in BitSets, size \in 1 .. MaxSize : bind(b, size, Null)
        \/ \E b \in BitSets, source \in Sources : bind(b, Len(source), source)
        \/ \E b, right \in BitSets : assign(b, right)
        \/ \E b \in BitSets, val \in BOOLEAN : set_all(b, val)
        \/ \E x \in Bits, b \in BitSets, i \in 0 .. MaxSize * ByteBits + 1 : index(x, b, i)
        \/ \E b \in BitSets : to_string(b)
        \/ \E x \in Existing : bit_read(x) \/ flip(x) \/ bit_outside(x)
        \/ \E x \in Existing, value \in BOOLEAN : bit_assign(x, value) /\ returned(<<>>)
        \/ \E x, right \in Existing : bit_copy(x, right)
  \/ outcome = "undefined" /\ UNCHANGED bitSetVars

BitSetSpec == BitSetInit /\ [][BitSetNext]_bitSetVars

-----------------------------------------------------------------------------
(* Where a bit lies: byte after byte, and in a byte from the most          *)
(* significant to the least.                                               *)
Position ==
  [n \in 1 .. MaxSize * ByteBits |->
     CHOOSE p \in [byte : 1 .. MaxSize, bit : 0 .. ByteBits - 1] : n = p.byte * ByteBits - p.bit]

BitsOf(b) ==
  [n \in 1 .. m_number_of_bits(b) |-> Position[n].bit \in m_data[b][Position[n].byte]]

Values == [b \in BitSets |-> BitsOf(b)]
Names == [x \in Bits |-> IF bit[x] = Null THEN Null
                         ELSE [array |-> bit[x].m_bitset, index |-> bit[x].m_index]]

Array ==
  INSTANCE BitArray WITH
    Arrays <- BitSets,
    Names <- Bits,
    Lengths <- {size * ByteBits : size \in 1 .. MaxSize},
    NoName <- Null,
    value <- Values,
    name <- Names

(* BitSets are arrays of bits: a call through a Bit changes that bit and no*)
(* other in any BitSet, copies are independent of each other, and only a   *)
(* Bit one past the end, or one that was taken before its BitSet was bound *)
(* to fewer bytes, reaches memory that is not the BitSet's.                *)
ImplementsBitArray == Array!Spec
=============================================================================
