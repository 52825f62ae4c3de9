------------------------------ MODULE BitArray ------------------------------
(***************************************************************************)
(* What BitSet and Bit of common/bitset.hpp promise: arrays of bits with   *)
(* value semantics, whose bits can be named and used through the name. A   *)
(* name may be one past the last bit, and the array may become shorter;    *)
(* what happens when such a name is used is undefined, and so are the bits *)
(* of an array that is assigned to itself. Nothing else is.                *)
(***************************************************************************)
EXTENDS Integers, Sequences

CONSTANTS
  Arrays,
  Names,       \* Bit objects
  Lengths,     \* how many bits an array may have
  NoName

VARIABLES
  value,       \* value[a]: the bits of the array, none before it is bound
  name,        \* name[x]: the bit that x stands for
  result,      \* the bits the last call returned
  outcome      \* how the last call ended

Init ==
  /\ value = [a \in Arrays |-> <<>>]
  /\ name = [x \in Names |-> NoName]
  /\ result = <<>>
  /\ outcome = "returned"

Return(bits) == result' = bits /\ outcome' = "returned"

(* A new array has the bits the caller gives; zeroes, if there are none. *)
Bind(a) ==
  /\ Return(<<>>)
  /\ UNCHANGED name
  /\ value' = [value EXCEPT ![a] = value'[a]]
  /\ \E n \in Lengths : value'[a] \in [1 .. n -> BOOLEAN]

Assign(a, other) ==
  /\ value[other] # <<>>
  /\ Return(<<>>)
  /\ UNCHANGED name
  /\ value' = [value EXCEPT ![a] = value'[a]]
  /\ IF a = other THEN value'[a] \in [DOMAIN value[a] -> BOOLEAN]
                  ELSE value'[a] = value[other]

Fill(a, bit) ==
  /\ value[a] # <<>>
  /\ Return(<<>>)
  /\ UNCHANGED name
  /\ value' = [value EXCEPT ![a] = [i \in DOMAIN @ |-> bit]]

Show(a) == Return(value[a]) /\ UNCHANGED <<value, name>>

Name(x, a, index) ==
  /\ Return(<<>>)
  /\ name' = [name EXCEPT ![x] = [array |-> a, index |-> index]]
  /\ UNCHANGED value

Usable(x) == name[x].index < Len(value[name[x].array])
Bit(x) == value[name[x].array][name[x].index + 1]

Read(x) == Usable(x) /\ Return(<<Bit(x)>>) /\ UNCHANGED <<value, name>>

Write(x, bit) ==
  /\ Usable(x)
  /\ value' = [value EXCEPT ![name[x].array][name[x].index + 1] = bit]
  /\ UNCHANGED name

Copy(x, y) == Return(<<>>) /\ Usable(y) /\ Write(x, Bit(y))
Flip(x) == Write(x, ~Bit(x)) /\ Return(<<~Bit(x)>>)

Misuse(x) ==
  /\ ~Usable(x)
  /\ result' = <<>> /\ outcome' = "undefined"
  /\ UNCHANGED <<value, name>>

(* An array without bits is not filled or copied, and a bit behind the end *)
(* gets no name: the call throws and changes nothing.                      *)
Refuse ==
  /\ result' = <<>>
  /\ \/ outcome' = "invalid size"
     \/ outcome' = "uninitialized" /\ \E a \in Arrays : value[a] = <<>>
     \/ outcome' = "invalid index"
  /\ UNCHANGED <<value, name>>

Named == {x \in Names : name[x] # NoName}

Next ==
  /\ outcome # "undefined"
  /\ \/ Refuse
     \/ \E a \in Arrays : Bind(a) \/ Show(a)
     \/ \E a, other \in Arrays : Assign(a, other)
     \/ \E a \in Arrays, bit \in BOOLEAN : Fill(a, bit)
     \/ \E x \in Names, a \in Arrays : \E index \in 0 .. Len(value[a]) : Name(x, a, index)
     \/ \E x \in Named : Read(x) \/ Flip(x) \/ Misuse(x)
     \/ \E x \in Named, bit \in BOOLEAN : Return(<<>>) /\ Write(x, bit)
     \/ \E x, y \in Named : Copy(x, y)

Spec == Init /\ [][Next]_<<value, name, result, outcome>>
=============================================================================
