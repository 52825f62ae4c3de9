------------------------------ MODULE MCStream ------------------------------
(* A ring of four and nine bytes: it wraps, and calls end in its middle.  *)
(* The connection holds three, so that write is cut short.                   *)
EXTENDS Stream

MCSize == 4
MCTotal == 9
MCCapacity == 3
=============================================================================
