---------------------------- MODULE SocketContext ----------------------------
(***************************************************************************)
(* poller/socket_context.hpp and .cpp: the two timeouts of a registered    *)
(* socket. Times and steps are uint64_t: arithmetic wraps at TimeModulus,  *)
(* and the largest value stands for "no timeout".                          *)
(***************************************************************************)
EXTENDS Integers

CONSTANT TimeModulus  \* 2^64 in the code

ASSUME TimeModulusAssumption == TimeModulus \in Nat /\ TimeModulus > 1

INVALID_TIME == TimeModulus - 1
UInt64 == 0 .. INVALID_TIME

(* SocketContext::Timeout *)
Timeout == [time : UInt64, step : UInt64]
NoTimeout == [time |-> INVALID_TIME, step |-> INVALID_TIME]

Context == [read : Timeout, write : Timeout]
NewContext == [read |-> NoTimeout, write |-> NoTimeout]

update_timeout(t, current_time) ==
  [t EXCEPT !.time = (current_time + t.step) % TimeModulus]

(* Mistake: a running timeout is not shifted. *)
update_timeout_step_unshifted(t, new_step) == [t EXCEPT !.step = new_step]

update_timeout_step(t, new_step) ==
  [time |-> IF t.time = INVALID_TIME THEN INVALID_TIME
            ELSE (t.time + new_step - t.step) % TimeModulus,
   step |-> new_step]

(* The value get_nearest_timeout returns; its assertion is HasTimeout.     *)
get_nearest_timeout(c) ==
  IF c.read.time <= c.write.time THEN c.read.time ELSE c.write.time

HasTimeout(c) == c.read.time # INVALID_TIME \/ c.write.time # INVALID_TIME

(* Mistakes: > for >=, and one expired timeout taken for both. *)
get_timeout_type_late(c, current_time) ==
  {r \in {"TIMEOUT_READ", "TIMEOUT_WRITE"} :
     current_time > IF r = "TIMEOUT_READ" THEN c.read.time ELSE c.write.time}

get_timeout_type_both(c, current_time) ==
  IF current_time >= get_nearest_timeout(c) THEN {"TIMEOUT_READ", "TIMEOUT_WRITE"} ELSE {}

get_timeout_type(c, current_time) ==
  {r \in {"TIMEOUT_READ", "TIMEOUT_WRITE"} :
     current_time >= IF r = "TIMEOUT_READ" THEN c.read.time ELSE c.write.time}
=============================================================================
