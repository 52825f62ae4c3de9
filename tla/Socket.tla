------------------------------- MODULE Socket -------------------------------
(***************************************************************************)
(* socket/socket.cpp: what a Socket object keeps about its poller and its  *)
(* life, and Socket::close as the loop thread runs it.                     *)
(*                                                                         *)
(* close is not one step: it marks the socket INVALID, waits for m_lock,   *)
(* removes the socket from the poller, forgets the poller and calls        *)
(* on_close. Other threads and the clock move between these.               *)
(***************************************************************************)
EXTENDS Poller

ASSUME SocketAssumption == "none" \notin Sockets

VARIABLES
  state,      \* m_info.state: handed to no poller yet, in use, or INVALID
  attached,   \* the sockets whose m_poller is the poller
  closing,    \* the close in progress: its socket and its next statement
  onClose     \* history: how often on_close was called

socketVars == <<state, attached, closing, onClose>>

NotClosing == [at |-> "idle", socket |-> "none"]
ClosingSteps == {"lock", "remove_socket", "reset", "on_close"}

SocketTypeOK ==
  /\ state \in [Sockets -> {"CREATED", "READY", "INVALID"}]
  /\ attached \subseteq Sockets
  /\ closing \in [at : ClosingSteps, socket : Sockets] \cup {NotClosing}
  /\ onClose \in [Sockets -> Nat]

SocketInit ==
  /\ state = [s \in Sockets |-> "CREATED"]
  /\ attached = {}
  /\ closing = NotClosing
  /\ onClose = [s \in Sockets |-> 0]

(* Poller::update_socket with the call of attach_to_poller it makes when   *)
(* the socket is new to it.                                                *)
update_and_attach(t, s, mask, step) ==
  /\ update_socket(t, s, mask, step)
  /\ attached' = attached \cup (active' \ active)
  /\ state' = [state EXCEPT ![s] = "READY"]
  /\ UNCHANGED <<closing, onClose>>

(* Mistake: the socket is not marked. *)
close_unmarked(s) ==
  /\ closing = NotClosing
  /\ state[s] # "INVALID"
  /\ closing' = [at |-> IF s \in attached THEN "lock" ELSE "on_close", socket |-> s]
  /\ UNCHANGED <<state, attached, onClose, pollerVars>>

(* Socket::close: a second close of the same socket does nothing. A socket *)
(* without a poller goes straight to on_close.                             *)
close(s) ==
  /\ closing = NotClosing
  /\ state[s] # "INVALID"
  /\ state' = [state EXCEPT ![s] = "INVALID"]
  /\ closing' = [at |-> IF s \in attached THEN "lock" ELSE "on_close", socket |-> s]
  /\ UNCHANGED <<attached, onClose, pollerVars>>

(* remove_from_poller waits for m_lock and calls remove_socket ...         *)
close_lock ==
  /\ closing.at = "lock"
  /\ lock_for(LoopThread, "remove_socket")
  /\ closing' = [closing EXCEPT !.at = "remove_socket"]
  /\ UNCHANGED <<state, attached, onClose>>

close_remove ==
  /\ closing.at = "remove_socket"
  /\ remove_socket(LoopThread, closing.socket)
  /\ closing' = [closing EXCEPT !.at = "reset"]
  /\ UNCHANGED <<state, attached, onClose>>

(* ... and only then, without the lock, resets m_poller.                   *)
close_reset ==
  /\ closing.at = "reset"
  /\ attached' = attached \ {closing.socket}
  /\ closing' = [closing EXCEPT !.at = "on_close"]
  /\ UNCHANGED <<state, onClose, pollerVars>>

close_callback ==
  /\ closing.at = "on_close"
  /\ onClose' = [onClose EXCEPT ![closing.socket] = @ + 1]
  /\ closing' = NotClosing
  /\ UNCHANGED <<state, attached, pollerVars>>

CloseStep == close_lock \/ close_remove \/ close_reset \/ close_callback
=============================================================================
