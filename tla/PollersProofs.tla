---------------------------- MODULE PollersProofs ----------------------------
(***************************************************************************)
(* Proofs about Pollers, for every number of pollers and sockets and every *)
(* size of a report: what a call leaves behind, who may deadlock, and what *)
(* holds of a socket that its users do not share.                          *)
(***************************************************************************)
EXTENDS Pollers, TLAPS

(* Types. *)
Loops == [at : {"start", "epoll_wait", "lock", "dispatch", "callback", "done"},
          report : SUBSET Sockets, current : Sockets \cup {None}]
Calling == [op : {"none", "update", "remove", "close"},
            at : {"idle", "lock", "attach", "mark", "remove", "return"},
            socket : Sockets \cup {None},
            to : Pollers \cup {None}, from : Pollers \cup {None}]

(* What a call knows at each of its steps. TypeOK is not inductive without *)
(* it: a call that has a step to take has a socket.                        *)
CallShape(c) ==
  \/ c = Idle
  \/ /\ c.op = "update" /\ c.socket \in Sockets /\ c.to \in Pollers
     /\ \/ c.at \in {"lock", "attach"} /\ c.from = None
        \/ c.at = "remove" /\ c.from \in Pollers \ {c.to}
        \/ c.at = "return"
  \/ /\ c.op = "remove" /\ c.socket \in Sockets /\ c.to = None /\ c.from \in Pollers
     /\ c.at \in {"remove", "return"}
  \/ /\ c.op = "close" /\ c.socket \in Sockets /\ c.to = None
     /\ \/ c.at \in {"mark", "return"}
        \/ c.at = "remove" /\ c.from \in Pollers

CallsInv == \A t \in Threads : CallShape(call[t])

LEMMA TypeInit == Init => TypeOK
  BY DEF Init, TypeOK, Idle, NotRunning, Threads

LEMMA TypeBegin ==
  ASSUME TypeOK, NEW t \in Threads, NEW s \in Sockets, NEW op \in {"update", "remove", "close"},
         NEW at \in {"lock", "mark", "remove"}, NEW to \in Pollers \cup {None},
         NEW from \in Pollers \cup {None}, Begin(t, s, op, at, to, from)
  PROVE  TypeOK'
  BY DEF TypeOK, Begin, pollersVars, loopVars, socketVars

LEMMA TypeCalls ==
  ASSUME TypeOK, NEW t \in Threads, Calls(t)
  PROVE  TypeOK'
<1>1. ASSUME NEW s \in Sockets, NEW p \in Pollers, update_socket(t, s, p) PROVE TypeOK'
  BY <1>1, TypeBegin DEF update_socket
<1>2. ASSUME NEW s \in Sockets, remove_from_poller(t, s) PROVE TypeOK'
  <2>1. m_poller[s] \in Pollers \cup {None}
    BY DEF TypeOK
  <2>2. QED
    BY <1>2, <2>1, TypeBegin DEF remove_from_poller
<1>3. ASSUME NEW s \in Sockets, close(t, s) PROVE TypeOK'
  BY <1>3, TypeBegin DEF close
<1>4. QED
  BY <1>1, <1>2, <1>3 DEF Calls

(* TypeOK with its records named, and what the actions do to the records.  *)
LEMMA TypeRecords ==
  ASSUME TypeOK
  PROVE  call \in [Threads -> Calling] /\ loop \in [Pollers -> Loops]
  BY DEF TypeOK, Calling, Loops

LEMMA GoesType ==
  ASSUME TypeOK, NEW t \in Threads,
         NEW at \in {"idle", "lock", "attach", "mark", "remove", "return"},
         NEW from \in Pollers \cup {None},
         \/ Goes(t, at)
         \/ Returns(t)
         \/ call' = [call EXCEPT ![t].from = from, ![t].at = at]
  PROVE  call' \in [Threads -> Calling]
<1>1. call \in [Threads -> Calling]
  BY TypeRecords
<1>2. /\ [call[t] EXCEPT !.at = at] \in Calling
      /\ [call[t] EXCEPT !.from = from] \in Calling
      /\ [call[t] EXCEPT !.from = from, !.at = at] \in Calling
      /\ Idle \in Calling
  <2>1. call[t] \in Calling
    BY <1>1
  <2>2. [call[t] EXCEPT !.at = at] \in Calling
    BY <2>1 DEF Calling
  <2>3. [call[t] EXCEPT !.from = from] \in Calling
    BY <2>1 DEF Calling
  <2>4. [call[t] EXCEPT !.from = from, !.at = at] \in Calling
    BY <2>1 DEF Calling
  <2>5. Idle \in Calling
    BY DEF Calling, Idle
  <2>6. QED
    BY <2>2, <2>3, <2>4, <2>5
<1>3. CASE Goes(t, at)
  BY <1>1, <1>2, <1>3 DEF Goes
<1>4. CASE Returns(t)
  BY <1>1, <1>2, <1>4 DEF Returns
<1>5. CASE call' = [call EXCEPT ![t].from = from, ![t].at = at]
  BY <1>1, <1>2, <1>5
<1>6. QED
  BY <1>3, <1>4, <1>5

Others(t) == \A u \in Threads \ {t} : call'[u] = call[u]
SameCall(t) == call'[t].op = call[t].op /\ call'[t].socket = call[t].socket
               /\ call'[t].to = call[t].to

LEMMA GoesFields ==
  ASSUME TypeOK, NEW t \in Threads, NEW at, Goes(t, at)
  PROVE  Others(t) /\ SameCall(t) /\ call'[t].from = call[t].from /\ call'[t].at = at
<1>1. call \in [Threads -> Calling]
  BY TypeRecords
<1>2. QED
  BY <1>1 DEF Calling, Goes, Others, SameCall

LEMMA LeavesFields ==
  ASSUME TypeOK, NEW t \in Threads, NEW at, NEW from,
         call' = [call EXCEPT ![t].from = from, ![t].at = at]
  PROVE  Others(t) /\ SameCall(t) /\ call'[t].from = from /\ call'[t].at = at
<1>1. call \in [Threads -> Calling]
  BY TypeRecords
<1>2. QED
  BY <1>1 DEF Calling, Others, SameCall

LEMMA ReturnsFields ==
  ASSUME TypeOK, NEW t \in Threads, Returns(t)
  PROVE  Others(t) /\ call'[t] = Idle
<1>1. call \in [Threads -> Calling]
  BY TypeRecords
<1>2. QED
  BY <1>1 DEF Returns, Others

(* TypeOK from the records and the rest. *)
PollersTypeOK ==
  /\ lock \in [Pollers -> Threads \cup {None}]
  /\ active \in [Pollers -> SUBSET Sockets]
  /\ watched \in [Pollers -> SUBSET Sockets]
  /\ out \in [Pollers -> SUBSET Sockets]

LEMMA TypeParts ==
  ASSUME PollersTypeOK', call' \in [Threads -> Calling], loop' \in [Pollers -> Loops],
         m_poller' \in [Sockets -> Pollers \cup {None}], invalid' \subseteq Sockets,
         onClose' \in [Sockets -> Nat], failed' \in Sockets \cup {None}, shared' \subseteq Sockets
  PROVE  TypeOK'
  BY DEF TypeOK, PollersTypeOK, Calling, Loops

LEMMA TypeCallStep ==
  ASSUME TypeOK, CallsInv, NEW t \in Threads, CallStep(t)
  PROVE  TypeOK'
<1>1. /\ call[t].to \in Pollers \cup {None} /\ call[t].from \in Pollers \cup {None}
      /\ call[t].at # "idle" => call[t].socket \in Sockets
  BY DEF TypeOK, CallsInv, CallShape, Idle
<1>2. /\ m_poller \in [Sockets -> Pollers \cup {None}]
      /\ onClose \in [Sockets -> Nat] /\ invalid \subseteq Sockets
      /\ failed \in Sockets \cup {None} /\ shared \subseteq Sockets
      /\ loop \in [Pollers -> Loops]
      /\ PollersTypeOK
  BY TypeRecords DEF TypeOK, PollersTypeOK
<1>3. CASE update_known(t)
  <2>1. call' \in [Threads -> Calling]
    BY <1>3, GoesType DEF update_known
  <2>2. UNCHANGED <<pollersVars, loopVars, socketVars, shared>>
    BY <1>3 DEF update_known
  <2>3. QED
    BY <1>2, <2>1, <2>2, TypeParts DEF PollersTypeOK, pollersVars, loopVars, socketVars
<1>4. CASE update_new(t)
  <2>1. call' \in [Threads -> Calling]
    BY <1>4, GoesType DEF update_new
  <2>2. PollersTypeOK'
    BY <1>1, <1>2, <1>4 DEF update_new, PollersTypeOK, Threads
  <2>3. UNCHANGED <<loopVars, socketVars, shared>>
    BY <1>4 DEF update_new
  <2>4. QED
    BY <1>2, <2>1, <2>2, <2>3, TypeParts DEF loopVars, socketVars
<1>5. CASE attach_to_poller(t)
  <2>1. PollerToLeave(call[t].socket, call[t].to) \in Pollers \cup {None}
    BY <1>1, <1>2, <1>5 DEF PollerToLeave, attach_to_poller
  <2>2. call' \in [Threads -> Calling]
    BY <1>5, <2>1, GoesType DEF attach_to_poller
  <2>3. UNCHANGED <<pollersVars, loopVars, socketVars, shared>>
    BY <1>5 DEF attach_to_poller
  <2>4. QED
    BY <1>2, <2>2, <2>3, TypeParts DEF PollersTypeOK, pollersVars, loopVars, socketVars
<1>6. CASE remove_socket(t)
  <2>1. call' \in [Threads -> Calling]
    BY <1>6, GoesType DEF remove_socket
  <2>2. PollersTypeOK'
    BY <1>2, <1>6 DEF remove_socket, Unwatched, OutEventErased, PollersTypeOK
  <2>3. UNCHANGED <<loopVars, socketVars, shared>>
    BY <1>6 DEF remove_socket
  <2>4. QED
    BY <1>2, <2>1, <2>2, <2>3, TypeParts DEF loopVars, socketVars
<1>7. CASE attached(t)
  <2>1. call' \in [Threads -> Calling]
    BY <1>7, GoesType DEF attached
  <2>2. PollersTypeOK' /\ m_poller' \in [Sockets -> Pollers \cup {None}]
    BY <1>1, <1>2, <1>7 DEF attached, PollersTypeOK
  <2>3. UNCHANGED <<loopVars, invalid, onClose, shared>>
    BY <1>7 DEF attached
  <2>4. QED
    BY <1>2, <2>1, <2>2, <2>3, TypeParts DEF loopVars
<1>8. CASE removed(t)
  <2>1. call' \in [Threads -> Calling]
    BY <1>8, GoesType DEF removed
  <2>2. m_poller' \in [Sockets -> Pollers \cup {None}]
    BY <1>2, <1>8 DEF removed
  <2>3. UNCHANGED <<pollersVars, loopVars, invalid, onClose, shared>>
    BY <1>8 DEF removed
  <2>4. QED
    BY <1>2, <2>1, <2>2, <2>3, TypeParts DEF PollersTypeOK, pollersVars, loopVars
<1>9. CASE close_mark(t)
  <2>1. m_poller[call[t].socket] \in Pollers \cup {None} /\ invalid' \subseteq Sockets
    BY <1>1, <1>2, <1>9 DEF close_mark, Marked
  <2> DEFINE from == m_poller[call[t].socket]
             at == IF from = None THEN "return" ELSE "remove"
  <2>2. from \in Pollers \cup {None} /\ at \in {"return", "remove"}
    BY <2>1
  <2>3. call' = [call EXCEPT ![t].from = from, ![t].at = at]
    BY <1>9 DEF close_mark
  <2> HIDE DEF from, at
  <2>4. call' \in [Threads -> Calling]
    BY <2>2, <2>3, GoesType
  <2>5. UNCHANGED <<pollersVars, loopVars, m_poller, onClose, shared>>
    BY <1>9 DEF close_mark
  <2>6. QED
    BY <1>2, <2>1, <2>4, <2>5, TypeParts DEF PollersTypeOK, pollersVars, loopVars
<1>10. CASE closed(t)
  <2>1. call' \in [Threads -> Calling]
    BY <1>10, GoesType DEF closed
  <2>2. m_poller' \in [Sockets -> Pollers \cup {None}]
    BY <1>2, <1>10 DEF closed
  <2>3. onClose[call[t].socket] + 1 \in Nat
    BY <1>1, <1>2, <1>10 DEF closed
  <2>4. onClose' \in [Sockets -> Nat]
    BY <1>2, <1>10, <2>3 DEF closed
  <2>5. UNCHANGED <<pollersVars, loopVars, invalid, shared>>
    BY <1>10 DEF closed
  <2>6. QED
    BY <1>2, <2>1, <2>2, <2>4, <2>5, TypeParts DEF PollersTypeOK, pollersVars, loopVars
<1>11. QED
  BY <1>3, <1>4, <1>5, <1>6, <1>7, <1>8, <1>9, <1>10 DEF CallStep

LEMMA LoopType ==
  ASSUME TypeOK, NEW p \in Pollers,
         NEW at \in {"start", "epoll_wait", "lock", "dispatch", "callback", "done"},
         NEW report \in SUBSET Sockets, NEW current \in Sockets \cup {None},
         \/ loop' = [loop EXCEPT ![p].at = at]
         \/ loop' = [loop EXCEPT ![p].at = at, ![p].report = report]
         \/ loop' = [loop EXCEPT ![p].at = at, ![p].current = current]
  PROVE  loop' \in [Pollers -> Loops]
<1>1. loop \in [Pollers -> Loops]
  BY TypeRecords
<1>2. /\ [loop[p] EXCEPT !.at = at] \in Loops
      /\ [loop[p] EXCEPT !.at = at, !.report = report] \in Loops
      /\ [loop[p] EXCEPT !.at = at, !.current = current] \in Loops
  BY <1>1 DEF Loops
<1>3. CASE loop' = [loop EXCEPT ![p].at = at]
  BY <1>1, <1>2, <1>3
<1>4. CASE loop' = [loop EXCEPT ![p].at = at, ![p].report = report]
  BY <1>1, <1>2, <1>4
<1>5. CASE loop' = [loop EXCEPT ![p].at = at, ![p].current = current]
  BY <1>1, <1>2, <1>5
<1>6. QED
  BY <1>3, <1>4, <1>5

LEMMA TypeLoopStep ==
  ASSUME TypeOK, NEW p \in Pollers, LoopStep(p)
  PROVE  TypeOK'
<1>1. /\ UNCHANGED <<socketVars, call, shared>>
      /\ m_poller \in [Sockets -> Pollers \cup {None}]
      /\ onClose \in [Sockets -> Nat] /\ invalid \subseteq Sockets
      /\ failed \in Sockets \cup {None} /\ shared \subseteq Sockets
      /\ loop \in [Pollers -> Loops] /\ call \in [Threads -> Calling]
      /\ PollersTypeOK
  BY TypeRecords
     DEF TypeOK, PollersTypeOK, LoopStep, run, epoll_wait, process_events, process_stale_report,
         process_stop, get_next_event, dispatched, no_more_events
<1>2. loop' \in [Pollers -> Loops]
  <2>1. \A s \in out[p] : s \in Sockets
    BY <1>1 DEF PollersTypeOK
  <2>2. \A report \in SUBSET watched[p] : report \in SUBSET Sockets
    BY <1>1 DEF PollersTypeOK
  <2>3. CASE process_stale_report(p)
    BY <1>1, <2>3 DEF process_stale_report
  <2>4. CASE run(p) \/ no_more_events(p)
    BY <2>4, LoopType DEF run, no_more_events
  <2>5. CASE epoll_wait(p)
    BY <2>2, <2>5, LoopType DEF epoll_wait
  <2>6. CASE process_events(p) \/ process_stop(p)
    BY <2>6, LoopType DEF process_events, process_stop
  <2>7. CASE get_next_event(p)
    BY <2>1, <2>7, LoopType DEF get_next_event
  <2>8. CASE dispatched(p)
    BY <2>8, LoopType DEF dispatched
  <2>9. QED
    BY <2>3, <2>4, <2>5, <2>6, <2>7, <2>8 DEF LoopStep
<1>3. PollersTypeOK'
  <2>1. CASE pollersVars' = pollersVars
    BY <1>1, <2>1 DEF PollersTypeOK, pollersVars
  <2>2. CASE process_events(p)
    <3>1. loop[p].report \subseteq Sockets
      BY <1>1 DEF Loops
    <3>2. QED
      BY <1>1, <2>2, <3>1 DEF PollersTypeOK, process_events
  <2>3. CASE process_stop(p)
    BY <1>1, <2>3 DEF PollersTypeOK, process_stop
  <2>4. CASE get_next_event(p)
    BY <1>1, <2>4 DEF PollersTypeOK, get_next_event
  <2>5. QED
    BY <2>1, <2>2, <2>3, <2>4
       DEF LoopStep, run, epoll_wait, process_stale_report, dispatched, no_more_events
<1>4. failed' \in Sockets \cup {None}
  <2>1. loop[p].report \subseteq Sockets
    BY <1>1 DEF Loops
  <2>2. QED
    BY <1>1, <2>1 DEF LoopStep, run, epoll_wait, process_events, process_stale_report,
                      process_stop, get_next_event, dispatched, no_more_events
<1>5. QED
  BY <1>1, <1>2, <1>3, <1>4, TypeParts DEF socketVars

LEMMA TypeNext ==
  ASSUME TypeOK, CallsInv, [Next]_vars
  PROVE  TypeOK'
<1>1. CASE UNCHANGED vars
  BY <1>1 DEF TypeOK, vars, pollersVars, loopVars, socketVars
<1>2. QED
  BY <1>1, TypeCalls, TypeCallStep, TypeLoopStep DEF Next

-----------------------------------------------------------------------------
(* What holds of every socket, shared or not.                              *)

(* The thread has taken the lock of the poller it moves a socket to.       *)
IsMoving(t) == call[t].op = "update" /\ call[t].at \in {"attach", "remove", "return"}

LocksInv ==
  \A t \in Threads, p \in Pollers : lock[p] = t <=> IsMoving(t) /\ call[t].to = p

(* A loop does nothing while its thread is in a call. Only a STOP makes a  *)
(* poller forget a socket that its epoll watches, and no loop comes after. *)
LoopsInv ==
  \A p \in Pollers :
    /\ call[p] # Idle => loop[p].at \in {"start", "callback", "done"}
    /\ loop[p].current # None => loop[p].at = "callback"
    /\ loop[p].report # {} => loop[p].at = "lock"
    /\ loop[p].at # "done" => watched[p] = active[p]
    /\ active[p] \subseteq watched[p]
    /\ out[p] \subseteq active[p]

(* No event of a socket is pending where it is going to. *)
MovesInv == \A t \in Threads : IsMoving(t) => call[t].socket \notin out[call[t].to]

BasicInv == TypeOK /\ CallsInv /\ LocksInv /\ LoopsInv /\ MovesInv

LEMMA BasicInit == Init => BasicInv
<1> SUFFICES ASSUME Init PROVE BasicInv
  OBVIOUS
<1>1. TypeOK
  BY TypeInit
<1>2. CallsInv
  BY DEF Init, CallsInv, CallShape
<1>3. LocksInv
  BY NameAssumption DEF Init, LocksInv, IsMoving, Idle
<1>4. LoopsInv
  BY DEF Init, LoopsInv, NotRunning
<1>5. MovesInv
  BY DEF Init, MovesInv, IsMoving, Idle
<1>6. QED
  BY <1>1, <1>2, <1>3, <1>4, <1>5 DEF BasicInv

IsNew(c) == /\ CallShape(c)
            /\ c.op \in {"update", "remove", "close"}
            /\ c.at \in {"lock", "mark", "remove"}
            /\ c.op = "update" => c.at = "lock"

LEMMA BasicBegin ==
  ASSUME BasicInv, NEW t \in Threads, Calls(t)
  PROVE  BasicInv'
<1>1. PICK c \in Calling : IsNew(c) /\ call' = [call EXCEPT ![t] = c]
  <2>1. \A s \in Sockets : m_poller[s] \in Pollers \cup {None}
    BY DEF BasicInv, TypeOK
  <2>2. ASSUME NEW s \in Sockets, NEW p \in Pollers, update_socket(t, s, p)
        PROVE  \E c \in Calling : IsNew(c) /\ call' = [call EXCEPT ![t] = c]
    <3> DEFINE c == [op |-> "update", at |-> "lock", socket |-> s, to |-> p, from |-> None]
    <3>1. c \in Calling /\ IsNew(c)
      BY DEF Calling, CallShape, IsNew
    <3>2. call' = [call EXCEPT ![t] = c]
      BY <2>2 DEF update_socket, Begin
    <3>3. QED
      BY <3>1, <3>2
  <2>3. ASSUME NEW s \in Sockets, remove_from_poller(t, s)
        PROVE  \E c \in Calling : IsNew(c) /\ call' = [call EXCEPT ![t] = c]
    <3> DEFINE c == [op |-> "remove", at |-> "remove", socket |-> s, to |-> None,
                     from |-> m_poller[s]]
    <3>1. c \in Calling /\ IsNew(c)
      BY <2>1, <2>3 DEF Calling, CallShape, IsNew, remove_from_poller
    <3>2. call' = [call EXCEPT ![t] = c]
      BY <2>3 DEF remove_from_poller, Begin
    <3>3. QED
      BY <3>1, <3>2
  <2>4. ASSUME NEW s \in Sockets, close(t, s)
        PROVE  \E c \in Calling : IsNew(c) /\ call' = [call EXCEPT ![t] = c]
    <3> DEFINE c == [op |-> "close", at |-> "mark", socket |-> s, to |-> None, from |-> None]
    <3>1. c \in Calling /\ IsNew(c)
      BY DEF Calling, CallShape, IsNew
    <3>2. call' = [call EXCEPT ![t] = c]
      BY <2>4 DEF close, Begin
    <3>3. QED
      BY <3>1, <3>2
  <2>5. QED
    BY <2>2, <2>3, <2>4 DEF Calls
<1>2. /\ MayCall(t)
      /\ UNCHANGED <<pollersVars, loopVars, socketVars>>
  BY DEF Calls, update_socket, remove_from_poller, close, Begin
<1>3. call \in [Threads -> Calling]
  BY TypeRecords DEF BasicInv
<1>4. TypeOK'
  BY TypeCalls DEF BasicInv
<1>5. CallsInv'
  BY <1>1, <1>3 DEF BasicInv, CallsInv, IsNew
<1>6. /\ \A u \in Threads \ {t} : call'[u] = call[u] /\ (IsMoving(u)' <=> IsMoving(u))
      /\ ~IsMoving(t) /\ ~IsMoving(t)'
  BY <1>1, <1>2, <1>3 DEF IsMoving, MayCall, Idle, IsNew
<1>7. LocksInv'
  BY <1>2, <1>6 DEF BasicInv, LocksInv, pollersVars
<1>8. LoopsInv'
  BY <1>1, <1>2, <1>3 DEF BasicInv, LoopsInv, MayCall, pollersVars, loopVars
<1>9. MovesInv'
  BY <1>2, <1>6 DEF BasicInv, MovesInv, pollersVars
<1>10. QED
  BY <1>4, <1>5, <1>7, <1>8, <1>9 DEF BasicInv

(* The steps of a call, variable by variable. *)
Untouched == loop' = loop /\ failed' = failed /\ shared' = shared
TablesKept == active' = active /\ watched' = watched /\ out' = out
SocketsKept == m_poller' = m_poller /\ invalid' = invalid /\ onClose' = onClose

LEMMA UpdateKnownFacts ==
  ASSUME BasicInv, NEW t \in Threads, update_known(t)
  PROVE  /\ call[t].op = "update" /\ call[t].at = "lock"
         /\ call[t].socket \in Sockets /\ call[t].to \in Pollers
         /\ Others(t) /\ call'[t] = Idle
         /\ Untouched /\ TablesKept /\ SocketsKept /\ lock' = lock
<1>1. TypeOK /\ CallShape(call[t]) /\ call[t].at = "lock" /\ Returns(t)
  BY DEF BasicInv, CallsInv, update_known
<1>2. Others(t) /\ call'[t] = Idle
  BY <1>1, ReturnsFields
<1>3. QED
  BY <1>1, <1>2 DEF update_known, CallShape, Idle, Untouched, TablesKept, SocketsKept,
                    pollersVars, loopVars, socketVars

LEMMA UpdateNewFacts ==
  ASSUME BasicInv, NEW t \in Threads, update_new(t)
  PROVE  /\ call[t].op = "update" /\ call[t].at = "lock"
         /\ call[t].socket \in Sockets /\ call[t].to \in Pollers
         /\ lock[call[t].to] = None
         /\ call[t].socket \notin active[call[t].to]
         /\ Others(t) /\ SameCall(t) /\ call'[t].from = None /\ call'[t].at = "attach"
         /\ lock'[call[t].to] = t
         /\ watched'[call[t].to] = watched[call[t].to] \cup {call[t].socket}
         /\ active'[call[t].to] = active[call[t].to] \cup {call[t].socket}
         /\ \A p \in Pollers \ {call[t].to} :
              lock'[p] = lock[p] /\ watched'[p] = watched[p] /\ active'[p] = active[p]
         /\ Untouched /\ out' = out /\ SocketsKept
<1>1. TypeOK /\ CallShape(call[t]) /\ call[t].at = "lock" /\ Goes(t, "attach")
  BY DEF BasicInv, CallsInv, update_new
<1>2. Others(t) /\ SameCall(t) /\ call'[t].from = call[t].from /\ call'[t].at = "attach"
  BY <1>1, GoesFields
<1>3. /\ call[t].op = "update" /\ call[t].from = None
      /\ call[t].socket \in Sockets /\ call[t].to \in Pollers
  BY <1>1 DEF CallShape, Idle
<1>4. /\ Untouched /\ out' = out /\ SocketsKept
      /\ lock[call[t].to] = None
      /\ call[t].socket \notin active[call[t].to]
  BY DEF update_new, Untouched, SocketsKept, loopVars, socketVars
<1>5. /\ lock'[call[t].to] = t
      /\ watched'[call[t].to] = watched[call[t].to] \cup {call[t].socket}
      /\ active'[call[t].to] = active[call[t].to] \cup {call[t].socket}
      /\ \A p \in Pollers \ {call[t].to} :
           lock'[p] = lock[p] /\ watched'[p] = watched[p] /\ active'[p] = active[p]
  BY <1>1, <1>3 DEF update_new, TypeOK
<1>6. QED
  BY <1>1, <1>2, <1>3, <1>4, <1>5

LEMMA AttachToPollerFacts ==
  ASSUME BasicInv, NEW t \in Threads, attach_to_poller(t)
  PROVE  /\ call[t].op = "update" /\ call[t].at = "attach"
         /\ call[t].socket \in Sockets /\ call[t].to \in Pollers
         /\ m_poller[call[t].socket] \in Pollers \cup {None}
         /\ Others(t) /\ SameCall(t)
         /\ \/ /\ m_poller[call[t].socket] \in {None, call[t].to}
               /\ call'[t].at = "return" /\ call'[t].from = None
            \/ /\ m_poller[call[t].socket] \in Pollers \ {call[t].to}
               /\ call'[t].at = "remove" /\ call'[t].from = m_poller[call[t].socket]
         /\ Untouched /\ TablesKept /\ SocketsKept /\ lock' = lock
<1> DEFINE from == PollerToLeave(call[t].socket, call[t].to)
           at == IF from = None THEN "return" ELSE "remove"
<1>1. TypeOK /\ CallShape(call[t]) /\ call[t].at = "attach"
  BY DEF BasicInv, CallsInv, attach_to_poller
<1>2. call' = [call EXCEPT ![t].from = from, ![t].at = at]
  BY DEF attach_to_poller
<1>3. /\ call[t].op = "update" /\ call[t].socket \in Sockets /\ call[t].to \in Pollers
      /\ m_poller[call[t].socket] \in Pollers \cup {None}
  BY <1>1 DEF CallShape, Idle, TypeOK
<1>4. Untouched /\ TablesKept /\ SocketsKept /\ lock' = lock
  BY DEF attach_to_poller, Untouched, TablesKept, SocketsKept, pollersVars, loopVars, socketVars
<1>5. \/ m_poller[call[t].socket] \in {None, call[t].to} /\ from = None /\ at = "return"
      \/ /\ m_poller[call[t].socket] \in Pollers \ {call[t].to} /\ at = "remove"
         /\ from = m_poller[call[t].socket]
  BY <1>3, NameAssumption DEF PollerToLeave, Threads
<1> HIDE DEF from, at
<1>6. Others(t) /\ SameCall(t) /\ call'[t].from = from /\ call'[t].at = at
  BY <1>1, <1>2, LeavesFields
<1>7. QED
  BY <1>1, <1>3, <1>4, <1>5, <1>6

LEMMA RemoveSocketFacts ==
  ASSUME BasicInv, NEW t \in Threads, remove_socket(t)
  PROVE  /\ call[t].op \in {"update", "remove", "close"} /\ call[t].at = "remove"
         /\ call[t].socket \in Sockets /\ call[t].from \in Pollers
         /\ call[t].op = "update" => call[t].to \in Pollers \ {call[t].from}
         /\ call[t].op # "update" => call[t].to = None
         /\ lock[call[t].from] = None
         /\ Others(t) /\ SameCall(t) /\ call'[t].from = call[t].from /\ call'[t].at = "return"
         /\ watched'[call[t].from] = watched[call[t].from] \ {call[t].socket}
         /\ active'[call[t].from] = active[call[t].from] \ {call[t].socket}
         /\ out'[call[t].from] = out[call[t].from] \ {call[t].socket}
         /\ \A p \in Pollers \ {call[t].from} :
              watched'[p] = watched[p] /\ active'[p] = active[p] /\ out'[p] = out[p]
         /\ Untouched /\ SocketsKept /\ lock' = lock
<1>1. TypeOK /\ CallShape(call[t]) /\ call[t].at = "remove" /\ Goes(t, "return")
  BY DEF BasicInv, CallsInv, remove_socket
<1>2. Others(t) /\ SameCall(t) /\ call'[t].from = call[t].from /\ call'[t].at = "return"
  BY <1>1, GoesFields
<1>3. /\ call[t].op \in {"update", "remove", "close"}
      /\ call[t].socket \in Sockets /\ call[t].from \in Pollers
      /\ call[t].op = "update" => call[t].to \in Pollers \ {call[t].from}
      /\ call[t].op # "update" => call[t].to = None
  BY <1>1 DEF CallShape, Idle
<1>4. Untouched /\ SocketsKept /\ lock' = lock /\ lock[call[t].from] = None
  BY DEF remove_socket, Untouched, SocketsKept, loopVars, socketVars
<1>5. /\ watched'[call[t].from] = watched[call[t].from] \ {call[t].socket}
      /\ active'[call[t].from] = active[call[t].from] \ {call[t].socket}
      /\ \A p \in Pollers \ {call[t].from} : watched'[p] = watched[p] /\ active'[p] = active[p]
  BY <1>1, <1>3 DEF remove_socket, Unwatched, TypeOK
<1>6. /\ out'[call[t].from] = out[call[t].from] \ {call[t].socket}
      /\ \A p \in Pollers \ {call[t].from} : out'[p] = out[p]
  <2>1. CASE call[t].socket \in active[call[t].from]
    BY <1>1, <1>3, <2>1 DEF remove_socket, OutEventErased, TypeOK
  <2>2. CASE call[t].socket \notin active[call[t].from]
    <3>1. out' = out
      BY <2>2 DEF remove_socket, OutEventErased
    <3>2. call[t].socket \notin out[call[t].from]
      BY <1>3, <2>2 DEF BasicInv, LoopsInv
    <3>3. QED
      BY <3>1, <3>2
  <2>3. QED
    BY <2>1, <2>2
<1>7. QED
  BY <1>1, <1>2, <1>3, <1>4, <1>5, <1>6

LEMMA AttachedFacts ==
  ASSUME BasicInv, NEW t \in Threads, attached(t)
  PROVE  /\ call[t].op = "update" /\ call[t].at = "return"
         /\ call[t].socket \in Sockets /\ call[t].to \in Pollers
         /\ Others(t) /\ call'[t] = Idle
         /\ lock'[call[t].to] = None
         /\ \A p \in Pollers \ {call[t].to} : lock'[p] = lock[p]
         /\ m_poller'[call[t].socket] = call[t].to
         /\ \A s \in Sockets \ {call[t].socket} : m_poller'[s] = m_poller[s]
         /\ Untouched /\ TablesKept /\ invalid' = invalid /\ onClose' = onClose
<1>1. TypeOK /\ CallShape(call[t]) /\ call[t].at = "return" /\ call[t].op = "update" /\ Returns(t)
  BY DEF BasicInv, CallsInv, attached
<1>2. Others(t) /\ call'[t] = Idle
  BY <1>1, ReturnsFields
<1>3. call[t].socket \in Sockets /\ call[t].to \in Pollers
  BY <1>1 DEF CallShape, Idle
<1>4. Untouched /\ TablesKept /\ invalid' = invalid /\ onClose' = onClose
  BY DEF attached, Untouched, TablesKept, loopVars
<1>5. /\ lock'[call[t].to] = None
      /\ \A p \in Pollers \ {call[t].to} : lock'[p] = lock[p]
      /\ m_poller'[call[t].socket] = call[t].to
      /\ \A s \in Sockets \ {call[t].socket} : m_poller'[s] = m_poller[s]
  BY <1>1, <1>3 DEF attached, TypeOK
<1>6. QED
  BY <1>1, <1>2, <1>3, <1>4, <1>5

LEMMA RemovedFacts ==
  ASSUME BasicInv, NEW t \in Threads, removed(t)
  PROVE  /\ call[t].op = "remove" /\ call[t].at = "return"
         /\ call[t].socket \in Sockets /\ call[t].to = None
         /\ Others(t) /\ call'[t] = Idle
         /\ m_poller'[call[t].socket] = None
         /\ \A s \in Sockets \ {call[t].socket} : m_poller'[s] = m_poller[s]
         /\ Untouched /\ TablesKept /\ lock' = lock /\ invalid' = invalid /\ onClose' = onClose
<1>1. TypeOK /\ CallShape(call[t]) /\ call[t].at = "return" /\ call[t].op = "remove" /\ Returns(t)
  BY DEF BasicInv, CallsInv, removed
<1>2. Others(t) /\ call'[t] = Idle
  BY <1>1, ReturnsFields
<1>3. call[t].socket \in Sockets /\ call[t].to = None
  BY <1>1 DEF CallShape, Idle
<1>4. Untouched /\ TablesKept /\ lock' = lock /\ invalid' = invalid /\ onClose' = onClose
  BY DEF removed, Untouched, TablesKept, loopVars, pollersVars
<1>5. /\ m_poller'[call[t].socket] = None
      /\ \A s \in Sockets \ {call[t].socket} : m_poller'[s] = m_poller[s]
  BY <1>1, <1>3 DEF removed, TypeOK
<1>6. QED
  BY <1>1, <1>2, <1>3, <1>4, <1>5

LEMMA CloseMarkFacts ==
  ASSUME BasicInv, NEW t \in Threads, close_mark(t)
  PROVE  /\ call[t].op = "close" /\ call[t].at = "mark"
         /\ call[t].socket \in Sockets /\ call[t].to = None
         /\ m_poller[call[t].socket] \in Pollers \cup {None}
         /\ Others(t) /\ SameCall(t)
         /\ \/ /\ m_poller[call[t].socket] = None
               /\ call'[t].at = "return" /\ call'[t].from = None
            \/ /\ m_poller[call[t].socket] \in Pollers
               /\ call'[t].at = "remove" /\ call'[t].from = m_poller[call[t].socket]
         /\ invalid' = invalid \cup {call[t].socket}
         /\ Untouched /\ TablesKept /\ lock' = lock /\ m_poller' = m_poller /\ onClose' = onClose
<1> DEFINE from == m_poller[call[t].socket]
           at == IF from = None THEN "return" ELSE "remove"
<1>1. TypeOK /\ CallShape(call[t]) /\ call[t].at = "mark"
  BY DEF BasicInv, CallsInv, close_mark
<1>2. call' = [call EXCEPT ![t].from = from, ![t].at = at]
  BY DEF close_mark
<1>3. /\ call[t].op = "close" /\ call[t].socket \in Sockets /\ call[t].to = None
      /\ m_poller[call[t].socket] \in Pollers \cup {None}
  BY <1>1 DEF CallShape, Idle, TypeOK
<1>4. /\ Untouched /\ TablesKept /\ lock' = lock /\ m_poller' = m_poller /\ onClose' = onClose
      /\ invalid' = invalid \cup {call[t].socket}
  BY DEF close_mark, Marked, Untouched, TablesKept, pollersVars, loopVars
<1>5. \/ from = None /\ at = "return"
      \/ from \in Pollers /\ at = "remove"
  BY <1>3, NameAssumption DEF Threads
<1>6. Others(t) /\ SameCall(t) /\ call'[t].from = from /\ call'[t].at = at
  <2> HIDE DEF from, at
  <2>1. QED
    BY <1>1, <1>2, LeavesFields
<1>7. QED
  BY <1>1, <1>3, <1>4, <1>5, <1>6

LEMMA ClosedFacts ==
  ASSUME BasicInv, NEW t \in Threads, closed(t)
  PROVE  /\ call[t].op = "close" /\ call[t].at = "return"
         /\ call[t].socket \in Sockets /\ call[t].to = None
         /\ Others(t) /\ call'[t] = Idle
         /\ m_poller'[call[t].socket] = None
         /\ onClose'[call[t].socket] = onClose[call[t].socket] + 1
         /\ \A s \in Sockets \ {call[t].socket} :
              m_poller'[s] = m_poller[s] /\ onClose'[s] = onClose[s]
         /\ Untouched /\ TablesKept /\ lock' = lock /\ invalid' = invalid
<1>1. TypeOK /\ CallShape(call[t]) /\ call[t].at = "return" /\ call[t].op = "close" /\ Returns(t)
  BY DEF BasicInv, CallsInv, closed
<1>2. Others(t) /\ call'[t] = Idle
  BY <1>1, ReturnsFields
<1>3. call[t].socket \in Sockets /\ call[t].to = None
  BY <1>1 DEF CallShape, Idle
<1>4. Untouched /\ TablesKept /\ lock' = lock /\ invalid' = invalid
  BY DEF closed, Untouched, TablesKept, loopVars, pollersVars
<1>5. /\ m_poller'[call[t].socket] = None
      /\ onClose'[call[t].socket] = onClose[call[t].socket] + 1
      /\ \A s \in Sockets \ {call[t].socket} :
           m_poller'[s] = m_poller[s] /\ onClose'[s] = onClose[s]
  BY <1>1, <1>3 DEF closed, TypeOK
<1>6. QED
  BY <1>1, <1>2, <1>3, <1>4, <1>5

(* Every step of a call keeps the shape of the call, gives the lock to     *)
(* threads that are moving a socket only, and changes tables and pending   *)
(* events of one poller together.                                          *)
LEMMA BasicCallStep ==
  ASSUME BasicInv, NEW t \in Threads, CallStep(t)
  PROVE  BasicInv'
<1>1. TypeOK' /\ TypeOK /\ CallShape(call[t])
  BY TypeCallStep DEF BasicInv, CallsInv
<1>2. ASSUME Others(t), CallShape(call'[t]) PROVE CallsInv'
  BY <1>2 DEF BasicInv, CallsInv, Others
<1>3. ASSUME Others(t), call[t] # Idle, loop' = loop, TablesKept PROVE LoopsInv'
  BY <1>3 DEF BasicInv, LoopsInv, Others, TablesKept, Threads
<1>4. ASSUME Others(t), lock' = lock, IsMoving(t)' <=> IsMoving(t), call'[t].to = call[t].to
      PROVE  LocksInv'
  BY <1>4 DEF BasicInv, LocksInv, Others, IsMoving
<1>5. ASSUME Others(t), lock' = lock, ~IsMoving(t), ~IsMoving(t)'
      PROVE  LocksInv'
  BY <1>5 DEF BasicInv, LocksInv, Others, IsMoving
<1>6. ASSUME Others(t), out' = out,
             IsMoving(t)' => IsMoving(t) /\ call'[t].to = call[t].to /\ call'[t].socket = call[t].socket
      PROVE  MovesInv'
  BY <1>6 DEF BasicInv, MovesInv, Others, IsMoving
<1>7. CASE update_known(t)
  <2>1. /\ call[t].at = "lock" /\ call'[t] = Idle /\ Others(t)
        /\ loop' = loop /\ TablesKept /\ lock' = lock
    BY <1>7, UpdateKnownFacts DEF Untouched
  <2>2. call[t] # Idle /\ CallShape(call'[t]) /\ ~IsMoving(t) /\ ~IsMoving(t)' /\ out' = out
    BY <2>1 DEF CallShape, IsMoving, Idle, TablesKept
  <2>3. QED
    BY <1>1, <1>2, <1>3, <1>5, <1>6, <2>1, <2>2 DEF BasicInv
<1>8. CASE update_new(t)
  <2> DEFINE s == call[t].socket
             p == call[t].to
  <2>1. /\ call[t].op = "update" /\ call[t].at = "lock" /\ s \in Sockets /\ p \in Pollers
        /\ lock[p] = None /\ s \notin active[p]
        /\ Others(t) /\ SameCall(t) /\ call'[t].from = None /\ call'[t].at = "attach"
        /\ lock'[p] = t
        /\ watched'[p] = watched[p] \cup {s} /\ active'[p] = active[p] \cup {s}
        /\ \A q \in Pollers \ {p} :
              lock'[q] = lock[q] /\ watched'[q] = watched[q] /\ active'[q] = active[q]
        /\ loop' = loop /\ out' = out
    BY <1>8, UpdateNewFacts DEF Untouched
  <2>2. CallShape(call'[t]) /\ ~IsMoving(t) /\ IsMoving(t)' /\ call[t] # Idle
        /\ call'[t].to = p /\ call'[t].socket = s
    BY <2>1 DEF CallShape, SameCall, IsMoving, Idle
  <2>3. \A u \in Threads \ {t} : call'[u] = call[u] /\ (IsMoving(u)' <=> IsMoving(u))
    BY <2>1 DEF Others, IsMoving
  <2>4. LocksInv'
    <3> SUFFICES ASSUME NEW u \in Threads, NEW q \in Pollers
                 PROVE  (lock[q] = u)' <=> (IsMoving(u) /\ call[u].to = q)'
      BY DEF LocksInv
    <3>1. (lock[q] = u) <=> (IsMoving(u) /\ call[u].to = q)
      BY DEF BasicInv, LocksInv
    <3>2. \A v \in Threads : v # None
      BY NameAssumption
    <3> HIDE DEF s, p
    <3>3. CASE q = p /\ u = t
      BY <2>1, <2>2, <3>3
    <3>4. CASE q = p /\ u # t
      BY <2>1, <2>3, <3>1, <3>2, <3>4
    <3>5. CASE q # p /\ u = t
      BY <2>1, <2>2, <3>1, <3>5
    <3>6. CASE q # p /\ u # t
      BY <2>1, <2>3, <3>1, <3>6
    <3>7. QED
      BY <3>3, <3>4, <3>5, <3>6
  <2>5. LoopsInv'
    <3> SUFFICES ASSUME NEW q \in Pollers
                 PROVE  /\ (call[q] # Idle => loop[q].at \in {"start", "callback", "done"})'
                        /\ (loop[q].current # None => loop[q].at = "callback")'
                        /\ (loop[q].report # {} => loop[q].at = "lock")'
                        /\ (loop[q].at # "done" => watched[q] = active[q])'
                        /\ (active[q] \subseteq watched[q])'
                        /\ (out[q] \subseteq active[q])'
      BY DEF LoopsInv
    <3>1. /\ call[q] # Idle => loop[q].at \in {"start", "callback", "done"}
          /\ loop[q].current # None => loop[q].at = "callback"
          /\ loop[q].report # {} => loop[q].at = "lock"
          /\ loop[q].at # "done" => watched[q] = active[q]
          /\ active[q] \subseteq watched[q]
          /\ out[q] \subseteq active[q]
      BY DEF BasicInv, LoopsInv
    <3>2. call'[q] # Idle => call[q] # Idle
      BY <2>2, <2>3 DEF Threads
    <3> HIDE DEF s, p
    <3>3. QED
      BY <2>1, <3>1, <3>2
  <2>6. MovesInv'
    <3> SUFFICES ASSUME NEW u \in Threads, IsMoving(u)'
                 PROVE  call'[u].socket \notin out'[call'[u].to]
      BY DEF MovesInv
    <3>1. CASE u = t
      BY <2>1, <2>2, <3>1 DEF BasicInv, LoopsInv
    <3>2. CASE u # t
      BY <2>1, <2>3, <3>2 DEF BasicInv, MovesInv
    <3>3. QED
      BY <3>1, <3>2
  <2>7. QED
    BY <1>1, <1>2, <2>1, <2>2, <2>4, <2>5, <2>6 DEF BasicInv
<1>9. CASE attach_to_poller(t)
  <2>1. /\ call[t].op = "update" /\ call[t].at = "attach" /\ call[t].to \in Pollers
        /\ call[t].socket \in Sockets
        /\ Others(t) /\ SameCall(t)
        /\ \/ call'[t].at = "return"
           \/ call'[t].at = "remove" /\ call'[t].from \in Pollers \ {call[t].to}
        /\ loop' = loop /\ TablesKept /\ lock' = lock
    BY <1>9, AttachToPollerFacts DEF Untouched
  <2>2. CallShape(call'[t]) /\ IsMoving(t) /\ IsMoving(t)' /\ call[t] # Idle /\ out' = out
        /\ call'[t].to = call[t].to /\ call'[t].socket = call[t].socket
    BY <2>1 DEF CallShape, SameCall, IsMoving, Idle, TablesKept
  <2>3. QED
    BY <1>1, <1>2, <1>3, <1>4, <1>6, <2>1, <2>2 DEF BasicInv
<1>10. CASE remove_socket(t)
  <2> DEFINE s == call[t].socket
             p == call[t].from
  <2>1. /\ call[t].op \in {"update", "remove", "close"} /\ call[t].at = "remove"
        /\ s \in Sockets /\ p \in Pollers
        /\ call[t].op = "update" => call[t].to \in Pollers
        /\ call[t].op # "update" => call[t].to = None
        /\ Others(t) /\ SameCall(t) /\ call'[t].from = p /\ call'[t].at = "return"
        /\ watched'[p] = watched[p] \ {s} /\ active'[p] = active[p] \ {s}
        /\ out'[p] = out[p] \ {s}
        /\ \A q \in Pollers \ {p} :
              watched'[q] = watched[q] /\ active'[q] = active[q] /\ out'[q] = out[q]
        /\ loop' = loop /\ lock' = lock
    BY <1>10, RemoveSocketFacts DEF Untouched
  <2>2. CallShape(call'[t]) /\ (IsMoving(t)' <=> IsMoving(t)) /\ call[t] # Idle
        /\ call'[t].to = call[t].to /\ call'[t].socket = s
    BY <2>1 DEF CallShape, SameCall, IsMoving, Idle
  <2>3. \A q \in Pollers : out'[q] \subseteq out[q]
    BY <2>1
  <2>4. LoopsInv'
    <3> SUFFICES ASSUME NEW q \in Pollers
                 PROVE  /\ (call[q] # Idle => loop[q].at \in {"start", "callback", "done"})'
                        /\ (loop[q].current # None => loop[q].at = "callback")'
                        /\ (loop[q].report # {} => loop[q].at = "lock")'
                        /\ (loop[q].at # "done" => watched[q] = active[q])'
                        /\ (active[q] \subseteq watched[q])'
                        /\ (out[q] \subseteq active[q])'
      BY DEF LoopsInv
    <3>1. /\ call[q] # Idle => loop[q].at \in {"start", "callback", "done"}
          /\ loop[q].current # None => loop[q].at = "callback"
          /\ loop[q].report # {} => loop[q].at = "lock"
          /\ loop[q].at # "done" => watched[q] = active[q]
          /\ active[q] \subseteq watched[q]
          /\ out[q] \subseteq active[q]
      BY DEF BasicInv, LoopsInv
    <3>2. call'[q] # Idle => call[q] # Idle
      BY <2>1, <2>2 DEF Threads, Others
    <3> HIDE DEF s, p
    <3>3. CASE q = p
      BY <2>1, <3>1, <3>2, <3>3
    <3>4. CASE q # p
      BY <2>1, <3>1, <3>2, <3>4
    <3>5. QED
      BY <3>3, <3>4
  <2>5. MovesInv'
    <3> SUFFICES ASSUME NEW u \in Threads, IsMoving(u)'
                 PROVE  call'[u].socket \notin out'[call'[u].to]
      BY DEF MovesInv
    <3>1. call'[u].socket = call[u].socket /\ call'[u].to = call[u].to /\ IsMoving(u)
      BY <2>1, <2>2 DEF Others, IsMoving
    <3>2. call[u].to \in Pollers
      BY <3>1 DEF BasicInv, CallsInv, CallShape, IsMoving, Idle
    <3>3. QED
      BY <2>3, <3>1, <3>2 DEF BasicInv, MovesInv
  <2>6. QED
    BY <1>1, <1>2, <1>4, <2>1, <2>2, <2>4, <2>5 DEF BasicInv
<1>11. CASE attached(t)
  <2> DEFINE p == call[t].to
  <2>1. /\ call[t].op = "update" /\ call[t].at = "return" /\ p \in Pollers
        /\ Others(t) /\ call'[t] = Idle
        /\ lock'[p] = None /\ \A q \in Pollers \ {p} : lock'[q] = lock[q]
        /\ loop' = loop /\ TablesKept
    BY <1>11, AttachedFacts DEF Untouched
  <2>2. CallShape(call'[t]) /\ IsMoving(t) /\ ~IsMoving(t)' /\ call[t] # Idle /\ out' = out
    BY <2>1 DEF CallShape, IsMoving, Idle, TablesKept
  <2>3. LocksInv'
    <3> SUFFICES ASSUME NEW u \in Threads, NEW q \in Pollers
                 PROVE  (lock[q] = u)' <=> (IsMoving(u) /\ call[u].to = q)'
      BY DEF LocksInv
    <3>1. /\ (lock[q] = u) <=> (IsMoving(u) /\ call[u].to = q)
          /\ (lock[q] = t) <=> (IsMoving(t) /\ call[t].to = q)
          /\ u # None
      BY NameAssumption DEF BasicInv, LocksInv
    <3>2. u # t => call'[u] = call[u] /\ (IsMoving(u)' <=> IsMoving(u))
      BY <2>1 DEF Others, IsMoving
    <3>3. QED
      BY <2>1, <2>2, <3>1, <3>2
  <2>4. QED
    BY <1>1, <1>2, <1>3, <1>6, <2>1, <2>2, <2>3 DEF BasicInv
<1>12. CASE removed(t)
  <2>1. /\ call[t].op = "remove" /\ call[t].at = "return" /\ call'[t] = Idle /\ Others(t)
        /\ loop' = loop /\ TablesKept /\ lock' = lock
    BY <1>12, RemovedFacts DEF Untouched
  <2>2. call[t] # Idle /\ CallShape(call'[t]) /\ ~IsMoving(t) /\ ~IsMoving(t)' /\ out' = out
    BY <2>1 DEF CallShape, IsMoving, Idle, TablesKept
  <2>3. QED
    BY <1>1, <1>2, <1>3, <1>5, <1>6, <2>1, <2>2 DEF BasicInv
<1>13. CASE close_mark(t)
  <2>1. /\ call[t].op = "close" /\ call[t].at = "mark" /\ Others(t) /\ SameCall(t)
        /\ call[t].to = None /\ call[t].socket \in Sockets
        /\ \/ call'[t].at = "return"
           \/ call'[t].at = "remove" /\ call'[t].from \in Pollers
        /\ loop' = loop /\ TablesKept /\ lock' = lock
    BY <1>13, CloseMarkFacts DEF Untouched
  <2>2. call[t] # Idle /\ CallShape(call'[t]) /\ ~IsMoving(t) /\ ~IsMoving(t)' /\ out' = out
    BY <2>1 DEF CallShape, SameCall, IsMoving, Idle, TablesKept
  <2>3. QED
    BY <1>1, <1>2, <1>3, <1>5, <1>6, <2>1, <2>2 DEF BasicInv
<1>14. CASE closed(t)
  <2>1. /\ call[t].op = "close" /\ call[t].at = "return" /\ call'[t] = Idle /\ Others(t)
        /\ loop' = loop /\ TablesKept /\ lock' = lock
    BY <1>14, ClosedFacts DEF Untouched
  <2>2. call[t] # Idle /\ CallShape(call'[t]) /\ ~IsMoving(t) /\ ~IsMoving(t)' /\ out' = out
    BY <2>1 DEF CallShape, IsMoving, Idle, TablesKept
  <2>3. QED
    BY <1>1, <1>2, <1>3, <1>5, <1>6, <2>1, <2>2 DEF BasicInv
<1>15. QED
  BY <1>7, <1>8, <1>9, <1>10, <1>11, <1>12, <1>13, <1>14 DEF CallStep

(* The steps of a loop, variable by variable. *)
CallsKept == call' = call /\ lock' = lock /\ shared' = shared /\ SocketsKept
OtherLoops(p) == \A q \in Pollers \ {p} : loop'[q] = loop[q]
OtherOuts(p) == \A q \in Pollers \ {p} : out'[q] = out[q]

LEMMA RunFacts ==
  ASSUME BasicInv, NEW p \in Pollers, run(p)
  PROVE  /\ loop[p].at = "start" /\ call[p] = Idle
         /\ loop'[p] = [loop[p] EXCEPT !.at = "epoll_wait"] /\ loop'[p].at = "epoll_wait"
         /\ loop'[p].report = loop[p].report /\ loop'[p].current = loop[p].current
         /\ OtherLoops(p) /\ TablesKept /\ CallsKept /\ failed' = failed
<1>1. loop \in [Pollers -> Loops]
  BY TypeRecords DEF BasicInv
<1>2. QED
  BY <1>1 DEF run, Loops, OtherLoops, TablesKept, CallsKept, SocketsKept, pollersVars, socketVars

LEMMA EpollWaitFacts ==
  ASSUME BasicInv, NEW p \in Pollers, epoll_wait(p)
  PROVE  /\ loop[p].at = "epoll_wait"
         /\ loop'[p].at = "lock" /\ loop'[p].report \subseteq watched[p]
         /\ loop'[p].current = loop[p].current
         /\ OtherLoops(p) /\ TablesKept /\ CallsKept /\ failed' = failed
<1>1. loop \in [Pollers -> Loops]
  BY TypeRecords DEF BasicInv
<1>2. PICK report \in SUBSET watched[p] :
        loop' = [loop EXCEPT ![p].at = "lock", ![p].report = report]
  BY DEF epoll_wait
<1>3. loop[p].at = "epoll_wait" /\ TablesKept /\ CallsKept /\ failed' = failed
  BY DEF epoll_wait, TablesKept, CallsKept, SocketsKept, pollersVars, socketVars
<1>4. /\ loop'[p].at = "lock" /\ loop'[p].report = report /\ loop'[p].current = loop[p].current
      /\ OtherLoops(p)
  BY <1>1, <1>2 DEF Loops, OtherLoops
<1>5. QED
  BY <1>3, <1>4

LEMMA ProcessEventsFacts ==
  ASSUME BasicInv, NEW p \in Pollers, process_events(p)
  PROVE  /\ loop[p].at = "lock" /\ lock[p] = None
         /\ loop'[p].at = "dispatch" /\ loop'[p].report = {}
         /\ loop'[p].current = loop[p].current
         /\ out'[p] \subseteq out[p] \cup active[p]
         /\ OtherLoops(p) /\ OtherOuts(p)
         /\ active' = active /\ watched' = watched /\ CallsKept /\ failed' = failed
<1>1. /\ loop \in [Pollers -> Loops] /\ out \in [Pollers -> SUBSET Sockets]
  BY TypeRecords DEF BasicInv, TypeOK
<1>2. PICK due \in SUBSET active[p] : out' = [out EXCEPT ![p] = @ \cup loop[p].report \cup due]
  BY DEF process_events
<1>3. /\ loop[p].at = "lock" /\ lock[p] = None /\ loop[p].report \subseteq active[p]
      /\ loop' = [loop EXCEPT ![p].at = "dispatch", ![p].report = {}]
      /\ active' = active /\ watched' = watched /\ CallsKept /\ failed' = failed
  BY DEF process_events, CallsKept, SocketsKept, socketVars
<1>4. /\ loop'[p].at = "dispatch" /\ loop'[p].report = {} /\ loop'[p].current = loop[p].current
      /\ OtherLoops(p)
  BY <1>1, <1>3 DEF Loops, OtherLoops
<1>5. out'[p] \subseteq out[p] \cup active[p] /\ OtherOuts(p)
  BY <1>1, <1>2, <1>3 DEF OtherOuts
<1>6. QED
  BY <1>3, <1>4, <1>5

LEMMA ProcessStaleReportFacts ==
  ASSUME BasicInv, NEW p \in Pollers, process_stale_report(p)
  PROVE  /\ failed' \in loop[p].report \ active[p]
         /\ loop' = loop /\ TablesKept /\ CallsKept
  BY DEF process_stale_report, TablesKept, CallsKept, SocketsKept, pollersVars, socketVars

LEMMA ProcessStopFacts ==
  ASSUME BasicInv, NEW p \in Pollers, process_stop(p)
  PROVE  /\ loop[p].at = "lock" /\ lock[p] = None
         /\ loop'[p].at = "done" /\ loop'[p].report = {} /\ loop'[p].current = loop[p].current
         /\ active'[p] = {} /\ out'[p] = {}
         /\ \A q \in Pollers \ {p} : active'[q] = active[q]
         /\ OtherLoops(p) /\ OtherOuts(p)
         /\ watched' = watched /\ CallsKept /\ failed' = failed
<1>1. /\ loop \in [Pollers -> Loops] /\ out \in [Pollers -> SUBSET Sockets]
      /\ active \in [Pollers -> SUBSET Sockets]
  BY TypeRecords DEF BasicInv, TypeOK
<1>2. /\ loop[p].at = "lock" /\ lock[p] = None
      /\ loop' = [loop EXCEPT ![p].at = "done", ![p].report = {}]
      /\ active' = [active EXCEPT ![p] = {}] /\ out' = [out EXCEPT ![p] = {}]
      /\ watched' = watched /\ CallsKept /\ failed' = failed
  BY DEF process_stop, CallsKept, SocketsKept, socketVars
<1>3. /\ loop'[p].at = "done" /\ loop'[p].report = {} /\ loop'[p].current = loop[p].current
      /\ OtherLoops(p)
  BY <1>1, <1>2 DEF Loops, OtherLoops
<1>4. QED
  BY <1>1, <1>2, <1>3 DEF OtherOuts

LEMMA GetNextEventFacts ==
  ASSUME BasicInv, NEW p \in Pollers, get_next_event(p)
  PROVE  /\ loop[p].at = "dispatch"
         /\ \E s \in out[p] : loop'[p].current = s /\ out'[p] = out[p] \ {s}
         /\ loop'[p].at = "callback" /\ loop'[p].report = loop[p].report
         /\ OtherLoops(p) /\ OtherOuts(p)
         /\ active' = active /\ watched' = watched /\ CallsKept /\ failed' = failed
<1>1. loop \in [Pollers -> Loops] /\ out \in [Pollers -> SUBSET Sockets]
  BY TypeRecords DEF BasicInv, TypeOK
<1>2. PICK s \in out[p] : /\ out' = [out EXCEPT ![p] = @ \ {s}]
                          /\ loop' = [loop EXCEPT ![p].at = "callback", ![p].current = s]
  BY DEF get_next_event
<1>3. /\ loop[p].at = "dispatch"
      /\ active' = active /\ watched' = watched /\ CallsKept /\ failed' = failed
  BY DEF get_next_event, CallsKept, SocketsKept, socketVars
<1>4. /\ loop'[p].at = "callback" /\ loop'[p].report = loop[p].report /\ loop'[p].current = s
      /\ OtherLoops(p)
  BY <1>1, <1>2 DEF Loops, OtherLoops
<1>5. out'[p] = out[p] \ {s} /\ OtherOuts(p)
  BY <1>1, <1>2 DEF OtherOuts
<1>6. QED
  BY <1>2, <1>3, <1>4, <1>5

LEMMA DispatchedFacts ==
  ASSUME BasicInv, NEW p \in Pollers, dispatched(p)
  PROVE  /\ loop[p].at = "callback" /\ call[p] = Idle
         /\ loop'[p].at = "dispatch" /\ loop'[p].current = None
         /\ loop'[p].report = loop[p].report
         /\ OtherLoops(p) /\ TablesKept /\ CallsKept /\ failed' = failed
<1>1. loop \in [Pollers -> Loops]
  BY TypeRecords DEF BasicInv
<1>2. QED
  BY <1>1 DEF dispatched, Loops, OtherLoops, TablesKept, CallsKept, SocketsKept,
              pollersVars, socketVars

LEMMA NoMoreEventsFacts ==
  ASSUME BasicInv, NEW p \in Pollers, no_more_events(p)
  PROVE  /\ loop[p].at = "dispatch" /\ out[p] = {}
         /\ loop'[p].at \in {"epoll_wait", "done"}
         /\ loop'[p].report = loop[p].report /\ loop'[p].current = loop[p].current
         /\ OtherLoops(p) /\ TablesKept /\ CallsKept /\ failed' = failed
<1>1. loop \in [Pollers -> Loops]
  BY TypeRecords DEF BasicInv
<1>2. PICK at \in {"epoll_wait", "done"} : loop' = [loop EXCEPT ![p].at = at]
  BY DEF no_more_events
<1>3. /\ loop[p].at = "dispatch" /\ out[p] = {} /\ TablesKept /\ CallsKept /\ failed' = failed
  BY DEF no_more_events, TablesKept, CallsKept, SocketsKept, pollersVars, socketVars
<1>4. QED
  BY <1>1, <1>2, <1>3 DEF Loops, OtherLoops

(* LoopsInv of one poller. *)
LoopInv(p) ==
  /\ call[p] # Idle => loop[p].at \in {"start", "callback", "done"}
  /\ loop[p].current # None => loop[p].at = "callback"
  /\ loop[p].report # {} => loop[p].at = "lock"
  /\ loop[p].at # "done" => watched[p] = active[p]
  /\ active[p] \subseteq watched[p]
  /\ out[p] \subseteq active[p]

(* A loop works on the tables of its own poller, and adds pending events   *)
(* only when nobody has its lock.                                          *)
LEMMA BasicLoopStep ==
  ASSUME BasicInv, NEW p \in Pollers, LoopStep(p)
  PROVE  BasicInv'
<1>1. TypeOK'
  BY TypeLoopStep DEF BasicInv
<1>2. call' = call /\ lock' = lock
  BY DEF LoopStep, run, epoll_wait, process_events, process_stale_report, process_stop,
         get_next_event, dispatched, no_more_events, pollersVars
<1>3. CallsInv'
  BY <1>2 DEF BasicInv, CallsInv
<1>4. LocksInv'
  BY <1>2 DEF BasicInv, LocksInv, IsMoving
<1>5. \A q \in Pollers : LoopInv(q)
  BY DEF BasicInv, LoopsInv, LoopInv
<1>6. /\ LoopInv(p)'
      /\ \A q \in Pollers \ {p} : /\ loop'[q] = loop[q] /\ out'[q] = out[q]
                                  /\ active'[q] = active[q] /\ watched'[q] = watched[q]
      /\ out'[p] \subseteq out[p] \/ lock[p] = None
  <2>1. LoopInv(p)
    BY <1>5
  <2>2. CASE run(p)
    BY <1>2, <2>1, <2>2, RunFacts DEF LoopInv, OtherLoops, TablesKept
  <2>3. CASE epoll_wait(p)
    BY <1>2, <2>1, <2>3, EpollWaitFacts DEF LoopInv, OtherLoops, TablesKept
  <2>4. CASE process_events(p)
    BY <1>2, <2>1, <2>4, ProcessEventsFacts DEF LoopInv, OtherLoops, OtherOuts
  <2>5. CASE process_stale_report(p)
    BY <1>2, <2>1, <2>5, ProcessStaleReportFacts DEF LoopInv, TablesKept
  <2>6. CASE process_stop(p)
    BY <1>2, <2>1, <2>6, ProcessStopFacts DEF LoopInv, OtherLoops, OtherOuts
  <2>7. CASE get_next_event(p)
    BY <1>2, <2>1, <2>7, GetNextEventFacts DEF LoopInv, OtherLoops, OtherOuts
  <2>8. CASE dispatched(p)
    BY <1>2, <2>1, <2>8, DispatchedFacts DEF LoopInv, OtherLoops, TablesKept
  <2>9. CASE no_more_events(p)
    BY <1>2, <2>1, <2>9, NoMoreEventsFacts DEF LoopInv, OtherLoops, TablesKept
  <2>10. QED
    BY <2>2, <2>3, <2>4, <2>5, <2>6, <2>7, <2>8, <2>9 DEF LoopStep
<1>7. LoopsInv'
  <2>1. \A q \in Pollers \ {p} : LoopInv(q)'
    BY <1>2, <1>5, <1>6 DEF LoopInv
  <2>2. QED
    BY <1>6, <2>1 DEF LoopsInv, LoopInv
<1>8. MovesInv'
  <2> SUFFICES ASSUME NEW u \in Threads, IsMoving(u)
               PROVE  call[u].socket \notin out'[call[u].to]
    BY <1>2 DEF MovesInv, IsMoving
  <2>1. call[u].to \in Pollers /\ call[u].socket \notin out[call[u].to]
    BY DEF BasicInv, MovesInv, CallsInv, CallShape, IsMoving, Idle
  <2>2. lock[call[u].to] = u /\ u # None
    BY <2>1, NameAssumption DEF BasicInv, LocksInv
  <2>3. QED
    BY <1>6, <2>1, <2>2
<1>9. QED
  BY <1>1, <1>3, <1>4, <1>7, <1>8 DEF BasicInv

LEMMA BasicNext ==
  ASSUME BasicInv, [Next]_vars
  PROVE  BasicInv'
<1>1. CASE UNCHANGED vars
  BY <1>1, TypeNext
     DEF BasicInv, CallsInv, LocksInv, LoopsInv, MovesInv, IsMoving, vars, pollersVars, loopVars
<1>2. QED
  BY <1>1, BasicBegin, BasicCallStep, BasicLoopStep DEF Next

(* Every state has the types, and the fields of a call their meaning.      *)
THEOREM PollersTypeCorrect == Spec => []TypeOK
<1>1. BasicInv => TypeOK
  BY DEF BasicInv
<1>2. QED
  BY <1>1, BasicInit, BasicNext, PTL DEF Spec

-----------------------------------------------------------------------------
(* Who waits for whom: a thread with a lock is in a move, it waits for a   *)
(* lock only at remove_socket, and never for its own.                      *)
THEOREM OnlyMovesDeadlock == Spec => []DeadlocksAreCircularMoves
<1>1. BasicInv => DeadlocksAreCircularMoves
  <2> SUFFICES ASSUME BasicInv PROVE DeadlocksAreCircularMoves
    OBVIOUS
  <2>1. ASSUME NEW p \in Pollers, lock[p] # None PROVE call[lock[p]].to = p
    BY <2>1 DEF BasicInv, LocksInv, TypeOK
  <2>2. ASSUME NEW t \in Threads, NEW u \in Threads, WaitsFor(t, u)
        PROVE  IsMoving(u) /\ call[u].to = Asked(t)
    <3>1. Asked(t) \in Pollers
      BY <2>2 DEF WaitsFor, Asked, Threads, BasicInv, CallsInv, CallShape, Idle
    <3>2. QED
      BY <2>2, <3>1 DEF WaitsFor, BasicInv, LocksInv
  <2>3. ASSUME NEW ring \in SUBSET Threads, Circle(ring), NEW t \in ring
        PROVE  call[t].at = "remove" /\ call[t].op = "update" /\ ~WaitsFor(t, t)
    <3>1. IsMoving(t) /\ Asked(t) # None
      BY <2>2, <2>3 DEF Circle, WaitsFor
    <3>2. CallShape(call[t]) /\ loop[t].at # "lock"
      BY <3>1 DEF BasicInv, CallsInv, LoopsInv, IsMoving, Idle, Threads
    <3>3. call[t].at = "remove" /\ call[t].op = "update"
      BY <3>1, <3>2 DEF Asked, IsMoving
    <3>4. Asked(t) = call[t].from /\ call[t].from # call[t].to
      BY <3>2, <3>3 DEF Asked, CallShape, Idle
    <3>5. QED
      BY <2>2, <3>3, <3>4
  <2>4. QED
    BY <2>1, <2>3 DEF DeadlocksAreCircularMoves
<1>2. QED
  BY <1>1, BasicInit, BasicNext, PTL DEF Spec

-----------------------------------------------------------------------------
(* What holds of one socket whose users do not share it.                   *)

On(t, s) == call[t].socket = s

OneCaller(s) == \A t, u \in Threads : On(t, s) /\ On(u, s) => t = u

(* The caller is the thread of the loop the socket is attached to, while   *)
(* that one runs, and m_poller is still what the call has read.            *)
CallerOwns(s) ==
  \A t \in Threads :
    On(t, s) => /\ \A p \in Pollers \ {t} : m_poller[s] = p => loop[p].at = "done"
                /\ call[t].at = "remove" => call[t].from = m_poller[s]

(* epoll has it where it is attached, until a call has removed it, and     *)
(* where a call is moving it to.                                           *)
WatchedBy(s) ==
  \A p \in Pollers :
    s \in watched[p] =>
      \/ m_poller[s] = p /\ \A t \in Threads : On(t, s) => call[t].at # "return"
      \/ \E t \in Threads : On(t, s) /\ IsMoving(t) /\ call[t].to = p

(* A closed socket is being closed, or was and is attached nowhere.        *)
ClosedOnce(s) ==
  /\ \A t \in Threads :
       On(t, s) => (s \in invalid <=> call[t].op = "close" /\ call[t].at # "mark")
  /\ s \in invalid /\ ~InCall(s) => m_poller[s] = None
  /\ onClose[s] = IF s \in invalid /\ ~InCall(s) THEN 1 ELSE 0

(* A report that waits for the lock is of a socket the poller knows, and   *)
(* only a move to this poller may be under way.                            *)
Reported(s) ==
  \A p \in Pollers :
    s \in loop[p].report =>
      /\ s \in active[p]
      /\ \A t \in Threads : On(t, s) => IsMoving(t) /\ call[t].to = p

(* While a loop calls it back, no other has it, and its own thread calls.  *)
Current(s) ==
  \A q \in Pollers :
    loop[q].current = s =>
      /\ m_poller[s] \in {q, None}
      /\ \A p \in Pollers \ {q} : s \notin watched[p] /\ loop[p].current # s
      /\ \A t \in Threads : On(t, s) => t = q /\ call[t].to \in {q, None}

SocketInv(s) == OneCaller(s) /\ CallerOwns(s) /\ WatchedBy(s) /\ ClosedOnce(s)
                /\ Reported(s) /\ Current(s)

IInv == BasicInv /\ (\A s \in Unshared : SocketInv(s)) /\ NoStaleReport

LEMMA SocketInit ==
  ASSUME Init, NEW s \in Sockets
  PROVE  SocketInv(s)
<1>1. \A t \in Threads : ~On(t, s)
  BY NameAssumption DEF Init, On, Idle
<1>2. /\ \A p \in Pollers : /\ s \notin watched[p] /\ s \notin loop[p].report
                            /\ loop[p].current # s
      /\ s \notin invalid /\ onClose[s] = 0
  BY NameAssumption DEF Init, NotRunning
<1>3. QED
  BY <1>1, <1>2 DEF SocketInv, OneCaller, CallerOwns, WatchedBy, ClosedOnce, Reported, Current

(* A step of others: nothing that concerns this socket changes, but that a *)
(* report or a callback of it may end, and the loop of a poller.           *)
SocketUntouched(s) ==
  /\ m_poller'[s] = m_poller[s] /\ (s \in invalid' <=> s \in invalid) /\ onClose'[s] = onClose[s]
  /\ \A p \in Pollers :
       /\ s \in watched'[p] <=> s \in watched[p]
       /\ s \in loop'[p].report => s \in loop[p].report /\ (s \in active[p] => s \in active'[p])
       /\ loop'[p].current = s => loop[p].current = s
       /\ loop[p].at = "done" => loop'[p].at = "done"
  /\ \A t \in Threads : (On(t, s)' <=> On(t, s)) /\ (On(t, s) => call'[t] = call[t])

LEMMA SocketKept ==
  ASSUME NEW s \in Sockets, SocketInv(s), SocketUntouched(s)
  PROVE  SocketInv(s)'
<1>1. OneCaller(s)'
  BY DEF SocketUntouched, SocketInv, OneCaller
<1>2. CallerOwns(s)'
  BY DEF SocketUntouched, SocketInv, CallerOwns
<1>3. WatchedBy(s)'
  <2> SUFFICES ASSUME NEW p \in Pollers, s \in watched'[p]
               PROVE  \/ m_poller'[s] = p /\ \A t \in Threads : On(t, s)' => call'[t].at # "return"
                      \/ \E t \in Threads : On(t, s)' /\ IsMoving(t)' /\ call'[t].to = p
    BY DEF WatchedBy
  <2>1. s \in watched[p]
    BY DEF SocketUntouched
  <2>2. CASE m_poller[s] = p /\ \A t \in Threads : On(t, s) => call[t].at # "return"
    BY <2>2 DEF SocketUntouched
  <2>3. CASE \E t \in Threads : On(t, s) /\ IsMoving(t) /\ call[t].to = p
    BY <2>3 DEF SocketUntouched, IsMoving
  <2>4. QED
    BY <2>1, <2>2, <2>3 DEF SocketInv, WatchedBy
<1>4. ClosedOnce(s)'
  <2>1. InCall(s)' <=> InCall(s)
    BY DEF SocketUntouched, InCall, On
  <2>2. QED
    BY <2>1 DEF SocketUntouched, SocketInv, ClosedOnce
<1>5. Reported(s)'
  BY DEF SocketUntouched, SocketInv, Reported, IsMoving
<1>6. Current(s)'
  BY DEF SocketUntouched, SocketInv, Current
<1>7. QED
  BY <1>1, <1>2, <1>3, <1>4, <1>5, <1>6 DEF SocketInv

(* How a call begins, and what its socket is if it is not shared.          *)
LEMMA CallsFacts ==
  ASSUME BasicInv, NEW t \in Threads, Calls(t)
  PROVE  /\ MayCall(t) /\ Others(t) /\ call'[t].socket \in Sockets
         /\ \/ /\ call'[t].op = "update" /\ call'[t].at = "lock" /\ call'[t].to \in Pollers
               /\ call'[t].socket \notin invalid
            \/ /\ call'[t].op = "remove" /\ call'[t].at = "remove" /\ call'[t].to = None
               /\ call'[t].from = m_poller[call'[t].socket]
               /\ m_poller[call'[t].socket] # None
            \/ /\ call'[t].op = "close" /\ call'[t].at = "mark" /\ call'[t].to = None
               /\ call'[t].socket \notin invalid
         /\ \/ shared' = shared /\ ~IsShared(t, call'[t].socket, call'[t].op, call'[t].to)
            \/ shared' = shared \cup {call'[t].socket}
         /\ TablesKept /\ SocketsKept /\ lock' = lock /\ loop' = loop /\ failed' = failed
<1>1. call \in [Threads -> Calling]
  BY TypeRecords DEF BasicInv
<1>2. ASSUME NEW s \in Sockets, NEW op, NEW at, NEW to, NEW from, Begin(t, s, op, at, to, from)
      PROVE  /\ Others(t)
             /\ call'[t].op = op /\ call'[t].at = at /\ call'[t].socket = s
             /\ call'[t].to = to /\ call'[t].from = from
             /\ (shared' = shared /\ ~IsShared(t, s, op, to)) \/ shared' = shared \cup {s}
             /\ TablesKept /\ SocketsKept /\ lock' = lock /\ loop' = loop /\ failed' = failed
  <2>1. call' = [call EXCEPT ![t] = [op |-> op, at |-> at, socket |-> s, to |-> to, from |-> from]]
    BY <1>2 DEF Begin
  <2>2. shared' = IF IsShared(t, s, op, to) THEN shared \cup {s} ELSE shared
    BY <1>2 DEF Begin
  <2>3. TablesKept /\ SocketsKept /\ lock' = lock /\ loop' = loop /\ failed' = failed
    BY <1>2 DEF Begin, TablesKept, SocketsKept, pollersVars, socketVars, loopVars
  <2>4. /\ Others(t)
        /\ call'[t].op = op /\ call'[t].at = at /\ call'[t].socket = s
        /\ call'[t].to = to /\ call'[t].from = from
    BY <1>1, <2>1 DEF Others
  <2>5. QED
    BY <2>2, <2>3, <2>4
<1>3. CASE \E s \in Sockets, p \in Pollers : update_socket(t, s, p)
  <2>1. PICK s \in Sockets, p \in Pollers : update_socket(t, s, p)
    BY <1>3
  <2>2. MayCall(t) /\ s \notin invalid /\ Begin(t, s, "update", "lock", p, None)
    BY <2>1 DEF update_socket
  <2>3. QED
    BY <1>2, <2>2
<1>4. CASE \E s \in Sockets : remove_from_poller(t, s)
  <2>1. PICK s \in Sockets : remove_from_poller(t, s)
    BY <1>4
  <2>2. MayCall(t) /\ m_poller[s] # None /\ Begin(t, s, "remove", "remove", None, m_poller[s])
    BY <2>1 DEF remove_from_poller
  <2>3. QED
    BY <1>2, <2>2
<1>5. CASE \E s \in Sockets : close(t, s)
  <2>1. PICK s \in Sockets : close(t, s)
    BY <1>5
  <2>2. MayCall(t) /\ s \notin invalid /\ Begin(t, s, "close", "mark", None, None)
    BY <2>1 DEF close
  <2>3. QED
    BY <1>2, <2>2
<1>6. QED
  BY <1>3, <1>4, <1>5 DEF Calls

LEMMA SocketBegin ==
  ASSUME BasicInv, NEW t \in Threads, Calls(t), NEW s \in Unshared', SocketInv(s)
  PROVE  SocketInv(s)'
<1>1. s \in Sockets /\ s \in Unshared /\ s # None
  <2>1. shared \subseteq shared'
    BY CallsFacts
  <2>2. QED
    BY <2>1, NameAssumption DEF Unshared
<1>2. call[t] = Idle /\ ~On(t, s) /\ loop[t].at \in {"start", "callback", "done"} /\ Others(t)
      /\ TablesKept /\ SocketsKept /\ loop' = loop
  BY <1>1, CallsFacts DEF MayCall, On, Idle
<1>3. CASE call'[t].socket # s
  <2>1. SocketUntouched(s)
    BY <1>2, <1>3 DEF SocketUntouched, TablesKept, SocketsKept, On, Others
  <2>2. QED
    BY <1>1, <2>1, SocketKept
<1>4. CASE call'[t].socket = s
  <2>1. ~IsShared(t, s, call'[t].op, call'[t].to)
    BY <1>4, CallsFacts DEF Unshared
  <2>2. /\ \A p \in Pollers \ {t} : m_poller[s] = p => loop[p].at = "done"
        /\ \A u \in Threads \ {t} : ~On(u, s)
        /\ loop[t].current = s => ~(call'[t].op = "update" /\ call'[t].to # t)
        /\ \A p \in Pollers \ {t} : loop[p].current # s /\ s \notin loop[p].report
    BY <2>1 DEF IsShared, On
  <2>3. \A u \in Threads : ~On(u, s) /\ (On(u, s)' <=> u = t)
    BY <1>2, <1>4, <2>2 DEF On, Others
  <2>4. ~InCall(s) /\ InCall(s)'
    BY <2>3 DEF InCall, On
  <2>5. s \notin invalid /\ onClose[s] = 0
    BY <1>4, <2>4, CallsFacts DEF SocketInv, ClosedOnce
  <2>6. \A p \in Pollers : s \notin loop[p].report
    BY <1>2, <2>2 DEF BasicInv, LoopsInv, Threads
  <2>7. /\ call'[t].at = "remove" => call'[t].from = m_poller[s]
        /\ call'[t].at # "return"
        /\ call'[t].op = "close" => call'[t].at = "mark"
        /\ call'[t].op # "update" => call'[t].to = None
    BY <1>4, CallsFacts
  <2>8. OneCaller(s)'
    BY <2>3 DEF OneCaller
  <2>9. CallerOwns(s)'
    BY <1>2, <2>2, <2>3, <2>7 DEF CallerOwns, SocketsKept
  <2>10. WatchedBy(s)'
    BY <1>2, <2>3, <2>7 DEF SocketInv, WatchedBy, TablesKept, SocketsKept
  <2>11. ClosedOnce(s)'
    BY <1>2, <2>3, <2>4, <2>5, <2>7 DEF ClosedOnce, SocketsKept
  <2>12. Reported(s)'
    BY <1>2, <2>6 DEF Reported
  <2>13. Current(s)'
    <3> SUFFICES ASSUME NEW q \in Pollers, loop[q].current = s
                 PROVE  /\ m_poller[s] \in {q, None}
                        /\ \A p \in Pollers \ {q} : s \notin watched[p] /\ loop[p].current # s
                        /\ t = q /\ call'[t].to \in {q, None}
      BY <1>2, <2>3 DEF Current, TablesKept, SocketsKept
    <3>1. q = t
      BY <2>2
    <3>2. QED
      BY <2>2, <2>7, <3>1 DEF SocketInv, Current
  <2>14. QED
    BY <2>8, <2>9, <2>10, <2>11, <2>12, <2>13 DEF SocketInv
<1>5. QED
  BY <1>3, <1>4

(* A step of a call on another socket. *)
LEMMA OtherSocketStep ==
  ASSUME BasicInv, NEW t \in Threads, CallStep(t), NEW s \in Sockets, ~On(t, s)
  PROVE  SocketUntouched(s)
<1>1. ASSUME Others(t), SameCall(t) \/ call'[t] = Idle
      PROVE  \A u \in Threads : (On(u, s)' <=> On(u, s)) /\ (On(u, s) => call'[u] = call[u])
  BY <1>1, NameAssumption DEF Others, SameCall, On, Idle
<1>2. CASE update_known(t)
  BY <1>1, <1>2, UpdateKnownFacts DEF SocketUntouched, SocketsKept, TablesKept, Untouched
<1>3. CASE update_new(t)
  <2>1. \A p \in Pollers : /\ s \in watched'[p] <=> s \in watched[p]
                           /\ s \in active[p] => s \in active'[p]
    BY <1>3, UpdateNewFacts DEF On
  <2>2. QED
    BY <1>1, <1>3, <2>1, UpdateNewFacts DEF SocketUntouched, SocketsKept, Untouched
<1>4. CASE attach_to_poller(t)
  BY <1>1, <1>4, AttachToPollerFacts DEF SocketUntouched, SocketsKept, TablesKept, Untouched
<1>5. CASE remove_socket(t)
  <2>1. \A p \in Pollers : /\ s \in watched'[p] <=> s \in watched[p]
                           /\ s \in active[p] => s \in active'[p]
    BY <1>5, RemoveSocketFacts DEF On
  <2>2. QED
    BY <1>1, <1>5, <2>1, RemoveSocketFacts DEF SocketUntouched, SocketsKept, Untouched
<1>6. CASE attached(t)
  BY <1>1, <1>6, AttachedFacts DEF SocketUntouched, TablesKept, Untouched, On
<1>7. CASE removed(t)
  BY <1>1, <1>7, RemovedFacts DEF SocketUntouched, TablesKept, Untouched, On
<1>8. CASE close_mark(t)
  BY <1>1, <1>8, CloseMarkFacts DEF SocketUntouched, TablesKept, Untouched, On
<1>9. CASE closed(t)
  BY <1>1, <1>9, ClosedFacts DEF SocketUntouched, TablesKept, Untouched, On
<1>10. QED
  BY <1>2, <1>3, <1>4, <1>5, <1>6, <1>7, <1>8, <1>9 DEF CallStep

(* The only call on the socket, before and after a step of it.             *)
LEMMA OnlyCall ==
  ASSUME BasicInv, NEW t \in Threads, NEW s \in Sockets, SocketInv(s), On(t, s), Others(t)
  PROVE  /\ \A u \in Threads : On(u, s) <=> u = t
         /\ InCall(s) /\ onClose[s] = 0
         /\ s \in invalid <=> call[t].op = "close" /\ call[t].at # "mark"
         /\ SameCall(t) => InCall(s)' /\ \A u \in Threads : On(u, s)' <=> u = t
         /\ call'[t] = Idle => ~InCall(s)' /\ \A u \in Threads : ~On(u, s)'
<1>1. \A u \in Threads : On(u, s) <=> u = t
  BY DEF SocketInv, OneCaller
<1>2. InCall(s)
  BY DEF InCall, On
<1>3. SameCall(t) => \A u \in Threads : On(u, s)' <=> u = t
  BY <1>1 DEF SameCall, On, Others
<1>4. call'[t] = Idle => \A u \in Threads : ~On(u, s)'
  BY <1>1, NameAssumption DEF On, Others, Idle
<1>5. QED
  BY <1>1, <1>2, <1>3, <1>4 DEF SocketInv, ClosedOnce, InCall, On

LEMMA SocketUpdateKnown ==
  ASSUME BasicInv, NEW t \in Threads, NEW s \in Sockets, SocketInv(s), On(t, s), update_known(t)
  PROVE  SocketInv(s)'
<1>1. /\ call[t].op = "update" /\ call[t].at = "lock" /\ Others(t) /\ call'[t] = Idle
      /\ loop' = loop /\ TablesKept /\ SocketsKept
  BY UpdateKnownFacts DEF Untouched
<1>2. /\ \A u \in Threads : (On(u, s) <=> u = t) /\ ~On(u, s)'
      /\ ~InCall(s)' /\ s \notin invalid /\ onClose[s] = 0
  BY <1>1, OnlyCall
<1>3. ~IsMoving(t)
  BY <1>1 DEF IsMoving
<1>4. OneCaller(s)' /\ CallerOwns(s)'
  BY <1>2 DEF OneCaller, CallerOwns
<1>5. WatchedBy(s)'
  BY <1>1, <1>2, <1>3 DEF SocketInv, WatchedBy, TablesKept, SocketsKept
<1>6. ClosedOnce(s)'
  BY <1>1, <1>2 DEF ClosedOnce, SocketsKept
<1>7. Reported(s)'
  BY <1>1, <1>2 DEF SocketInv, Reported, TablesKept
<1>8. Current(s)'
  BY <1>1, <1>2 DEF SocketInv, Current, TablesKept, SocketsKept
<1>9. QED
  BY <1>4, <1>5, <1>6, <1>7, <1>8 DEF SocketInv

LEMMA SocketUpdateNew ==
  ASSUME BasicInv, NEW t \in Threads, NEW s \in Sockets, SocketInv(s), On(t, s), update_new(t)
  PROVE  SocketInv(s)'
<1> DEFINE p == call[t].to
<1>1. /\ call[t].op = "update" /\ call[t].at = "lock" /\ p \in Pollers
      /\ Others(t) /\ SameCall(t) /\ call'[t].at = "attach"
      /\ watched'[p] = watched[p] \cup {s}
      /\ \A q \in Pollers \ {p} : watched'[q] = watched[q]
      /\ loop' = loop /\ SocketsKept
  BY UpdateNewFacts DEF Untouched, On
<1>2. /\ \A u \in Threads : (On(u, s) <=> u = t) /\ (On(u, s)' <=> u = t)
      /\ InCall(s)' /\ s \notin invalid /\ onClose[s] = 0
  BY <1>1, OnlyCall
<1>3. ~IsMoving(t) /\ IsMoving(t)' /\ call'[t].to = p /\ call'[t].op = "update"
  BY <1>1 DEF IsMoving, SameCall
<1> HIDE DEF p
<1>4. OneCaller(s)'
  BY <1>2 DEF OneCaller
<1>5. CallerOwns(s)'
  BY <1>1, <1>2 DEF SocketInv, CallerOwns, SocketsKept
<1>6. WatchedBy(s)'
  <2> SUFFICES ASSUME NEW q \in Pollers, s \in watched'[q], q # p PROVE m_poller[s] = q
    BY <1>1, <1>2, <1>3 DEF WatchedBy, SocketsKept
  <2>1. s \in watched[q]
    BY <1>1
  <2>2. QED
    BY <1>2, <1>3, <2>1 DEF SocketInv, WatchedBy
<1>7. ClosedOnce(s)'
  BY <1>1, <1>2, <1>3 DEF ClosedOnce, SocketsKept
<1>8. Reported(s)'
  BY <1>1, <1>2, <1>3 DEF SocketInv, Reported
<1>9. Current(s)'
  <2> SUFFICES ASSUME NEW q \in Pollers, loop[q].current = s
               PROVE  /\ m_poller[s] \in {q, None}
                      /\ \A r \in Pollers \ {q} : s \notin watched'[r] /\ loop[r].current # s
                      /\ t = q /\ p \in {q, None}
    BY <1>1, <1>2, <1>3 DEF Current, SocketsKept
  <2>1. /\ m_poller[s] \in {q, None} /\ t = q /\ p \in {q, None}
        /\ \A r \in Pollers \ {q} : s \notin watched[r] /\ loop[r].current # s
    BY <1>2 DEF SocketInv, Current, p
  <2>2. p = q
    BY <1>1, <2>1, NameAssumption DEF Threads
  <2>3. QED
    BY <1>1, <2>1, <2>2
<1>10. QED
  BY <1>4, <1>5, <1>6, <1>7, <1>8, <1>9 DEF SocketInv

LEMMA SocketAttachToPoller ==
  ASSUME BasicInv, NEW t \in Threads, NEW s \in Sockets, SocketInv(s), On(t, s), attach_to_poller(t)
  PROVE  SocketInv(s)'
<1>1. /\ call[t].op = "update" /\ call[t].at = "attach"
      /\ m_poller[s] \in Pollers \cup {None}
      /\ Others(t) /\ SameCall(t)
      /\ \/ m_poller[s] \in {None, call[t].to} /\ call'[t].at = "return"
         \/ call'[t].at = "remove" /\ call'[t].from = m_poller[s]
      /\ loop' = loop /\ TablesKept /\ SocketsKept
  BY AttachToPollerFacts DEF Untouched, On
<1>2. /\ \A u \in Threads : (On(u, s) <=> u = t) /\ (On(u, s)' <=> u = t)
      /\ InCall(s)' /\ s \notin invalid /\ onClose[s] = 0
  BY <1>1, OnlyCall
<1>3. IsMoving(t) /\ IsMoving(t)' /\ call'[t].to = call[t].to /\ call'[t].op = "update"
  BY <1>1 DEF IsMoving, SameCall
<1>4. OneCaller(s)'
  BY <1>2 DEF OneCaller
<1>5. CallerOwns(s)'
  BY <1>1, <1>2 DEF SocketInv, CallerOwns, SocketsKept
<1>6. WatchedBy(s)'
  <2> SUFFICES ASSUME NEW q \in Pollers, s \in watched[q], q # call[t].to
               PROVE  m_poller[s] = q /\ call'[t].at # "return"
    BY <1>1, <1>2, <1>3 DEF WatchedBy, TablesKept, SocketsKept
  <2>1. m_poller[s] = q
    BY <1>2 DEF SocketInv, WatchedBy
  <2>2. QED
    BY <1>1, <2>1, NameAssumption DEF Threads
<1>7. ClosedOnce(s)'
  BY <1>1, <1>2, <1>3 DEF ClosedOnce, SocketsKept
<1>8. Reported(s)'
  BY <1>1, <1>2, <1>3 DEF SocketInv, Reported, TablesKept
<1>9. Current(s)'
  BY <1>1, <1>2, <1>3 DEF SocketInv, Current, TablesKept, SocketsKept
<1>10. QED
  BY <1>4, <1>5, <1>6, <1>7, <1>8, <1>9 DEF SocketInv

LEMMA SocketRemoveSocket ==
  ASSUME BasicInv, NEW t \in Threads, NEW s \in Sockets, SocketInv(s), On(t, s), remove_socket(t)
  PROVE  SocketInv(s)'
<1> DEFINE p == call[t].from
<1>1. /\ call[t].at = "remove" /\ p \in Pollers
      /\ call[t].op = "update" => call[t].to # p
      /\ Others(t) /\ SameCall(t) /\ call'[t].at = "return"
      /\ watched'[p] = watched[p] \ {s}
      /\ \A q \in Pollers \ {p} : watched'[q] = watched[q] /\ active'[q] = active[q]
      /\ loop' = loop /\ SocketsKept
  BY RemoveSocketFacts DEF Untouched, On
<1>2. /\ \A u \in Threads : (On(u, s) <=> u = t) /\ (On(u, s)' <=> u = t)
      /\ InCall(s)' /\ onClose[s] = 0 /\ (s \in invalid <=> call[t].op = "close")
  BY <1>1, OnlyCall
<1>3. /\ IsMoving(t)' <=> IsMoving(t)
      /\ call'[t].to = call[t].to /\ call'[t].op = call[t].op
      /\ m_poller[s] = p
  BY <1>1, <1>2 DEF IsMoving, SameCall, SocketInv, CallerOwns
<1> HIDE DEF p
<1>4. OneCaller(s)'
  BY <1>2 DEF OneCaller
<1>5. CallerOwns(s)'
  BY <1>1, <1>2 DEF SocketInv, CallerOwns, SocketsKept
<1>6. WatchedBy(s)'
  <2> SUFFICES ASSUME NEW q \in Pollers, s \in watched'[q] PROVE IsMoving(t) /\ call[t].to = q
    BY <1>1, <1>2, <1>3 DEF WatchedBy
  <2>1. s \in watched[q] /\ q # p
    BY <1>1
  <2>2. QED
    BY <1>2, <1>3, <2>1 DEF SocketInv, WatchedBy
<1>7. ClosedOnce(s)'
  BY <1>1, <1>2, <1>3 DEF ClosedOnce, SocketsKept
<1>8. Reported(s)'
  <2> SUFFICES ASSUME NEW q \in Pollers, s \in loop[q].report
               PROVE  s \in active'[q] /\ IsMoving(t) /\ call[t].to = q
    BY <1>1, <1>2, <1>3 DEF Reported
  <2>1. s \in active[q] /\ IsMoving(t) /\ call[t].to = q
    BY <1>2 DEF SocketInv, Reported
  <2>2. QED
    BY <1>1, <2>1 DEF IsMoving
<1>9. Current(s)'
  <2> SUFFICES ASSUME NEW q \in Pollers, loop[q].current = s
               PROVE  /\ m_poller[s] \in {q, None}
                      /\ \A r \in Pollers \ {q} : s \notin watched'[r] /\ loop[r].current # s
                      /\ t = q /\ call[t].to \in {q, None}
    BY <1>1, <1>2, <1>3 DEF Current, SocketsKept
  <2>1. \A r \in Pollers : s \in watched'[r] => s \in watched[r]
    BY <1>1
  <2>2. QED
    BY <1>2, <2>1 DEF SocketInv, Current
<1>10. QED
  BY <1>4, <1>5, <1>6, <1>7, <1>8, <1>9 DEF SocketInv

LEMMA SocketAttached ==
  ASSUME BasicInv, NEW t \in Threads, NEW s \in Sockets, SocketInv(s), On(t, s), attached(t)
  PROVE  SocketInv(s)'
<1>1. /\ call[t].op = "update" /\ call[t].at = "return" /\ call[t].to \in Pollers
      /\ Others(t) /\ call'[t] = Idle /\ m_poller'[s] = call[t].to
      /\ loop' = loop /\ TablesKept /\ invalid' = invalid /\ onClose' = onClose
  BY AttachedFacts DEF Untouched, On
<1>2. /\ \A u \in Threads : (On(u, s) <=> u = t) /\ ~On(u, s)'
      /\ ~InCall(s)' /\ s \notin invalid /\ onClose[s] = 0
  BY <1>1, OnlyCall
<1>3. OneCaller(s)' /\ CallerOwns(s)'
  BY <1>2 DEF OneCaller, CallerOwns
<1>4. WatchedBy(s)'
  BY <1>1, <1>2 DEF SocketInv, WatchedBy, TablesKept
<1>5. ClosedOnce(s)'
  BY <1>1, <1>2 DEF ClosedOnce
<1>6. Reported(s)'
  BY <1>1, <1>2 DEF SocketInv, Reported, TablesKept
<1>7. Current(s)'
  <2> SUFFICES ASSUME NEW q \in Pollers, loop[q].current = s
               PROVE  /\ call[t].to \in {q, None}
                      /\ \A r \in Pollers \ {q} : s \notin watched[r] /\ loop[r].current # s
    BY <1>1, <1>2 DEF Current, TablesKept
  <2>1. QED
    BY <1>2 DEF SocketInv, Current
<1>8. QED
  BY <1>3, <1>4, <1>5, <1>6, <1>7 DEF SocketInv

(* The end of remove_from_poller, and that of close.                       *)
LEMMA SocketRemoved ==
  ASSUME BasicInv, NEW t \in Threads, NEW s \in Sockets, SocketInv(s), On(t, s),
         removed(t) \/ closed(t)
  PROVE  SocketInv(s)'
<1>1. /\ call[t].op \in {"remove", "close"} /\ call[t].at = "return"
      /\ Others(t) /\ call'[t] = Idle /\ m_poller'[s] = None
      /\ loop' = loop /\ TablesKept /\ invalid' = invalid
      /\ onClose'[s] = IF call[t].op = "close" THEN onClose[s] + 1 ELSE onClose[s]
  <2>1. CASE removed(t)
    BY <2>1, RemovedFacts DEF Untouched, On
  <2>2. CASE closed(t)
    BY <2>2, ClosedFacts DEF Untouched, On
  <2>3. QED
    BY <2>1, <2>2
<1>2. /\ \A u \in Threads : (On(u, s) <=> u = t) /\ ~On(u, s)'
      /\ ~InCall(s)' /\ onClose[s] = 0 /\ (s \in invalid <=> call[t].op = "close")
  BY <1>1, OnlyCall
<1>3. ~IsMoving(t) /\ \A p \in Pollers : s \notin watched[p] /\ s \notin loop[p].report
  BY <1>1, <1>2 DEF IsMoving, SocketInv, WatchedBy, Reported
<1>4. OneCaller(s)' /\ CallerOwns(s)'
  BY <1>2 DEF OneCaller, CallerOwns
<1>5. WatchedBy(s)' /\ Reported(s)'
  BY <1>1, <1>3 DEF WatchedBy, Reported, TablesKept
<1>6. ClosedOnce(s)'
  BY <1>1, <1>2 DEF ClosedOnce
<1>7. Current(s)'
  BY <1>1, <1>2 DEF SocketInv, Current, TablesKept
<1>8. QED
  BY <1>4, <1>5, <1>6, <1>7 DEF SocketInv

LEMMA SocketCloseMark ==
  ASSUME BasicInv, NEW t \in Threads, NEW s \in Sockets, SocketInv(s), On(t, s), close_mark(t)
  PROVE  SocketInv(s)'
<1>1. /\ call[t].op = "close" /\ call[t].at = "mark"
      /\ Others(t) /\ SameCall(t)
      /\ \/ m_poller[s] = None /\ call'[t].at = "return"
         \/ call'[t].at = "remove" /\ call'[t].from = m_poller[s]
      /\ invalid' = invalid \cup {s} /\ m_poller' = m_poller /\ onClose' = onClose
      /\ loop' = loop /\ TablesKept
  BY CloseMarkFacts DEF Untouched, On
<1>2. /\ \A u \in Threads : (On(u, s) <=> u = t) /\ (On(u, s)' <=> u = t)
      /\ InCall(s)' /\ onClose[s] = 0
  BY <1>1, OnlyCall
<1>3. ~IsMoving(t) /\ call'[t].to = call[t].to /\ call'[t].op = "close"
  BY <1>1 DEF IsMoving, SameCall
<1>4. OneCaller(s)'
  BY <1>2 DEF OneCaller
<1>5. CallerOwns(s)'
  BY <1>1, <1>2 DEF SocketInv, CallerOwns
<1>6. WatchedBy(s)'
  <2> SUFFICES ASSUME NEW q \in Pollers, s \in watched[q]
               PROVE  m_poller[s] = q /\ call'[t].at # "return"
    BY <1>1, <1>2 DEF WatchedBy, TablesKept
  <2>1. m_poller[s] = q
    BY <1>2, <1>3 DEF SocketInv, WatchedBy
  <2>2. QED
    BY <1>1, <2>1, NameAssumption DEF Threads
<1>7. ClosedOnce(s)'
  BY <1>1, <1>2, <1>3 DEF ClosedOnce
<1>8. Reported(s)'
  BY <1>1, <1>2, <1>3 DEF SocketInv, Reported, TablesKept
<1>9. Current(s)'
  BY <1>1, <1>2, <1>3 DEF SocketInv, Current, TablesKept
<1>10. QED
  BY <1>4, <1>5, <1>6, <1>7, <1>8, <1>9 DEF SocketInv

LEMMA SocketCallStep ==
  ASSUME BasicInv, NEW t \in Threads, CallStep(t), NEW s \in Sockets, SocketInv(s)
  PROVE  SocketInv(s)'
<1>1. CASE ~On(t, s)
  BY <1>1, OtherSocketStep, SocketKept
<1>2. CASE On(t, s)
  BY <1>2, SocketUpdateKnown, SocketUpdateNew, SocketAttachToPoller, SocketRemoveSocket,
     SocketAttached, SocketRemoved, SocketCloseMark DEF CallStep
<1>3. QED
  BY <1>1, <1>2

(* The two steps of a loop that give it the socket: epoll reports only what*)
(* it watches, and an event is pending only where the socket is attached.  *)
LEMMA SocketEpollWait ==
  ASSUME BasicInv, NEW p \in Pollers, NEW s \in Sockets, SocketInv(s), epoll_wait(p)
  PROVE  SocketInv(s)'
<1>1. /\ loop[p].at = "epoll_wait" /\ loop'[p].at = "lock" /\ loop'[p].report \subseteq watched[p]
      /\ loop'[p].current = loop[p].current
      /\ OtherLoops(p) /\ TablesKept /\ call' = call /\ SocketsKept
  BY EpollWaitFacts DEF CallsKept
<1>2. \A q \in Pollers : /\ loop'[q].current = loop[q].current
                         /\ loop[q].at = "done" => loop'[q].at = "done"
  BY <1>1 DEF OtherLoops
<1>3. OneCaller(s)' /\ CallerOwns(s)' /\ WatchedBy(s)' /\ ClosedOnce(s)' /\ Current(s)'
  BY <1>1, <1>2
     DEF SocketInv, OneCaller, CallerOwns, WatchedBy, ClosedOnce, Current, On, InCall, IsMoving,
         TablesKept, SocketsKept
<1>4. Reported(s)'
  <2> SUFFICES ASSUME NEW q \in Pollers, s \in loop'[q].report
               PROVE  /\ s \in active[q]
                      /\ \A t \in Threads : On(t, s) => IsMoving(t) /\ call[t].to = q
    BY <1>1 DEF Reported, TablesKept, On, IsMoving
  <2>1. CASE q # p
    BY <1>1, <2>1 DEF SocketInv, Reported, OtherLoops
  <2>2. CASE q = p
    <3>1. s \in watched[p] /\ s \in active[p] /\ call[p] = Idle
      BY <1>1, <2>2 DEF BasicInv, LoopsInv
    <3>2. \A t \in Threads : On(t, s) => m_poller[s] # p
      <4> SUFFICES ASSUME NEW t \in Threads, On(t, s), m_poller[s] = p PROVE FALSE
        OBVIOUS
      <4>1. t # p
        BY <3>1, NameAssumption DEF On, Idle
      <4>2. QED
        BY <1>1, <4>1 DEF SocketInv, CallerOwns
    <3>3. \A t \in Threads : On(t, s) => IsMoving(t) /\ call[t].to = p
      BY <3>1, <3>2 DEF SocketInv, WatchedBy, OneCaller
    <3>4. QED
      BY <2>2, <3>1, <3>3
  <2>3. QED
    BY <2>1, <2>2
<1>5. QED
  BY <1>3, <1>4 DEF SocketInv

LEMMA SocketGetNextEvent ==
  ASSUME BasicInv, NEW p \in Pollers, NEW s \in Sockets, SocketInv(s), get_next_event(p)
  PROVE  SocketInv(s)'
<1>1. /\ loop[p].at = "dispatch" /\ loop'[p].current \in out[p] /\ loop'[p].at = "callback"
      /\ loop'[p].report = loop[p].report
      /\ OtherLoops(p) /\ active' = active /\ watched' = watched /\ call' = call /\ SocketsKept
  BY GetNextEventFacts DEF CallsKept
<1>2. CASE loop'[p].current # s
  <2>1. SocketUntouched(s)
    BY <1>1, <1>2 DEF SocketUntouched, SocketsKept, OtherLoops, On
  <2>2. QED
    BY <2>1, SocketKept
<1>3. CASE loop'[p].current = s
  <2>1. s \in out[p] /\ s \in watched[p] /\ call[p] = Idle
    BY <1>1, <1>3 DEF BasicInv, LoopsInv
  <2>2. \A t \in Threads : On(t, s) => m_poller[s] # p
    <3> SUFFICES ASSUME NEW t \in Threads, On(t, s), m_poller[s] = p PROVE FALSE
      OBVIOUS
    <3>1. t # p
      BY <2>1, NameAssumption DEF On, Idle
    <3>2. QED
      BY <1>1, <3>1 DEF SocketInv, CallerOwns
  <2>3. \A t \in Threads : On(t, s) => ~(IsMoving(t) /\ call[t].to = p)
    BY <2>1 DEF BasicInv, MovesInv, On
  <2>4. m_poller[s] = p /\ \A t \in Threads : ~On(t, s)
    BY <2>1, <2>2, <2>3 DEF SocketInv, WatchedBy
  <2>5. \A q \in Pollers \ {p} : s \notin watched[q] /\ loop[q].current # s
    BY <2>1, <2>4 DEF SocketInv, WatchedBy, Current
  <2>6. \A q \in Pollers : /\ loop'[q].report = loop[q].report
                           /\ loop[q].at = "done" => loop'[q].at = "done"
    BY <1>1 DEF OtherLoops
  <2>7. OneCaller(s)' /\ CallerOwns(s)' /\ WatchedBy(s)' /\ ClosedOnce(s)' /\ Reported(s)'
    BY <1>1, <2>6
       DEF SocketInv, OneCaller, CallerOwns, WatchedBy, ClosedOnce, Reported, On, InCall, IsMoving,
           SocketsKept
  <2>8. Current(s)'
    <3> SUFFICES ASSUME NEW q \in Pollers, loop'[q].current = s
                 PROVE  /\ m_poller[s] \in {q, None}
                        /\ \A r \in Pollers \ {q} : s \notin watched[r] /\ loop'[r].current # s
      BY <1>1, <2>4 DEF Current, SocketsKept, On
    <3>1. q = p
      BY <1>1, <2>5 DEF OtherLoops
    <3>2. QED
      BY <1>1, <2>4, <2>5, <3>1 DEF OtherLoops
  <2>9. QED
    BY <2>7, <2>8 DEF SocketInv
<1>4. QED
  BY <1>2, <1>3

LEMMA SocketLoopStep ==
  ASSUME BasicInv, NEW p \in Pollers, LoopStep(p), NEW s \in Sockets, SocketInv(s)
  PROVE  SocketInv(s)'
<1>1. s # None
  BY NameAssumption
<1>2. CASE run(p)
  <2>1. SocketUntouched(s)
    BY <1>2, RunFacts DEF SocketUntouched, SocketsKept, CallsKept, TablesKept, OtherLoops, On
  <2>2. QED
    BY <2>1, SocketKept
<1>3. CASE epoll_wait(p)
  BY <1>3, SocketEpollWait
<1>4. CASE process_events(p)
  <2>1. SocketUntouched(s)
    BY <1>4, ProcessEventsFacts DEF SocketUntouched, SocketsKept, CallsKept, OtherLoops, On
  <2>2. QED
    BY <2>1, SocketKept
<1>5. CASE process_stale_report(p)
  <2>1. SocketUntouched(s)
    BY <1>5, ProcessStaleReportFacts DEF SocketUntouched, SocketsKept, CallsKept, TablesKept, On
  <2>2. QED
    BY <2>1, SocketKept
<1>6. CASE process_stop(p)
  <2>1. SocketUntouched(s)
    BY <1>6, ProcessStopFacts DEF SocketUntouched, SocketsKept, CallsKept, OtherLoops, On
  <2>2. QED
    BY <2>1, SocketKept
<1>7. CASE get_next_event(p)
  BY <1>7, SocketGetNextEvent
<1>8. CASE dispatched(p)
  <2>1. SocketUntouched(s)
    BY <1>1, <1>8, DispatchedFacts
       DEF SocketUntouched, SocketsKept, CallsKept, TablesKept, OtherLoops, On
  <2>2. QED
    BY <2>1, SocketKept
<1>9. CASE no_more_events(p)
  <2>1. SocketUntouched(s)
    BY <1>9, NoMoreEventsFacts
       DEF SocketUntouched, SocketsKept, CallsKept, TablesKept, OtherLoops, On
  <2>2. QED
    BY <2>1, SocketKept
<1>10. QED
  BY <1>2, <1>3, <1>4, <1>5, <1>6, <1>7, <1>8, <1>9 DEF LoopStep

(* A socket is shared for good, and only a report of a socket that somebody*)
(* else has removed makes the assertion fail.                              *)
LEMMA FailedStep ==
  ASSUME BasicInv, \A s \in Unshared : SocketInv(s), NoStaleReport, Next
  PROVE  shared \subseteq shared' /\ NoStaleReport'
<1>1. failed = None
  BY DEF Next
<1>2. CASE \E t \in Threads : Calls(t)
  BY <1>1, <1>2, CallsFacts DEF NoStaleReport
<1>3. CASE \E t \in Threads : CallStep(t)
  <2>1. failed' = failed /\ shared' = shared
    BY <1>3 DEF CallStep, update_known, update_new, attach_to_poller, remove_socket, attached,
                removed, close_mark, closed, loopVars
  <2>2. QED
    BY <1>1, <2>1 DEF NoStaleReport
<1>4. CASE \E p \in Pollers : LoopStep(p)
  <2>1. PICK p \in Pollers : LoopStep(p)
    BY <1>4
  <2>2. shared' = shared /\ (failed' = failed \/ process_stale_report(p))
    BY <2>1 DEF LoopStep, run, epoll_wait, process_events, process_stale_report, process_stop,
                get_next_event, dispatched, no_more_events
  <2>3. CASE process_stale_report(p)
    <3>1. failed' \in loop[p].report \ active[p]
      BY <2>3, ProcessStaleReportFacts
    <3>2. loop[p].report \subseteq Sockets
      BY DEF BasicInv, TypeOK
    <3>3. failed' \in shared
      BY <3>1, <3>2 DEF SocketInv, Reported, Unshared
    <3>4. QED
      BY <2>2, <3>3 DEF NoStaleReport
  <2>4. CASE failed' = failed
    BY <1>1, <2>2, <2>4 DEF NoStaleReport
  <2>5. QED
    BY <2>2, <2>3, <2>4
<1>5. QED
  BY <1>2, <1>3, <1>4 DEF Next

LEMMA IInvInit == Init => IInv
<1> SUFFICES ASSUME Init PROVE IInv
  OBVIOUS
<1>1. NoStaleReport
  BY DEF Init, NoStaleReport
<1>2. QED
  BY <1>1, BasicInit, SocketInit DEF IInv, Unshared

LEMMA IInvNext == IInv /\ [Next]_vars => IInv'
<1> SUFFICES ASSUME IInv, [Next]_vars PROVE IInv'
  OBVIOUS
<1>1. BasicInv /\ BasicInv' /\ NoStaleReport /\ \A s \in Unshared : SocketInv(s)
  BY BasicNext DEF IInv
<1>2. CASE UNCHANGED vars
  <2>1. /\ UNCHANGED <<watched, active, loop, m_poller, invalid, onClose, call, shared, failed>>
    BY <1>2 DEF vars, pollersVars, loopVars, socketVars
  <2>2. ASSUME NEW s \in Unshared PROVE SocketInv(s)'
    <3>1. s \in Sockets /\ SocketUntouched(s)
      BY <2>1 DEF SocketUntouched, On, Unshared
    <3>2. QED
      BY <1>1, <3>1, SocketKept
  <2>3. QED
    BY <1>1, <2>1, <2>2 DEF IInv, NoStaleReport, Unshared
<1>3. CASE Next
  <2>1. shared \subseteq shared' /\ NoStaleReport'
    BY <1>1, <1>3, FailedStep
  <2>2. ASSUME NEW s \in Unshared' PROVE SocketInv(s)'
    <3>1. s \in Sockets /\ SocketInv(s)
      BY <1>1, <2>1 DEF Unshared
    <3>2. QED
      BY <1>1, <1>3, <3>1, SocketBegin, SocketCallStep, SocketLoopStep DEF Next
  <2>3. QED
    BY <1>1, <2>1, <2>2 DEF IInv
<1>4. QED
  BY <1>2, <1>3

(* A move, a removal and a close leave nothing of an unshared socket in the*)
(* tables of any poller but the one m_poller names.                        *)
THEOREM NothingLeftBehind == Spec => []RegisteredWhereAttached
<1>1. IInv => RegisteredWhereAttached
  <2> SUFFICES ASSUME IInv, NEW s \in Sockets, NEW p \in Pollers
               PROVE  /\ s \in Unshared /\ s \in watched[p] /\ ~InCall(s) => m_poller[s] = p
                      /\ s \in active[p] => s \in watched[p]
                      /\ s \in out[p] => s \in active[p]
    BY DEF RegisteredWhereAttached
  <2>1. active[p] \subseteq watched[p] /\ out[p] \subseteq active[p]
    BY DEF IInv, BasicInv, LoopsInv
  <2>2. s \in Unshared /\ s \in watched[p] /\ ~InCall(s) => m_poller[s] = p
    BY DEF IInv, SocketInv, WatchedBy, InCall, On
  <2>3. QED
    BY <2>1, <2>2
<1>2. QED
  BY <1>1, IInvInit, IInvNext, PTL DEF Spec

(* close calls on_close exactly once, and no epoll watches the socket then.*)
THEOREM CloseIsFinal == Spec => []ClosedForGood
<1>1. IInv => ClosedForGood
  <2> SUFFICES ASSUME IInv, NEW s \in Unshared, ~InCall(s)
               PROVE  /\ onClose[s] = IF s \in invalid THEN 1 ELSE 0
                      /\ s \in invalid => \A p \in Pollers : s \notin watched[p]
    BY DEF ClosedForGood
  <2>1. ClosedOnce(s) /\ WatchedBy(s)
    BY DEF IInv, SocketInv
  <2>2. onClose[s] = IF s \in invalid THEN 1 ELSE 0
    BY <2>1 DEF ClosedOnce
  <2>3. s \in invalid => \A p \in Pollers : s \notin watched[p]
    BY <2>1, NameAssumption DEF ClosedOnce, WatchedBy, InCall, On, Threads
  <2>4. QED
    BY <2>2, <2>3
<1>2. QED
  BY <1>1, IInvInit, IInvNext, PTL DEF Spec

(* Two loops are never in a callback of the same socket.                   *)
THEOREM OneLoopCallsBack == Spec => []CalledBackByOneLoop
<1>1. IInv => CalledBackByOneLoop
  BY DEF IInv, SocketInv, Current, CalledBackByOneLoop
<1>2. QED
  BY <1>1, IInvInit, IInvNext, PTL DEF Spec

(* The assertion in process_epoll_events fails for a shared socket only.   *)
THEOREM ReportsAreOfKnownSockets == Spec => []NoStaleReport
<1>1. IInv => NoStaleReport
  BY DEF IInv
<1>2. QED
  BY <1>1, IInvInit, IInvNext, PTL DEF Spec
=============================================================================
