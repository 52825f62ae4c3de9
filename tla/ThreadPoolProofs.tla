-------------------------- MODULE ThreadPoolProofs --------------------------
(***************************************************************************)
(* What ThreadPool keeps for any number of clients, workers and tasks and  *)
(* any size of the queues: no task is lost or done twice, a task is refused*)
(* only after every worker has refused it, and the destructor returns only *)
(* after every accepted task was executed.                                 *)
(*                                                                         *)
(* The invariant has three parts besides the types. CallInv follows the    *)
(* loop of add_task round the workers. TaskInv says where a task is. StopInv*)
(* says that nothing is behind the stop in a queue, which makes the queue  *)
(* of a worker that is done empty.                                         *)
(***************************************************************************)
EXTENDS ThreadPool, FiniteSetTheorems, TLAPS

(* Task t is at place i of worker w: 0 is the hands of the worker, the     *)
(* places from 1 are those of its queue.                                   *)
IsAt(t, w, i) ==
  \/ i = 0 /\ running[w] = t
  \/ i \in 1 .. Len(tasks[w]) /\ tasks[w][i] = t

Nowhere(t) == \A w \in Workers, i \in Nat : ~IsAt(t, w, i)

Somewhere(t) ==
  \E w \in Workers, i \in Nat :
    /\ IsAt(t, w, i)
    /\ \A v \in Workers, j \in Nat : IsAt(t, v, j) => v = w /\ j = i

TaskInv(t) ==
  /\ fate[t] # "accepted" => Nowhere(t) /\ runs[t] = 0
  /\ fate[t] = "accepted" =>
       \/ Somewhere(t) /\ runs[t] = 0
       \/ Nowhere(t) /\ runs[t] = 1

(* The workers that a loop from first has been at when it is before next.  *)
Visited(first, next) ==
  IF first = next THEN {}
  ELSE IF first < next THEN first .. next - 1
  ELSE (first .. m_n_of_threads - 1) \cup (0 .. next - 1)

(* The client in add_task holds the mutex, and the task it submits has been*)
(* offered to the workers of the rounds so far.                            *)
CallInv(c) ==
  /\ call[c].at = "push" <=> m_mutex = c
  /\ call[c].at = "push" =>
       /\ owner.at = "alive"
       /\ fate[call[c].task] = "submitted"
       /\ Visited(call[c].first, m_next_worker) \subseteq tried[call[c].task]

(* The destructor has not come to worker w. *)
NotAsked(w) == owner.at = "alive" \/ (owner.at = "stop" /\ owner.worker <= w)

NoStop(w) ==
  /\ \A i \in 1 .. Len(tasks[w]) : tasks[w][i] # Stop
  /\ running[w] # Stop
  /\ ~m_done[w]

Joined(w) == owner.at = "destroyed" \/ (owner.at = "join" /\ w < owner.worker)

StopInv(w) ==
  /\ NotAsked(w) => NoStop(w)
  /\ \A i \in 1 .. Len(tasks[w]) : tasks[w][i] = Stop => i = Len(tasks[w])
  /\ running[w] = Stop => tasks[w] = <<>>
  /\ m_done[w] => tasks[w] = <<>> /\ running[w] = NoTask
  /\ Joined(w) => m_done[w]

IInv ==
  /\ TypeOK
  /\ \A c \in Clients : CallInv(c)
  /\ \A t \in Tasks : TaskInv(t)
  /\ \A w \in Workers : StopInv(w)
  /\ RefusedOnlyAfterAll

-----------------------------------------------------------------------------
(* Sequences, and the round of the workers *)

(* What Append leaves and adds. *)
LEMMA AppendElements ==
  ASSUME NEW S, NEW s \in Seq(S), NEW x \in S
  PROVE  /\ Append(s, x) \in Seq(S)
         /\ Len(Append(s, x)) = Len(s) + 1
         /\ \A i \in 1 .. Len(s) : Append(s, x)[i] = s[i]
         /\ Append(s, x)[Len(s) + 1] = x
  OBVIOUS

(* What is left when the first element is taken. *)
LEMMA TailElements ==
  ASSUME NEW S, NEW s \in Seq(S), s # <<>>
  PROVE  /\ Len(s) \in Nat \ {0}
         /\ Head(s) = s[1]
         /\ Head(s) \in S
         /\ Tail(s) \in Seq(S)
         /\ Len(Tail(s)) = Len(s) - 1
         /\ \A i \in 1 .. Len(s) - 1 : Tail(s)[i] = s[i + 1]
  OBVIOUS

(* The worker after the last one is the first. *)
LEMMA NextWorker ==
  ASSUME NEW id \in Workers
  PROVE  get_next_worker_id(id) = IF id = m_n_of_threads - 1 THEN 0 ELSE id + 1
<1>1. m_n_of_threads \in Nat \ {0}
  BY SizeAssumption
<1>2. id \in Int /\ 0 <= id /\ id <= m_n_of_threads - 1
  BY <1>1 DEF Workers
<1>3. CASE id = m_n_of_threads - 1
  <2>1. id + 1 = m_n_of_threads
    BY <1>1, <1>2, <1>3
  <2>2. m_n_of_threads % m_n_of_threads = 0
    BY <1>1
  <2> QED
    BY <2>1, <2>2, <1>3 DEF get_next_worker_id
<1>4. CASE id # m_n_of_threads - 1
  <2>1. id + 1 \in Nat /\ id + 1 < m_n_of_threads
    BY <1>1, <1>2, <1>4
  <2>2. (id + 1) % m_n_of_threads = id + 1
    BY <1>1, <2>1
  <2> QED
    BY <2>2, <1>4 DEF get_next_worker_id
<1> QED
  BY <1>3, <1>4

(* One more round: the worker it was before is visited now, or the loop is *)
(* back where it started and every worker was.                             *)
LEMMA OneMoreVisited ==
  ASSUME NEW first \in Workers, NEW next \in Workers
  PROVE  /\ get_next_worker_id(next) \in Workers
         /\ Visited(first, get_next_worker_id(next)) \subseteq Visited(first, next) \cup {next}
         /\ get_next_worker_id(next) = first => Workers = Visited(first, next) \cup {next}
<1>1. m_n_of_threads \in Nat \ {0}
  BY SizeAssumption
<1>2. PICK after : after = get_next_worker_id(next)
  OBVIOUS
<1>3. after = IF next = m_n_of_threads - 1 THEN 0 ELSE next + 1
  BY <1>2, NextWorker
<1>4. after \in Workers
  BY <1>1, <1>3 DEF Workers
<1>5. Visited(first, after) \subseteq Visited(first, next) \cup {next}
  BY <1>1, <1>3, <1>4 DEF Workers, Visited
<1>6. after = first => Workers = Visited(first, next) \cup {next}
  BY <1>1, <1>3, <1>4 DEF Workers, Visited
<1> QED
  BY <1>2, <1>4, <1>5, <1>6

-----------------------------------------------------------------------------
(* Types *)

LEMMA InitTyped == Init => TypeOK
<1> SUFFICES ASSUME Init PROVE TypeOK
  OBVIOUS
<1>1. 0 \in Workers /\ m_n_of_threads \in Nat \ {0} /\ m_worker_task_queue_size \in Nat \ {0}
  BY SizeAssumption DEF Workers
<1> QED
  BY <1>1 DEF Init, TypeOK, Idle

(* The destructor goes on to the next worker. *)
LEMMA OneWorkerOn ==
  ASSUME TypeOK, owner.worker < m_n_of_threads, owner' = [owner EXCEPT !.worker = @ + 1]
  PROVE  /\ owner' \in [at : {"alive", "stop", "join", "destroyed"}, worker : 0 .. m_n_of_threads]
         /\ owner'.at = owner.at
         /\ owner'.worker = owner.worker + 1
         /\ owner.worker \in Workers
<1>1. owner \in [at : {"alive", "stop", "join", "destroyed"}, worker : 0 .. m_n_of_threads]
  BY DEF TypeOK
<1>2. m_n_of_threads \in Nat /\ owner.worker \in 0 .. m_n_of_threads
  BY <1>1, SizeAssumption
<1>3. owner.worker + 1 \in 0 .. m_n_of_threads /\ owner.worker \in Workers
  BY <1>2 DEF Workers
<1> QED
  BY <1>1, <1>3

(* Every queue that an action leaves alone or changes keeps its type. *)
LEMMA StepTyped == TypeOK /\ [Next]_vars => TypeOK'
<1> SUFFICES ASSUME TypeOK, [Next]_vars PROVE TypeOK'
  OBVIOUS
<1> USE DEF TypeOK
<1>1. ASSUME NEW c \in Clients, NEW t \in Tasks, add_task(c, t) PROVE TypeOK'
  BY <1>1 DEF add_task, workerVars, ownerVars
<1>2. ASSUME NEW c \in Clients, offer(c) PROVE TypeOK'
  <2>1. call[c].at = "push" /\ call[c].task \in Tasks /\ call[c].first \in Workers
    BY <1>2 DEF offer, Idle
  <2>2. get_next_worker_id(m_next_worker) \in Workers
    BY OneMoreVisited, <2>1
  <2>3. /\ tasks' \in [Workers -> Seq(Tasks \cup {Stop})]
        /\ \A w \in Workers : Len(tasks'[w]) <= m_worker_task_queue_size
    <3>1. CASE HasRoom(m_next_worker)
      <4>1. tasks' = [tasks EXCEPT ![m_next_worker] = Append(@, call[c].task)]
        BY <1>2, <3>1 DEF offer
      <4>2. /\ Append(tasks[m_next_worker], call[c].task) \in Seq(Tasks \cup {Stop})
            /\ Len(Append(tasks[m_next_worker], call[c].task)) = Len(tasks[m_next_worker]) + 1
        BY AppendElements, <2>1
      <4>3. Len(tasks[m_next_worker]) \in Nat /\ m_worker_task_queue_size \in Nat
        BY SizeAssumption
      <4>4. Len(tasks[m_next_worker]) + 1 <= m_worker_task_queue_size
        BY <3>1, <4>3 DEF HasRoom
      <4> QED
        BY <4>1, <4>2, <4>4
    <3>2. CASE ~HasRoom(m_next_worker)
      BY <1>2, <3>2 DEF offer
    <3> QED
      BY <3>1, <3>2
  <2>4. /\ tried' \in [Tasks -> SUBSET Workers]
        /\ m_next_worker' \in Workers
    BY <1>2, <2>1, <2>2 DEF offer
  <2>5. /\ fate' \in [Tasks -> {"new", "submitted", "accepted", "refused"}]
        /\ call' \in [Clients -> [at : {"push"}, task : Tasks, first : Workers] \cup {Idle}]
        /\ m_mutex' \in Clients \cup {NoClient}
    BY <1>2, <2>1 DEF offer
  <2> QED
    BY <1>2, <2>3, <2>4, <2>5 DEF offer, ownerVars
<1>3. ASSUME NEW w \in Workers, take(w) PROVE TypeOK'
  <2>1. /\ Head(tasks[w]) \in Tasks \cup {Stop}
        /\ Tail(tasks[w]) \in Seq(Tasks \cup {Stop})
        /\ Len(Tail(tasks[w])) = Len(tasks[w]) - 1
        /\ Len(tasks[w]) \in Nat
    BY <1>3, TailElements DEF take
  <2>2. Len(Tail(tasks[w])) <= m_worker_task_queue_size
    BY <2>1, SizeAssumption
  <2>3. /\ tasks' \in [Workers -> Seq(Tasks \cup {Stop})]
        /\ \A v \in Workers : Len(tasks'[v]) <= m_worker_task_queue_size
    BY <1>3, <2>1, <2>2 DEF take
  <2> QED
    BY <1>3, <2>1, <2>3 DEF take, callVars, ownerVars
<1>4. ASSUME NEW w \in Workers, finish(w) PROVE TypeOK'
  BY <1>4 DEF finish, callVars, ownerVars
<1>5. ASSUME NEW w \in Workers, stop_(w) PROVE TypeOK'
  BY <1>5 DEF stop_, callVars, ownerVars
<1>6. ASSUME destroy PROVE TypeOK'
  BY <1>6 DEF destroy, workerVars, callVars
<1>7. ASSUME stop PROVE TypeOK'
  <2>1. owner.worker \in Workers
    BY <1>7, SizeAssumption DEF stop, Workers
  <2>2. /\ tasks' \in [Workers -> Seq(Tasks \cup {Stop})]
        /\ \A v \in Workers : Len(tasks'[v]) <= m_worker_task_queue_size
        /\ dropped' \subseteq Workers
    <3>1. CASE HasRoom(owner.worker)
      <4>1. tasks' = [tasks EXCEPT ![owner.worker] = Append(@, Stop)] /\ dropped' = dropped
        BY <1>7, <3>1 DEF stop, WithStop
      <4>2. /\ Append(tasks[owner.worker], Stop) \in Seq(Tasks \cup {Stop})
            /\ Len(Append(tasks[owner.worker], Stop)) = Len(tasks[owner.worker]) + 1
        BY AppendElements, <2>1
      <4>3. Len(tasks[owner.worker]) \in Nat /\ m_worker_task_queue_size \in Nat
        BY SizeAssumption, <2>1
      <4>4. Len(tasks[owner.worker]) + 1 <= m_worker_task_queue_size
        BY <3>1, <4>3 DEF HasRoom
      <4> QED
        BY <4>1, <4>2, <4>4
    <3>2. CASE ~HasRoom(owner.worker)
      BY <1>7, <2>1, <3>2 DEF stop
    <3> QED
      BY <3>1, <3>2
  <2>3. owner' \in [at : {"alive", "stop", "join", "destroyed"}, worker : 0 .. m_n_of_threads]
    BY <1>7, OneWorkerOn DEF stop
  <2> QED
    BY <1>7, <2>2, <2>3 DEF stop, callVars
<1>8. ASSUME stopped PROVE TypeOK'
  BY <1>8, SizeAssumption DEF stopped, workerVars, callVars
<1>9. ASSUME join PROVE TypeOK'
  BY <1>9, OneWorkerOn DEF join, workerVars, callVars
<1>10. ASSUME destroyed PROVE TypeOK'
  BY <1>10, SizeAssumption DEF destroyed, workerVars, callVars
<1>11. CASE UNCHANGED vars
  BY <1>11 DEF vars, workerVars, callVars, ownerVars
<1> QED
  BY <1>1, <1>2, <1>3, <1>4, <1>5, <1>6, <1>7, <1>8, <1>9, <1>10, <1>11
     DEF Next, WorkerStep, OwnerStep

-----------------------------------------------------------------------------
(* Where an action moves a task: what it makes of IsAt *)

(* add_task and the destructor's other steps move no task. *)
LEMMA NothingMoves ==
  ASSUME UNCHANGED <<tasks, running>>, NEW t, NEW w, NEW i
  PROVE  IsAt(t, w, i)' <=> IsAt(t, w, i)
  BY DEF IsAt

(* A worker's queue gets one more element. *)
LEMMA AppendMoves ==
  ASSUME TypeOK, NEW w \in Workers, NEW x \in Tasks \cup {Stop},
         tasks' = [tasks EXCEPT ![w] = Append(@, x)], running' = running,
         NEW t, NEW v \in Workers, NEW i \in Nat
  PROVE  IsAt(t, v, i)' <=> IsAt(t, v, i) \/ (t = x /\ v = w /\ i = Len(tasks[w]) + 1)
<1>1. /\ tasks[w] \in Seq(Tasks \cup {Stop})
      /\ tasks'[v] = IF v = w THEN Append(tasks[w], x) ELSE tasks[v]
  BY DEF TypeOK
<1>2. CASE v # w
  BY <1>1, <1>2 DEF IsAt
<1>3. CASE v = w
  <2>1. /\ Len(tasks'[w]) = Len(tasks[w]) + 1
        /\ \A j \in 1 .. Len(tasks[w]) : tasks'[w][j] = tasks[w][j]
        /\ tasks'[w][Len(tasks[w]) + 1] = x
    BY <1>1, <1>3, AppendElements
  <2>2. Len(tasks[w]) \in Nat
    BY <1>1
  <2>3. i \in 1 .. Len(tasks'[w]) <=> i \in 1 .. Len(tasks[w]) \/ i = Len(tasks[w]) + 1
    BY <2>1, <2>2
  <2>4. ~(i = 0 /\ i = Len(tasks[w]) + 1) /\ ~(i \in 1 .. Len(tasks[w]) /\ i = Len(tasks[w]) + 1)
    BY <2>2
  <2> QED
    BY <1>3, <2>1, <2>3, <2>4 DEF IsAt
<1> QED
  BY <1>2, <1>3

(* The worker takes the first task: every task of its queue moves up. *)
LEMMA TakeMoves ==
  ASSUME TypeOK, NEW w \in Workers, take(w),
         NEW t \in Tasks \cup {Stop}, NEW v \in Workers, NEW i \in Nat
  PROVE  IsAt(t, v, i)' <=> IsAt(t, v, IF v = w THEN i + 1 ELSE i)
<1>1. /\ tasks[w] \in Seq(Tasks \cup {Stop}) /\ tasks[w] # <<>>
      /\ tasks'[v] = IF v = w THEN Tail(tasks[w]) ELSE tasks[v]
      /\ running'[v] = IF v = w THEN Head(tasks[w]) ELSE running[v]
      /\ running[w] = NoTask
  BY DEF TypeOK, take
<1>2. CASE v # w
  BY <1>1, <1>2 DEF IsAt
<1>3. CASE v = w
  <2>1. /\ Len(tasks[w]) \in Nat \ {0}
        /\ running'[w] = tasks[w][1]
        /\ Len(tasks'[w]) = Len(tasks[w]) - 1
        /\ \A j \in 1 .. Len(tasks[w]) - 1 : tasks'[w][j] = tasks[w][j + 1]
    BY <1>1, <1>3, TailElements
  <2>2. i + 1 # 0
    OBVIOUS
  <2>3. IsAt(t, v, i + 1) <=> i + 1 \in 1 .. Len(tasks[w]) /\ tasks[w][i + 1] = t
    BY <1>3, <2>2 DEF IsAt
  <2>4. CASE i = 0
    BY <1>3, <2>1, <2>3, <2>4 DEF IsAt
  <2>5. CASE i # 0
    <3>1. i \in 1 .. Len(tasks'[w]) <=> i + 1 \in 1 .. Len(tasks[w])
      BY <2>1, <2>5
    <3>2. i \in 1 .. Len(tasks'[w]) => tasks'[w][i] = tasks[w][i + 1]
      BY <2>1
    <3> QED
      BY <1>3, <2>3, <2>5, <3>1, <3>2 DEF IsAt
  <2> QED
    BY <2>4, <2>5
<1> QED
  BY <1>2, <1>3

(* The worker's hands are empty again. *)
LEMMA FinishMoves ==
  ASSUME TypeOK, NEW w \in Workers, tasks' = tasks, running' = [running EXCEPT ![w] = NoTask],
         NEW t \in Tasks, NEW v \in Workers, NEW i \in Nat
  PROVE  IsAt(t, v, i)' <=> IsAt(t, v, i) /\ ~(v = w /\ i = 0)
  BY TaskAssumption DEF TypeOK, IsAt

-----------------------------------------------------------------------------
(* add_task *)

(* One client at a time is in the loop: the one with the mutex. *)
LEMMA OneInLoop ==
  ASSUME TypeOK, \A c \in Clients : CallInv(c), NEW c \in Clients, NEW d \in Clients,
         call[c].at = "push", call[d].at = "push"
  PROVE  c = d
  BY DEF CallInv

LEMMA StepCalls ==
  TypeOK /\ (\A c \in Clients : CallInv(c)) /\ [Next]_vars => (\A c \in Clients : CallInv(c))'
<1> SUFFICES ASSUME TypeOK, \A c \in Clients : CallInv(c), [Next]_vars, NEW d \in Clients
             PROVE  CallInv(d)'
  OBVIOUS
<1>0. call[d] \in [at : {"push"}, task : Tasks, first : Workers] \cup {Idle}
  BY DEF TypeOK
<1>1. ASSUME NEW c \in Clients, NEW t \in Tasks, add_task(c, t) PROVE CallInv(d)'
  <2>1. /\ call'[d] = IF d = c THEN [at |-> "push", task |-> t, first |-> m_next_worker] ELSE call[d]
        /\ fate' = [fate EXCEPT ![t] = "submitted"]
        /\ m_mutex = NoClient /\ m_mutex' = c /\ fate[t] = "new" /\ owner.at = "alive"
        /\ UNCHANGED <<owner, m_next_worker, tried>>
    BY <1>1 DEF add_task, ownerVars, TypeOK
  <2>2. call[d].at # "push"
    BY <2>1, ClientAssumption DEF CallInv
  <2>3. CASE d = c
    BY <2>1, <2>3 DEF CallInv, Visited, TypeOK
  <2>4. CASE d # c
    BY <2>1, <2>2, <2>4 DEF CallInv
  <2> QED
    BY <2>3, <2>4
<1>2. ASSUME NEW c \in Clients, offer(c) PROVE CallInv(d)'
  <2>1. call[c].at = "push" /\ call[c].task \in Tasks /\ call[c].first \in Workers
    BY <1>2 DEF offer, TypeOK, Idle
  <2>2. m_mutex = c
    BY <2>1 DEF CallInv
  <2>3. CASE LoopEnds(HasRoom(m_next_worker), call[c].first)
    <3>1. call' = [call EXCEPT ![c] = Idle] /\ m_mutex' = NoClient
      BY <1>2, <2>3 DEF offer
    <3>2. call'[d].at # "push"
      BY <2>1, <2>2, <3>1 DEF TypeOK, Idle, CallInv
    <3> QED
      BY <3>1, <3>2, ClientAssumption DEF CallInv
  <2>4. CASE ~LoopEnds(HasRoom(m_next_worker), call[c].first)
    <3>1. /\ UNCHANGED <<fate, call, m_mutex, owner>>
          /\ tried' = [tried EXCEPT ![call[c].task] = @ \cup {m_next_worker}]
          /\ m_next_worker' = get_next_worker_id(m_next_worker)
      BY <1>2, <2>4 DEF offer, ownerVars
    <3>2. CASE call[d].at = "push"
      <4>1. c = d
        BY <2>1, <3>2, OneInLoop
      <4>2. Visited(call[c].first, get_next_worker_id(m_next_worker))
               \subseteq Visited(call[c].first, m_next_worker) \cup {m_next_worker}
        BY <2>1, OneMoreVisited DEF TypeOK
      <4>3. Visited(call[c].first, m_next_worker) \subseteq tried[call[c].task]
        BY <2>1 DEF CallInv
      <4>4. tried'[call[c].task] = tried[call[c].task] \cup {m_next_worker}
        BY <2>1, <3>1 DEF TypeOK
      <4>5. Visited(call[c].first, m_next_worker)' = Visited(call[c].first, get_next_worker_id(m_next_worker))
        BY <3>1 DEF Visited
      <4> HIDE DEF Visited
      <4>6. (Visited(call[d].first, m_next_worker) \subseteq tried[call[d].task])'
        BY <3>1, <4>1, <4>2, <4>3, <4>4, <4>5
      <4> QED
        BY <2>1, <3>1, <4>1, <4>6 DEF CallInv
    <3>3. CASE call[d].at # "push"
      BY <3>1, <3>3 DEF CallInv
    <3> QED
      BY <3>2, <3>3
  <2> QED
    BY <2>3, <2>4
<1>3. ASSUME UNCHANGED callVars, UNCHANGED owner PROVE CallInv(d)'
  BY <1>3 DEF callVars, CallInv, Visited
<1>4. ASSUME NEW w \in Workers, WorkerStep(w) PROVE CallInv(d)'
  BY <1>3, <1>4 DEF WorkerStep, take, finish, stop_, ownerVars
<1>5. ASSUME destroy PROVE CallInv(d)'
  <2>1. call[d] = Idle /\ UNCHANGED callVars
    BY <1>5 DEF destroy, NobodyCalls
  <2> QED
    BY <2>1 DEF callVars, CallInv, Idle
<1>6. ASSUME OwnerStep PROVE CallInv(d)'
  <2>1. owner.at # "alive" /\ UNCHANGED callVars
    BY <1>6 DEF OwnerStep, stop, stopped, join, destroyed
  <2> QED
    BY <2>1 DEF callVars, CallInv
<1>7. CASE UNCHANGED vars
  BY <1>3, <1>7 DEF vars, ownerVars
<1> QED
  BY <1>1, <1>2, <1>4, <1>5, <1>6, <1>7 DEF Next

(* A task is refused in the round that is back at the first worker. *)
LEMMA StepRefused ==
  TypeOK /\ (\A c \in Clients : CallInv(c)) /\ RefusedOnlyAfterAll /\ [Next]_vars
    => RefusedOnlyAfterAll'
<1> SUFFICES ASSUME TypeOK, \A c \in Clients : CallInv(c), RefusedOnlyAfterAll, [Next]_vars,
                    NEW t \in Tasks, fate'[t] = "refused"
             PROVE  tried'[t] = Workers
  BY DEF RefusedOnlyAfterAll
<1>1. ASSUME NEW c \in Clients, NEW u \in Tasks, add_task(c, u) PROVE tried'[t] = Workers
  BY <1>1 DEF add_task, TypeOK, RefusedOnlyAfterAll
<1>2. ASSUME NEW c \in Clients, offer(c) PROVE tried'[t] = Workers
  <2>1. call[c].at = "push" /\ call[c].task \in Tasks /\ call[c].first \in Workers
    BY <1>2 DEF offer, TypeOK, Idle
  <2>2. tried' = [tried EXCEPT ![call[c].task] = @ \cup {m_next_worker}]
    BY <1>2 DEF offer
  <2>3. CASE t = call[c].task
    <3>1. fate[t] = "submitted" /\ Visited(call[c].first, m_next_worker) \subseteq tried[t]
      BY <2>1, <2>3 DEF CallInv
    <3>2. ~HasRoom(m_next_worker) /\ LoopEnds(HasRoom(m_next_worker), call[c].first)
      BY <1>2, <2>1, <2>3, <3>1 DEF offer, TypeOK
    <3>3. get_next_worker_id(m_next_worker) = call[c].first
      BY <3>2 DEF LoopEnds
    <3>4. Workers = Visited(call[c].first, m_next_worker) \cup {m_next_worker}
      BY <2>1, <3>3, OneMoreVisited DEF TypeOK
    <3>5. tried'[t] = tried[t] \cup {m_next_worker} /\ tried[t] \subseteq Workers /\ m_next_worker \in Workers
      BY <2>2, <2>3 DEF TypeOK
    <3> QED
      BY <3>1, <3>4, <3>5
  <2>4. CASE t # call[c].task
    BY <1>2, <2>1, <2>2, <2>4 DEF offer, TypeOK, RefusedOnlyAfterAll
  <2> QED
    BY <2>3, <2>4
<1>3. CASE UNCHANGED callVars
  BY <1>3 DEF callVars, RefusedOnlyAfterAll
<1> QED
  BY <1>1, <1>2, <1>3 DEF Next, WorkerStep, OwnerStep, take, finish, stop_, destroy, stop, stopped,
     join, destroyed, vars

-----------------------------------------------------------------------------
(* The destructor *)

LEMMA StepStops ==
  TypeOK /\ (\A c \in Clients : CallInv(c)) /\ (\A w \in Workers : StopInv(w)) /\ [Next]_vars
    => (\A w \in Workers : StopInv(w))'
<1> SUFFICES ASSUME TypeOK, \A c \in Clients : CallInv(c), \A w \in Workers : StopInv(w),
                    [Next]_vars, NEW v \in Workers
             PROVE  StopInv(v)'
  OBVIOUS
<1>0. /\ tasks[v] \in Seq(Tasks \cup {Stop}) /\ Len(tasks[v]) \in Nat
      /\ StopInv(v)
  BY DEF TypeOK
<1>1. ASSUME UNCHANGED <<tasks, running, m_done, owner>> PROVE StopInv(v)'
  BY <1>0, <1>1 DEF StopInv, NotAsked, NoStop, Joined
<1>2. ASSUME NEW c \in Clients, NEW t \in Tasks, add_task(c, t) PROVE StopInv(v)'
  BY <1>1, <1>2 DEF add_task, workerVars, ownerVars
<1>3. ASSUME NEW c \in Clients, offer(c) PROVE StopInv(v)'
  <2>1. call[c].at = "push" /\ call[c].task \in Tasks
    BY <1>3 DEF offer, TypeOK, Idle
  <2>2. UNCHANGED <<running, m_done, owner>> /\ owner.at = "alive"
    BY <1>3, <2>1 DEF offer, ownerVars, CallInv
  <2>3. NoStop(v)
    BY <1>0, <2>2 DEF StopInv, NotAsked
  <2>4. CASE tasks'[v] = tasks[v]
    BY <1>0, <2>2, <2>4 DEF StopInv, NotAsked, NoStop, Joined
  <2>5. CASE tasks'[v] # tasks[v]
    <3>1. tasks'[v] = Append(tasks[v], call[c].task)
      BY <1>3, <2>5 DEF offer, TypeOK
    <3>2. /\ Len(tasks'[v]) = Len(tasks[v]) + 1
          /\ \A i \in 1 .. Len(tasks[v]) : tasks'[v][i] = tasks[v][i]
          /\ tasks'[v][Len(tasks[v]) + 1] = call[c].task
      BY <1>0, <2>1, <3>1, AppendElements
    <3>3. \A i \in 1 .. Len(tasks'[v]) : tasks'[v][i] # Stop
      BY <1>0, <2>1, <2>3, <3>2, TaskAssumption DEF NoStop
    <3>4. NoStop(v)'
      BY <2>2, <2>3, <3>3 DEF NoStop
    <3>5. ~Joined(v)'
      BY <2>2 DEF Joined
    <3> QED
      BY <3>4, <3>5 DEF StopInv, NoStop
  <2> QED
    BY <2>4, <2>5
<1>4. ASSUME NEW w \in Workers, take(w) PROVE StopInv(v)'
  <2>1. UNCHANGED <<m_done, owner>>
    BY <1>4 DEF take, ownerVars
  <2>2. CASE v = w
    <3>1. /\ tasks[v] # <<>> /\ ~m_done[v]
          /\ tasks'[v] = Tail(tasks[v])
          /\ running'[v] = Head(tasks[v])
      BY <1>4, <2>2 DEF take, TypeOK
    <3>2. /\ Len(tasks[v]) \in Nat \ {0}
          /\ running'[v] = tasks[v][1]
          /\ tasks'[v] \in Seq(Tasks \cup {Stop})
          /\ Len(tasks'[v]) = Len(tasks[v]) - 1
          /\ \A i \in 1 .. Len(tasks[v]) - 1 : tasks'[v][i] = tasks[v][i + 1]
      BY <1>0, <3>1, TailElements
    <3>3. NotAsked(v)' => NoStop(v)'
      <4> SUFFICES ASSUME NotAsked(v) PROVE NoStop(v)'
        BY <2>1 DEF NotAsked
      <4>1. NoStop(v)
        BY <1>0 DEF StopInv
      <4>2. \A i \in 1 .. Len(tasks'[v]) : tasks'[v][i] # Stop
        BY <3>2, <4>1 DEF NoStop
      <4>3. running'[v] # Stop
        BY <3>2, <4>1 DEF NoStop
      <4> QED
        BY <2>1, <4>1, <4>2, <4>3 DEF NoStop
    <3>4. \A i \in 1 .. Len(tasks[v]) : tasks[v][i] = Stop => i = Len(tasks[v])
      BY <1>0 DEF StopInv
    <3>5. \A i \in 1 .. Len(tasks'[v]) : tasks'[v][i] = Stop => i = Len(tasks'[v])
      <4> SUFFICES ASSUME NEW i \in 1 .. Len(tasks'[v]), tasks'[v][i] = Stop
                   PROVE  i = Len(tasks'[v])
        OBVIOUS
      <4>1. i \in 1 .. Len(tasks[v]) - 1 /\ i + 1 \in 1 .. Len(tasks[v])
        BY <3>2
      <4>2. tasks[v][i + 1] = Stop
        BY <3>2, <4>1
      <4>3. i + 1 = Len(tasks[v])
        BY <3>4, <4>1, <4>2
      <4> QED
        BY <3>2, <4>1, <4>3
    <3>6. running'[v] = Stop => tasks'[v] = <<>>
      <4> SUFFICES ASSUME running'[v] = Stop PROVE tasks'[v] = <<>>
        OBVIOUS
      <4>0. 1 \in 1 .. Len(tasks[v]) /\ tasks[v][1] = Stop
        BY <3>2
      <4>1. 1 = Len(tasks[v])
        BY <3>4, <4>0
      <4>2. Len(tasks'[v]) = 0
        BY <3>2, <4>1
      <4> QED
        BY <3>2, <4>2
    <3>7. ~m_done'[v] /\ ~Joined(v)'
      BY <1>0, <2>1, <3>1 DEF StopInv, Joined
    <3> QED
      BY <3>3, <3>5, <3>6, <3>7 DEF StopInv
  <2>3. CASE v # w
    <3>1. tasks'[v] = tasks[v] /\ running'[v] = running[v]
      BY <1>4, <2>3 DEF take, TypeOK
    <3> QED
      BY <1>0, <2>1, <3>1 DEF StopInv, NotAsked, NoStop, Joined
  <2> QED
    BY <2>2, <2>3
<1>5. ASSUME NEW w \in Workers, finish(w) PROVE StopInv(v)'
  <2>1. /\ UNCHANGED <<tasks, m_done, owner>>
        /\ running'[v] = running[v] \/ running'[v] = NoTask
    BY <1>5 DEF finish, ownerVars, TypeOK
  <2> QED
    BY <1>0, <2>1, TaskAssumption DEF StopInv, NotAsked, NoStop, Joined
<1>6. ASSUME NEW w \in Workers, stop_(w) PROVE StopInv(v)'
  <2>1. /\ UNCHANGED <<tasks, owner>> /\ running[w] = Stop
        /\ m_done'[v] = IF v = w THEN TRUE ELSE m_done[v]
        /\ running'[v] = IF v = w THEN NoTask ELSE running[v]
    BY <1>6 DEF stop_, ownerVars, TypeOK
  <2>2. CASE v = w
    <3>1. tasks[v] = <<>> /\ ~NotAsked(v)
      BY <1>0, <2>1, <2>2 DEF StopInv, NoStop
    <3> QED
      BY <1>0, <2>1, <2>2, <3>1, TaskAssumption DEF StopInv, NotAsked, NoStop, Joined
  <2>3. CASE v # w
    BY <1>0, <2>1, <2>3 DEF StopInv, NotAsked, NoStop, Joined
  <2> QED
    BY <2>2, <2>3
<1>7. ASSUME destroy PROVE StopInv(v)'
  <2>1. UNCHANGED <<tasks, running, m_done>> /\ owner.at = "alive" /\ owner'.at = "stop"
    BY <1>7 DEF destroy, workerVars, TypeOK
  <2> QED
    BY <1>0, <2>1 DEF StopInv, NotAsked, NoStop, Joined
<1>8. ASSUME stop PROVE StopInv(v)'
  <2>1. /\ owner.at = "stop" /\ owner'.at = "stop"
        /\ owner.worker \in Workers /\ owner'.worker = owner.worker + 1
        /\ UNCHANGED <<running, m_done>>
    BY <1>8, OneWorkerOn DEF stop
  <2>2. CASE v = owner.worker
    <3>1. NoStop(v)
      BY <1>0, <2>1, <2>2 DEF StopInv, NotAsked, Workers
    <3>2. ~NotAsked(v)' /\ ~Joined(v)'
      BY <2>1, <2>2 DEF NotAsked, Joined, Workers
    <3>3. CASE HasRoom(v)
      <4>1. tasks'[v] = Append(tasks[v], Stop)
        BY <1>8, <2>2, <3>3 DEF stop, WithStop, TypeOK
      <4>2. /\ Len(tasks'[v]) = Len(tasks[v]) + 1
            /\ \A i \in 1 .. Len(tasks[v]) : tasks'[v][i] = tasks[v][i]
        BY <1>0, <4>1, AppendElements
      <4>3. \A i \in 1 .. Len(tasks'[v]) : tasks'[v][i] = Stop => i = Len(tasks'[v])
        BY <1>0, <3>1, <4>2 DEF NoStop
      <4> QED
        BY <2>1, <3>1, <3>2, <4>3 DEF StopInv, NoStop
    <3>4. CASE ~HasRoom(v)
      <4>1. tasks' = tasks
        BY <1>8, <2>2, <3>4 DEF stop
      <4> QED
        BY <1>0, <2>1, <3>2, <4>1 DEF StopInv
    <3> QED
      BY <3>3, <3>4
  <2>3. CASE v # owner.worker
    <3>1. tasks'[v] = tasks[v]
      BY <1>8, <2>1, <2>3 DEF stop, TypeOK
    <3>2. (NotAsked(v)' => NotAsked(v)) /\ ~Joined(v)'
      BY <2>1 DEF NotAsked, Joined, Workers
    <3> QED
      BY <1>0, <2>1, <3>1, <3>2 DEF StopInv, NoStop
  <2> QED
    BY <2>2, <2>3
<1>9. ASSUME stopped PROVE StopInv(v)'
  <2>1. UNCHANGED <<tasks, running, m_done>> /\ owner'.at = "join" /\ owner'.worker = 0
    BY <1>9 DEF stopped, workerVars
  <2>2. ~NotAsked(v)' /\ ~Joined(v)'
    BY <2>1 DEF NotAsked, Joined, Workers
  <2> QED
    BY <1>0, <2>1, <2>2 DEF StopInv
<1>10. ASSUME join PROVE StopInv(v)'
  <2>1. /\ UNCHANGED <<tasks, running, m_done>> /\ m_done[owner.worker]
        /\ owner.at = "join" /\ owner'.at = "join" /\ owner'.worker = owner.worker + 1
        /\ owner.worker \in Workers
    BY <1>10, OneWorkerOn DEF join, workerVars
  <2>2. Joined(v)' => Joined(v) \/ v = owner.worker
    BY <2>1 DEF Joined, Workers
  <2> QED
    BY <1>0, <2>1, <2>2 DEF StopInv, NotAsked
<1>11. ASSUME destroyed PROVE StopInv(v)'
  <2>1. /\ UNCHANGED <<tasks, running, m_done>> /\ owner.at = "join"
        /\ owner.worker = m_n_of_threads /\ owner'.at = "destroyed"
    BY <1>11 DEF destroyed, workerVars
  <2>2. Joined(v)
    BY <2>1, SizeAssumption DEF Joined, Workers
  <2> QED
    BY <1>0, <2>1, <2>2 DEF StopInv, NotAsked
<1>12. CASE UNCHANGED vars
  BY <1>1, <1>12 DEF vars, workerVars, ownerVars
<1> QED
  BY <1>2, <1>3, <1>4, <1>5, <1>6, <1>7, <1>8, <1>9, <1>10, <1>11, <1>12
     DEF Next, WorkerStep, OwnerStep

-----------------------------------------------------------------------------
(* Where a task is *)

(* A task stays where it is, or nowhere, in a step that moves no task.     *)
LEMMA TaskStays ==
  ASSUME NEW t, TaskInv(t), fate'[t] = fate[t], runs'[t] = runs[t],
         \A v \in Workers, i \in Nat : IsAt(t, v, i)' <=> IsAt(t, v, i)
  PROVE  TaskInv(t)'
<1> HIDE DEF IsAt
<1>1. Nowhere(t)' <=> Nowhere(t)
  BY DEF Nowhere
<1>2. Somewhere(t)' <=> Somewhere(t)
  BY DEF Somewhere
<1> QED
  BY <1>1, <1>2 DEF TaskInv

LEMMA StepTasks ==
  TypeOK /\ (\A c \in Clients : CallInv(c)) /\ (\A t \in Tasks : TaskInv(t)) /\ [Next]_vars
    => (\A t \in Tasks : TaskInv(t))'
<1> SUFFICES ASSUME TypeOK, \A c \in Clients : CallInv(c), \A t \in Tasks : TaskInv(t),
                    [Next]_vars, NEW t \in Tasks
             PROVE  TaskInv(t)'
  OBVIOUS
<1>0. TaskInv(t) /\ runs[t] \in Nat /\ t # Stop /\ t # NoTask
  BY TaskAssumption DEF TypeOK
<1> HIDE DEF IsAt
<1>1. ASSUME UNCHANGED <<tasks, running, runs>>, fate'[t] = fate[t] PROVE TaskInv(t)'
  BY <1>0, <1>1, TaskStays, NothingMoves
<1>2. ASSUME NEW c \in Clients, NEW u \in Tasks, add_task(c, u) PROVE TaskInv(t)'
  <2>1. /\ UNCHANGED <<tasks, running, runs>> /\ fate[u] = "new"
        /\ fate'[t] = IF t = u THEN "submitted" ELSE fate[t]
    BY <1>2 DEF add_task, workerVars, TypeOK
  <2>2. CASE t = u
    <3>1. Nowhere(t) /\ runs[t] = 0
      BY <1>0, <2>1, <2>2 DEF TaskInv
    <3>2. Nowhere(t)'
      BY <2>1, <3>1, NothingMoves DEF Nowhere
    <3> QED
      BY <2>1, <2>2, <3>1, <3>2 DEF TaskInv
  <2>3. CASE t # u
    BY <1>1, <2>1, <2>3
  <2> QED
    BY <2>2, <2>3
<1>3. ASSUME NEW c \in Clients, offer(c) PROVE TaskInv(t)'
  <2>1. call[c].at = "push" /\ call[c].task \in Tasks
    BY <1>3 DEF offer, TypeOK, Idle
  <2>2. fate[call[c].task] = "submitted" /\ UNCHANGED <<running, runs>> /\ m_next_worker \in Workers
    BY <1>3, <2>1 DEF CallInv, offer, TypeOK
  <2>3. CASE HasRoom(m_next_worker)
    <3>1. /\ tasks' = [tasks EXCEPT ![m_next_worker] = Append(@, call[c].task)]
          /\ fate' = [fate EXCEPT ![call[c].task] = "accepted"]
      BY <1>3, <2>3 DEF offer, LoopEnds
    <3>2. \A v \in Workers, i \in Nat :
            IsAt(t, v, i)' <=> \/ IsAt(t, v, i)
                               \/ t = call[c].task /\ v = m_next_worker
                                    /\ i = Len(tasks[m_next_worker]) + 1
      BY <2>1, <2>2, <3>1, AppendMoves
    <3>3. CASE t = call[c].task
      <4>1. Nowhere(t) /\ runs[t] = 0
        BY <1>0, <2>2, <3>3 DEF TaskInv
      <4>2. Len(tasks[m_next_worker]) + 1 \in Nat
        BY <2>2 DEF TypeOK
      <4>3. Somewhere(t)'
        BY <2>2, <3>2, <3>3, <4>1, <4>2 DEF Somewhere, Nowhere
      <4>4. fate'[t] = "accepted" /\ runs'[t] = 0
        BY <2>1, <2>2, <3>1, <3>3, <4>1 DEF TypeOK
      <4> QED
        BY <4>3, <4>4 DEF TaskInv
    <3>4. CASE t # call[c].task
      <4>1. fate'[t] = fate[t]
        BY <3>1, <3>4 DEF TypeOK
      <4> QED
        BY <1>0, <2>2, <3>2, <3>4, <4>1, TaskStays
    <3> QED
      BY <3>3, <3>4
  <2>4. CASE ~HasRoom(m_next_worker)
    <3>1. tasks' = tasks
      BY <1>3, <2>4 DEF offer
    <3>2. fate'[t] = fate[t] \/ (t = call[c].task /\ fate'[t] = "refused")
      BY <1>3, <2>1, <2>4 DEF offer, TypeOK
    <3>3. CASE t = call[c].task
      <4>1. Nowhere(t) /\ runs[t] = 0 /\ fate'[t] # "accepted"
        BY <1>0, <2>2, <3>2, <3>3 DEF TaskInv
      <4>2. Nowhere(t)'
        BY <2>2, <3>1, <4>1, NothingMoves DEF Nowhere
      <4> QED
        BY <2>2, <4>1, <4>2 DEF TaskInv
    <3>4. CASE t # call[c].task
      BY <1>1, <2>2, <3>1, <3>2, <3>4
    <3> QED
      BY <3>3, <3>4
  <2> QED
    BY <2>3, <2>4
<1>4. ASSUME NEW w \in Workers, take(w) PROVE TaskInv(t)'
  <2>1. UNCHANGED <<runs, fate>>
    BY <1>4 DEF take, callVars
  <2>2. \A v \in Workers, i \in Nat : IsAt(t, v, i)' <=> IsAt(t, v, IF v = w THEN i + 1 ELSE i)
    BY <1>4, TakeMoves
  <2>3. ~IsAt(t, w, 0)
    BY <1>0, <1>4 DEF take, IsAt
  <2>4. \A i \in Nat : i + 1 \in Nat
    OBVIOUS
  <2>5. Nowhere(t) => Nowhere(t)'
    BY <2>2, <2>4 DEF Nowhere
  <2>6. Somewhere(t) => Somewhere(t)'
    <3> SUFFICES ASSUME Somewhere(t) PROVE Somewhere(t)'
      OBVIOUS
    <3>1. PICK v \in Workers, i \in Nat :
            IsAt(t, v, i) /\ \A u \in Workers, j \in Nat : IsAt(t, u, j) => u = v /\ j = i
      BY DEF Somewhere
    <3>2. PICK k \in Nat : i = IF v = w THEN k + 1 ELSE k
      <4>1. v = w => i # 0
        BY <2>3, <3>1
      <4>2. i # 0 => i - 1 \in Nat /\ i = (i - 1) + 1
        OBVIOUS
      <4> QED
        BY <4>1, <4>2
    <3>3. IsAt(t, v, k)'
      BY <2>2, <3>1, <3>2
    <3>4. ASSUME NEW u \in Workers, NEW j \in Nat, IsAt(t, u, j)' PROVE u = v /\ j = k
      <4>1. IsAt(t, u, IF u = w THEN j + 1 ELSE j)
        BY <2>2, <3>4
      <4>2. u = v /\ (IF u = w THEN j + 1 ELSE j) = i
        BY <2>4, <3>1, <4>1
      <4>3. CASE u = w
        BY <3>2, <4>2, <4>3
      <4>4. CASE u # w
        BY <3>2, <4>2, <4>4
      <4> QED
        BY <4>3, <4>4
    <3> QED
      BY <3>3, <3>4 DEF Somewhere
  <2> QED
    BY <1>0, <2>1, <2>5, <2>6 DEF TaskInv
<1>5. ASSUME NEW w \in Workers, finish(w) PROVE TaskInv(t)'
  <2>1. /\ UNCHANGED <<tasks, fate>> /\ running[w] \in Tasks
        /\ running' = [running EXCEPT ![w] = NoTask]
        /\ runs' = [runs EXCEPT ![running[w]] = @ + 1]
    BY <1>5 DEF finish, callVars
  <2>2. \A v \in Workers, i \in Nat : IsAt(t, v, i)' <=> IsAt(t, v, i) /\ ~(v = w /\ i = 0)
    BY <2>1, FinishMoves
  <2>3. CASE running[w] = t
    <3>1. IsAt(t, w, 0)
      BY <2>3 DEF IsAt
    <3>2. ~Nowhere(t)
      BY <3>1 DEF Nowhere
    <3>3. fate[t] = "accepted" /\ Somewhere(t) /\ runs[t] = 0
      BY <1>0, <3>2 DEF TaskInv
    <3>4. \A v \in Workers, i \in Nat : IsAt(t, v, i) => v = w /\ i = 0
      BY <3>1, <3>3 DEF Somewhere
    <3>5. Nowhere(t)'
      BY <2>2, <3>4 DEF Nowhere
    <3>6. runs'[t] = 1
      BY <2>1, <2>3, <3>3 DEF TypeOK
    <3> QED
      BY <2>1, <3>3, <3>5, <3>6 DEF TaskInv
  <2>4. CASE running[w] # t
    <3>1. ~IsAt(t, w, 0)
      BY <2>4 DEF IsAt
    <3>2. runs'[t] = runs[t]
      BY <2>1, <2>4 DEF TypeOK
    <3> QED
      BY <1>0, <2>1, <2>2, <3>1, <3>2, TaskStays
  <2> QED
    BY <2>3, <2>4
<1>6. ASSUME NEW w \in Workers, stop_(w) PROVE TaskInv(t)'
  <2>1. /\ UNCHANGED <<tasks, fate, runs>> /\ running[w] = Stop
        /\ running' = [running EXCEPT ![w] = NoTask]
    BY <1>6 DEF stop_, callVars
  <2>2. \A v \in Workers, i \in Nat : IsAt(t, v, i)' <=> IsAt(t, v, i) /\ ~(v = w /\ i = 0)
    BY <2>1, FinishMoves
  <2>3. ~IsAt(t, w, 0)
    BY <1>0, <2>1 DEF IsAt
  <2> QED
    BY <1>0, <2>1, <2>2, <2>3, TaskStays
<1>7. ASSUME stop PROVE TaskInv(t)'
  <2>1. UNCHANGED <<running, runs, fate>> /\ owner.worker \in Workers
    BY <1>7, OneWorkerOn DEF stop, callVars
  <2>2. CASE HasRoom(owner.worker)
    <3>1. tasks' = [tasks EXCEPT ![owner.worker] = Append(@, Stop)]
      BY <1>7, <2>2 DEF stop, WithStop
    <3>2. \A v \in Workers, i \in Nat : IsAt(t, v, i)' <=> IsAt(t, v, i)
      BY <1>0, <2>1, <3>1, AppendMoves
    <3> QED
      BY <1>0, <2>1, <3>2, TaskStays
  <2>3. CASE ~HasRoom(owner.worker)
    BY <1>1, <1>7, <2>1, <2>3 DEF stop
  <2> QED
    BY <2>2, <2>3
<1>8. ASSUME destroy \/ stopped \/ join \/ destroyed \/ UNCHANGED vars PROVE TaskInv(t)'
  BY <1>1, <1>8 DEF destroy, stopped, join, destroyed, vars, workerVars, callVars
<1> QED
  BY <1>2, <1>3, <1>4, <1>5, <1>6, <1>7, <1>8 DEF Next, WorkerStep, OwnerStep

-----------------------------------------------------------------------------
(* The invariant *)

LEMMA InitInv == Init => IInv
<1> SUFFICES ASSUME Init PROVE IInv
  OBVIOUS
<1>1. TypeOK
  BY InitTyped
<1>2. \A c \in Clients : CallInv(c)
  BY ClientAssumption DEF Init, CallInv, Idle
<1>3. \A t \in Tasks : TaskInv(t)
  BY TaskAssumption DEF Init, TaskInv, Nowhere, IsAt
<1>4. \A w \in Workers : StopInv(w)
  BY TaskAssumption DEF Init, StopInv, NoStop, Joined
<1>5. RefusedOnlyAfterAll
  BY DEF Init, RefusedOnlyAfterAll
<1> QED
  BY <1>1, <1>2, <1>3, <1>4, <1>5 DEF IInv

LEMMA Invariance == Spec => []IInv
<1>1. IInv /\ [Next]_vars => IInv'
  <2> SUFFICES ASSUME IInv, [Next]_vars PROVE IInv'
    OBVIOUS
  <2>1. /\ TypeOK /\ RefusedOnlyAfterAll
        /\ \A c \in Clients : CallInv(c)
        /\ \A t \in Tasks : TaskInv(t)
        /\ \A w \in Workers : StopInv(w)
    BY DEF IInv
  <2>2. TypeOK' /\ (\A c \in Clients : CallInv(c))' /\ RefusedOnlyAfterAll'
    BY <2>1, StepTyped, StepCalls, StepRefused
  <2>3. (\A t \in Tasks : TaskInv(t))' /\ (\A w \in Workers : StopInv(w))'
    BY <2>1, StepTasks, StepStops
  <2> QED
    BY <2>2, <2>3 DEF IInv
<1> QED
  BY InitInv, <1>1, PTL DEF Spec

(* Queues stay within their size, and every variable in its type. *)
THEOREM ThreadPoolTypeCorrect == Spec => []TypeOK
<1>1. IInv => TypeOK
  BY DEF IInv
<1> QED
  BY Invariance, <1>1, PTL

(* The places of a task are those it is at. *)
LEMMA PlacesAreWhereItIs ==
  ASSUME TypeOK, NEW t \in Tasks, NEW w \in Workers, NEW i \in Nat
  PROVE  <<w, i>> \in Places(t) <=> IsAt(t, w, i)
<1>1. /\ Len(tasks[w]) \in Nat /\ Len(tasks[w]) <= m_worker_task_queue_size
      /\ m_worker_task_queue_size \in Nat
  BY SizeAssumption DEF TypeOK
<1>2. <<w, i>> \in Places(t) <=>
        \/ i \in 1 .. m_worker_task_queue_size /\ i <= Len(tasks[w]) /\ tasks[w][i] = t
        \/ i = 0 /\ running[w] = t
  BY DEF Places
<1>3. i \in 1 .. m_worker_task_queue_size /\ i <= Len(tasks[w]) <=> i \in 1 .. Len(tasks[w])
  BY <1>1
<1> QED
  BY <1>2, <1>3 DEF IsAt

(* A place is a worker and a number. *)
LEMMA PlacesArePairs ==
  ASSUME NEW t, NEW p \in Places(t)
  PROVE  \E w \in Workers, i \in Nat : p = <<w, i>>
<1>1. CASE p \in Workers \X (1 .. m_worker_task_queue_size)
  BY <1>1, SizeAssumption
<1>2. CASE p \in {<<w, 0>> : w \in {v \in Workers : running[v] = t}}
  BY <1>2
<1> QED
  BY <1>1, <1>2 DEF Places

(* An accepted task is in one place until it was executed, once; any other *)
(* task is nowhere and was never executed.                                 *)
THEOREM NoTaskIsLostOrRepeated == Spec => []TasksAreConserved
<1>1. IInv => TasksAreConserved
  <2> SUFFICES ASSUME IInv, NEW t \in Tasks
               PROVE  Cardinality(Places(t)) + runs[t] = IF fate[t] = "accepted" THEN 1 ELSE 0
    BY DEF TasksAreConserved
  <2>1. TypeOK /\ TaskInv(t)
    BY DEF IInv
  <2>2. CASE Nowhere(t)
    <3>1. Places(t) = {}
      BY <2>1, <2>2, PlacesAreWhereItIs, PlacesArePairs DEF Nowhere
    <3>2. Cardinality(Places(t)) = 0
      BY <3>1, FS_EmptySet
    <3>3. ~Somewhere(t)
      BY <2>2 DEF Nowhere, Somewhere
    <3> QED
      BY <2>1, <2>2, <3>2, <3>3 DEF TaskInv
  <2>3. CASE ~Nowhere(t)
    <3>1. fate[t] = "accepted" /\ Somewhere(t) /\ runs[t] = 0
      BY <2>1, <2>3 DEF TaskInv
    <3>2. PICK w \in Workers, i \in Nat :
            IsAt(t, w, i) /\ \A v \in Workers, j \in Nat : IsAt(t, v, j) => v = w /\ j = i
      BY <3>1 DEF Somewhere
    <3>3. <<w, i>> \in Places(t)
      BY <2>1, <3>2, PlacesAreWhereItIs
    <3>4. ASSUME NEW p \in Places(t) PROVE p = <<w, i>>
      <4>1. PICK v \in Workers, j \in Nat : p = <<v, j>>
        BY PlacesArePairs
      <4>2. IsAt(t, v, j)
        BY <2>1, <4>1, PlacesAreWhereItIs
      <4> QED
        BY <3>2, <4>1, <4>2
    <3>5. Places(t) = {<<w, i>>}
      BY <3>3, <3>4
    <3>6. Cardinality(Places(t)) = 1
      BY <3>5, FS_Singleton
    <3> QED
      BY <3>1, <3>6
  <2> QED
    BY <2>2, <2>3
<1> QED
  BY Invariance, <1>1, PTL

(* add_task gives up only after it has tried every worker, wherever the    *)
(* round starts.                                                           *)
THEOREM NoWorkerIsSkipped == Spec => []RefusedOnlyAfterAll
<1>1. IInv => RefusedOnlyAfterAll
  BY DEF IInv
<1> QED
  BY Invariance, <1>1, PTL

(* The destructor returns only after every accepted task was executed. *)
THEOREM DestructorDrains == Spec => []DrainedOnDestruction
<1>1. IInv => DrainedOnDestruction
  <2> SUFFICES ASSUME IInv, owner.at = "destroyed", NEW t \in Tasks, fate[t] = "accepted"
               PROVE  runs[t] = 1
    BY DEF DrainedOnDestruction
  <2>1. TaskInv(t)
    BY DEF IInv
  <2>2. \A w \in Workers : tasks[w] = <<>> /\ running[w] = NoTask
    BY DEF IInv, StopInv, Joined
  <2>3. \A w \in Workers, i \in Nat : ~IsAt(t, w, i)
    BY <2>2, TaskAssumption DEF IsAt
  <2>4. ~Somewhere(t)
    BY <2>3 DEF Somewhere
  <2> QED
    BY <2>1, <2>4 DEF TaskInv
<1> QED
  BY Invariance, <1>1, PTL
=============================================================================
