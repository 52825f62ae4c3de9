----------------------------- MODULE ThreadPool -----------------------------
(***************************************************************************)
(* thread/thread_pool.cpp and thread/worker.cpp: workers with a bounded    *)
(* queue each, tasks dealt out round robin under m_mutex, and a destructor *)
(* that queues a stop for every worker and joins them one after the other. *)
(*                                                                         *)
(* A worker's queue is a BoundedQueue, which is what Queue shows of        *)
(* SPSCQueue as long as pushes do not overlap: add_task pushes under       *)
(* m_mutex, the destructor without it, and the program does not call       *)
(* add_task while it destroys the pool.                                    *)
(***************************************************************************)
EXTENDS Integers, Sequences, FiniteSets

CONSTANTS
  Clients,      \* threads that call add_task, a task in a worker included
  Tasks,        \* each is submitted once at most
  Stop,         \* the task that Worker::stop queues
  NoTask,
  NoClient,     \* nobody holds m_mutex
  m_n_of_threads,
  m_worker_task_queue_size

ASSUME TaskAssumption == Stop \notin Tasks /\ NoTask \notin Tasks \cup {Stop}
ASSUME ClientAssumption == NoClient \notin Clients
ASSUME SizeAssumption == /\ m_n_of_threads \in Nat \ {0}
                         /\ m_worker_task_queue_size \in Nat \ {0}

Workers == 0 .. m_n_of_threads - 1

VARIABLES
  tasks,          \* m_tasks of each worker
  running,        \* the task each worker is executing
  m_done,         \* set by a worker's own stop_
  m_mutex,
  m_next_worker,
  call,           \* what each client is doing in add_task
  owner,          \* the destructor: its loop and the worker it is at
  runs,           \* history: how often each task was executed
  fate,           \* history: what add_task said of each task
  tried,          \* history: the workers that each task was offered to
  dropped         \* history: the workers whose queue had no room for the stop

workerVars == <<tasks, running, m_done, runs>>
callVars == <<m_mutex, m_next_worker, call, fate, tried>>
ownerVars == <<owner, dropped>>
vars == <<workerVars, callVars, ownerVars>>

Idle == [at |-> "idle", task |-> NoTask, first |-> 0]

TypeOK ==
  /\ tasks \in [Workers -> Seq(Tasks \cup {Stop})]
  /\ \A w \in Workers : Len(tasks[w]) <= m_worker_task_queue_size
  /\ running \in [Workers -> Tasks \cup {Stop, NoTask}]
  /\ m_done \in [Workers -> BOOLEAN]
  /\ m_mutex \in Clients \cup {NoClient}
  /\ m_next_worker \in Workers
  /\ call \in [Clients -> [at : {"push"}, task : Tasks, first : Workers] \cup {Idle}]
  /\ owner \in [at : {"alive", "stop", "join", "destroyed"}, worker : 0 .. m_n_of_threads]
  /\ runs \in [Tasks -> Nat]
  /\ fate \in [Tasks -> {"new", "submitted", "accepted", "refused"}]
  /\ tried \in [Tasks -> SUBSET Workers]
  /\ dropped \subseteq Workers

Init ==
  /\ tasks = [w \in Workers |-> <<>>]
  /\ running = [w \in Workers |-> NoTask]
  /\ m_done = [w \in Workers |-> FALSE]
  /\ m_mutex = NoClient
  /\ m_next_worker = 0
  /\ call = [c \in Clients |-> Idle]
  /\ owner = [at |-> "alive", worker |-> 0]
  /\ runs = [t \in Tasks |-> 0]
  /\ fate = [t \in Tasks |-> "new"]
  /\ tried = [t \in Tasks |-> {}]
  /\ dropped = {}

-----------------------------------------------------------------------------
(* A definition under "Mistake" is the next one with a slip of the kind a  *)
(* programmer makes; no action uses it. It shows what the properties see.  *)

(* Mistake: the size is not looked at. *)
HasRoomAlways(w) == TRUE
HasRoom(w) == Len(tasks[w]) < m_worker_task_queue_size

get_next_worker_id(id) == (id + 1) % m_n_of_threads

(* Mistakes: the loop goes on although the task was taken, and the loop    *)
(* stops at the worker before the first.                                   *)
LoopEndsWithRound(pushed, first) == get_next_worker_id(m_next_worker) = first
LoopEndsEarly(pushed, first) ==
  pushed \/ get_next_worker_id(get_next_worker_id(m_next_worker)) = first
LoopEnds(pushed, first) == pushed \/ get_next_worker_id(m_next_worker) = first

(* add_task up to its loop. *)
add_task(c, t) ==
  /\ owner.at = "alive"
  /\ fate[t] = "new"
  /\ call[c] = Idle
  /\ m_mutex = NoClient
  /\ m_mutex' = c
  /\ call' = [call EXCEPT ![c] = [at |-> "push", task |-> t, first |-> m_next_worker]]
  /\ fate' = [fate EXCEPT ![t] = "submitted"]
  /\ UNCHANGED <<workerVars, ownerVars, m_next_worker, tried>>

(* One round of the loop: the next worker's queue takes the task or not.   *)
offer(c) ==
  /\ call[c].at = "push"
  /\ LET w == m_next_worker
         t == call[c].task
         pushed == HasRoom(w)
     IN /\ tasks' = IF pushed THEN [tasks EXCEPT ![w] = Append(@, t)] ELSE tasks
        /\ tried' = [tried EXCEPT ![t] = @ \cup {w}]
        /\ m_next_worker' = get_next_worker_id(w)
        /\ IF LoopEnds(pushed, call[c].first)
           THEN /\ fate' = [fate EXCEPT ![t] = IF pushed THEN "accepted" ELSE "refused"]
                /\ call' = [call EXCEPT ![c] = Idle]
                /\ m_mutex' = NoClient
           ELSE UNCHANGED <<fate, call, m_mutex>>
  /\ UNCHANGED <<running, m_done, runs, ownerVars>>

-----------------------------------------------------------------------------
(* Worker::run *)

take(w) ==
  /\ ~m_done[w]
  /\ running[w] = NoTask
  /\ tasks[w] # <<>>
  /\ running' = [running EXCEPT ![w] = Head(tasks[w])]
  /\ tasks' = [tasks EXCEPT ![w] = Tail(@)]
  /\ UNCHANGED <<m_done, runs, callVars, ownerVars>>

(* The task returns, or throws and is caught. *)
finish(w) ==
  /\ running[w] \in Tasks
  /\ runs' = [runs EXCEPT ![running[w]] = @ + 1]
  /\ running' = [running EXCEPT ![w] = NoTask]
  /\ UNCHANGED <<tasks, m_done, callVars, ownerVars>>

(* Mistake: m_done is not set. *)
stop_forgotten(w) ==
  /\ running[w] = Stop
  /\ running' = [running EXCEPT ![w] = NoTask]
  /\ UNCHANGED <<tasks, m_done, runs, callVars, ownerVars>>

stop_(w) ==
  /\ running[w] = Stop
  /\ m_done' = [m_done EXCEPT ![w] = TRUE]
  /\ running' = [running EXCEPT ![w] = NoTask]
  /\ UNCHANGED <<tasks, runs, callVars, ownerVars>>

-----------------------------------------------------------------------------
(* ~ThreadPool *)

NobodyCalls == \A c \in Clients : call[c] = Idle

destroy ==
  /\ owner.at = "alive"
  /\ NobodyCalls
  /\ owner' = [owner EXCEPT !.at = "stop"]
  /\ UNCHANGED <<workerVars, callVars, dropped>>

(* Mistake: the stop overtakes the tasks. *)
WithStopFirst(queue) == <<Stop>> \o queue
WithStop(queue) == Append(queue, Stop)

(* Worker::stop of one worker after the other. What push returns is not    *)
(* looked at: a full queue drops the stop.                                 *)
stop ==
  /\ owner.at = "stop"
  /\ owner.worker < m_n_of_threads
  /\ LET w == owner.worker
     IN IF HasRoom(w)
        THEN tasks' = [tasks EXCEPT ![w] = WithStop(@)] /\ UNCHANGED dropped
        ELSE dropped' = dropped \cup {w} /\ UNCHANGED tasks
  /\ owner' = [owner EXCEPT !.worker = @ + 1]
  /\ UNCHANGED <<running, m_done, runs, callVars>>

stopped ==
  /\ owner = [at |-> "stop", worker |-> m_n_of_threads]
  /\ owner' = [at |-> "join", worker |-> 0]
  /\ UNCHANGED <<workerVars, callVars, dropped>>

(* ~Worker of one worker after the other. *)
join ==
  /\ owner.at = "join"
  /\ owner.worker < m_n_of_threads
  /\ m_done[owner.worker]
  /\ owner' = [owner EXCEPT !.worker = @ + 1]
  /\ UNCHANGED <<workerVars, callVars, dropped>>

destroyed ==
  /\ owner = [at |-> "join", worker |-> m_n_of_threads]
  /\ owner' = [at |-> "destroyed", worker |-> 0]
  /\ UNCHANGED <<workerVars, callVars, dropped>>

-----------------------------------------------------------------------------
WorkerStep(w) == take(w) \/ finish(w) \/ stop_(w)
OwnerStep == stop \/ stopped \/ join \/ destroyed

Next ==
  \/ \E c \in Clients : offer(c) \/ \E t \in Tasks : add_task(c, t)
  \/ \E w \in Workers : WorkerStep(w)
  \/ destroy
  \/ OwnerStep

Spec == Init /\ [][Next]_vars

(* Threads run, tasks return. Nobody has to submit or to destroy.          *)
Fairness ==
  /\ \A c \in Clients : WF_vars(offer(c))
  /\ \A w \in Workers : WF_vars(WorkerStep(w))
  /\ WF_vars(OwnerStep)

FairSpec == Spec /\ Fairness

-----------------------------------------------------------------------------
Places(t) ==
  {p \in Workers \X (1 .. m_worker_task_queue_size) :
     p[2] <= Len(tasks[p[1]]) /\ tasks[p[1]][p[2]] = t}
    \cup {<<w, 0>> : w \in {v \in Workers : running[v] = t}}

(* A task add_task accepted is queued, running or was executed, exactly one*)
(* of these and only once; any other task is nowhere, although the loop    *)
(* tries several queues while their workers take from them.                *)
TasksAreConserved ==
  \A t \in Tasks :
    Cardinality(Places(t)) + runs[t] = IF fate[t] = "accepted" THEN 1 ELSE 0

(* add_task gives up only after every worker has refused the task, wherever*)
(* m_next_worker started.                                                  *)
RefusedOnlyAfterAll == \A t \in Tasks : fate[t] = "refused" => tried[t] = Workers

(* When the destructor has returned every accepted task was executed: the  *)
(* stop is behind them in the queue.                                       *)
DrainedOnDestruction ==
  owner.at = "destroyed" => \A t \in Tasks : fate[t] = "accepted" => runs[t] = 1

(* The destructor returns, unless it met a queue without room for the stop:*)
(* that worker is never told, and join waits for it for ever.              *)
DestructorReturns == owner.at = "stop" ~> owner.at = "destroyed" \/ dropped # {}
=============================================================================
