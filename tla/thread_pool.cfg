SPECIFICATION FairSpec
CONSTANTS
  c1 = c1
  c2 = c2
  t1 = t1
  t2 = t2
  t3 = t3
  t4 = t4
  t5 = t5
  Clients <- MCClients
  Tasks <- MCTasks
  Stop = Stop
  NoTask = NoTask
  NoClient = NoClient
  m_n_of_threads = 2
  m_worker_task_queue_size = 2
CHECK_DEADLOCK FALSE
INVARIANTS
  TasksAreConserved
  RefusedOnlyAfterAll
  DrainedOnDestruction
PROPERTIES
  DestructorReturns
