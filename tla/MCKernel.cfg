CONSTANTS
  Tasks = {t0, t1}
  NO_TASK = NO_TASK
  main = main
  idle = idle
  Workers = {w1}
  Procs = {main, idle, w1}
  WorkerPrios = {100, 128, 200}
SPECIFICATION FairSpec
INVARIANTS
  TypeOK
  ListsConsistent
  NoLostWakeup
  SleepsOnlyWhenIdle
  SuspendedDoesNotRun
PROPERTIES
  ImplementsFifo
  PostedTaskRuns
