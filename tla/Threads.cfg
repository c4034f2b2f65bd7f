SPECIFICATION Spec
CONSTANTS
  Thread = {main, idle, t1, t2, t3}
  NULL = NULL
  initial_thread = main
  TIME_SLICE = 4
  Sema = {idle_started, ev}
  MaxValue = 2
  idle_started = idle_started
INVARIANTS  NoPanic ElemExclusive NoLostWakeup
PROPERTIES RoundRobin ImplementsSemaphore
