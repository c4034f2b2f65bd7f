SPECIFICATION Spec
CONSTANTS
  main = main
  idle = idle
  t1 = t1
  t2 = t2
  idle_started = idle_started
  ev = ev
  l1 = l1
  c1 = c1
  c2 = c2
  NULL = NULL
PROPERTIES WaitersRun LocksHandedOn DevicesAnswer PanicHalts
CHECK_DEADLOCK FALSE
