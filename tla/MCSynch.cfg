SPECIFICATION Spec
CONSTANTS
  Thread = {a, b, c, d}
  l1 = l1
  l2 = l2
  c1 = c1
  c2 = c2
  Lock = {l1, l2}
  Cond = {c1, c2}
  Sema <- MCSema
  lockOf <- MClockOf
  NULL = NULL
  MaxValue = 2
SYMMETRY MCSymmetry
INVARIANTS LockOwned WaiterAlive NoLostSignal
PROPERTIES ImplementsMonitor
CHECK_DEADLOCK FALSE
