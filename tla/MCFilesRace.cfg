SPECIFICATION MCSpec
CONSTANTS
  Parts = {"filesys"}
  Tidy = TRUE
  Procs = {p1, p2}
  Proc = {c1, c2}
  Name = {m1, m2}
  BADNAME = LONG
  N = 7
  MaxSlots = 2
  MaxFiles = 1
  MaxLength = 1
  Oom = FALSE
  a1 = a1
  a2 = a2
  a3 = a3
  a4 = a4
  n1 = n1
  n2 = n2
  EMPTY = EMPTY
  LONG = LONG
SYMMETRY Symmetry
VIEW View
INVARIANT NoOverlap
