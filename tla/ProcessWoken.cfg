SPECIFICATION Spec
CONSTANTS
  main = main
  Page = {main, p1, p2, p3}
  Code = {}
  JUNK = JUNK
  NULL = NULL
  MaxTid = 5
  MaxSubs = 2
CONSTRAINT Calm
SYMMETRY Symmetry
PROPERTIES WokenByDeath
CHECK_DEADLOCK FALSE
