SPECIFICATION Spec
CONSTANTS
  main = main
  Page = {main, p1, p2}
  Code = {0}
  JUNK = JUNK
  NULL = NULL
  MaxTid = 3
  MaxSubs = 2
INVARIANT NoPanic
CHECK_DEADLOCK FALSE
