SPECIFICATION Spec
CONSTANTS
  main = main
  Page = {main, p1, p2}
  Code = {0, 7}
  JUNK = JUNK
  NULL = NULL
  MaxTid = 3
  MaxSubs = 2
PROPERTY WaitReturnsStatus
CHECK_DEADLOCK FALSE
