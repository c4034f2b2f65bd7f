SPECIFICATION Spec
CONSTANTS
  main = main
  Page = {main, p1, p2}
  Code = {0}
  JUNK = JUNK
  NULL = NULL
  MaxTid = 4
  MaxSubs = 2
SYMMETRY Symmetry
INVARIANTS ChildrenRecorded
 
CHECK_DEADLOCK FALSE
