SPECIFICATION Spec
CONSTANTS
  Callers = {c1, c2}
  Workers = {w1}
  Runs = {r1}
  MaxRecords = 1
INVARIANT WaitBlocksUntilEnd
CHECK_DEADLOCK FALSE
