SPECIFICATION FairSpec
CONSTANTS
  Callers = {c1, c2}
  Workers = {w1, w2}
  Runs = {r1, r2}
  MaxRecords = 2
INVARIANTS
  NoConcurrentDuplicate
PROPERTIES
  KeepsPromise
  CallersReturn
  RunsEnd
