SPECIFICATION Spec
CONSTANTS
  Service = service
  Clis = {cli}
  Readers = {r1}
  f1 = f1
  f2 = f2
  stock = stock
  index = index
  Files = {f1, f2}
  Categories = {stock, index}
  CategoryOf <- MCCategoryOf
  Contents = {clean, bad, broken}
  Critical = {bad}
  Malformed = {broken}
  Missing = missing
  BaselineDays = {1}
  MaxDay = 1
  MaxRuns = 1
  MaxChanges = 1
INVARIANTS
  PublishedIsWhole
PROPERTIES
  CandidatesFreeze
  ServesWholeSnapshots
CHECK_DEADLOCK FALSE
