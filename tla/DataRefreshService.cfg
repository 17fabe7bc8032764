SPECIFICATION FairSpec
CONSTANTS
  Service = service
  Clis = {}
  Readers = {}
  f1 = f1
  f2 = f2
  stock = stock
  index = index
  Files = {f1, f2}
  Categories = {stock, index}
  CategoryOf <- MCCategoryOf
  Contents = {clean, bad, broken}
  Critical = {bad}
  Malformed = {broken}
  Missing = missing
  BaselineDays = {1}
  MaxDay = 2
  MaxRuns = 2
  MaxChanges = 1
INVARIANTS
  SoundIfStill
  StatusTellsPromotion
  RunIdIsStable
PROPERTIES
  RefreshEnds
CHECK_DEADLOCK FALSE
