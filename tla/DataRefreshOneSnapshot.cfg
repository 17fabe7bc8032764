SPECIFICATION Spec
CONSTANTS
  Service = service
  Clis = {}
  Readers = {r1}
  f1 = f1
  f2 = f2
  stock = stock
  index = index
  Files = {f1, f2}
  Categories = {stock, index}
  CategoryOf <- MCCategoryOf
  Contents = {clean, broken}
  Critical = {}
  Malformed = {broken}
  Missing = missing
  BaselineDays = {1}
  MaxDay = 2
  MaxRuns = 2
  MaxChanges = 1
INVARIANT AnswerIsOfOneSnapshot
CHECK_DEADLOCK FALSE
