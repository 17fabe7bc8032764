SPECIFICATION Spec
CONSTANTS
  Ingestors = {i1, i2}
  income = income
  cashflow = cashflow
  Statements <- MCStatements
  Versioned <- MCVersioned
  Feeds <- MCFeeds
  NoOfQuarters = 2
  Values = {1, 2, 4}
  MaxVersion = 2
  MaxDay = 2
  MaxFetches = 3
SYMMETRY Symmetry
INVARIANTS
  TypeOK
  LoneIngestionLands
PROPERTIES
  KeepsVersions
  ViewsOnlyAdvance
CHECK_DEADLOCK FALSE
