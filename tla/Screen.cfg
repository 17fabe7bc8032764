SPECIFICATION Spec
CONSTANTS
  Symbols = {1, 2}
  MaxDay = 4
  DayMenu <- MCDayMenu
  CandidateLists <- MCCandidateLists
  FlaggedSets <- MCFlaggedSets
  FastPeriod = 1
  SlowPeriod = 2
  Lookback = 2
  MinAvgVolume = 1
  HaltExitSessions = 2
  WithinDays = 2
  ValueLookback = 2
  MinMedianValue = 2
  MinHistoryDays = 2
  NoRun = NoRun
INVARIANTS
  Reproducible
  RankedHasTraded
  EntriesLead
  CompleteAccount
\* The market of the instance ends with day MaxDay.
CHECK_DEADLOCK FALSE
