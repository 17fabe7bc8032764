SPECIFICATION ReportSpec
CONSTANTS
  Symbols = {1, 2}
  History <- MCHistory
  MarketDays <- MCMarketDays
  MaxSessions = 4
  FastPeriod = 1
  SlowPeriod = 2
  Lookback = 3
  MinAvgVolume = 0
  HaltExitSessions = 2
  InitialCapital = 300
  RateUnit = 10
  CostRate = 1
  SlippageRate = 1
  SizingMode = "fixed_shares"
  SizingValue = 2
  LotSize = 1
  Participation = 0
  RejectPartialFills = FALSE
  MinBarVolume = 0
  MaxConcurrent = 2
  EntryAt = "open"
  ExitAt = "open"
  NoPosition = NoPosition
  InSampleEnd = 4
  OutOfSampleStart = 5
  DailyRiskFree = 0
  BenchmarkCloses <- MCBenchmarkCloses
INVARIANT ReentryAfterRecovery
CHECK_DEADLOCK FALSE
