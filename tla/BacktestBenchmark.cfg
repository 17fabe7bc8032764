SPECIFICATION ReportSpec
CONSTANTS
  Symbols = {1, 2}
  History <- MCHistory
  MarketDays <- MCMarketDays
  MaxSessions = 3
  FastPeriod = 1
  SlowPeriod = 2
  Lookback = 3
  MinAvgVolume = 0
  HaltExitSessions = 2
  InitialCapital = 390
  RateUnit = 10
  CostRate = 1
  SlippageRate = 1
  SizingMode = "fixed_fraction_of_equity"
  SizingValue = 10
  LotSize = 1
  Participation = 5
  RejectPartialFills = FALSE
  MinBarVolume = 0
  MaxConcurrent = 1
  EntryAt = "open"
  ExitAt = "close"
  NoPosition = NoPosition
  InSampleEnd = 2
  OutOfSampleStart = 3
  DailyRiskFree = 0
  BenchmarkCloses <- MCBenchmarkCloses
INVARIANT PairsAreOfOneSession
\* The run of a backtest ends in phase "done".
CHECK_DEADLOCK FALSE
