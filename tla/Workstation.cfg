SPECIFICATION FairSpec
CONSTANTS
  Symbols = {"FPT", "KDH", "SSI"}
  Timeframes = {"1D", "1W"}
  Counts = {520}
  Indicators = {"srLevels"}
  Texts = {"target"}
  Tabs = {"aiAnalysis", "strategies"}
  DefaultSymbol = "FPT"
  DefaultTimeframe = "1D"
  DefaultCount = 520
  DefaultTab = "aiAnalysis"
  DefaultNote = "target"
  DefaultWatchlist = {"FPT", "KDH"}
  DefaultLocale = "vi"
  Fixtures = {"FPT", "KDH"}
  Fallback = "FPT"
  Panels = {"strategies"}
  NullWhenEmpty = {"strategies"}
  MaxActions = 3
  None = None
  Corrupt = Corrupt
INVARIANT ShowsSelection
PROPERTIES
  SurvivesReload
  SpinnersEnd
\* The user stops after MaxActions actions.
CHECK_DEADLOCK FALSE
