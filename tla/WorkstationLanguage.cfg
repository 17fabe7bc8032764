SPECIFICATION Spec
CONSTANTS
  Symbols = {"FPT", "KDH", "SSI"}
  Timeframes = {"1D", "1W"}
  Counts = {520, 5000}
  Indicators = {"srLevels"}
  Texts = {"target", "edited"}
  Tabs = {"aiAnalysis", "strategies"}
  DefaultSymbol = "FPT"
  DefaultTimeframe = "1D"
  DefaultCount = 520
  DefaultTab = "aiAnalysis"
  DefaultNote = "target"
  DefaultWatchlist = {"FPT", "KDH"}
  DefaultLocale = "vi"
  Fixtures = {"FPT", "KDH"}
  Fallback = "FPT"
  Panels = {"strategies"}
  NullWhenEmpty = {"strategies"}
  MaxActions = 3
  None = None
  Corrupt = Corrupt
PROPERTY SettingsSurvive
CHECK_DEADLOCK FALSE
