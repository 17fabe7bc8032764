SPECIFICATION Spec
CONSTANTS
  Symbols = {"FPT", "KDH"}
  FilesOf <- MCFilesOf
  References = {"FPT"}
  ValidDates = {101, 102, 103}
  TerminalRun = 2
  NaN = NaN
  NoFile = NoFile
  NoBar = NoBar
INVARIANT ServedIsSound
PROPERTY RevisionsRecorded
