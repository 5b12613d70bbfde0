SPECIFICATION Spec
CONSTANTS
  aws = aws
  chrome = chrome
  reader = reader
  Paths <- MCOnePath
  Suspects <- MCSuspects
  NoPath = NoPath
  DebounceSeconds = 2
  StartTime = 2
  MaxElapsed = 4
  RelAtime = FALSE
  ClockSteps = {"back"}
CHECK_DEADLOCK FALSE
PROPERTY DropsOnlyDuplicates
