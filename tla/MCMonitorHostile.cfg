SPECIFICATION Spec
CONSTANTS
  aws = aws
  chrome = chrome
  reader = reader
  Paths <- MCOnePath
  Suspects <- MCSuspects
  NoPath = NoPath
  DebounceSeconds = 2
  StartTime = 2
  MaxElapsed = 3
  RelAtime = TRUE
  ClockSteps = {"back", "forward"}
CHECK_DEADLOCK FALSE
PROPERTY RateLimited
