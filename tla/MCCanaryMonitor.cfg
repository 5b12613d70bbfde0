SPECIFICATION FairSpec
CONSTANTS
  aws = aws
  chrome = chrome
  reader = reader
  Paths <- MCPaths
  Suspects <- MCSuspects
  NoPath = NoPath
  DebounceSeconds = 2
  StartTime = 2
  MaxElapsed = 3
  RelAtime = FALSE
  ClockSteps = {}
CHECK_DEADLOCK FALSE
INVARIANT TypeOK
PROPERTIES NoLostRead DropsOnlyDuplicates FeedSpec AccessAnswered
