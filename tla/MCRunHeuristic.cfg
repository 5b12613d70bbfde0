SPECIFICATION RunSpec
CONSTANTS
  aws = aws
  me = me
  c1 = c1
  c2 = c2
  Paths <- MCPaths
  Systems = {"linux"}
  Pids = {1, 2, 3}
  Suspects = {1, 2, 3}
  Self = 3
  Shell = 9
  Owners <- MCOwners
  User = me
  MaxGen = 0
  Calls <- MCCalls
  NoCall = NoCall
  NoPath = NoPath
  RecentSeconds = 5
  DebounceSeconds = 1
  StartTime = 2
  MaxElapsed = 2
  RelAtime = FALSE
  ClockSteps = {}
CHECK_DEADLOCK FALSE
INVARIANT OnlyReadersStopped
