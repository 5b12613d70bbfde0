SPECIFICATION RunFairSpec
CONSTANTS
  aws = aws
  me = me
  c1 = c1
  c2 = c2
  Paths <- MCPaths
  Systems = {"linux", "win32"}
  Pids = {1, 2, 3}
  Suspects = {1, 2, 3}
  Self = 3
  Shell = 9
  Owners <- MCOwners
  User = me
  MaxGen = 0
  Calls <- MCCalls
  NoCall = NoCall
  NoPath = NoPath
  RecentSeconds = 2
  DebounceSeconds = 1
  StartTime = 2
  MaxElapsed = 2
  RelAtime = FALSE
  ClockSteps = {}
CHECK_DEADLOCK FALSE
INVARIANTS RunTypeOK OneStopPerAccess StopsOnRecord
PROPERTIES HolderNotMissed DispatchRuns
